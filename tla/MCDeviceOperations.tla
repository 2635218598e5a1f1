------------------------ MODULE MCDeviceOperations ------------------------
(* DeviceOperations with requests that are alike.                          *)
EXTENDS DeviceOperations, TLC

Alike == Permutations(Requests)
=============================================================================
