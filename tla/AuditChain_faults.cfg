SPECIFICATION Spec
CONSTANTS
  Writers = {w1, w2}
  Bodies = {b1, b2}
  Faults = {"refused", "cut", "crash"}
  MaxSeq = 3
SYMMETRY Symmetry
INVARIANTS
  TypeOK
  HonestLogVerifies
  LossShows
  DamageShows
