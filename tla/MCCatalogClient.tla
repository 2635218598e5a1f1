--------------------------- MODULE MCCatalogClient ---------------------------
(* Instances of CatalogClient: the second enrolment names an address at    *)
(* which nothing answers, the third one at which something else does.      *)
EXTENDS CatalogClient

MCAddress == [p \in Pairs |-> CASE p = 2 -> "wrong" [] p = 3 -> "other" [] OTHER -> "right"]
MCUnreachable == {"wrong"}
MCForeign == {"other"}

=============================================================================
