--------------------------- MODULE MCCreateProject ---------------------------
(* Two command lines with one target, one of which may have two faults.       *)
EXTENDS CreateProject

CONSTANTS p1, p2

Clis == {p1, p2}
FaultsOf == [p \in Clis |-> IF p = p1 THEN 2 ELSE 0]
=============================================================================
