--------------------------- MODULE MCDocumentLinks ---------------------------
(* Instances of DocumentLinks for TLC. *)
EXTENDS DocumentLinks, TLC

\* A single approver per stage.
MCSingle == [s \in 1..Stages |-> 1]

MCSymmetry == Permutations(Users) \cup Permutations(Links) \cup Permutations(Linkers)
=============================================================================
