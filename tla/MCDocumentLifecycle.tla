------------------------ MODULE MCDocumentLifecycle ------------------------
(* Instances of DocumentLifecycle for TLC. *)
EXTENDS DocumentLifecycle, TLC

\* One stage with two approvers, then one with a single approver.
MCRequired == [s \in 1..Stages |-> IF s = 1 THEN 2 ELSE 1]

\* A single approver per stage.
MCSingle == [s \in 1..Stages |-> 1]

\* The first version of the workflow wants another actor to approve.
MCStrict == {<<1, "approve">>}

MCSymmetry == Permutations(Requests) \cup Permutations(Users)
=============================================================================
