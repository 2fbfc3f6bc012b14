--------------------------- MODULE MCLeaveBalance ---------------------------
(* Instances of LeaveBalance for TLC. *)
EXTENDS LeaveBalance, TLC

MCRequired   == [s \in 1..Stages |-> 2]
MCCandidates == [s \in 1..Stages |-> Users]

\* What the first year carries forward expires before the leaves, what the
\* second one does may be used for them.
MCRunMode   == [g \in Runs |-> IF g = "month" THEN "monthly_accrual" ELSE "annual_grant"]
MCRunDate   == [g \in Runs |-> 1]
MCRunExpiry == [g \in Runs |-> IF g = "first" THEN 2 ELSE 3]

MCSymmetry == Permutations(Handlers) \cup Permutations(Requests) \cup Permutations(Users)
=============================================================================
