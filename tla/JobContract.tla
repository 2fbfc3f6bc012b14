---------------------------- MODULE JobContract -----------------------------
(***************************************************************************)
(* What the job queue of internal/platform/jobs promises to the code that  *)
(* enqueues jobs, without workers, leases, heartbeats and statements.      *)
(*                                                                         *)
(* A job is accepted once per dedup key and never vanishes.  It is open    *)
(* until it succeeds or is given up; while it is open it may be tried any  *)
(* number of times, also several times at once.  A success was returned by *)
(* a handler, and a job is given up only after MaxAttempts tries or when   *)
(* nobody handles it.  Nothing is settled for good: an operator, or the    *)
(* late failure of an overtaken try, may open a job again.                 *)
(*                                                                         *)
(* JobQueue implements this contract (Contract there), and                 *)
(* IntegrationSubmission relies on it.                                     *)
(***************************************************************************)
EXTENDS Integers

CONSTANTS
  Jobs,
  Names,       \* job names
  Registered,  \* the names for which a handler is registered
  Keys,        \* non-empty dedup keys
  NoKey,
  MaxAttempts

VARIABLES
  phase,   \* "absent", "open", "succeeded" or "dead_letter"
  tries,   \* how often a job was claimed
  name,
  key,
  handled  \* jobs of which some handler call returned nil

vars == <<phase, tries, name, key, handled>>

Init ==
  /\ phase = [j \in Jobs |-> "absent"] /\ tries = [j \in Jobs |-> 0]
  /\ name \in [Jobs -> Names] /\ key = [j \in Jobs |-> NoKey]
  /\ handled = {}

Accepted(j) == phase[j] # "absent"

\* EnqueueUnique: the key is not taken, not even by a job that is settled.
Accept(j, n, k) ==
  /\ ~Accepted(j)
  /\ k # NoKey => \A i \in Jobs : Accepted(i) => key[i] # k
  /\ phase' = [phase EXCEPT ![j] = "open"] /\ tries' = [tries EXCEPT ![j] = 0]
  /\ name' = [name EXCEPT ![j] = n] /\ key' = [key EXCEPT ![j] = k]
  /\ UNCHANGED handled

\* A worker claims the jobs of S.
Try(S) ==
  /\ \A j \in S : phase[j] = "open"
  /\ tries' = [j \in Jobs |-> IF j \in S THEN tries[j] + 1 ELSE tries[j]]
  /\ UNCHANGED <<phase, name, key, handled>>

\* A handler returns nil.
Return(j) ==
  /\ Accepted(j)
  /\ handled' = handled \cup {j}
  /\ UNCHANGED <<phase, tries, name, key>>

Settle(j, p) ==
  /\ Accepted(j)
  /\ phase' = [phase EXCEPT ![j] = p]
  /\ UNCHANGED <<tries, name, key, handled>>

Succeed(j) == j \in handled /\ Settle(j, "succeeded")

GiveUp(j) ==
  /\ tries[j] >= MaxAttempts \/ name[j] \notin Registered
  /\ Settle(j, "dead_letter")

\* A failed try is followed by another one, or an operator requeues the job.
Again(j) == Settle(j, "open")

Next ==
  \/ \E j \in Jobs :
       \/ \E n \in Names, k \in Keys \cup {NoKey} : Accept(j, n, k)
       \/ Return(j) \/ Succeed(j) \/ GiveUp(j) \/ Again(j)
  \/ \E S \in SUBSET Jobs : Try(S)

Spec == Init /\ [][Next]_vars
=============================================================================
