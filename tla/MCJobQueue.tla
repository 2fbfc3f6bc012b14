----------------------------- MODULE MCJobQueue -----------------------------
(***************************************************************************)
(* Model checking of JobQueue: symmetry of the workers and of the clients, *)
(* sound for the safety runs (nothing orders either set).                  *)
(***************************************************************************)
EXTENDS JobQueue, TLC

Symmetry == Permutations(Workers) \cup Permutations(Clients)

=============================================================================
