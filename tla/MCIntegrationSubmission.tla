---------------------- MODULE MCIntegrationSubmission -----------------------
(* IntegrationSubmission with interchangeable threads. *)
EXTENDS IntegrationSubmission, TLC

Symmetry == Permutations(Threads)
=============================================================================
