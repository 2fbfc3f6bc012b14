------------------------------ MODULE MCOutbox ------------------------------
(***************************************************************************)
(* Model checking of Outbox: every instance has all the sinks.             *)
(***************************************************************************)
EXTENDS Outbox, TLC

MCRoutedAll == [e \in Events |-> Sinks]

\* One event goes to every sink, the others to the handlers of the instance.
MCRoutedMixed ==
  [e \in Events |-> IF e = CHOOSE f \in Events : TRUE THEN Sinks ELSE {"local"}]

MCSinks == [p \in Dispatchers |-> Sinks]

Symmetry == Permutations(Dispatchers) \cup Permutations(Events)

=============================================================================
