SPECIFICATION Spec
SYMMETRY Symmetry
CONSTANTS
  Dispatchers = {p1, p2}
  Operators = {op}
  Events = {e1}
  NoEvent = none
  Sinks = {"local"}
  Routed <- MCRoutedAll
  Configured <- MCSinks
  MaxAttempts = 2
  Limit = 50
  MaxRetries = 2
  MaxFaults = 1
INVARIANTS
  TypeOK
  RedeliveryOnlyOnRetry
  DispatchedWasDelivered
  ClaimsAreExclusive
  DeadLetterIsRecorded
PROPERTIES
  DispatchedIsFinal
