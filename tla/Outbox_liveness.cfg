SPECIFICATION FairSpec
CONSTANTS
  Dispatchers = {p1}
  Operators = {}
  Events = {e1, e2}
  NoEvent = none
  Sinks = {"local", "nats"}
  Routed <- MCRoutedMixed
  Configured <- MCSinks
  MaxAttempts = 2
  Limit = 2
  MaxRetries = 0
  MaxFaults = 1
INVARIANTS
  OutboxStatusIsCurrent
PROPERTIES
  EveryDeliverySettles
