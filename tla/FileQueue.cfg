SPECIFICATION Spec
CONSTANTS
  Consumers = {defender, ui}
  MaxLineSize = 3
  MaxSends = 3
  MaxCrashes = 1
  MaxRemovals = 1
  MaxRestarts = 1
INVARIANTS
  ReturnedOnceInOrder
PROPERTIES
  ImplementsTopicUntilRemoved
  EveryPayloadArrives

