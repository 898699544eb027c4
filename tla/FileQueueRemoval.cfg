SPECIFICATION Spec
CONSTANTS
  Consumers = {defender, ui}
  MaxLineSize = 3
  MaxSends = 4
  MaxCrashes = 0
  MaxRemovals = 1
  MaxRestarts = 0
INVARIANT
  ReadMeansReturned
