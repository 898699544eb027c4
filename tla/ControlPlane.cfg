SPECIFICATION Spec
CONSTANTS
  Backends = {"charae", "isolation_forest"}
  EnvBackends = {"charae"}
  Others = {"soc-cti"}
  MaxRequests = 2
  MaxFailures = 1
  MaxStops = 1
INVARIANTS
  ActedOnOnceInOrder
  AppliedIsInUse
  DetectorHasItsCard
PROPERTIES
  EveryRequestIsActedOn
  BrowsersCatchUp
