SPECIFICATION Spec
CONSTANTS
  Backends = {"charae", "isolation_forest"}
  EnvBackends = {"charae"}
  Others = {"soc-cti"}
  MaxRequests = 1
  MaxFailures = 0
  MaxStops = 0
INVARIANT
  ActiveIsScoring
