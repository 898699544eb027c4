SPECIFICATION Spec
CONSTANTS
  Windows = {w1, w2}
  Transports = {"file", "kafka"}
  Cooldown = 2
  MaxAlerts = 2
  MaxTime = 3
  MaxRestarts = 1
  MaxGiveUps = 1
INVARIANTS
  Throttled
  CommittedIsReported
  ReportsKept
PROPERTY
  EveryAlertIsReported
CHECK_DEADLOCK FALSE
