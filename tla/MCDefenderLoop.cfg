SPECIFICATION Spec
CONSTANTS
  Clients = {client}
  Servers = {server}
  Indices <- MCIndices
  Transports = {"file", "kafka"}
  SeekChoices = {TRUE, FALSE}
  MaxPackets = 2
  MaxRuns = 2
  MaxDeaths = 1
INVARIANTS
  NoPacketHandledTwice
  OneAlertPerClientWindow
  ShutdownDrains
  EveryPolledPacketIsSomewhere
PROPERTY
  TailIsHandled
CHECK_DEADLOCK FALSE
