SPECIFICATION Spec
CONSTANTS
  Clients = {client}
  Servers = {server}
  Indices <- MCIndices
  Transports = {"kafka"}
  SeekChoices = {FALSE}
  MaxPackets = 2
  MaxRuns = 1
  MaxDeaths = 0
INVARIANT
  BacklogIsProcessed
CHECK_DEADLOCK FALSE
