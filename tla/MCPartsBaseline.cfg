\* Until a model is fit on attack windows.
CONSTANTS
  BUCKETS = 3
  BUCKET_SECONDS = 2
  MaxClock = 12
  MaxAlerts = 4
  Corpora <- MCCorpora
  MinRows = 2
  MaxRows = 2
  NoFile = NoFile
  Torn = Torn
  Epochs = 4
  Patience = 2
  Losses = {0, 1, 2, 3}
  Scores = {1, 2, 3}
  MaxNames = 4
  Percents = {1, 25, 60}
  NaN = NaN
  Names <- MCNames
  QNAMES_MAX = 2
  Threshold = 2
  Entropies = {0, 25, 50}
  NoName = NoName
  MaxEvents = 4
  Arguments <- MCArguments
  Ids = {"call_1", "call_2"}
  MaxTurns = 2
  Models = {"model_1", "model_2"}
  Default = "env_model"
  Limits = {0, 8, 10}
  None = None
  Labels <- MCLabels
  MaxLabels = 2
  QTypes = {1, 16, 256}
  REPORTED = {"soc-defender", "soc-kafka"}
  RESTARTABLE = {"soc-defender"}
  RestartSeconds = 2
  ApplySeconds = 3
  LastSecond = 5
  MaxClicks = 3
  NUM_EVENTS = 3
  MaxCells = 3
SPECIFICATION MCSpec
CHECK_DEADLOCK FALSE
INVARIANT TrainedOnBenignOnly
