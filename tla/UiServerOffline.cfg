\* No Groq key.
CONSTANTS
  TRAFFIC_MAX = 2
  ALERTS_MAX = 2
  TRAFFIC_CAP = 2
  ALERTS_CAP = 2
  Pages = {p1}
  QUEUE_MAX = 5
  Keys = {FALSE}
  MaxEvents = 3
SPECIFICATION Spec
PROPERTY OfflineSummaryIsShown
