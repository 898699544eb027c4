\* One page; buffers of 2 rows, so that a third row is past the limit, and a
\* queue that holds a tick with rows and one more event, so that it fills.
CONSTANTS
  TRAFFIC_MAX = 2
  ALERTS_MAX = 2
  TRAFFIC_CAP = 2
  ALERTS_CAP = 2
  Pages = {p1}
  QUEUE_MAX = 5
  Keys = {TRUE, FALSE}
  MaxEvents = 4
SPECIFICATION Spec
INVARIANT TypeOK
INVARIANT PagesConverge
INVARIANT NoRowIsSkipped
PROPERTY SummaryNeverGoesBack
PROPERTY EveryReportIsShown
