------------------------------ MODULE UiServer ------------------------------
(***************************************************************************)
(* The dashboard: its poller, its summarizer and its event streams         *)
(* (containers/ui/server.py), and the pages that show them                 *)
(* (static/app.js).  The server is one asyncio loop: what runs between two *)
(* awaits that suspend is one action.  _broadcast never suspends, so a     *)
(* tick of the poller is one action too; the summarizer gives way while it *)
(* waits for Groq, and a stream after everything it yields.                *)
(*                                                                         *)
(* The model card, the health file and the control API are in              *)
(* ControlPlane, and the "model" and "ops" events in no queue here.  A     *)
(* capture or a report stands for its position in its topic, both counted  *)
(* from the dashboard's start (it seeks to the end).                       *)
(***************************************************************************)
EXTENDS DashboardState, SequencesExt

CONSTANTS
  Pages,                    \* browser pages
  TRAFFIC_CAP, ALERTS_CAP,  \* rows a page keeps
  QUEUE_MAX,                \* asyncio.Queue(maxsize)
  Keys,                     \* is there a Groq key: the possible answers
  MaxEvents                 \* bound: rows, failed polls and Groq's answers

ASSUME CapsAssumption == {TRAFFIC_CAP, ALERTS_CAP} \subseteq Nat \ {0} /\ QUEUE_MAX \in Nat
ASSUME KeysAssumption == Keys \subseteq BOOLEAN

VARIABLES
  captures, reports,  \* how many the topics hold
  polled,      \* the consumer's positions: [captures, reports]
  dash,        \* _state
  detector,    \* _latest_detector: the alert it is of, 0 for none
  summary,     \* _latest_summary: [text, seen : the alerts its text knows, transient]
  key,         \* groq_available()
  summarizer,  \* "sleep", "due", "groq" while it waits for the answer
  prompted,    \* the alerts the prompt it sent knows
  stream,      \* of a page: "closed", what it yields next, then "live"
  queue,       \* of a page: its asyncio.Queue
  page,        \* what a page shows, Blank when it is not connected
  lost,        \* history: an event of this stream was dropped
  unsent,      \* history: rows were counted, and the tick ended before "stats"
  events       \* how many of those MaxEvents there were

topics == <<captures, reports>>
server == <<dash, detector, summary, key, prompted>>
streams == <<stream, queue, page, lost>>
vars == <<topics, polled, server, summarizer, streams, unsent, events>>

Stages == {"closed", "snapshot", "summary", "detector", "live"}

Waiting == [text |-> "waiting", seen |-> 0, transient |-> FALSE]
Blank == [feed |-> << >>, box |-> << >>, captures |-> 0, alerts |-> 0,
          summary |-> Waiting, detector |-> 0]

Init ==
  /\ captures = 0 /\ reports = 0
  /\ polled = [captures |-> 0, reports |-> 0]
  /\ dash = NewDashboard
  /\ detector = 0
  /\ summary = Waiting
  /\ key \in Keys
  /\ summarizer = "sleep" /\ prompted = 0
  /\ stream = [p \in Pages |-> "closed"]
  /\ queue = [p \in Pages |-> << >>]
  /\ page = [p \in Pages |-> Blank]
  /\ lost = [p \in Pages |-> FALSE]
  /\ unsent = FALSE /\ events = 0

-----------------------------------------------------------------------------
(* The topics.                                                             *)

Event == events < MaxEvents /\ events' = events + 1

SensorCaptures ==
  /\ Event
  /\ captures' = captures + 1
  /\ UNCHANGED <<reports, polled, server, summarizer, streams, unsent>>

CtiReports ==
  /\ Event
  /\ reports' = reports + 1
  /\ UNCHANGED <<captures, polled, server, summarizer, streams, unsent>>

-----------------------------------------------------------------------------
(* Events.                                                                 *)

Traffic(rows) == [type |-> "traffic", rows |-> rows]
Alerts(rows) == [type |-> "alerts", rows |-> rows]
Detector(alert) == [type |-> "detector", alert |-> alert]
Summary(s) == [type |-> "summary", summary |-> s]
Stats(d) == [type |-> "stats", captures |-> d.total_captures, alerts |-> d.total_alerts]

AllOf(q, sent) == sent

\* put_nowait() of each event into each subscribed queue: those that come when
\* it is full are dropped.
Room(q, sent) == SubSeq(sent, 1, IF Len(sent) + Len(q) > QUEUE_MAX
                                   THEN QUEUE_MAX - Len(q) ELSE Len(sent))

BroadcastToLive(sent) ==
  /\ queue' = [p \in Pages |-> IF stream[p] # "live" THEN queue[p]
                               ELSE queue[p] \o Room(queue[p], sent)]
  /\ lost' = [p \in Pages |-> \/ lost[p]
                              \/ stream[p] = "live" /\ Len(queue[p] \o sent) > QUEUE_MAX]
  /\ UNCHANGED <<stream, page>>

Broadcast(sent) ==
  /\ queue' = [p \in Pages |-> IF stream[p] = "closed" THEN queue[p]
                               ELSE queue[p] \o Room(queue[p], sent)]
  /\ lost' = [p \in Pages |-> \/ lost[p]
                              \/ stream[p] # "closed" /\ Len(queue[p] \o sent) > QUEUE_MAX]
  /\ UNCHANGED <<stream, page>>

-----------------------------------------------------------------------------
(* The poller.                                                             *)

NewRows(from, to) == [i \in 1 .. to - from |-> from + i]

NewCaptures == NewRows(polled.captures, captures)
NewReports == NewRows(polled.reports, reports)

WithCaptures == AddCapture(dash, NewCaptures)
WithReports == AddCti(WithCaptures, NewReports)

SomeIf(condition, sent) == IF condition THEN sent ELSE << >>

StatsBeforeReports ==
  /\ polled' = [captures |-> captures, reports |-> reports]
  /\ dash' = WithReports
  /\ detector' = IF NewReports # << >> THEN reports ELSE detector
  /\ unsent' = (unsent /\ NewCaptures \o NewReports = << >>)
  /\ Broadcast(SomeIf(NewCaptures # << >>, <<Traffic(NewCaptures)>>)
               \o SomeIf(NewCaptures \o NewReports # << >>, <<Stats(WithCaptures)>>)
               \o SomeIf(NewReports # << >>, <<Alerts(NewReports), Detector(reports)>>))
  /\ UNCHANGED <<topics, summary, key, prompted, summarizer, events>>

PollerTick ==
  /\ polled' = [captures |-> captures, reports |-> reports]
  /\ dash' = WithReports
  /\ detector' = IF NewReports # << >> THEN reports ELSE detector
  /\ unsent' = (unsent /\ NewCaptures \o NewReports = << >>)
  /\ Broadcast(SomeIf(NewCaptures # << >>, <<Traffic(NewCaptures)>>)
               \o SomeIf(NewReports # << >>, <<Alerts(NewReports), Detector(reports)>>)
               \o SomeIf(NewCaptures \o NewReports # << >>, <<Stats(dash')>>))
  /\ UNCHANGED <<topics, summary, key, prompted, summarizer, events>>

\* poll("capture") raises: the whole tick is skipped.
CapturePollFails ==
  /\ Event
  /\ UNCHANGED <<topics, polled, server, summarizer, streams, unsent>>

BatchIsSkipped ==
  /\ Event
  /\ polled' = [captures |-> captures, reports |-> reports]
  /\ dash' = WithCaptures
  /\ unsent' = (unsent \/ NewCaptures # << >>)
  /\ Broadcast(SomeIf(NewCaptures # << >>, <<Traffic(NewCaptures)>>))
  /\ UNCHANGED <<topics, detector, summary, key, prompted, summarizer>>

\* poll("cti") raises: the captures are added and sent, the rest is skipped.
CtiPollFails ==
  /\ Event
  /\ polled' = [polled EXCEPT !.captures = captures]
  /\ dash' = WithCaptures
  /\ unsent' = (unsent \/ NewCaptures # << >>)
  /\ Broadcast(SomeIf(NewCaptures # << >>, <<Traffic(NewCaptures)>>))
  /\ UNCHANGED <<topics, detector, summary, key, prompted, summarizer>>

-----------------------------------------------------------------------------
(* The summarizer.                                                         *)

SummarizerWakes ==
  /\ summarizer = "sleep"
  /\ summarizer' = "due"
  /\ UNCHANGED <<topics, polled, server, streams, unsent, events>>

\* build_summary_prompt(): the counters, and the last alerts they count
Prompt(d) == d.total_alerts

\* groq_complete() in a thread, with the prompt
AskGroq ==
  /\ summarizer = "due" /\ key
  /\ summarizer' = "groq"
  /\ prompted' = Prompt(dash)
  /\ UNCHANGED <<topics, polled, dash, detector, summary, key, streams, unsent, events>>

Answered ==
  /\ Event
  /\ summarizer = "groq" /\ summarizer' = "sleep"

GroqAnswers ==
  /\ Answered
  /\ summary' = [text |-> "groq", seen |-> prompted, transient |-> FALSE]
  /\ Broadcast(<<Summary(summary')>>)
  /\ UNCHANGED <<topics, polled, dash, detector, key, prompted, unsent>>

\* 429: the summary is kept, with a note.
GroqRefuses ==
  /\ Answered
  /\ summary' = [summary EXCEPT !.transient = TRUE]
  /\ Broadcast(<<Summary(summary')>>)
  /\ UNCHANGED <<topics, polled, dash, detector, key, prompted, unsent>>

Offline == [text |-> "offline", seen |-> dash.total_alerts, transient |-> FALSE]

OfflineOnEveryFailure ==
  /\ Answered
  /\ summary' = Offline
  /\ Broadcast(<<Summary(summary')>>)
  /\ UNCHANGED <<topics, polled, dash, detector, key, prompted, unsent>>

\* Any other failure, or an empty text: the first one replaces "Waiting ...".
GroqFails ==
  /\ Answered
  /\ summary' = IF summary.text = "waiting" THEN Offline
                ELSE [summary EXCEPT !.transient = FALSE]
  /\ Broadcast(<<Summary(summary')>>)
  /\ UNCHANGED <<topics, polled, dash, detector, key, prompted, unsent>>

\* With no key: _llm_state is a function, and the assignment to its item
\* raises before the summary is updated.
SummarizeOffline ==
  /\ summarizer = "due" /\ ~key
  /\ summarizer' = "sleep"
  /\ UNCHANGED <<topics, polled, server, streams, unsent, events>>

-----------------------------------------------------------------------------
(* A stream, and the page it is of.                                        *)

\* GET /events
Connect(p) ==
  /\ stream[p] = "closed"
  /\ stream' = [stream EXCEPT ![p] = "snapshot"]
  /\ UNCHANGED <<topics, polled, server, summarizer, queue, page, lost, unsent, events>>

\* snapshot(): the rows that are kept, and stats()
Snapshot(d) == [rows |-> d.traffic, alerts |-> d.alerts, stats |-> Stats(d)]

\* The page empties its lists and fills them from the snapshot.
SendSnapshot(p) ==
  /\ stream[p] = "snapshot"
  /\ stream' = [stream EXCEPT ![p] = "summary"]
  /\ LET s == Snapshot(dash)
     IN  page' = [page EXCEPT ![p].feed = Newest(s.rows, TRAFFIC_CAP),
                              ![p].box = Newest(s.alerts, ALERTS_CAP),
                              ![p].captures = s.stats.captures,
                              ![p].alerts = s.stats.alerts]
  /\ UNCHANGED <<topics, polled, server, summarizer,
                 queue, lost, unsent, events>>

\* The ops and model events that follow the summary are not modelled here.
SendSummary(p) ==
  /\ stream[p] = "summary"
  /\ stream' = [stream EXCEPT ![p] = "detector"]
  /\ page' = [page EXCEPT ![p].summary = summary]
  /\ UNCHANGED <<topics, polled, server, summarizer, queue, lost, unsent, events>>

SendDetector(p) ==
  /\ stream[p] = "detector"
  /\ stream' = [stream EXCEPT ![p] = "live"]
  /\ page' = IF detector # 0 THEN [page EXCEPT ![p].detector = detector] ELSE page
  /\ UNCHANGED <<topics, polled, server, summarizer, queue, lost, unsent, events>>

\* What a page does with an event
Shown(pg, e) ==
  CASE e.type = "traffic"  -> [pg EXCEPT !.feed = Newest(@ \o e.rows, TRAFFIC_CAP)]
    [] e.type = "alerts"   -> [pg EXCEPT !.box = Newest(@ \o e.rows, ALERTS_CAP)]
    [] e.type = "stats"    -> [pg EXCEPT !.captures = e.captures, !.alerts = e.alerts]
    [] e.type = "detector" -> [pg EXCEPT !.detector = e.alert]
    [] e.type = "summary"  -> [pg EXCEPT !.summary = e.summary]

SendEvent(p) ==
  /\ stream[p] = "live" /\ queue[p] # << >>
  /\ queue' = [queue EXCEPT ![p] = Tail(@)]
  /\ page' = [page EXCEPT ![p] = Shown(@, Head(queue[p]))]
  /\ UNCHANGED <<topics, polled, server, summarizer, stream, lost, unsent, events>>

\* The queue leaves _subscribers in the stream's finally.  The page keeps what
\* it shows until its next snapshot.
Disconnect(p) ==
  /\ stream[p] # "closed"
  /\ stream' = [stream EXCEPT ![p] = "closed"]
  /\ queue' = [queue EXCEPT ![p] = << >>]
  /\ page' = [page EXCEPT ![p] = Blank]
  /\ lost' = [lost EXCEPT ![p] = FALSE]
  /\ UNCHANGED <<topics, polled, server, summarizer, unsent, events>>

-----------------------------------------------------------------------------
Environment == SensorCaptures \/ CtiReports
Poller == PollerTick \/ CapturePollFails \/ CtiPollFails
Answer == GroqAnswers \/ GroqRefuses \/ GroqFails
Summarizer == SummarizerWakes \/ AskGroq \/ Answer \/ SummarizeOffline
Yield(p) == SendSnapshot(p) \/ SendSummary(p) \/ SendDetector(p) \/ SendEvent(p)

Next ==
  \/ Environment \/ Poller \/ Summarizer
  \/ \E p \in Pages : Connect(p) \/ Yield(p) \/ Disconnect(p)

\* The loop runs what is due, and the polls that fail are bounded: both loops
\* sleep and go on after an exception.
Fairness ==
  /\ WF_vars(PollerTick)
  /\ WF_vars(Summarizer)
  /\ \A p \in Pages : WF_vars(Yield(p))

Spec == Init /\ [][Next]_vars /\ Fairness

-----------------------------------------------------------------------------
\* Types, and the bounds of the buffers and of the queues.
TypeOK ==
  /\ polled \in [captures : 0 .. captures, reports : 0 .. reports]
  /\ dash.traffic \in Seq(Nat) /\ Len(dash.traffic) <= TRAFFIC_MAX
  /\ dash.alerts \in Seq(Nat) /\ Len(dash.alerts) <= ALERTS_MAX
  /\ detector \in 0 .. reports
  /\ summary.text \in {"waiting", "offline", "groq"} /\ summarizer \in {"sleep", "due", "groq"}
  /\ stream \in [Pages -> Stages]
  /\ \A p \in Pages : Len(queue[p]) <= QUEUE_MAX
  /\ \A p \in Pages : Len(page[p].feed) <= TRAFFIC_CAP /\ Len(page[p].box) <= ALERTS_CAP

Whole(p) == stream[p] = "live" /\ ~lost[p]

\* A page is due to show what event e brings: e is the last event of its type that
\* is queued for it, or there is none and showing e would change nothing.
ComesToShow(p, e) ==
  LET q == queue[p]
      LastOfItsType(i) == \A j \in i + 1 .. Len(q) : q[j].type # e.type
  IN  \/ \E i \in 1 .. Len(q) : q[i] = e /\ LastOfItsType(i)
      \/ LastOfItsType(0) /\ Shown(page[p], e) = page[p]

\* Whatever happens between its subscription, its snapshot and the events
\* queued meanwhile, a page whose stream dropped nothing is due to show the
\* totals, the summary and the detector state the server has (the totals as of
\* the last tick that reached "stats").
PagesConverge ==
  \A p \in Pages : Whole(p) =>
    /\ ~unsent => ComesToShow(p, Stats(dash))
    /\ ComesToShow(p, Summary(summary))
    /\ ComesToShow(p, Detector(detector))

\* Rows of the snapshot may come again, and no row is left out between two.
Unbroken(rows) == \A i \in 2 .. Len(rows) : rows[i] <= rows[i - 1] + 1

RunsUpTo(rows, newest) == newest > 0 => rows # << >> /\ Last(rows) = newest

\* Nor do the lists of such a page ever have a gap, and when it has received all
\* that was queued for it they run up to the newest row.
NoRowIsSkipped ==
  \A p \in Pages : Whole(p) =>
    /\ Unbroken(page[p].feed) /\ Unbroken(page[p].box)
    /\ queue[p] = << >> => /\ RunsUpTo(page[p].feed, dash.total_captures)
                          /\ RunsUpTo(page[p].box, dash.total_alerts)

\* A summary written by the LLM is not replaced by the template, nor by one
\* that knows fewer alerts.
SummaryNeverGoesBack ==
  [][summary.text = "groq" => summary'.text = "groq" /\ summary'.seen >= summary.seen]_summary

\* A page that stays connected and keeps up comes to count every report,
\* though polls fail.
EveryReportIsShown ==
  \A p \in Pages :
    page[p].alerts < reports ~> (lost[p] \/ stream[p] = "closed" \/ page[p].alerts = reports)

\* Without a key the dashboard shows the deterministic summary.
OfflineSummaryIsShown == ~key ~> summary.text = "offline"
=============================================================================
