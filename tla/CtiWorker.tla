----------------------------- MODULE CtiWorker ------------------------------
(***************************************************************************)
(* The CTI worker (containers/cti/main.py): it consumes the alerts topic,  *)
(* writes a report for each alert - an AG2 chat with the LLM at most once  *)
(* per cooldown, else the offline template - publishes the enriched alert  *)
(* on the cti topic and saves the report in a file whose name is the       *)
(* alert's window and a per-run counter.  Saving first truncates the file:  *)
(* a worker that dies there leaves it torn.                                *)
(*                                                                         *)
(* An alert is its position in the alerts topic, and is known by its       *)
(* window.  The consumer is not live: a file consumer starts at the        *)
(* beginning of the topic, a Kafka one at its group's committed offset,    *)
(* which a poll moves to where the previous poll stood (auto-commit).  A   *)
(* Kafka send is buffered: the broker gets it later, or never.             *)
(***************************************************************************)
EXTENDS Integers, Sequences, FiniteSetsExt, SequencesExt

CONSTANTS
  Windows,     \* the windows alerts are of
  Transports,  \* values TRANSPORT may have
  Cooldown,    \* CTI_LLM_COOLDOWN_SECONDS, in ticks
  MaxAlerts,   \* bound: alerts published
  MaxTime,     \* bound: ticks of the clock
  MaxRestarts, \* bound: starts of the process after its first
  MaxGiveUps   \* bound: buffered messages the Kafka producer gives up

ASSUME TransportsAssumption == Transports \subseteq {"file", "kafka"}
ASSUME TimesAssumption == {Cooldown, MaxAlerts, MaxTime, MaxRestarts, MaxGiveUps} \subseteq Nat

VARIABLES
  transport,  \* TRANSPORT
  alerts,     \* the alerts topic: the window of each alert
  now,        \* time.time()
  committed,  \* the group's committed offset (Kafka)
  cti,        \* the cti topic: alerts published
  files,      \* the reports directory: file name -> alert, or Torn
  phase,      \* of the process: "down", "loop", "chat", "send", "write", "save"
  llm,        \* llm_available of this run
  cursor,     \* alerts the consumer is past
  batch,      \* alerts polled and not yet handled
  n,          \* reports of this run
  last_llm,   \* when the last chat of this run ended
  report,     \* the report being delivered: "llm" or "template"
  outbox,     \* cti messages the Kafka producer has buffered
  run,        \* history: number of this run
  chats,      \* history: [run, start, end, alert] of each AG2 chat
  opened,     \* history: [run, alert] of each report whose file was opened
  reported,   \* history: [run, alert] of each report saved
  given_up    \* history: alerts whose cti message was given up

worker == <<phase, llm, cursor, batch, n, last_llm, report, outbox, run>>
history == <<chats, opened, reported, given_up>>
vars == <<transport, alerts, now, committed, cti, files, worker, history>>

\* What a report file holds while it is written: nothing, or a part of the text
Torn == 0

\* last_llm = 0.0, when time.time() is far beyond any cooldown
Never == -Cooldown

Init ==
  /\ transport \in Transports
  /\ alerts = << >> /\ now = 0 /\ committed = 0
  /\ cti = << >> /\ files = [f \in {} |-> 0]
  /\ phase = "down" /\ llm = FALSE
  /\ cursor = 0 /\ batch = << >> /\ n = 0 /\ last_llm = Never
  /\ report = "template" /\ outbox = << >>
  /\ run = 0
  /\ chats = {} /\ opened = {} /\ reported = {} /\ given_up = {}

-----------------------------------------------------------------------------
(* Around the worker.                                                      *)

\* The defender publishes an alert.
PublishAlert(w) ==
  /\ Len(alerts) < MaxAlerts
  /\ alerts' = Append(alerts, w)
  /\ UNCHANGED <<transport, now, committed, cti, files, worker, history>>

Tick ==
  /\ now < MaxTime
  /\ now' = now + 1
  /\ UNCHANGED <<transport, alerts, committed, cti, files, worker, history>>

\* The broker gets the first buffered message.
Deliver ==
  /\ outbox # << >>
  /\ cti' = Append(cti, Head(outbox))
  /\ outbox' = Tail(outbox)
  /\ UNCHANGED <<transport, alerts, now, committed, files, phase, llm, cursor, batch, n,
                 last_llm, report, run, history>>

\* The Kafka client fails after its retries; nothing looks at the future that
\* send() returned.
GiveUp ==
  /\ outbox # << >>
  /\ Cardinality(given_up) < MaxGiveUps
  /\ given_up' = given_up \cup {Head(outbox)}
  /\ outbox' = Tail(outbox)
  /\ UNCHANGED <<transport, alerts, now, committed, cti, files, phase, llm, cursor, batch, n,
                 last_llm, report, run, chats, opened, reported>>

-----------------------------------------------------------------------------
(* The worker.                                                             *)

\* main() up to its loop
Start ==
  /\ phase = "down" /\ run <= MaxRestarts
  /\ run' = run + 1
  /\ phase' = "loop"
  /\ llm' \in BOOLEAN
  /\ cursor' = IF transport = "file" THEN 0 ELSE committed
  /\ batch' = << >> /\ n' = 0 /\ last_llm' = Never
  /\ outbox' = << >>
  /\ UNCHANGED <<transport, alerts, now, committed, cti, files, report, history>>

CommitFetched == {committed, Len(alerts)}

\* Auto-commit happens inside poll(), if its interval has passed: what it
\* commits is what earlier polls returned.
Commit == IF transport = "kafka" THEN {committed, cursor} ELSE {committed}

\* consumer.poll(ALERTS_TOPIC); Kafka may return part of what is there.
Poll ==
  /\ phase = "loop" /\ batch = << >>
  /\ \E pos \in IF transport = "file" THEN {Len(alerts)} ELSE cursor .. Len(alerts) :
       /\ batch' = [i \in 1 .. pos - cursor |-> cursor + i]
       /\ cursor' = pos
  /\ committed' \in Commit
  /\ UNCHANGED <<transport, alerts, now, cti, files, phase, llm, n, last_llm, report, outbox,
                 run, history>>

UseLlmAlways == llm
\* use_llm = llm_available and (time.time() - last_llm) >= llm_cooldown
UseLlm == llm /\ now - last_llm >= Cooldown

\* make_report() without the LLM
WriteTemplate ==
  /\ phase = "loop" /\ batch # << >> /\ ~UseLlm
  /\ report' = "template"
  /\ phase' = "send"
  /\ UNCHANGED <<transport, alerts, now, committed, cti, files, llm, cursor, batch, n, last_llm,
                 outbox, run, history>>

\* make_report() with the LLM: the chat goes on while the clock runs.
BeginChat ==
  /\ phase = "loop" /\ batch # << >> /\ UseLlm
  /\ phase' = "chat"
  /\ chats' = chats \cup {[run |-> run, start |-> now, end |-> MaxTime, alert |-> Head(batch)]}
  /\ UNCHANGED <<transport, alerts, now, committed, cti, files, llm, cursor, batch, n, last_llm,
                 report, outbox, run, opened, reported, given_up>>

\* generate_cti() returns a report, or None after any failure, and the worker
\* takes the template instead.
EndChat ==
  /\ phase = "chat"
  /\ report' \in {"llm", "template"}
  /\ last_llm' = now
  /\ chats' = {IF c.run = run /\ c.alert = Head(batch) THEN [c EXCEPT !.end = now] ELSE c :
                 c \in chats}
  /\ phase' = "send"
  /\ UNCHANGED <<transport, alerts, now, committed, cti, files, llm, cursor, batch, n, outbox,
                 run, opened, reported, given_up>>

\* producer.send(CTI_TOPIC, alert.to_dict())
SendCti ==
  /\ phase = "send"
  /\ IF transport = "file"
       THEN cti' = Append(cti, Head(batch)) /\ UNCHANGED outbox
       ELSE outbox' = Append(outbox, Head(batch)) /\ UNCHANGED cti
  /\ phase' = "write"
  /\ UNCHANGED <<transport, alerts, now, committed, files, llm, cursor, batch, n, last_llm,
                 report, run, history>>

FileNameUnnumbered(k) == [window |-> alerts[Head(batch)], n |-> 0]

\* reports_dir / f"{int(ts)}_{protocol}_{n}.md"
FileName(k) == [window |-> alerts[Head(batch)], n |-> k]

\* n += 1; path.write_text() opens the file, and so truncates it,
OpenReport ==
  /\ phase = "write"
  /\ n' = n + 1
  /\ files' = [f \in DOMAIN files \cup {FileName(n + 1)} |->
                 IF f = FileName(n + 1) THEN Torn ELSE files[f]]
  /\ opened' = opened \cup {[run |-> run, alert |-> Head(batch)]}
  /\ phase' = "save"
  /\ UNCHANGED <<transport, alerts, now, committed, cti, llm, cursor, batch, last_llm, report,
                 outbox, run, chats, reported, given_up>>

SaveReportEndingBatch ==
  /\ phase = "save"
  /\ files' = [files EXCEPT ![FileName(n)] = Head(batch)]
  /\ reported' = reported \cup {[run |-> run, alert |-> Head(batch)]}
  /\ batch' = << >>
  /\ phase' = "loop"
  /\ UNCHANGED <<transport, alerts, now, committed, cti, llm, cursor, n, last_llm, report, outbox,
                 run, chats, opened, given_up>>

\* and then writes and closes it.
SaveReport ==
  /\ phase = "save"
  /\ files' = [files EXCEPT ![FileName(n)] = Head(batch)]
  /\ reported' = reported \cup {[run |-> run, alert |-> Head(batch)]}
  /\ batch' = Tail(batch)
  /\ phase' = "loop"
  /\ UNCHANGED <<transport, alerts, now, committed, cti, llm, cursor, n, last_llm, report, outbox,
                 run, chats, opened, given_up>>

\* The process ends, anywhere, and with it all that it had in memory; what its
\* Kafka client had buffered is lost.
Die ==
  /\ phase # "down"
  /\ phase' = "down" /\ llm' = FALSE
  /\ cursor' = 0 /\ batch' = << >> /\ n' = 0 /\ last_llm' = Never
  /\ report' = "template" /\ outbox' = << >>
  /\ given_up' = given_up \cup ToSet(outbox)
  /\ UNCHANGED <<transport, alerts, now, committed, cti, files, run, chats, opened, reported>>

Next ==
  \/ \E w \in Windows : PublishAlert(w)
  \/ Tick \/ Deliver \/ GiveUp
  \/ Start \/ Poll \/ WriteTemplate \/ BeginChat \/ EndChat \/ SendCti
  \/ OpenReport \/ SaveReport \/ Die

\* The process takes its steps while it lives; a chat ends (it has at most
\* _MAX_ROUND turns, and any error ends it); Kafka gives up or delivers.
Fairness ==
  /\ WF_vars(Poll /\ batch' # batch)
  /\ WF_vars(WriteTemplate) /\ WF_vars(BeginChat) /\ WF_vars(EndChat)
  /\ WF_vars(SendCti) /\ WF_vars(OpenReport) /\ WF_vars(SaveReport)
  /\ WF_vars(Deliver)

Spec == Init /\ [][Next]_vars /\ Fairness

-----------------------------------------------------------------------------

Published == 1 .. Len(alerts)
Runs == 1 .. MaxRestarts + 1

\* The type of every variable.
TypeOK ==
  /\ transport \in Transports
  /\ alerts \in Seq(Windows) /\ now \in 0 .. MaxTime
  /\ committed \in 0 .. Len(alerts)
  /\ cti \in Seq(Published)
  /\ DOMAIN files \subseteq [window : Windows, n : 1 .. MaxAlerts]
  /\ files \in [DOMAIN files -> Published \cup {Torn}]
  /\ phase \in {"down", "loop", "chat", "send", "write", "save"}
  /\ llm \in BOOLEAN
  /\ cursor \in 0 .. Len(alerts) /\ batch \in Seq(Published)
  /\ n \in 0 .. MaxAlerts /\ last_llm \in {Never} \cup 0 .. MaxTime
  /\ report \in {"llm", "template"} /\ outbox \in Seq(Published)
  /\ run \in 0 .. MaxRestarts + 1
  /\ chats \subseteq [run : Runs, start : 0 .. MaxTime, end : 0 .. MaxTime, alert : Published]
  /\ opened \subseteq [run : Runs, alert : Published] /\ reported \subseteq opened
  /\ given_up \subseteq Published

\* A burst of alerts does not exhaust the quota: in a run of the worker, the
\* LLM is idle for the cooldown between the end of a chat and the next one.
Throttled ==
  \A c, d \in chats :
    c.run = d.run /\ c.alert < d.alert => d.start - c.end >= Cooldown

\* A crash skips no alert: one that the group has committed, and a restart
\* does not see again, has its report, and its cti message was sent.
CommittedIsReported ==
  \A a \in 1 .. committed :
    /\ \E r \in reported : r.alert = a
    /\ a \in ToSet(cti) \cup ToSet(outbox) \cup given_up

\* A saved report is lost only when a later run opens the file of its name.
\* Under Kafka that is for any alert of the same window.  A file consumer starts
\* over, so an alert gets the same number in every run, and the loss is that of a
\* run which died between truncating and writing the same report again (one that
\* got past it has written it); and a run dies once, so it tears one report.
ReportsKept ==
  /\ \A r \in reported :
       \/ \E f \in DOMAIN files : files[f] = r.alert
       \/ \E q \in opened :
            /\ q.run > r.run /\ alerts[q.alert] = alerts[r.alert]
            /\ transport = "file" => q.alert = r.alert /\ q \notin reported
  /\ \A p, q \in opened \ reported : p.run = q.run => p = q

\* Every alert gets its report, however the chats end, unless the worker dies.
EveryAlertIsReported ==
  \A a \in 1 .. MaxAlerts :
    (a <= Len(alerts)) ~> (phase = "down" \/ \E r \in reported : r.alert = a)
=============================================================================
