# Verification of the DNS detection pipeline

TLA+ models of the program under `src/project`, of the agent of lab 3 and of the
event pipeline of lab 5, the TLC runs that check them, and TLAPS proofs of all
safety properties that the passing runs check. Paths below are relative to `src/project` unless they
start with `src/`.

## 1. The system

Small processes (containers) on a message spine and a few shared files:

    sensor --capture--> defender --alerts--> cti --cti--> ui --SSE--> browsers
                           ^  |                            |
             detector_backend +--model_card.json--------->  |
                           |                               | requests.jsonl
                         ops <------------------------------+
                           +--- docker restart ---> defender, cti, ui, ...

| Component | State it keeps | Operations | What makes it correct |
|---|---|---|---|
| file queue, `shared/transport/file_queue.py` | one JSON-lines file per topic; a byte offset per consumer and topic | `send`, `poll` | each payload once, in order, to every consumer; a half-written line is neither lost nor repeated |
| Kafka, `shared/transport/kafka_queue.py` | lazily made clients; live (new group, latest) or not (stable group, earliest, auto-commit) | `send`, `poll` | the same promise, through restarts |
| sensor, `containers/collector/sensor.py` | a counter | one packet to one event, walking questions that scapy leaves as bytes | one `send` per DNS packet, never raises; a raw question is read as far as it is there |
| window aggregator, `containers/defender/features/windows.py` | `_buckets`, `_max_index`, `_closed_below` | `add`, `flush_all` | every packet counted once, one record per host and window, records in window order, only late packets dropped |
| defender, `containers/defender/main.py` | consumer, aggregator, sink, `_running`, idle clock | start, seek, poll and handle, idle flush, shutdown | no packet handled twice or lost between its steps; the last window is not forgotten; alerts name the attacker |
| features, detectors and enricher, `containers/defender/features/dns.py`, `detect`, `enrich` | trained models, the knowledge base | `extract`, `fit`, `score`, `save`, `load`, `candidate_techniques` | a query more hides nothing; an attack's own technique leads; the best epoch is kept; a cutoff admits the share it was asked for |
| training and evaluation, `eval` | qname cache, baseline CSV, model files, report | `build_cache`, `eval.train`, `eval.charae`, `run_eval` | the report scores the names that the detector's own script held out |
| CTI worker, `containers/cti/main.py` | offset, `n`, `last_llm`, report files | poll, chat or template, send, write | every alert reported; LLM throttled; reports kept |
| ops-agent, `containers/ops/main.py` | offset in the requests; `health.json`, `detector_backend` | health, restart, apply backend | every request acted on once; the applied backend ends up in use |
| dashboard server, `containers/ui/server.py` | `DashboardState`, card, summary, subscribers | poller, summarizer, API, SSE | browsers converge to the state; one bad input does not stop the rest |
| dashboard state, `containers/ui/dashboard.py` | ring buffers, counters, time buckets | `add_capture`, `add_cti`, `stats`, `snapshot` | views agree with the bounded history |
| LLM access, `shared/llm.py` | model selection, last usage sample | completions | never raises; every call has a model |
| traffic generator, `containers/attacker` | a stop event, its threads | benign loop, waves of bursts | it stops when told to |
| System panel, `containers/ops/main.py`, `static/app.js` | health rows, pending restarts | health report, buttons | one restart at a time |
| lab 3 agent, `src/lab3/app/agent/app.py` | tool inputs by call id | tool calls, event stream | a step shows the input of its output |
| lab 5 pipeline, `src/lab5/notebooks` | topic, group offset, results file | send, classify, auto-commit; the cell interrupted, killed and run again | the results hold each event once |
| labs 2 and 4 | none | a notebook, a chain of prompts | out of scope, see section 8 |

Hard behaviours: every process polls on its own and dies or restarts on its own
(the compose file has no restart policy; the operator and the ops-agent restart
containers); appends and overwrites of shared files are not atomic; offsets,
windows, throttles and counters live in memory and are forgotten by a restart;
packets come late or out of order; the end of traffic closes no window by
itself. `PROJECT.json` lists each hazard at the line where it bites.

## 2. Modules

| Module | Models | Correspondence |
|---|---|---|
| `WindowAggregator` | `features/windows.py` | `Add` is `add()` with the closing of windows it performs, `FlushAll` is `flush_all()`, `New` the constructor. `buckets`, `max_index`, `closed_below` are the code's fields; `arrived`, `records`, `flushed` are histories. |
| `Topic` | `transport/base.py` | the abstract promise of `Producer` and `Consumer`. |
| `FileQueue` | `transport/file_queue.py`, `collector/entrypoint.sh` | `Send` and `SendRest` are one `send()` seen half done, between an object and its newline too; `Poll` and `PollRaises` are `poll()`; `RemoveFile` is the `rm -f` of the entrypoint; `ConsumerRestart` a new object. |
| `DefenderLoop` | `defender/main.py` with both sinks, and how the two transports place a consumer | composes an instance `W` of `WindowAggregator`: `Start` performs `W!New`, `AddEvent` performs `W!Add`, `IdleFlush` and `Shutdown` perform `W!FlushAll`. A record goes through the sink by `HandleRecord`. |
| `CtiWorker` | `cti/main.py`, `make_report`, `generate_cti`, the buffered Kafka producer and committed offsets | one action per step at which the process can die: `Poll`, `WriteTemplate` or `BeginChat`/`EndChat`, `SendCti`, and `OpenReport` and `SaveReport` for `write_text`, which truncates the file and then writes it. |
| `ControlPlane` | `ops/main.py`, the control API, `resolve_backend`, `_load_detectors`, the model card and its reload in `ui/server.py` | in-place writes of the control file and of the card are two actions each, so that readers can come in between. |
| `DashboardState`, `UiServer` | `ui/dashboard.py`; the poller, summarizer and `/events` of `ui/server.py`; the lists and panels of `static/app.js` | the server is one asyncio loop: `PollerTick`, `CapturePollFails`, `CtiPollFails` are a whole tick, the summarizer is cut at its one await (`AskGroq`, then one action per outcome), a stream after every event it yields. `Shown` is the page's handler. |
| `DashboardChart` | the time buckets of `ui/dashboard.py` | `AddAlert` and `Stats` both roll the series up to `clock`; `ingested` is a history. |
| `Detection` | `features/dns.py`, `score` and `_attribution` of `detect/char_ae.py`, `enrich/mitre_map.py`, `DetectSink.handle`, the loud scenarios and `evaluate` of `eval` | a window grows by `Observe`, or is one of a scenario by `Replay`, and is decided by `Close`; `Verdict` is the chain from features to alert. The code's filtered lists are sets of positions of the window (`Queries`, `Named`, `Kept`), which keep the order and need no copy. |
| `Training` | `eval/train.py`, `eval/charae.py`, `eval/run_eval.py`, `eval/datasets/qname_cache.py`, the record mode and `_load_detectors` of the defender | a model is what was used to make it: names and their use (weights, early stop, thresholds), or rows of attack traffic. Each script is a list of fits to do; `OpenFile` and `CloseFile` are one `save()` seen half done. |
| `CharTraining` | `train_chars`, `fpr_threshold`, `window_threshold` | `Epoch` ends with any loss or NaN; `Restore` is the end of the loop; `Calibrate` computes either cutoff. |
| `LlmAccess` | `shared/llm.py`, `api_set_model`, `_llm_state` | both control files are truncated and then written; calls, chats and the panel read them in between. |
| `Sensor` | `parse_packet` and the raw walk of `collector/sensor.py`, `shared/dns.py` | names are sequences of labels of bytes; `Question` writes the wire format, `WalkFrom` reads it from the length of any label on, `Walk` from the first. |
| `Campaign` | `attacker/main.py`, `attacks/_campaign.py` and the three injectors | `pc` is where a thread is; each look at the stop event is a step. |
| `SystemPanel` | the health loop of `ops/main.py`, the ops event of `ui/server.py`, the container rows and buttons of `static/app.js` | time in ticks; `shown` is what a row shows and whether its button is enabled. |
| `ToolAgent` | `src/lab3/app/agent/app.py` | a turn starts calls with arguments; events of concurrent calls arrive in any order. |
| `LabStream` | `Producer.ipynb` and `Consumer_Classifier.ipynb` of `src/lab5` | an event is its position in the topic; `RunCell` executes the consumer's cell, which `FinishCell`, `InterruptCell` and `KernelDies` end. |
| `MCWindowAggregator`, `MCDefenderLoop` | | sets for TLC. |
| `MCParts` | | the chart and the nine modules from `Detection` to `LabStream` in one run. |
| `WindowAggregatorProofs`, `DefenderLoopProofs`, `FileQueueProofs`, `CtiWorkerProofs`, `ControlPlaneProofs`, `UiServerProofs`, `TrainingProofs` | | theorems about one module each, section 6. |
| `PartsProofs` | | theorems about nine of the ten parts that `MCParts` checks; `TrainingProofs` has the tenth. |

The modules from `Detection` to `LabStream`, and `DashboardChart`, share no
state with each other. `MCParts` checks them together: `MCInit` chooses a part,
and the behavior is one of that part's specification, the others at rest in
their initial states. Its states are the sum, not the product, of theirs. It
extends the parts that are proved about, or may be, so that a run and a theorem
speak of the same definition (their `Init` and `Next` carry a prefix), and
instantiates the others.

Data is abstracted to what the properties tell apart. A packet is its window
index and host (`WindowAggregator`), with one bit more in `DefenderLoop`:
whether a record that contains it scores as an anomaly. The score of a record
is the maximum over its query names, so this is a property of the packet;
clients only send queries and servers only responses, so the response fraction
of a record is 0 or 1. A line of a file is a run of units of which the last but one
closes the object and the last is the newline; a text parses when each of its
lines is blank or all units of one object, and the last may lack its newline. An
alert is its position in the topic and its window. A chat yields a report or nothing.

The operators that stand before a definition, named after it and a slip
(`IsLateNever`, `SeekNothing`, `CommitFetched`, ...), are variants of the code
with a plausible mistake. No specification uses them; each is the replacement
with which the property paired to it in `PROJECT.json` must fail.

## 3. Runs

| Run | Result | What it shows |
|---|---|---|
| `windows` | pass | Four packets, in every order, over window indices -1 to 3, two hosts (symmetric), flushes anywhere: nothing is counted twice, a host has one record per window, exactly the late packets are lost, records leave in window order. |
| `file_queue` | pass | Three payloads of one or two units and a newline, two consumers, one kill in the middle of a line or before its newline, one removal, one consumer restart: no repetition, no disorder; the queue refines `Topic` until the file is removed; every payload arrives unless a line stays torn or the file is removed. |
| `file_queue_removal` | violation | After the removal a consumer passes over the lines below its old offset. |
| `defender` | pass | Both transports, both values of SEEK_TO_END, two packets of two hosts and two windows, two runs of the process of which one can die: no packet handled twice when seeking, one alert per client window and none on the server, no packet lost inside a run, shutdown drains, the tail is handled. |
| `defender_kafka_backlog` | violation | Under Kafka the backlog is skipped with SEEK_TO_END=false too. |
| `cti` | pass | Both transports, two alerts of the same or different windows, two runs of the worker, each of which can die at any step (also between truncating a report and writing it), one message given up, four clock values with a cooldown of two. |
| `control_plane` | pass | Two requests, a failure (Docker, a write, or the end of the ops-agent), a foreign stop of the defender, any set of trained models. |
| `control_plane_card` | violation | A backend without a model is applied: the defender records, the card names the previous backend. |
| `dashboard` | pass | One page that connects and leaves at any time, four events in all (rows, failed polls, answers of Groq), buffers of two rows, a queue of five: a stream that dropped nothing leads the page to the server's state, with no gap in its lists; LLM summaries are not replaced by older ones; reports come to be counted on a page. |
| `dashboard_offline` | violation | Without a key the summary never leaves its first text. |
| `parts` | pass | The ten parts of `MCParts`, with the properties listed below. |
| `baseline_pollution` | violation | A defender without a model records attack windows, and the forest is then fit on them. |

The properties of `parts`:

| Part | Property | What it says |
|---|---|---|
| `DashboardChart` | `AlertsAreInTheirPeriod` | four alerts, three periods of two units: an alert is in the bar of its time, also after gaps longer than the chart |
| `Training` | `ReportReproducesSplit` | whatever scripts ran, were killed and repeated: the names the report scores neither trained nor stopped a model of `eval.charae`, and are those its thresholds were set from; a model of `eval.train` was trained on one of them at most, and stopped and calibrated on the others |
| `CharTraining` | `KeepsTheBestEpoch` | neither slow drift, nor NaN, nor the early stop loses the best weights |
| `CharTraining` | `CutoffAdmitsItsShare` | both cutoffs admit the share they were asked for, with names too few for it too |
| `Detection` | `MoreQueriesKeepTheAlert` | a query more takes no alert back: the limit on names, the dedupe, the response fraction and the maximum agree |
| `Detection` | `LoudAttackIsNamedFirst` | scales, caps and tokens of three files put each loud attack's technique first |
| `ToolAgent` | `StepShowsItsInput` | outputs meet the inputs of their own call, through concurrent calls and keys used again |
| `LlmAccess` | `NoCallWithoutAModel` | reading a truncated selection never leads to a call without a model, nor a torn sample to a bad bar |
| `Sensor` | `RawQuestionSurvives` | a question cut anywhere, with bytes that look like pointers or ends, is read as far as it is there |
| `Campaign` | `AtMostOneBurstAfterStop` | an injector begins one burst at most after the stop event |
| `LabStream` | `ResultsOnceAndWhole` | through interrupted, killed and repeated cells the results file holds no event twice and has no gap, and has what its run committed, unless the kernel dies |
| `SystemPanel` | `OneRestartAtATime` | stale or torn health rows and the other button do not enable a second restart early |

### Properties worth a note

* `LostExactlyIfLate` defines lateness from the arrival history alone (an equal
  or later window was closed, by a later packet or by a flush, before the
  packet came) and shows it equivalent to what `_closed_below` makes the code drop.
* `StragglerWindowIsOnePacket` states what the docstring "late/out-of-order
  packets within the current window are still counted" leaves open: a packet
  of an unseen older window closes that window alone.
* `ImplementsTopicUntilRemoved` is the refinement of `Topic` by `FileQueue`:
  `published` is the payloads whose objects are complete, `read` counts them
  below the offset. An object that was read without its newline is not read again:
  what comes next is blank, or, when the producer was killed there, the next
  line.
* `ReportsKept` says when a CTI report can be lost: only when a later run opens
  the file of its name. Under Kafka that run may be writing another alert of the
  same window. A file consumer starts over and numbers the alerts alike, so the run
  writes the same alert again, and the report is missing while the file is
  open, or until a run gets past it when that one died there; `reported` is what was
  written to the end. A run leaves one file open at most.
* `BrowsersCatchUp` covers two ways of losing a card: reading it between the
  truncation and the write, which may share an mtime, and a browser's
  `/events` having loaded it before the poller.
* `PagesConverge` looks at what a page is due to show: the last event of each
  type in its queue, or, without one, what it shows already (`ComesToShow`).
  `NoRowIsSkipped` says that its lists have no gap at any time, and end with the
  newest row when its queue is empty. Both rest on the subscription coming before the
  snapshot. They do not say that the page is right at once: rows of the snapshot
  can come a second time, and totals can go back for a moment, when a tick falls
  between the two. Both speak of streams that dropped nothing. A stream whose
  queue was full has gaps until it is opened again, and its totals wait for the
  next row, since a tick without rows sends no `stats`; the comment at
  `server.py:154` ("it catches up on the next tick") says less than that.
* `unsent` in `PagesConverge`: after a tick whose second poll failed, captures
  are counted and not sent as `stats` until another row comes.

* `ReportReproducesSplit` speaks of a report whose cache is the one the model was
  fit on. Nothing in the code checks that: `run_eval.py:159` splits the cache of
  now, whatever the model on disk was fit on. The one name of `eval.train` is
  what int(0.85 n) has over int(0.7 n) + int(0.15 n). It does not say that the scored
  names had no part in the model: `eval/charae.py:75-84` computes the thresholds
  that it saves from the scores of the held-out names.
* `CutoffAdmitsItsShare` allows one name (or window) more than the share, by
  which a share that is no whole number is rounded up. `window_threshold`
  draws its windows at random; the property is about the windows drawn.
* `LoudAttackIsNamedFirst` takes every number of queries, label length and
  entropy that `eval/scenarios.py` can draw for a loud attack (entropies: none,
  middle, highest), and scores above the threshold, as it asks about detected
  windows. The slow scenarios are not covered.
* `OneRestartAtATime` is about one page: two pages, or a reload, can ask twice.
* `KeepsTheBestEpoch` allows a loss of the one improvement too small to count.

### Bounds

Each bound is a constant named in its module. Two packets of the same window
and two of different ones, in either order, are enough for each pair property
of the aggregator; four add a straggler between two closings. Three units make
a line that can be read in the middle of its object and before its newline; three payloads let one precede and one follow
the torn line. Two runs of a process make every pair of steps
around a restart; more repeat it. The death of the second run of the CTI worker adds
the report that it had opened again. Two requests make a batch whose rest can be
dropped, and two successive applications.

`MaxEvents` of `UiServer` bounds rows, failures and answers together: four
give three rows past a limit of two with a failure, or two summaries of
different numbers of alerts. A queue of five holds one full tick and one summary,
so that a second tick overflows it.

In `parts`: corpora of 6 and 7 names, for which the two ways of cutting agree
and differ; four epochs, patience of two and four losses, so that a stop can come
before, at and after the last epoch, and losses can differ by the least
improvement and by more; up to four scores of three values and rates of 1, 25
and 60 percent, for which the share is less than one name, whole and broken;
two names kept of four, so that the limit bites, and four packets; two
concurrent calls in two turns; two models, and limits of which one is zero and
one less than what remains; labels with bytes that look like a zero end and like
a pointer, in names of one and two; three clicks in five ticks with pending
times of two and three; three events and three executions of the cell, so that
one can follow an interrupted one that follows another.

`TypeOK` of `Training` and `DashboardChart` is stated, and the run checks
properties that say more; those of `DefenderLoop`, `FileQueue`, `ControlPlane` and
`CtiWorker` are not checked by a run either, and are proved.

`CHECK_DEADLOCK FALSE` stands where the processes may be down for good once
the bound on their starts is reached (`DefenderLoop`, `CtiWorker`), as the
containers behave without a restart policy, and in `parts`, some of which come to
their end: a window is decided once, a stopped generator is over, the fit is
calibrated, and clock and alerts of the chart are bounded.

## 4. Fairness

Weak fairness is assumed only of a live process's own next step: its loop has
no blocking wait but sleeps, polls with a timeout and calls that end (an AG2 chat
has at most `_MAX_ROUND` turns and any exception ends it; Docker's restart has a
timeout). `IdleFlush` is fair because the monotonic clock passes
`idle_flush_s`. `Deliver` is fair because the Kafka client's sender thread runs
as long as the process. In `UiServer` the event loop runs whatever is due: the
poller and the summarizer sleep and go on after any exception, Groq's client
has a timeout, and a stream yields while its page reads. Starting a process, publishing packets, alerts and
requests, connecting a page, and every failure, have no fairness, and liveness
properties except the process being down, or the stream closed.

## 5. Where code and documents disagree

The five violation runs. Each is a sentence of the repository that the model
of the code does not satisfy; `PROJECT.json` quotes them with their lines.

1. A removed capture topic: offsets are kept, new lines are skipped.
2. `SEEK_TO_END=false` has no effect on a live Kafka consumer.
3. The "benign baseline" can hold attacks: a defender in detect mode that finds
   no model records whatever traffic there is.
4. `active_backend` on display can name a backend that does not score.
5. Without a Groq key the offline summary is never shown: `_llm_state`, a
   function, is assigned an item of at `server.py:213`, which raises.

Met while modelling, and too small for a run of their own:

* At most one LLM report per cooldown (`cti/main.py`) holds within a run;
  `last_llm` is forgotten by a restart.
* "Keys are chosen to overlap exactly one technique's KB indicators"
  (`char_ae.py:204-205`): `query_name_length` supports two of them, which both
  speak of a query. Loud attacks still get their own technique first.
* "Split by `src` file at train time" (`qname_cache.py:6`): the scripts split
  the shuffled names.
* "If the Consumer crashes mid-run, it resumes from its last committed offset and
  processes no event twice" (`src/lab5/REPORT.md`): the client commits every few
  seconds, and what came since is classified again. The results file has each
  event once because the new run truncates it, and with it the rows of events
  that the earlier run did commit.
* "reports held-out ROC-AUC / PR-AUC / recall@FPR" (`eval/charae.py:7-8`): the names are held
  out of the weights and the early stop, and are the ones the saved thresholds are set
  from, so a false positive rate at a saved threshold is one in sample.
* The usage status stays what it was when the key is removed.
* The detector panel speaks of "latest alert from the ACTIVE backend"
  (`app.js:162`); after a switch of backends it is still the one before, and a
  page that connects flashes for an alert that may be old.

## 6. Proofs

`WindowAggregatorProofs` proves, for every set of hosts, every set of integer
window indices and any number of packets, all properties of run `windows`:
`TypeCorrect`, `PacketsCountedOnce`, `HostsRecordedOnce`, `OneWindowOpen`,
`LossIsLateness`, `StragglersAreAlone` and the action property
`WindowsLeaveInOrder`.

The assumptions are those of the module: indices are integers, the bound is a
natural number. None of the properties is inductive alone. The invariant `IInv`
adds: open windows are not below the mark and not empty (`OpenIsLive`), records
are below the mark (`RecordsBelowMark`), the mark is just above some record
(`MarkIsARecord`), `max_index` is the newest accepted window
(`NewestIsAccepted`), a packet is emitted only because a later window was seen
or a flush followed (`EmittedForACause`), and a flush leaves nothing held
(`HeldSinceFlush`). Because only the newest window is open, `add()` has three
effects: a straggler closes its own window, a packet of the current window
closes nothing, a newer packet closes the one open window. Lemmas
`StragglerEffect`, `CurrentEffect` and `NewerEffect` reduce the code's loop to
these, `FlushEffect` does so for `flush_all()`, and one preservation lemma per
case gives `NextKeepsIInv`. `FateIsSettled` shows that whether a packet is late
is decided when it arrives.

`CtiWorkerProofs` proves `TypeCorrect`, `ThrottleHolds`,
`CommittedAlertsAreReported` and `ReportsAreKept` for both transports, any
number of alerts, runs, deaths and given-up messages and any cooldown, from the
module's assumptions on its constants. The key of `IInv` is that the alerts a run
has handled are a prefix of the topic: the position polled to, less the batch in
hand (`Positions`), that each of them has its report and message
(`HandledAreDone`), as has each that is committed. `ChatsInOrder` says that the
chats of a run are with alerts it has handled or has at hand, and ended before
`last_llm`, so that the check of the clock spaces the next one from all of them.
`FilesInv` says that a file, unless torn, is of the window in its name, and that every
report of this run is in the file with its number: the counter `n` never falls within a
run, so only a later run can open it again, and under the file transport `n` is the
alert's position, so that run writes the same alert. `TornInv` says that the only
report of this run that is open and not written is the one at hand, and that its file is
torn; `ReportsKept` is a conjunct of `IInv`, for the reports of earlier runs.

`TrainingProofs` proves `SplitIsReproduced` for corpora of any size above zero
(assumption `Sizes` of the theorem). Its invariant says
that a model on disk or in a script is one of the two fits of some corpus;
lemmas `CharaeReproduces` and `TrainReproduces` do the arithmetic of the cuts.

`DefenderLoopProofs` proves `NothingHandledTwice`, `OneBurstOneAlert`,
`NothingIsDropped` and `DrainIsComplete`, for both transports and any traffic,
runs and deaths. It instantiates `WindowAggregatorProofs` for the aggregator
inside the process: each operation of the process is an operation of the
instance or leaves it alone, so `Agg!IInv` is a conjunct of its own invariant
(the events of the loop satisfy what the aggregator's module assumes). To it come: the
batch is the topic from what the aggregator has to the cursor (`InOrder`); a run
that has not sought has read nothing (`SeeksFirst`); the tail is flushed before
the drain (`FlushedBeforeDrain`); what was handled are records, but those still to do
(`HandledAreRecords`); and what earlier runs handled lies before the cursor of
a run that sought (`PastRunsAreBehind`). A packet handled twice would be in two
records of one run, against `CountedOnce`, or in records of two runs, against
the last. The proof found a step of the model that the code does not have: a
dead process could hand on its records. `HandleRecord` now needs a live one.

`FileQueueProofs` proves `PayloadsReturnedOnceInOrder`, and the refinement
`FileQueueIsATopic`, for any consumers, lengths of lines and numbers of payloads,
kills, removals and restarts. The invariant says that units of the file are of
payloads sent, whose objects are closed in their order (`FileInv`); that the rest of a
line being written, unless it is only the newline, is of a payload newer than any closed
object and than anything returned (`PendingInv`); and that what a consumer has yet to read is newer than
what it has, and, without a removal, that its offset is in the file
(`ConsumerInv`). A removal leaves the offset in other lines, which a poll
can only read forward, so order is kept where the promise of `Topic` is lost.
The refinement needs what `PayloadsOf`, a recursive function, gives for two texts
one after the other (`PayloadsOfBoth`) and for a piece of a line (`BeginFacts`,
`RestFacts`): a write publishes when it closes the object, and a
poll returns what follows the payloads below the offset (`PollIsPoll`).

`ControlPlaneProofs` proves `RequestsActedOnOnce`, `AppliedBackendIsUsed` and
`ScorerHasItsCard` for any backends, requests, failures and stops. `BatchIsNext`
puts the requests acted on before the batch and the batch before the offset, with the one in
hand as the last of the former and the head of the latter. `SelectionInForce` follows the last applied
request through its write, the stop and the start: from the write on the control file has
its backend, and from the start on so does a defender that has resolved, whoever
started it. `CardNamesScorer` carries the backend to the card.

`UiServerProofs` proves `PagesCatchUp`, `RowsArriveInOrder`, `SummaryOnlyAdvances`
(an action property) and `TypeCorrect`, for any number of pages and events and any
limits above zero, those of page and server in any relation that the modules
assume. `Types` completes `TypeOK`. `StreamInv` speaks of each open stream that
dropped nothing, from the subscription on: the rows of each event in
its queue continue those of the event before (`Chained`), the first of them leave no gap
after what the page has, or will have from its snapshot (`Begins`), and the
last statistics, summary and detector state in the queue are the server's, or, without any,
those of the page (`Comes`). With the subscription after the snapshot
neither would hold at first.

`TrainingProofs` and `PartsProofs` speak of definitions that `MCParts` extends or
instantiates. `PartsProofs` proves:

* `StreamResults`: rows are the events from the offset at which the cell began,
  and no more is committed than is written;
* `BestEpochIsKept`: no loss is better than that of the epoch kept by more than
  one improvement that does not count (`FitInv`), for losses that are natural
  numbers or NaN;
* `CutoffsAdmit`: the scores above a cutoff come after its place in their order,
  so there are no more of them than places (`AboveComeAfter`), for any scores;
  a cutoff speaks of the scores of its own step, so no invariant is needed;
* `ChartCountsRight`: rolling by any number of periods shifts every bar to the
  same period, and the last bar is the one of the clock;
* `PanelRestartsOnce`: a container shows as restarting at least until the time of
  the last click on it is over (`PanelInv`);
* `AgentShowsInputs`: for each event queued that ends a call, the dictionary will
  hold that call's input when the event is handled (`WillHold`), since calls
  that run together have different keys;
* `QueriesKeepAlerts` and `LoudAttackLeads`, about detection, and
  `RawQuestionsSurvive`, about the sensor, both below;
* `BurstsStop`: a thread whose burst began after the stop event is in that burst
  or at a place from which only the event leads on;
* `CallsHaveAModel`: the control file is absent, empty or names a model that was
  offered, and a sample's percentage is one, when the limits of the headers are
  natural numbers.

Detection. `QueriesKeepAlerts` and `LoudAttackLeads` hold for any names, scores,
threshold and entropies, given `DetectionAssumption`: scores are integers, the limit
keeps a name, no label has more than six bits per character, and what stands for
no name is none. A query appended keeps every position that was kept, since the names
unique up to it are the same as before (`OneQueryMore`), so neither
does the highest loss fall nor the share of responses rise. The greatest of a set of integers that
is finite and not empty exists, which is what `Worst` needs: the loss of the new worst name
is the greatest of a larger set. For the loud attacks the window is one of the
scenario's until it is decided (`LoudInv`), `EncodedFeatures` and
`EncodedWorst` say what the features of such a window are, of any number of queries,
`EncodedSupport` what the three techniques then get out of scales, caps and
tokens, `LoudSupport` compares them for each class, and `BestIsFirst` says
that the technique with most support is the one of rank zero.

Sensor. `RawQuestionsSurvive` holds for any labels of 1 to 63 bytes, any number of them
in a name, any types of two bytes and a cut at any byte (`LabelsAssumption`); `NoneAssumption`
says that None is neither a name nor an event. `WireLayout` says where in the wire format each
label of a name lies, `WalkExists` that the recursive definition of the walk
has a function, since a label leads to a later position, and `ReadsTheName`, from
the last label back to the first, that a walk over bytes that agree with the
name as far as they are there reads each label whole, but the last cut off. What
bytes inside labels look like plays no part, because the walk only
looks at the positions where lengths are. `DecodedWhen` adds the type, and `CutSurvives` and
`CompressedSurvives` are the two ways in which a question is left as bytes.

Induction. The library's rules for it take an operator, which no installed prover
can instantiate. A set can be given to them: lemma `LeastOf` (`FileQueueProofs`) takes from
the well-foundedness of the natural numbers that every set of them with an element has a least
one, and a fact about all numbers is proved by looking at the least that it
fails for. So `PayloadsExist` shows that there is a function that the
recursive definition of `PayloadsUpTo` describes, and `PayloadsFacts`,
`PayloadsOfBoth` what it computes. `WalkExists`, and `FlatExists` for the fold
that joins labels, go the same way. The modules proved about use recursive functions
or sets, and no RECURSIVE operator.

Only model-checked:

* all liveness properties (`EveryPayloadArrives`, `TailIsHandled`,
  `EveryAlertIsReported`, `EveryRequestIsActedOn`, `BrowsersCatchUp`,
  `EveryReportIsShown`): fairness and ENABLED are out of the prover's reach.

The violation runs show that a property does not hold, and leave nothing to prove.

## 7. What is left

1. The typing of `Training` and `DashboardChart` as theorems.
2. Commitments that more than one component makes together, such as the chain from a
   packet of the topic to an alert of the file queue: `DefenderLoop` has the topic
   as a sequence, and could be composed with `FileQueue` through `Topic`.
3. The slow scenarios of `eval/scenarios.py`, whose windows have only a few of the
   attack's queries (one to five), and the columns that only the numeric backends read.

## 8. Not modelled

The network and the forest (real arithmetic; their scores are values of a
small set here), the windows on which `run_eval` fits and scores a forest of its
own, the columns of `features/dns.py` that only numeric backends
read, the Morpheus backend (trained and run on another machine), metrics, plots
and the stress table of `eval`, prompt and template text, packet dissection by
scapy, the Kafka broker (rebalances), the counters by protocol and technique of
the dashboard, the drawing of the detector model on a page, the socket loop of
the stub collector, lab 2 (a notebook of numeric exercises), lab 4 (a chain of
prompts without state), and of lab 5 the table of techniques, the spans and the
statistics notebook. Malformed events and alerts, which the
loops skip, do not occur: both topics are written by the program's own
serializers. An exception of a sink or a write that ends a process is a `Die`.

Hazards left without a property: the window open at a restart is split between
two runs, which the code promises nothing about (`main.py:294`); an exception of
the sink drops the rest of a batch of records (`main.py:301`), which in the
model is a death; a send retried after a lost acknowledgement duplicates a
message (`kafka_queue.py:38`); a subscriber queue is registered before its
generator first runs, and stays if it never does (`server.py:301`).
