---------------------------- MODULE ControlPlane ----------------------------
(***************************************************************************)
(* The control plane: the dashboard's API (containers/ui/server.py) posts  *)
(* requests to restart a container or to apply a detector backend; the     *)
(* ops-agent (containers/ops/main.py) carries them out, writing the        *)
(* selection to the control file and restarting the defender; the starting *)
(* defender (containers/defender/main.py) resolves its backend from that   *)
(* file, loads the model, and publishes a model card; the dashboard        *)
(* reloads the card when its mtime changes and sends it to the browsers.   *)
(*                                                                         *)
(* These files are overwritten in place (write_text truncates, then        *)
(* writes), so another process can read them truncated: "torn".  The       *)
(* requests file is a file-queue topic (FileQueue), here a sequence.       *)
(***************************************************************************)
EXTENDS Integers, Sequences, SequencesExt

CONSTANTS
  Backends,    \* CONTROL_BACKENDS = APPLY_BACKENDS
  EnvBackends, \* values DETECTOR_BACKEND may have
  Others,      \* the restartable containers other than the defender
  MaxRequests, \* bound: requests posted
  MaxFailures, \* bound: Docker errors, failed card writes, ends of the ops-agent
  MaxStops     \* bound: stops of the defender other than the ops-agent's

ASSUME NamesAssumption ==
  {"none", "torn"} \cap (Backends \cup EnvBackends) = {} /\ "soc-defender" \notin Others
ASSUME BoundsAssumption == {MaxRequests, MaxFailures, MaxStops} \subseteq Nat

VARIABLES
  env_backend,  \* DETECTOR_BACKEND of the defender
  models,    \* the backends it can detect with: a trained model is on disk, and
             \* DEFENDER_MODE is "detect"
  requests,  \* control/requests.jsonl
  selected,  \* control/detector_backend: "none", "torn" or a backend
  ops,       \* the ops-agent: "down", "loop", and inside a request "write", "stop", "start"
  offset,    \* its offset in the requests
  batch,     \* requests polled and not yet handled
  defender,  \* the defender: "down", "resolve", "load", "card", "write", "up"
  backend,   \* the backend it resolved
  scoring,   \* the backend of the detector it scores with, "none" in record mode
  card,      \* model_card.json: [active : "none", "torn" or a backend, mtime]
  loaded,    \* the dashboard's _model_card, with its mtime
  last_card_mtime,  \* of the card its poller broadcast last
  shown,     \* the active backend in the connected browsers
  executed,  \* history: requests acted on, in order
  discarded, \* history: requests passed over
  failures, stops  \* bounded counters

config == <<env_backend, models>>
opsagent == <<ops, offset, batch, executed, discarded>>
scorer == <<defender, backend, scoring>>
dashboard == <<loaded, last_card_mtime, shown>>
vars == <<config, requests, selected, opsagent, scorer, card, dashboard, failures, stops>>

Labels == Backends \cup EnvBackends

Request == [action : {"restart"}, target : Others \cup {"soc-defender"}]
      \cup [action : {"apply_backend"}, target : {"soc-defender"}, backend : Backends]

Init ==
  /\ env_backend \in EnvBackends
  /\ models \in SUBSET Labels
  /\ requests = << >> /\ selected = "none"
  /\ ops = "down" /\ offset = 0 /\ batch = << >>
  /\ defender = "down" /\ backend = "none" /\ scoring = "none"
  /\ card = [active |-> "none", mtime |-> 0]
  /\ loaded = [active |-> "none", mtime |-> 0] /\ last_card_mtime = 0 /\ shown = "none"
  /\ executed = << >> /\ discarded = {}
  /\ failures = 0 /\ stops = 0

-----------------------------------------------------------------------------
(* The ops-agent.                                                          *)

\* POST /api/restart and /api/backend, of a known target and backend
PostRequest(req) ==
  /\ Len(requests) < MaxRequests
  /\ requests' = Append(requests, req)
  /\ UNCHANGED <<config, selected, opsagent, scorer, card, dashboard, failures, stops>>

OpsStartWithBacklog ==
  /\ ops = "down"
  /\ ops' = "loop"
  /\ offset' = 0
  /\ UNCHANGED <<config, requests, selected, batch, executed, discarded, scorer, card,
                 dashboard, failures, stops>>

\* Requests of before the start are ignored.
OpsStart ==
  /\ ops = "down"
  /\ ops' = "loop"
  /\ offset' = Len(requests)
  /\ discarded' = discarded \cup ((1 .. Len(requests)) \ ToSet(executed))
  /\ UNCHANGED <<config, requests, selected, batch, executed, scorer, card, dashboard,
                 failures, stops>>

OpsPollLastOnly ==
  /\ ops = "loop" /\ batch = << >> /\ offset < Len(requests)
  /\ batch' = <<Len(requests)>>
  /\ offset' = Len(requests)
  /\ UNCHANGED <<config, requests, selected, ops, executed, discarded, scorer, card, dashboard,
                 failures, stops>>

\* requests.poll("requests")
OpsPoll ==
  /\ ops = "loop" /\ batch = << >> /\ offset < Len(requests)
  /\ batch' = [i \in 1 .. Len(requests) - offset |-> offset + i]
  /\ offset' = Len(requests)
  /\ UNCHANGED <<config, requests, selected, ops, executed, discarded, scorer, card, dashboard,
                 failures, stops>>

Current == requests[Head(batch)]

\* handle_request(): an apply_backend begins with the control file.
HandleRequest ==
  /\ ops = "loop" /\ batch # << >>
  /\ executed' = Append(executed, Head(batch))
  /\ IF Current.action = "apply_backend"
       THEN ops' = "write" /\ selected' = "torn"
       ELSE ops' = "stop" /\ UNCHANGED selected
  /\ UNCHANGED <<config, requests, offset, batch, discarded, scorer, card, dashboard, failures,
                 stops>>

WriteSelectionOnly ==
  /\ ops = "write"
  /\ selected' = Current.backend
  /\ ops' = "loop" /\ batch' = Tail(batch)
  /\ UNCHANGED <<config, requests, offset, executed, discarded, scorer, card, dashboard,
                 failures, stops>>

WriteSelection ==
  /\ ops = "write"
  /\ selected' = Current.backend
  /\ ops' = "stop"
  /\ UNCHANGED <<config, requests, offset, batch, executed, discarded, scorer, card, dashboard,
                 failures, stops>>

\* containers.get(target).restart(): Docker stops the container ...
StopTarget ==
  /\ ops = "stop"
  /\ defender' = IF Current.target = "soc-defender" THEN "down" ELSE defender
  /\ ops' = "start"
  /\ UNCHANGED <<config, requests, selected, offset, batch, executed, discarded, backend,
                 scoring, card, dashboard, failures, stops>>

\* ... and starts it.
StartTarget ==
  /\ ops = "start"
  /\ defender' = IF Current.target = "soc-defender" THEN "resolve" ELSE defender
  /\ ops' = "loop" /\ batch' = Tail(batch)
  /\ UNCHANGED <<config, requests, selected, offset, executed, discarded, backend, scoring,
                 card, dashboard, failures, stops>>

\* An APIError is logged; the request is over.
DockerError ==
  /\ ops \in {"stop", "start"} /\ failures < MaxFailures
  /\ failures' = failures + 1
  /\ ops' = "loop" /\ batch' = Tail(batch)
  /\ UNCHANGED <<config, requests, selected, offset, executed, discarded, scorer, card,
                 dashboard, stops>>

\* Any other exception leaves the for loop, and the rest of the batch behind:
\* the offset is past it.
OpsError ==
  /\ ops \in {"write", "stop", "start"} /\ failures < MaxFailures
  /\ failures' = failures + 1
  /\ ops' = "loop" /\ batch' = << >>
  /\ discarded' = discarded \cup ToSet(Tail(batch))
  /\ UNCHANGED <<config, requests, selected, offset, executed, scorer, card, dashboard, stops>>

OpsDie ==
  /\ ops # "down" /\ failures < MaxFailures
  /\ failures' = failures + 1
  /\ ops' = "down" /\ batch' = << >>
  /\ UNCHANGED <<config, requests, selected, offset, executed, discarded, scorer, card,
                 dashboard, stops>>

-----------------------------------------------------------------------------
(* The defender, from its start to its loop.                               *)

\* It is started, or it stops, by other hands than the ops-agent's.
DefenderStart ==
  /\ defender = "down"
  /\ ops # "start"
  /\ defender' = "resolve"
  /\ UNCHANGED <<config, requests, selected, opsagent, backend, scoring, card, dashboard,
                 failures, stops>>

DefenderStop ==
  /\ defender # "down" /\ stops < MaxStops
  /\ stops' = stops + 1
  /\ defender' = "down"
  /\ UNCHANGED <<config, requests, selected, opsagent, backend, scoring, card, dashboard,
                 failures>>

\* resolve_backend(): a valid selection, else the environment's
Resolved == IF selected \in Backends THEN selected ELSE env_backend

Resolve ==
  /\ defender = "resolve"
  /\ backend' = Resolved
  /\ defender' = "load"
  /\ UNCHANGED <<config, requests, selected, opsagent, scoring, card, dashboard, failures,
                 stops>>

\* _load_detectors(): without a model the defender falls back to record mode,
\* and writes no card.
Load ==
  /\ defender = "load"
  /\ IF backend \in models
       THEN scoring' = backend /\ defender' = "card"
       ELSE scoring' = "none" /\ defender' = "up"
  /\ UNCHANGED <<config, requests, selected, opsagent, backend, card, dashboard, failures,
                 stops>>

TruncateCard ==
  /\ defender = "card"
  /\ card' = [active |-> "torn", mtime |-> card.mtime + 1]
  /\ defender' = "write"
  /\ UNCHANGED <<config, requests, selected, opsagent, backend, scoring, dashboard, failures,
                 stops>>

WriteEnvCard ==
  /\ defender = "write"
  /\ \E t \in {card.mtime, card.mtime + 1} : card' = [active |-> env_backend, mtime |-> t]
  /\ defender' = "up"
  /\ UNCHANGED <<config, requests, selected, opsagent, backend, scoring, dashboard, failures,
                 stops>>

\* The card is written, within the clock tick of its truncation or later.
WriteCard ==
  /\ defender = "write"
  /\ \E t \in {card.mtime, card.mtime + 1} : card' = [active |-> backend, mtime |-> t]
  /\ defender' = "up"
  /\ UNCHANGED <<config, requests, selected, opsagent, backend, scoring, dashboard, failures,
                 stops>>

\* An OSError is logged, and the defender goes on.
CardError ==
  /\ defender \in {"card", "write"} /\ failures < MaxFailures
  /\ failures' = failures + 1
  /\ defender' = "up"
  /\ UNCHANGED <<config, requests, selected, opsagent, backend, scoring, card, dashboard,
                 stops>>

-----------------------------------------------------------------------------
(* The dashboard.                                                          *)

\* _load_model_card(): a changed card is read; one that does not parse is not
\* remembered.
CardSeen == IF card.mtime = loaded.mtime \/ card.active = "torn" THEN loaded ELSE card

\* A browser connects: GET /events loads the card, for this browser only.
BrowserConnects ==
  /\ loaded' = CardSeen
  /\ UNCHANGED <<config, requests, selected, opsagent, scorer, card, last_card_mtime, shown,
                 failures, stops>>

PollerTickIfReloaded ==
  /\ loaded' = CardSeen
  /\ IF CardSeen # loaded
       THEN shown' = CardSeen.active /\ last_card_mtime' = CardSeen.mtime
       ELSE UNCHANGED <<shown, last_card_mtime>>
  /\ UNCHANGED <<config, requests, selected, opsagent, scorer, card, failures, stops>>

\* The poller broadcasts a card it has not broadcast, whoever loaded it.
PollerTick ==
  /\ loaded' = CardSeen
  /\ IF CardSeen.active # "none" /\ CardSeen.mtime # last_card_mtime
       THEN shown' = CardSeen.active /\ last_card_mtime' = CardSeen.mtime
       ELSE UNCHANGED <<shown, last_card_mtime>>
  /\ UNCHANGED <<config, requests, selected, opsagent, scorer, card, failures, stops>>

Next ==
  \/ \E req \in Request : PostRequest(req)
  \/ OpsStart \/ OpsPoll \/ HandleRequest \/ WriteSelection \/ StopTarget \/ StartTarget
  \/ DockerError \/ OpsError \/ OpsDie
  \/ DefenderStart \/ DefenderStop \/ Resolve \/ Load \/ TruncateCard \/ WriteCard \/ CardError
  \/ BrowserConnects \/ PollerTick

\* The three processes take their own steps as long as they live, and Docker
\* answers.
Fairness ==
  /\ WF_vars(OpsPoll) /\ WF_vars(HandleRequest) /\ WF_vars(WriteSelection)
  /\ WF_vars(StopTarget) /\ WF_vars(StartTarget)
  /\ WF_vars(Resolve) /\ WF_vars(Load) /\ WF_vars(TruncateCard) /\ WF_vars(WriteCard)
  /\ WF_vars(PollerTick)

Spec == Init /\ [][Next]_vars /\ Fairness

-----------------------------------------------------------------------------

\* The type of every variable.
TypeOK ==
  /\ env_backend \in EnvBackends /\ models \subseteq Labels
  /\ requests \in Seq(Request)
  /\ selected \in Backends \cup {"none", "torn"}
  /\ ops \in {"down", "loop", "write", "stop", "start"}
  /\ offset \in 0 .. Len(requests) /\ batch \in Seq(1 .. Len(requests))
  /\ defender \in {"down", "resolve", "load", "card", "write", "up"}
  /\ backend \in Labels \cup {"none"} /\ scoring \in Labels \cup {"none"}
  /\ card \in [active : Labels \cup {"none", "torn"}, mtime : Nat]
  /\ loaded \in [active : Labels \cup {"none"}, mtime : Nat]
  /\ last_card_mtime \in Nat /\ shown \in Labels \cup {"none"}
  /\ executed \in Seq(1 .. Len(requests)) /\ discarded \subseteq 1 .. Len(requests)
  /\ failures \in 0 .. MaxFailures /\ stops \in 0 .. MaxStops

\* A control request restarts a container once, however often the ops-agent
\* itself restarts or fails: no request is acted on twice, or after a later one.
ActedOnOnceInOrder ==
  \A i, j \in DOMAIN executed : i < j => executed[i] < executed[j]

\* Between two requests, a running defender has the backend of the last request
\* to apply one, unless Docker or the ops-agent failed: whoever starts it, and
\* whenever, it does not keep one it resolved before, or in the middle of, the
\* write of the selection.
AppliedIsInUse ==
  \A i \in DOMAIN executed :
    /\ ops = "loop" /\ failures = 0 /\ defender \notin {"down", "resolve"}
    /\ requests[executed[i]].action = "apply_backend"
    /\ \A j \in i + 1 .. Len(executed) : requests[executed[j]].action # "apply_backend"
    => backend = requests[executed[i]].backend

\* A defender that scores has published the card that names its backend,
\* unless it could not write it.
DetectorHasItsCard ==
  defender = "up" /\ scoring # "none" /\ failures = 0 => card.active = scoring

\* What main.py says of the card: the active backend is the one actually
\* scoring.
ActiveIsScoring ==
  defender = "up" /\ card.active \in Labels => card.active = scoring

\* Every request is acted on, or passed over by a start or a failure of the
\* ops-agent, unless the ops-agent is down.
EveryRequestIsActedOn ==
  \A i \in 1 .. MaxRequests :
    (i <= Len(requests)) ~> (ops = "down" \/ i \in ToSet(executed) \cup discarded)

\* The connected browsers show the card the defender wrote, whoever makes the
\* dashboard load it first, and though it is read in the middle of a write.
BrowsersCatchUp ==
  \A b \in Labels : (card.active = b) ~> (shown = b \/ card.active # b)
=============================================================================
