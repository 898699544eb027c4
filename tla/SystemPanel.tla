---------------------------- MODULE SystemPanel -----------------------------
(***************************************************************************)
(* The System panel of a dashboard page: the ops-agent overwrites the      *)
(* health file in place (containers/ops/main.py), the dashboard's poller   *)
(* reads it at each tick (containers/ui/server.py, dashboard.py), and the  *)
(* page draws the containers and the buttons that restart them (static/    *)
(* app.js).  The page draws only on an event or after a click: what time   *)
(* changes shows with the next drawing.                                    *)
(***************************************************************************)
EXTENDS Integers, Sequences

CONSTANTS
  REPORTED,        \* containers in the health file
  RESTARTABLE,     \* those the page offers to restart
  RestartSeconds,  \* how long a click shows "restarting...": 12 of a restart,
  ApplySeconds,    \* 15 of an applied backend
  LastSecond, MaxClicks  \* bounds

VARIABLES
  now,             \* Date.now()
  status,          \* of each container, in Docker
  health,          \* the health file: [whole, rows]
  lastOps,         \* rows of the page's last event
  pendingRestart,  \* until when it shows each container as restarting
  shown,           \* the panel as it was drawn last
  clicks           \* history: [target, at] of the restarts asked for on this page

vars == <<now, status, health, lastOps, pendingRestart, shown, clicks>>

NoRows == << >>

\* the page opens before the ops-agent has written anything
Init ==
  /\ now = 0
  /\ status = [c \in REPORTED |-> "running"]
  /\ health = [whole |-> FALSE, rows |-> NoRows]
  /\ lastOps = NoRows /\ shown = NoRows
  /\ pendingRestart = [c \in REPORTED |-> 0]
  /\ clicks = << >>

SecondPasses ==
  /\ now < LastSecond
  /\ now' = now + 1
  /\ UNCHANGED <<status, health, lastOps, pendingRestart, shown, clicks>>

\* The container is restarted, by whomever, or ends and starts.
StatusChanges(c) ==
  /\ status' = [status EXCEPT ![c] = IF @ = "running" THEN "exited" ELSE "running"]
  /\ UNCHANGED <<now, health, lastOps, pendingRestart, shown, clicks>>

-----------------------------------------------------------------------------
(* The ops-agent and the poller. *)

\* health_path.write_text(json.dumps(collect_health(client))): the rows are
\* there before the file is truncated.
OpenHealth ==
  /\ health' = [whole |-> FALSE, rows |-> status]
  /\ UNCHANGED <<now, status, lastOps, pendingRestart, shown, clicks>>

WriteHealth ==
  /\ ~health.whole /\ health.rows # NoRows
  /\ health' = [health EXCEPT !.whole = TRUE]
  /\ UNCHANGED <<now, status, lastOps, pendingRestart, shown, clicks>>

\* _read_health(), build_ops_payload()
OpsRows == IF health.whole THEN health.rows ELSE NoRows

Pending(c, pending) == now < pending[c]

\* renderOps()
Drawn(rows, pending) ==
  [c \in DOMAIN rows |->
     [status  |-> IF Pending(c, pending) THEN "restarting" ELSE rows[c],
      enabled |-> c \in RESTARTABLE /\ ~Pending(c, pending)]]

\* The poller's "ops" event
OpsEvent ==
  /\ lastOps' = OpsRows
  /\ shown' = Drawn(OpsRows, pendingRestart)
  /\ UNCHANGED <<now, status, health, pendingRestart, clicks>>

-----------------------------------------------------------------------------
(* The page. *)

MarkWithoutDrawing(c, seconds) ==
  /\ pendingRestart' = [pendingRestart EXCEPT ![c] = now + seconds]
  /\ UNCHANGED shown

\* markRestarting(): "instant feedback before the next health tick"
MarkRestarting(c, seconds) ==
  /\ pendingRestart' = [pendingRestart EXCEPT ![c] = now + seconds]
  /\ shown' = Drawn(lastOps, pendingRestart')

ClickRestart(c) ==
  /\ c \in DOMAIN shown /\ shown[c].enabled
  /\ Len(clicks) < MaxClicks
  /\ clicks' = Append(clicks, [target |-> c, at |-> now])
  /\ MarkRestarting(c, RestartSeconds)
  /\ UNCHANGED <<now, status, health, lastOps>>

\* The model panel's button, which restarts the defender too
ClickApply ==
  /\ MarkRestarting("soc-defender", ApplySeconds)
  /\ UNCHANGED <<now, status, health, lastOps, clicks>>

\* A new page knows nothing of the clicks on the old one.
Reload ==
  /\ lastOps' = NoRows /\ shown' = NoRows
  /\ pendingRestart' = [c \in REPORTED |-> 0]
  /\ clicks' = << >>
  /\ UNCHANGED <<now, status, health>>

Next ==
  \/ SecondPasses
  \/ \E c \in RESTARTABLE : StatusChanges(c) \/ ClickRestart(c)
  \/ OpenHealth \/ WriteHealth \/ OpsEvent
  \/ ClickApply \/ Reload

Spec == Init /\ [][Next]_vars

-----------------------------------------------------------------------------
(* Properties. *)

\* An impatient click restarts nothing twice: a page asks for the next restart
\* of a container only when the time of the one before is over, though events
\* redraw the panel from health rows that are older than the click, or torn,
\* and an applied backend marks the same container.
OneRestartAtATime ==
  \A i, j \in DOMAIN clicks :
    i < j /\ clicks[i].target = clicks[j].target =>
      clicks[j].at - clicks[i].at >= RestartSeconds
=============================================================================
