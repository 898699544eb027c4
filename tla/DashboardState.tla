--------------------------- MODULE DashboardState ---------------------------
(***************************************************************************)
(* The bounded state of the dashboard (containers/ui/dashboard.py): its    *)
(* ring buffers and totals.  A row stands for its position in its topic;   *)
(* the counters by protocol and technique are left out, and the time       *)
(* buckets, which nothing else reads, are in DashboardChart.               *)
(***************************************************************************)
EXTENDS Integers, Sequences

CONSTANTS TRAFFIC_MAX, ALERTS_MAX  \* deque(maxlen)

ASSUME BuffersAssumption == {TRAFFIC_MAX, ALERTS_MAX} \subseteq Nat \ {0}

\* A deque(maxlen = n) extended up to s; also a page that removes its oldest rows
Newest(s, n) == SubSeq(s, IF Len(s) > n THEN Len(s) - n + 1 ELSE 1, Len(s))

NewDashboard ==
  [traffic |-> << >>, alerts |-> << >>, total_captures |-> 0, total_alerts |-> 0]

AddCapture(d, rows) ==
  [d EXCEPT !.traffic = Newest(@ \o rows, TRAFFIC_MAX), !.total_captures = @ + Len(rows)]

\* add_cti() of each alert in turn
AddCti(d, alerts) ==
  [d EXCEPT !.alerts = Newest(@ \o alerts, ALERTS_MAX), !.total_alerts = @ + Len(alerts)]
=============================================================================
