--------------------------- MODULE DashboardChart ---------------------------
(***************************************************************************)
(* The alerts-over-time chart of the dashboard (containers/ui/             *)
(* dashboard.py): a series of BUCKETS periods that is rolled up to now     *)
(* only when an alert is added or the statistics are asked for, by the     *)
(* poller, a new stream or the summarizer.                                 *)
(***************************************************************************)
EXTENDS Integers, Sequences, FiniteSets

CONSTANTS
  BUCKETS, BUCKET_SECONDS,
  MaxClock, MaxAlerts  \* bounds

ASSUME ChartAssumption ==
  BUCKETS \in Nat \ {0} /\ BUCKET_SECONDS \in Nat \ {0} /\ MaxClock \in Nat /\ MaxAlerts \in Nat

VARIABLES
  clock,             \* time.monotonic(), in whole units
  alert_buckets,     \* the last one is the newest
  cur_bucket_start,  \* when the last one begins
  ingested           \* history: when each alert was added

vars == <<clock, alert_buckets, cur_bucket_start, ingested>>

\* A dashboard may start at any time.
Init ==
  /\ clock \in 0 .. BUCKET_SECONDS
  /\ cur_bucket_start = clock
  /\ alert_buckets = [i \in 1 .. BUCKETS |-> 0]
  /\ ingested = << >>

TimePasses ==
  /\ clock < MaxClock
  /\ clock' = clock + 1
  /\ UNCHANGED <<alert_buckets, cur_bucket_start, ingested>>

\* deque(maxlen = BUCKETS) after n more zeros
Shifted(buckets, n) ==
  [i \in 1 .. BUCKETS |-> IF i + n <= BUCKETS THEN buckets[i + n] ELSE 0]

steps == (clock - cur_bucket_start) \div BUCKET_SECONDS

Min2(a, b) == IF a < b THEN a ELSE b

RolledByOne == Shifted(alert_buckets, Min2(steps, 1))

\* _roll_buckets()
Rolled == Shifted(alert_buckets, Min2(steps, BUCKETS))
NewStart == cur_bucket_start + steps * BUCKET_SECONDS

\* add_cti()
AddAlert ==
  /\ Len(ingested) < MaxAlerts
  /\ alert_buckets' = [Rolled EXCEPT ![BUCKETS] = @ + 1]
  /\ cur_bucket_start' = NewStart
  /\ ingested' = Append(ingested, clock)
  /\ UNCHANGED clock

\* stats()
Stats ==
  /\ alert_buckets' = Rolled
  /\ cur_bucket_start' = NewStart
  /\ UNCHANGED <<clock, ingested>>

Next == TimePasses \/ AddAlert \/ Stats

Spec == Init /\ [][Next]_vars

-----------------------------------------------------------------------------
\* Types: the series keeps its length.
TypeOK ==
  /\ clock \in Nat /\ cur_bucket_start \in Nat
  /\ alert_buckets \in [1 .. BUCKETS -> Nat]
  /\ ingested \in Seq(Nat)

\* The chart counts right however late and unevenly it is rolled: the bucket k
\* places before the last one holds the alerts added in the period that began
\* k * BUCKET_SECONDS before cur_bucket_start, each alert in one bucket until
\* it leaves the chart.
AlertsAreInTheirPeriod ==
  \A k \in 0 .. BUCKETS - 1 :
    LET begin == cur_bucket_start - k * BUCKET_SECONDS
    IN  alert_buckets[BUCKETS - k]
          = Cardinality({i \in DOMAIN ingested :
                           begin <= ingested[i] /\ ingested[i] < begin + BUCKET_SECONDS})
=============================================================================
