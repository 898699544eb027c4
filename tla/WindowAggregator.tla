-------------------------- MODULE WindowAggregator --------------------------
(***************************************************************************)
(* The tumbling-window aggregator of the defender                          *)
(* (containers/defender/features/windows.py).  Captured packets are held   *)
(* in one bucket per window index; a bucket is emitted, as one feature     *)
(* record per source host, when a packet of a strictly later window comes  *)
(* in, or when flush_all() force-closes the tail.                          *)
(*                                                                         *)
(* A packet is known by its arrival number.  Of its contents the           *)
(* aggregator tells apart the window index, int(ts // window_s), and the   *)
(* source host; the protocol of every captured packet is "dns", so the     *)
(* grouping key (proto, src) is the host, and the feature vector that      *)
(* dns.extract() computes from a group is left as the set of its packets.  *)
(***************************************************************************)
EXTENDS Integers, Sequences, FiniteSetsExt

CONSTANTS
  Src,          \* the source hosts seen on the tapped network
  Packet,       \* the packets: records with a window index and a src, and perhaps more
  MaxArrivals   \* bound: packets handed to add()

ASSUME PacketAssumption      == \A e \in Packet : e.index \in Int /\ e.src \in Src
ASSUME MaxArrivalsAssumption == MaxArrivals \in Nat

VARIABLES
  buckets,       \* _buckets: open window index -> its packets (arrival numbers)
  max_index,     \* _max_index: the newest window seen
  closed_below,  \* _closed_below: windows below it have been emitted
  arrived,       \* history: every packet handed to add(), in order
  records,       \* history: every FeatureRecord returned
  flushed        \* history: Len(arrived) at each flush_all()

vars == <<buckets, max_index, closed_below, arrived, records, flushed>>

(* Beside a definition, and before it, stand the plausible slips in the     *)
(* same code that the properties below must tell from it (named for the    *)
(* slip: the late check dropped, the bucket not popped, and so on).        *)

FreshClosedBelowLikeMaxIndex == -1
FreshClosedBelow == 0

Init ==
  /\ buckets = [i \in {} |-> {}]
  /\ max_index = -1
  /\ closed_below = FreshClosedBelow
  /\ arrived = << >>
  /\ records = {}
  /\ flushed = {}

-----------------------------------------------------------------------------
(* The pieces of add() and _emit().                                        *)

\* self._buckets[idx].append(event), on a defaultdict(list)
Put(held, i, p) ==
  [j \in DOMAIN held \cup {i} |->
     (IF j \in DOMAIN held THEN held[j] ELSE {}) \cup (IF j = i THEN {p} ELSE {})]

\* The one record of window i per host active in it.
RecordsOf(held, log, i) ==
  { [window |-> i, src |-> s, events |-> {p \in held[i] : log[p].src = s}] :
      s \in {log[p].src : p \in held[i]} }

\* self._closed_below = max(self._closed_below, index + 1)
ClosedAfterOffByOne(closing) == Max({closed_below} \cup closing)
ClosedAfter(closing) == Max({closed_below} \cup {i + 1 : i \in closing})

EmitKeepingBucket(held, log, closing) ==
  /\ buckets' = held
  /\ closed_below' = ClosedAfter(closing)
  /\ records' = records \cup UNION {RecordsOf(held, log, i) : i \in closing}

\* _emit() of every window of `closing`, which the callers go through in
\* increasing order.
Emit(held, log, closing) ==
  /\ buckets' = [i \in DOMAIN held \ closing |-> held[i]]
  /\ closed_below' = ClosedAfter(closing)
  /\ records' = records \cup UNION {RecordsOf(held, log, i) : i \in closing}

-----------------------------------------------------------------------------
(* The operations.                                                         *)

IsLateNever(e) == FALSE
IsLateBehindNewest(e) == e.index < max_index
IsLate(e) == e.index < closed_below

\* self._max_index = max(self._max_index, idx)
NewestIsLast(e) == e.index
Newest(e) == IF e.index > max_index THEN e.index ELSE max_index

\* add(event)
Add(e) ==
  LET p    == Len(arrived) + 1
      log  == Append(arrived, e)
      held == Put(buckets, e.index, p)
  IN  /\ Len(arrived) < MaxArrivals
      /\ arrived' = log
      /\ UNCHANGED flushed
      /\ IF IsLate(e)
           THEN UNCHANGED <<buckets, max_index, closed_below, records>>
           ELSE /\ max_index' = Newest(e)
                /\ Emit(held, log, {i \in DOMAIN held : i < Newest(e)})

FlushAllForgettingClosed ==
  /\ buckets' = [i \in {} |-> {}]
  /\ records' = records \cup UNION {RecordsOf(buckets, arrived, i) : i \in DOMAIN buckets}
  /\ flushed' = flushed \cup {Len(arrived)}
  /\ UNCHANGED <<max_index, closed_below, arrived>>

\* flush_all(): on idle timeout and at shutdown
FlushAll ==
  /\ Emit(buckets, arrived, DOMAIN buckets)
  /\ flushed' = flushed \cup {Len(arrived)}
  /\ UNCHANGED <<max_index, arrived>>

\* WindowAggregator(window_s): a new aggregator, in a new defender process
New ==
  /\ buckets' = [i \in {} |-> {}]
  /\ max_index' = -1
  /\ closed_below' = FreshClosedBelow
  /\ arrived' = << >>
  /\ records' = {}
  /\ flushed' = {}

Next ==
  \/ \E e \in Packet : Add(e)
  \/ FlushAll

Spec == Init /\ [][Next]_vars

-----------------------------------------------------------------------------
(* What the aggregator promises.                                           *)

Held     == UNION {buckets[i] : i \in DOMAIN buckets}
Emitted  == UNION {r.events : r \in records}
Accepted == Held \cup Emitted

\* The type of every variable.
TypeOK ==
  /\ arrived \in Seq(Packet)
  /\ DOMAIN buckets \subseteq Int
  /\ buckets \in [DOMAIN buckets -> SUBSET (1 .. Len(arrived))]
  /\ max_index \in Int
  /\ closed_below \in Nat
  /\ records \subseteq [window : Int, src : Src, events : SUBSET (1 .. Len(arrived))]
  /\ flushed \subseteq Nat

\* No packet is counted twice, however flushes and out-of-order packets
\* interleave: a packet is in one bucket or in one record, never in both, and
\* the record that counts it is that of its own window and host.
CountedOnce ==
  /\ \A i \in DOMAIN buckets : \A p \in buckets[i] : arrived[p].index = i
  /\ \A r \in records : \A p \in r.events :
       arrived[p].index = r.window /\ arrived[p].src = r.src
  /\ Held \cap Emitted = {}
  /\ \A r1, r2 \in records : r1.events \cap r2.events # {} => r1 = r2

\* A host gets one feature record per window: a second one would score the
\* host again, on the rest of its packets.
OneRecordPerHostWindow ==
  \A r1, r2 \in records : r1.window = r2.window /\ r1.src = r2.src => r1 = r2

\* add() leaves no window open but the newest one, so what is held in memory
\* is one window of traffic, and emission order is window order.
OnlyNewestOpen == DOMAIN buckets \subseteq {max_index}

\* A packet arrives after the end of its window: an equal or later window that
\* received a packet q had been closed, by a packet of a still later window or
\* by a flush.
Late(p) ==
  \/ arrived[p].index < 0
  \/ \E q \in Accepted :
       /\ q < p
       /\ arrived[q].index >= arrived[p].index
       /\ \/ \E r \in Accepted : r < p /\ arrived[r].index > arrived[q].index
          \/ \E k \in flushed : q <= k /\ k < p

\* The packets the aggregator silently drops are exactly the late ones: no
\* packet of the current window, in or out of order, is ever lost, and none is
\* counted once its window has closed.
LostExactlyIfLate ==
  \A p \in 1 .. Len(arrived) : p \notin Accepted <=> Late(p)

\* A packet of a window nothing had been seen of, arriving when a later window
\* is already open, closes its window by itself: the record holds that packet
\* alone, and the other packets of the window are lost.
StragglerWindowIsOnePacket ==
  \A r \in records : \A p \in r.events :
    (\E q \in Accepted : q < p /\ arrived[q].index > r.window)
      => \A r2 \in records : r2.window = r.window => r2.events = {p}

\* Records leave in window order across calls: what a call returns is of later
\* windows than anything returned before.
RecordsInWindowOrder ==
  [][\A r \in records, new \in records' \ records : r.window < new.window]_vars
=============================================================================
