----------------------- MODULE WindowAggregatorProofs -----------------------
(***************************************************************************)
(* Proofs about the tumbling-window aggregator, for every set of hosts,    *)
(* every set of window indices and any number of packets.                  *)
(***************************************************************************)
EXTENDS WindowAggregator, TLAPS

-----------------------------------------------------------------------------
(* The inductive invariant.                                                *)

\* An open window has packets and has not been closed.
OpenIsLive == \A i \in DOMAIN buckets : closed_below <= i /\ buckets[i] # {}

\* An emitted window has packets and is below the mark.
RecordsBelowMark == \A r \in records : r.window < closed_below /\ r.events # {}

\* The mark sits just above some emitted window.
MarkIsARecord ==
  closed_below > 0 => \E r \in records : r.window = closed_below - 1

\* max_index is the newest window of an accepted packet.
NewestIsAccepted ==
  /\ \A q \in Accepted : arrived[q].index <= max_index
  /\ max_index = -1 \/ \E q \in Accepted : arrived[q].index = max_index

\* A packet is emitted because a later window was seen or a flush followed.
EmittedForACause ==
  \A q \in Emitted :
    \/ \E s \in Accepted : arrived[s].index > arrived[q].index
    \/ \E k \in flushed : q <= k

\* Every flush empties the buckets.
HeldSinceFlush ==
  /\ flushed \subseteq 0 .. Len(arrived)
  /\ \A p \in Held : \A k \in flushed : k < p

IInv ==
  /\ TypeOK
  /\ OnlyNewestOpen
  /\ OpenIsLive
  /\ CountedOnce
  /\ RecordsBelowMark
  /\ OneRecordPerHostWindow
  /\ MarkIsARecord
  /\ NewestIsAccepted
  /\ EmittedForACause
  /\ HeldSinceFlush
  /\ LostExactlyIfLate
  /\ StragglerWindowIsOnePacket

-----------------------------------------------------------------------------
(* The helpers.                                                            *)

\* closed_below does not move when nothing is emitted.
LEMMA ClosedAfterNone ==
  ASSUME closed_below \in Nat
  PROVE  ClosedAfter({}) = closed_below
<1>1. {closed_below} \cup {i + 1 : i \in {}} = {closed_below}
  OBVIOUS
<1> QED
  BY <1>1 DEF ClosedAfter, Max

\* It moves just past the emitted window.
LEMMA ClosedAfterOne ==
  ASSUME closed_below \in Nat, NEW w \in Int, closed_below <= w
  PROVE  ClosedAfter({w}) = w + 1
<1>1. {closed_below} \cup {i + 1 : i \in {w}} = {closed_below, w + 1}
  OBVIOUS
<1> QED
  BY <1>1 DEF ClosedAfter, Max

\* The records of one window partition its packets by host.
LEMMA RecordsPartition ==
  ASSUME NEW held, NEW log \in Seq(Packet), NEW w \in Int,
         held[w] \subseteq 1 .. Len(log),
         NEW N, N = RecordsOf(held, log, w)
  PROVE  /\ N \subseteq [window : Int, src : Src, events : SUBSET (1 .. Len(log))]
         /\ \A r \in N : /\ r.window = w
                         /\ r.events # {}
                         /\ r.events \subseteq held[w]
                         /\ \A p \in r.events : log[p].src = r.src
         /\ \A p \in held[w] : \E r \in N : p \in r.events
         /\ \A r1, r2 \in N : r1.src = r2.src => r1 = r2
         /\ UNION {r.events : r \in N} = held[w]
<1>1. \A p \in held[w] : log[p] \in Packet
  OBVIOUS
<1>2. \A r \in N : \E p \in held[w] :
        r = [window |-> w, src |-> log[p].src,
             events |-> {q \in held[w] : log[q].src = log[p].src}]
  BY DEF RecordsOf
<1>3. \A p \in held[w] :
        [window |-> w, src |-> log[p].src,
         events |-> {q \in held[w] : log[q].src = log[p].src}] \in N
  BY DEF RecordsOf
<1>4. \A p \in held[w] : log[p].src \in Src
  BY <1>1, PacketAssumption
<1>5. \A r \in N : /\ r.window = w
                   /\ r.events # {}
                   /\ r.events \subseteq held[w]
                   /\ \A p \in r.events : log[p].src = r.src
  BY <1>2
<1>6. N \subseteq [window : Int, src : Src, events : SUBSET (1 .. Len(log))]
  BY <1>2, <1>4
<1>7. \A p \in held[w] : \E r \in N : p \in r.events
  BY <1>3
<1>8. ASSUME NEW r1 \in N, NEW r2 \in N, r1.src = r2.src
      PROVE  r1 = r2
  <2>1. PICK p1 \in held[w] :
          r1 = [window |-> w, src |-> log[p1].src,
                events |-> {q \in held[w] : log[q].src = log[p1].src}]
    BY <1>2
  <2>2. PICK p2 \in held[w] :
          r2 = [window |-> w, src |-> log[p2].src,
                events |-> {q \in held[w] : log[q].src = log[p2].src}]
    BY <1>2
  <2>3. log[p1].src = log[p2].src
    BY <1>8, <2>1, <2>2
  <2> QED
    BY <2>1, <2>2, <2>3
<1>9. UNION {r.events : r \in N} = held[w]
  BY <1>5, <1>7
<1> QED
  BY <1>5, <1>6, <1>7, <1>8, <1>9

-----------------------------------------------------------------------------
(* What emitting does to the records and to the mark.                      *)

\* The part of the invariant that is about emitted records.
RecordsOK ==
  /\ closed_below \in Nat
  /\ records \subseteq [window : Int, src : Src, events : SUBSET (1 .. Len(arrived))]
  /\ \A r \in records : \A p \in r.events :
       arrived[p].index = r.window /\ arrived[p].src = r.src
  /\ \A r1, r2 \in records : r1.events \cap r2.events # {} => r1 = r2
  /\ RecordsBelowMark
  /\ OneRecordPerHostWindow
  /\ MarkIsARecord

\* The log only grows: earlier packets stay where they are.
Extends(log) ==
  /\ arrived \in Seq(Packet)
  /\ log \in Seq(Packet)
  /\ Len(arrived) <= Len(log)
  /\ \A q \in 1 .. Len(arrived) : log[q] = arrived[q]

\* A call that closes no window leaves the records as they are.
LEMMA EmitNoWindow ==
  ASSUME RecordsOK, NEW log, Extends(log), arrived' = log,
         records' = records, closed_below' = closed_below
  PROVE  RecordsOK' /\ Emitted' = Emitted
<1> USE DEF RecordsOK, Extends
<1>1. \A r \in records : r.events \subseteq 1 .. Len(arrived)
  OBVIOUS
<1>2. records' \subseteq [window : Int, src : Src, events : SUBSET (1 .. Len(log))]
  <2> SUFFICES ASSUME NEW r \in records
               PROVE  r \in [window : Int, src : Src, events : SUBSET (1 .. Len(log))]
    OBVIOUS
  <2>1. r \in [window : Int, src : Src, events : SUBSET (1 .. Len(arrived))]
    OBVIOUS
  <2>2. 1 .. Len(arrived) \subseteq 1 .. Len(log)
    OBVIOUS
  <2> QED
    BY <2>1, <2>2
<1>3. \A r \in records' : \A p \in r.events :
        log[p].index = r.window /\ log[p].src = r.src
  BY <1>1
<1> QED
  BY <1>2, <1>3 DEF RecordsBelowMark, OneRecordPerHostWindow, MarkIsARecord, Emitted

\* A call that closes one window adds its records, above the mark.
LEMMA EmitOneWindow ==
  ASSUME RecordsOK, NEW log, Extends(log), arrived' = log,
         NEW held, NEW w \in Int, closed_below <= w,
         held[w] \subseteq 1 .. Len(log), held[w] # {},
         \A p \in held[w] : log[p].index = w,
         records' = records \cup RecordsOf(held, log, w),
         closed_below' = w + 1
  PROVE  RecordsOK' /\ Emitted' = Emitted \cup held[w]
<1> DEFINE N == RecordsOf(held, log, w)
<1>1. /\ N \subseteq [window : Int, src : Src, events : SUBSET (1 .. Len(log))]
      /\ \A r \in N : /\ r.window = w
                      /\ r.events # {}
                      /\ r.events \subseteq held[w]
                      /\ \A p \in r.events : log[p].src = r.src
      /\ \A p \in held[w] : \E r \in N : p \in r.events
      /\ \A r1, r2 \in N : r1.src = r2.src => r1 = r2
      /\ UNION {r.events : r \in N} = held[w]
  BY RecordsPartition DEF Extends
<1>2. records' = records \cup N
  OBVIOUS
<1> HIDE DEF N
<1>3. \A r \in records :
        /\ r \in [window : Int, src : Src, events : SUBSET (1 .. Len(log))]
        /\ r.window < w
        /\ r.events # {}
        /\ \A p \in r.events : log[p].index = r.window /\ log[p].src = r.src
  <2> SUFFICES ASSUME NEW r \in records
               PROVE  /\ r \in [window : Int, src : Src, events : SUBSET (1 .. Len(log))]
                      /\ r.window < w
                      /\ r.events # {}
                      /\ \A p \in r.events : log[p].index = r.window /\ log[p].src = r.src
    OBVIOUS
  <2>1. r \in [window : Int, src : Src, events : SUBSET (1 .. Len(arrived))]
    BY DEF RecordsOK
  <2>2. 1 .. Len(arrived) \subseteq 1 .. Len(log)
    BY DEF Extends
  <2>3. r.window < closed_below /\ r.events # {}
    BY DEF RecordsOK, RecordsBelowMark
  <2>4. \A p \in r.events : log[p] = arrived[p]
    BY <2>1 DEF Extends
  <2>5. \A p \in r.events : arrived[p].index = r.window /\ arrived[p].src = r.src
    BY DEF RecordsOK
  <2>6. r.window < w
    BY <2>1, <2>3 DEF RecordsOK
  <2> QED
    BY <2>1, <2>2, <2>3, <2>4, <2>5, <2>6
<1>4. \A r \in N : \A p \in r.events : log[p].index = r.window /\ log[p].src = r.src
  BY <1>1
<1>5. \A r \in records, n \in N : r # n /\ r.window # n.window /\ r.events \cap n.events = {}
  BY <1>1, <1>3, <1>4
<1>6. \A r1, r2 \in N : r1.events \cap r2.events # {} => r1 = r2
  BY <1>1
<1>7. \E r \in N : r.window = w
  BY <1>1
<1>8. w + 1 \in Nat
  BY DEF RecordsOK
<1>9. RecordsBelowMark'
  BY <1>1, <1>2, <1>3 DEF RecordsBelowMark
<1>10. OneRecordPerHostWindow'
  BY <1>1, <1>2, <1>5 DEF OneRecordPerHostWindow, RecordsOK
<1>11. MarkIsARecord'
  BY <1>2, <1>7 DEF MarkIsARecord
<1>12. \A r1, r2 \in records' : r1.events \cap r2.events # {} => r1 = r2
  BY <1>2, <1>5, <1>6 DEF RecordsOK
<1>13. RecordsOK'
  BY <1>1, <1>2, <1>3, <1>4, <1>8, <1>9, <1>10, <1>11, <1>12 DEF RecordsOK
<1>14. Emitted' = Emitted \cup held[w]
  BY <1>1, <1>2 DEF Emitted
<1> QED
  BY <1>13, <1>14

-----------------------------------------------------------------------------
(* The cases of add(): the packet is of a window older than the newest     *)
(* (a straggler, closed at once), of the newest window, or of a newer one  *)
(* (which closes the window that was open).                                *)

\* A packet of an older window that is not closed closes that window with itself alone.
LEMMA StragglerEffect ==
  ASSUME IInv, NEW e \in Packet, Add(e), ~IsLate(e), e.index < max_index,
         NEW p, p = Len(arrived) + 1,
         NEW log, log = Append(arrived, e),
         NEW held, held = Put(buckets, e.index, p)
  PROVE  /\ max_index' = max_index /\ buckets' = buckets
         /\ closed_below' = e.index + 1
         /\ records' = records \cup RecordsOf(held, log, e.index)
         /\ held[e.index] = {p}
<1> USE DEF IInv
<1>1. e.index \in Int /\ max_index \in Int /\ closed_below \in Nat
  BY PacketAssumption DEF TypeOK
<1>2. Newest(e) = max_index
  BY <1>1 DEF Newest
<1>3. DOMAIN held = DOMAIN buckets \cup {e.index}
  BY DEF Put
<1>4. {i \in DOMAIN held : i < Newest(e)} = {e.index}
  BY <1>1, <1>2, <1>3 DEF OnlyNewestOpen
<1>5. max_index' = max_index /\ Emit(held, log, {e.index})
  BY <1>2, <1>4 DEF Add
<1>6. closed_below <= e.index
  BY <1>1 DEF IsLate
<1>7. closed_below' = e.index + 1
  BY <1>1, <1>5, <1>6, ClosedAfterOne DEF Emit
<1>8. e.index \notin DOMAIN buckets
  BY <1>1 DEF OnlyNewestOpen
<1>9. held[e.index] = {p}
  BY <1>8 DEF Put
<1>10. \A i \in DOMAIN buckets : held[i] = buckets[i]
  BY <1>8 DEF Put
<1>11. DOMAIN held \ {e.index} = DOMAIN buckets
  BY <1>3, <1>8
<1>12. buckets = [i \in DOMAIN buckets |-> buckets[i]]
  BY DEF TypeOK
<1>13. buckets' = buckets
  BY <1>5, <1>10, <1>11, <1>12 DEF Emit
<1>14. UNION {RecordsOf(held, log, i) : i \in {e.index}} = RecordsOf(held, log, e.index)
  OBVIOUS
<1> QED
  BY <1>5, <1>7, <1>9, <1>13, <1>14 DEF Emit

\* A packet of the newest window joins it.
LEMMA CurrentEffect ==
  ASSUME IInv, NEW e \in Packet, Add(e), ~IsLate(e), e.index = max_index,
         NEW p, p = Len(arrived) + 1
  PROVE  /\ max_index' = max_index /\ closed_below' = closed_below /\ records' = records
         /\ DOMAIN buckets' = {e.index} /\ buckets' \in [{e.index} -> {Held \cup {p}}]
<1> USE DEF IInv
<1> DEFINE log == Append(arrived, e)
           held == Put(buckets, e.index, p)
<1>1. e.index \in Int /\ max_index \in Int /\ closed_below \in Nat
  BY PacketAssumption DEF TypeOK
<1>2. Newest(e) = max_index
  BY <1>1 DEF Newest
<1>3. DOMAIN held = {e.index}
  BY DEF Put, OnlyNewestOpen
<1>4. {i \in DOMAIN held : i < Newest(e)} = {}
  BY <1>1, <1>2, <1>3
<1>5. max_index' = max_index /\ Emit(held, log, {})
  BY <1>2, <1>4 DEF Add
<1>6. closed_below' = closed_below
  BY <1>1, <1>5, ClosedAfterNone DEF Emit
<1>7. records' = records
  BY <1>5 DEF Emit
<1>8. held[e.index] = Held \cup {p}
  <2>1. CASE DOMAIN buckets = {}
    BY <2>1 DEF Put, Held
  <2>2. CASE DOMAIN buckets = {e.index}
    BY <2>2 DEF Put, Held
  <2> QED
    BY <2>1, <2>2 DEF OnlyNewestOpen
<1>9. buckets' = [i \in {e.index} |-> held[i]]
  BY <1>3, <1>5 DEF Emit
<1> HIDE DEF held
<1>10. DOMAIN buckets' = {e.index} /\ buckets' \in [{e.index} -> {Held \cup {p}}]
  BY <1>8, <1>9
<1> QED
  BY <1>5, <1>6, <1>7, <1>10

\* A packet of a newer window closes the one that was open.
LEMMA NewerEffect ==
  ASSUME IInv, NEW e \in Packet, Add(e), ~IsLate(e), e.index > max_index,
         NEW p, p = Len(arrived) + 1,
         NEW log, log = Append(arrived, e),
         NEW held, held = Put(buckets, e.index, p)
  PROVE  /\ max_index' = e.index
         /\ DOMAIN buckets' = {e.index} /\ buckets' \in [{e.index} -> {{p}}]
         /\ \/ /\ DOMAIN buckets = {}
               /\ closed_below' = closed_below /\ records' = records
            \/ /\ DOMAIN buckets = {max_index}
               /\ closed_below' = max_index + 1
               /\ held[max_index] = buckets[max_index]
               /\ records' = records \cup RecordsOf(held, log, max_index)
<1> USE DEF IInv
<1>1. e.index \in Int /\ max_index \in Int /\ closed_below \in Nat
  BY PacketAssumption DEF TypeOK
<1>2. Newest(e) = e.index
  BY <1>1 DEF Newest
<1>3. DOMAIN held = DOMAIN buckets \cup {e.index}
  BY DEF Put
<1>4. {i \in DOMAIN held : i < Newest(e)} = DOMAIN buckets
  <2>1. \A i \in DOMAIN buckets : i < Newest(e)
    BY <1>1, <1>2 DEF OnlyNewestOpen
  <2>2. ~(e.index < Newest(e))
    BY <1>1, <1>2
  <2> QED
    BY <1>3, <2>1, <2>2
<1>5. max_index' = e.index /\ Emit(held, log, DOMAIN buckets)
  BY <1>2, <1>4 DEF Add
<1>6. e.index \notin DOMAIN buckets
  BY <1>1 DEF OnlyNewestOpen
<1>7. held[e.index] = {p}
  BY <1>6 DEF Put
<1>8. buckets' = [i \in {e.index} |-> held[i]]
  <2>1. DOMAIN held \ DOMAIN buckets = {e.index}
    BY <1>3, <1>6
  <2> QED
    BY <1>5, <2>1 DEF Emit
<1>9. DOMAIN buckets' = {e.index} /\ buckets' \in [{e.index} -> {{p}}]
  BY <1>7, <1>8
<1>10. CASE DOMAIN buckets = {}
  <2>1. closed_below' = closed_below
    BY <1>1, <1>5, <1>10, ClosedAfterNone DEF Emit
  <2>2. records' = records
    BY <1>5, <1>10 DEF Emit
  <2> QED
    BY <1>5, <1>9, <1>10, <2>1, <2>2
<1>11. CASE DOMAIN buckets = {max_index}
  <2>1. closed_below <= max_index
    BY <1>11 DEF OpenIsLive
  <2>2. closed_below' = max_index + 1
    BY <1>1, <1>5, <1>11, <2>1, ClosedAfterOne DEF Emit
  <2>3. held[max_index] = buckets[max_index]
    BY <1>1, <1>11 DEF Put
  <2>4. UNION {RecordsOf(held, log, i) : i \in {max_index}} = RecordsOf(held, log, max_index)
    OBVIOUS
  <2>5. records' = records \cup RecordsOf(held, log, max_index)
    BY <1>5, <1>11, <2>4 DEF Emit
  <2> QED
    BY <1>5, <1>9, <1>11, <2>2, <2>3, <2>5
<1> QED
  BY <1>10, <1>11 DEF OnlyNewestOpen

-----------------------------------------------------------------------------
(* Every step keeps the invariant.                                         *)

\* Late(p) as a function of what it reads.
LateIn(log, acc, fl, p) ==
  \/ log[p].index < 0
  \/ \E q \in acc :
       /\ q < p
       /\ log[q].index >= log[p].index
       /\ \/ \E r \in acc : r < p /\ log[r].index > log[q].index
          \/ \E k \in fl : q <= k /\ k < p

\* It reads only what happened before packet p arrived.
LEMMA LateReadsThePast ==
  ASSUME NEW log1, NEW log2, NEW acc1, NEW acc2, NEW fl1, NEW fl2, NEW p \in Nat,
         log1[p] = log2[p],
         \A q \in acc1 : q < p => q \in acc2 /\ log1[q] = log2[q],
         \A k \in fl1 : k < p => k \in fl2,
         LateIn(log1, acc1, fl1, p)
  PROVE  LateIn(log2, acc2, fl2, p)
<1>1. CASE log1[p].index < 0
  BY <1>1 DEF LateIn
<1>2. CASE \E q \in acc1 :
             /\ q < p
             /\ log1[q].index >= log1[p].index
             /\ \/ \E r \in acc1 : r < p /\ log1[r].index > log1[q].index
                \/ \E k \in fl1 : q <= k /\ k < p
  <2>1. PICK q \in acc1 :
             /\ q < p
             /\ log1[q].index >= log1[p].index
             /\ \/ \E r \in acc1 : r < p /\ log1[r].index > log1[q].index
                \/ \E k \in fl1 : q <= k /\ k < p
    BY <1>2
  <2>2. CASE \E r \in acc1 : r < p /\ log1[r].index > log1[q].index
    BY <2>1, <2>2 DEF LateIn
  <2>3. CASE \E k \in fl1 : q <= k /\ k < p
    BY <2>1, <2>3 DEF LateIn
  <2> QED
    BY <2>1, <2>2, <2>3
<1> QED
  BY <1>1, <1>2 DEF LateIn

\* A step that lengthens the log, and accepts no packet that had arrived
\* before, changes no earlier packet's fate.
LEMMA FateIsSettled ==
  ASSUME IInv, NEW log, Extends(log), arrived' = log,
         Accepted \subseteq Accepted',
         \A q \in Accepted' : q <= Len(arrived) => q \in Accepted,
         flushed \subseteq flushed', flushed' \subseteq Nat,
         \A k \in flushed' : k < Len(arrived) => k \in flushed
  PROVE  \A p \in 1 .. Len(arrived) : p \notin Accepted' <=> LateIn(log, Accepted', flushed', p)
<1> SUFFICES ASSUME NEW p \in 1 .. Len(arrived)
             PROVE  p \notin Accepted' <=> LateIn(log, Accepted', flushed', p)
  OBVIOUS
<1>1. Len(arrived) \in Nat /\ Accepted \subseteq 1 .. Len(arrived) /\ flushed \subseteq Nat
  BY DEF IInv, TypeOK, Accepted, Held, Emitted
<1>2. p \in Nat /\ log[p] = arrived[p]
  BY <1>1 DEF Extends
<1>3. \A q \in Accepted : arrived[q] = log[q]
  BY <1>1 DEF Extends
<1>4. Late(p) <=> LateIn(arrived, Accepted, flushed, p)
  BY DEF Late, LateIn
<1>5. LateIn(arrived, Accepted, flushed, p) => LateIn(log, Accepted', flushed', p)
  BY <1>2, <1>3, LateReadsThePast
<1>6. LateIn(log, Accepted', flushed', p) => LateIn(arrived, Accepted, flushed, p)
  <2>1. \A q \in Accepted' : q < p => q \in Accepted /\ log[q] = arrived[q]
    BY <1>1, <1>3
  <2>2. \A k \in flushed' : k < p => k \in flushed
    BY <1>1
  <2> QED
    BY <1>2, <2>1, <2>2, LateReadsThePast
<1>7. p \in Accepted <=> p \in Accepted'
  BY <1>1
<1>8. p \notin Accepted <=> Late(p)
  BY DEF IInv, LostExactlyIfLate
<1> QED
  BY <1>4, <1>5, <1>6, <1>7, <1>8

\* A new aggregator satisfies the invariant.
LEMMA InitIInv == Init => IInv
<1> SUFFICES ASSUME Init PROVE IInv
  OBVIOUS
<1> USE DEF Init, FreshClosedBelow
<1>1. Held = {} /\ Emitted = {} /\ Accepted = {}
  BY DEF Held, Emitted, Accepted
<1>2. TypeOK
  BY DEF TypeOK
<1>3. OnlyNewestOpen /\ OpenIsLive /\ HeldSinceFlush /\ EmittedForACause
  BY <1>1 DEF OnlyNewestOpen, OpenIsLive, HeldSinceFlush, EmittedForACause
<1>4. CountedOnce /\ OneRecordPerHostWindow /\ RecordsBelowMark /\ MarkIsARecord
  BY <1>1 DEF CountedOnce, OneRecordPerHostWindow, RecordsBelowMark, MarkIsARecord
<1>5. NewestIsAccepted /\ LostExactlyIfLate /\ StragglerWindowIsOnePacket
  BY <1>1 DEF NewestIsAccepted, LostExactlyIfLate, StragglerWindowIsOnePacket
<1> QED
  BY <1>2, <1>3, <1>4, <1>5 DEF IInv

\* A late packet: only the log grows.
LEMMA LateKeepsIInv ==
  ASSUME IInv, NEW e \in Packet, Add(e), IsLate(e)
  PROVE  IInv'
<1> DEFINE log == Append(arrived, e)
           n   == Len(arrived)
<1>1. /\ arrived' = log
      /\ UNCHANGED <<buckets, max_index, closed_below, records, flushed>>
  BY DEF Add
<1>2. n \in Nat /\ Len(log) = n + 1 /\ log[n + 1] = e /\ log \in Seq(Packet)
  BY DEF IInv, TypeOK
<1>3. Extends(log)
  BY DEF IInv, TypeOK, Extends
<1> HIDE DEF log
<1>4. Held' = Held /\ Emitted' = Emitted /\ Accepted' = Accepted
  BY <1>1 DEF Held, Emitted, Accepted
<1>5. /\ Held \subseteq 1 .. n /\ Emitted \subseteq 1 .. n /\ Accepted \subseteq 1 .. n
      /\ flushed \subseteq 0 .. n
  BY DEF IInv, TypeOK, Held, Emitted, Accepted, HeldSinceFlush
<1>6. \A q \in 1 .. n : log[q] = arrived[q]
  BY <1>3 DEF Extends
<1>7. RecordsOK
  BY DEF IInv, TypeOK, CountedOnce, RecordsOK
<1>8. RecordsOK'
  BY <1>1, <1>3, <1>7, EmitNoWindow
<1>9. TypeOK'
  <2>1. buckets \in [DOMAIN buckets -> SUBSET (1 .. Len(log))]
    BY <1>2 DEF IInv, TypeOK
  <2> QED
    BY <1>1, <1>2, <1>8, <2>1 DEF IInv, TypeOK, RecordsOK
<1>10. CountedOnce'
  BY <1>1, <1>4, <1>5, <1>6, <1>8 DEF IInv, CountedOnce, RecordsOK, Held
<1>11. OnlyNewestOpen' /\ OpenIsLive' /\ RecordsBelowMark' /\ OneRecordPerHostWindow'
         /\ MarkIsARecord'
  BY <1>1, <1>8 DEF IInv, OnlyNewestOpen, OpenIsLive, RecordsOK
<1>12. NewestIsAccepted'
  BY <1>1, <1>4, <1>5, <1>6 DEF IInv, NewestIsAccepted
<1>13. EmittedForACause'
  BY <1>1, <1>4, <1>5, <1>6 DEF IInv, EmittedForACause
<1>14. HeldSinceFlush'
  BY <1>1, <1>2, <1>4 DEF IInv, HeldSinceFlush
<1>15. StragglerWindowIsOnePacket'
  <2>1. \A r \in records : r.events \subseteq Emitted
    BY DEF Emitted
  <2> QED
    BY <1>1, <1>4, <1>5, <1>6, <2>1 DEF IInv, StragglerWindowIsOnePacket
<1>16. LostExactlyIfLate'
  <2>1. \A p \in 1 .. n : p \notin Accepted' <=> LateIn(log, Accepted', flushed', p)
    <3>1. \A q \in Accepted' : q <= n => q \in Accepted
      BY <1>4
    <3> QED
      BY <1>1, <1>2, <1>3, <1>4, <1>5, <3>1, FateIsSettled
  <2>2. (n + 1) \notin Accepted'
    BY <1>2, <1>4, <1>5
  <2>3. LateIn(log, Accepted', flushed', n + 1)
    <3>1. CASE e.index < 0
      BY <1>2, <3>1 DEF LateIn
    <3>2. CASE ~(e.index < 0)
      <4>1. PICK r \in records : r.window = closed_below - 1
        BY <3>2, PacketAssumption DEF IsLate, IInv, TypeOK, MarkIsARecord
      <4>2. PICK q \in r.events : TRUE
        BY DEF IInv, RecordsBelowMark
      <4>3. q \in Emitted /\ q \in Accepted /\ q < n + 1
        BY <1>2, <1>5 DEF Emitted, Accepted
      <4>4. log[q].index >= e.index
        BY <1>5, <1>6, <4>1, <4>3, PacketAssumption
           DEF IInv, CountedOnce, IsLate, TypeOK
      <4>5. CASE \E s \in Accepted : arrived[s].index > arrived[q].index
        <5>1. \E s \in Accepted : s < n + 1 /\ log[s].index > log[q].index
          BY <1>2, <1>5, <1>6, <4>3, <4>5
        <5> QED
          BY <1>1, <1>2, <1>4, <4>3, <4>4, <5>1 DEF LateIn
      <4>6. CASE \E k \in flushed : q <= k
        <5>1. \E k \in flushed : q <= k /\ k < n + 1
          BY <1>2, <1>5, <4>6
        <5> QED
          BY <1>1, <1>2, <1>4, <4>3, <4>4, <5>1 DEF LateIn
      <4> QED
        BY <4>3, <4>5, <4>6 DEF IInv, EmittedForACause
    <3> QED
      BY <3>1, <3>2
  <2> QED
    BY <1>1, <1>2, <2>1, <2>2, <2>3 DEF LostExactlyIfLate, Late, LateIn
<1> QED
  BY <1>9, <1>10, <1>11, <1>12, <1>13, <1>14, <1>15, <1>16 DEF IInv

\* What every accepted packet does.
LEMMA AcceptFacts ==
  ASSUME IInv, NEW e \in Packet, Add(e), ~IsLate(e)
  PROVE  LET n   == Len(arrived)
             log == Append(arrived, e)
         IN  /\ arrived' = log /\ flushed' = flushed /\ max_index' = Newest(e)
             /\ n \in Nat /\ Len(log) = n + 1 /\ log[n + 1] = e
             /\ Extends(log)
             /\ \A q \in 1 .. n : log[q] = arrived[q] /\ arrived[q].index \in Int
             /\ Held \subseteq 1 .. n /\ Emitted \subseteq 1 .. n /\ Accepted \subseteq 1 .. n
             /\ flushed \subseteq 0 .. n
             /\ max_index \in Int /\ closed_below \in Nat
             /\ e.index \in Int /\ closed_below <= e.index
             /\ RecordsOK
<1> DEFINE n   == Len(arrived)
           log == Append(arrived, e)
<1>1. arrived' = log /\ flushed' = flushed /\ max_index' = Newest(e)
  BY DEF Add
<1>2. n \in Nat /\ Len(log) = n + 1 /\ log[n + 1] = e
  BY DEF IInv, TypeOK
<1>3. Extends(log) /\ \A q \in 1 .. n : log[q] = arrived[q]
  BY DEF IInv, TypeOK, Extends
<1>4. \A q \in 1 .. n : arrived[q].index \in Int
  <2> SUFFICES ASSUME NEW q \in 1 .. n PROVE arrived[q].index \in Int
    OBVIOUS
  <2>1. arrived[q] \in Packet
    BY DEF IInv, TypeOK
  <2> QED
    BY <2>1, PacketAssumption
<1>5. /\ Held \subseteq 1 .. n /\ Emitted \subseteq 1 .. n /\ Accepted \subseteq 1 .. n
      /\ flushed \subseteq 0 .. n
  BY DEF IInv, TypeOK, Held, Emitted, Accepted, HeldSinceFlush
<1>6. max_index \in Int /\ closed_below \in Nat /\ e.index \in Int
  BY PacketAssumption DEF IInv, TypeOK
<1>7. closed_below <= e.index
  BY <1>6 DEF IsLate
<1>8. RecordsOK
  BY DEF IInv, TypeOK, CountedOnce, RecordsOK
<1> QED
  BY <1>1, <1>2, <1>3, <1>4, <1>5, <1>6, <1>7, <1>8

\* An accepted packet is not late, and the others' fate is settled.
LEMMA AcceptKeepsLost ==
  ASSUME IInv, NEW e \in Packet, Add(e), ~IsLate(e),
         Accepted' = Accepted \cup {Len(arrived) + 1}
  PROVE  LostExactlyIfLate'
<1> DEFINE log == Append(arrived, e)
           n   == Len(arrived)
<1>1. /\ arrived' = log /\ flushed' = flushed
      /\ n \in Nat /\ Len(log) = n + 1 /\ log[n + 1] = e
      /\ Extends(log)
      /\ \A q \in 1 .. n : log[q] = arrived[q] /\ arrived[q].index \in Int
      /\ Held \subseteq 1 .. n /\ Emitted \subseteq 1 .. n /\ Accepted \subseteq 1 .. n
      /\ flushed \subseteq 0 .. n
      /\ max_index \in Int /\ closed_below \in Nat
      /\ e.index \in Int /\ closed_below <= e.index
  BY AcceptFacts
<1> HIDE DEF log
<1>2. \A p \in 1 .. n : p \notin Accepted' <=> LateIn(log, Accepted', flushed', p)
  <2>1. \A q \in Accepted' : q <= n => q \in Accepted
    BY <1>1
  <2>2. flushed' \subseteq Nat /\ flushed \subseteq flushed'
    BY <1>1
  <2>3. \A k \in flushed' : k < n => k \in flushed
    BY <1>1
  <2> QED
    BY <1>1, <2>1, <2>2, <2>3, FateIsSettled
<1>3. ~LateIn(log, Accepted', flushed', n + 1)
  <2> SUFFICES ASSUME LateIn(log, Accepted', flushed', n + 1)
               PROVE  FALSE
    OBVIOUS
  <2>1. ~(log[n + 1].index < 0)
    BY <1>1
  <2>2. PICK q \in Accepted' :
          /\ q < n + 1
          /\ log[q].index >= log[n + 1].index
          /\ \/ \E r \in Accepted' : r < n + 1 /\ log[r].index > log[q].index
             \/ \E k \in flushed' : q <= k /\ k < n + 1
    BY <2>1 DEF LateIn
  <2>3. q \in Accepted /\ q \in 1 .. n /\ arrived[q].index >= e.index
    BY <1>1, <2>2
  <2>4. arrived[q].index \in Int
    BY <1>1, <2>3
  <2>5. q \in Held /\ arrived[q].index = max_index
    <3>1. q \notin Emitted
      <4> SUFFICES ASSUME NEW r \in records, q \in r.events PROVE FALSE
        BY DEF Emitted
      <4>1. arrived[q].index = r.window /\ r.window < closed_below
        BY DEF IInv, CountedOnce, RecordsBelowMark
      <4> QED
        BY <1>1, <2>3, <2>4, <4>1
    <3>2. q \in Held
      BY <2>3, <3>1 DEF Accepted
    <3>3. PICK i \in DOMAIN buckets : q \in buckets[i]
      BY <3>2 DEF Held
    <3> QED
      BY <3>2, <3>3 DEF IInv, CountedOnce, OnlyNewestOpen
  <2>6. ~\E r \in Accepted' : r < n + 1 /\ log[r].index > log[q].index
    <3> SUFFICES ASSUME NEW r \in Accepted', r < n + 1, log[r].index > log[q].index
                 PROVE  FALSE
      OBVIOUS
    <3>1. r \in Accepted /\ r \in 1 .. n
      BY <1>1
    <3>2. arrived[r].index <= max_index
      BY <3>1 DEF IInv, NewestIsAccepted
    <3>3. arrived[r].index \in Int
      BY <1>1, <3>1
    <3> QED
      BY <1>1, <2>3, <2>4, <2>5, <3>1, <3>2, <3>3
  <2>7. ~\E k \in flushed' : q <= k /\ k < n + 1
    <3> SUFFICES ASSUME NEW k \in flushed, q <= k
                 PROVE  FALSE
      BY <1>1
    <3>1. k < q
      BY <2>5 DEF IInv, HeldSinceFlush
    <3> QED
      BY <1>1, <2>3, <3>1
  <2> QED
    BY <2>2, <2>6, <2>7
<1>4. n + 1 \in Accepted'
  OBVIOUS
<1>5. \A p \in 1 .. Len(log) : p \notin Accepted' <=> LateIn(log, Accepted', flushed', p)
  <2> SUFFICES ASSUME NEW p \in 1 .. Len(log)
               PROVE  p \notin Accepted' <=> LateIn(log, Accepted', flushed', p)
    OBVIOUS
  <2>1. p \in 1 .. n \/ p = n + 1
    BY <1>1
  <2>2. CASE p \in 1 .. n
    BY <1>2, <2>2
  <2>3. CASE p = n + 1
    BY <1>3, <1>4, <2>3
  <2> QED
    BY <2>1, <2>2, <2>3
<1>6. \A p \in 1 .. Len(arrived') :
        p \notin Accepted' <=> LateIn(arrived', Accepted', flushed', p)
  BY <1>1, <1>5
<1> QED
  BY <1>6 DEF LostExactlyIfLate, Late, LateIn

\* max_index follows the accepted packets.
LEMMA AcceptKeepsNewest ==
  ASSUME IInv, NEW e \in Packet, Add(e), ~IsLate(e),
         Accepted' = Accepted \cup {Len(arrived) + 1}
  PROVE  NewestIsAccepted'
<1> DEFINE log == Append(arrived, e)
           n   == Len(arrived)
<1>1. /\ arrived' = log /\ max_index' = Newest(e)
      /\ n \in Nat /\ log[n + 1] = e
      /\ \A q \in 1 .. n : log[q] = arrived[q] /\ arrived[q].index \in Int
      /\ Accepted \subseteq 1 .. n
      /\ max_index \in Int /\ e.index \in Int
  BY AcceptFacts
<1> HIDE DEF log
<1>2. \A q \in Accepted : arrived[q].index \in Int
  BY <1>1
<1>3. \A q \in Accepted : log[q].index <= max_index
  BY <1>1 DEF IInv, NewestIsAccepted
<1>4. \A q \in Accepted' : log[q].index <= Newest(e)
  BY <1>1, <1>2, <1>3 DEF Newest
<1>5. Newest(e) = -1 \/ \E q \in Accepted' : log[q].index = Newest(e)
  <2>1. CASE e.index > max_index
    BY <1>1, <2>1 DEF Newest
  <2>2. CASE ~(e.index > max_index)
    <3>1. Newest(e) = max_index
      BY <2>2 DEF Newest
    <3> QED
      BY <1>1, <3>1 DEF IInv, NewestIsAccepted
  <2> QED
    BY <2>1, <2>2
<1> QED
  BY <1>1, <1>4, <1>5 DEF NewestIsAccepted

\* The case of a straggler.
LEMMA StragglerKeepsIInv ==
  ASSUME IInv, NEW e \in Packet, Add(e), ~IsLate(e), e.index < max_index
  PROVE  IInv'
<1> DEFINE n    == Len(arrived)
           log  == Append(arrived, e)
           held == Put(buckets, e.index, n + 1)
           N    == RecordsOf(held, log, e.index)
<1>1. /\ arrived' = log /\ flushed' = flushed
      /\ n \in Nat /\ Len(log) = n + 1 /\ log[n + 1] = e
      /\ Extends(log)
      /\ \A q \in 1 .. n : log[q] = arrived[q] /\ arrived[q].index \in Int
      /\ Held \subseteq 1 .. n /\ Emitted \subseteq 1 .. n /\ Accepted \subseteq 1 .. n
      /\ flushed \subseteq 0 .. n
      /\ max_index \in Int /\ closed_below \in Nat
      /\ e.index \in Int /\ closed_below <= e.index
      /\ RecordsOK
  BY AcceptFacts
<1>2. /\ max_index' = max_index /\ buckets' = buckets
      /\ closed_below' = e.index + 1
      /\ records' = records \cup N
      /\ held[e.index] = {n + 1}
  BY StragglerEffect
<1>3. /\ \A r \in N : r.window = e.index /\ r.events = {n + 1}
  BY <1>2 DEF RecordsOf
<1> HIDE DEF log, held
<1>4. RecordsOK' /\ Emitted' = Emitted \cup {n + 1}
  <2>1. /\ held[e.index] \subseteq 1 .. Len(log) /\ held[e.index] # {}
        /\ \A p \in held[e.index] : log[p].index = e.index
    BY <1>1, <1>2
  <2>2. RecordsOK /\ Extends(log) /\ arrived' = log /\ e.index \in Int /\ closed_below <= e.index
    BY <1>1
  <2> QED
    BY <1>2, <2>1, <2>2, EmitOneWindow
<1>5. Held' = Held
  BY <1>2 DEF Held
<1>6. Accepted' = Accepted \cup {n + 1}
  BY <1>4, <1>5 DEF Accepted
<1>7. TypeOK'
  <2>1. buckets \in [DOMAIN buckets -> SUBSET (1 .. Len(log))]
    BY <1>1 DEF IInv, TypeOK
  <2> QED
    BY <1>1, <1>2, <1>4, <2>1 DEF IInv, TypeOK, RecordsOK, Extends
<1>8. CountedOnce'
  <2>1. \A i \in DOMAIN buckets' : \A p \in buckets'[i] : log[p].index = i
    <3>1. \A i \in DOMAIN buckets : buckets[i] \subseteq Held
      BY DEF Held
    <3>2. \A i \in DOMAIN buckets : \A p \in buckets[i] : log[p] = arrived[p]
      BY <1>1, <3>1
    <3>3. \A i \in DOMAIN buckets : \A p \in buckets[i] : arrived[p].index = i
      BY DEF IInv, CountedOnce
    <3> QED
      BY <1>2, <3>2, <3>3
  <2>2. Held' \cap Emitted' = {}
    <3>1. n + 1 \notin Held
      BY <1>1
    <3>2. Held \cap Emitted = {}
      BY DEF IInv, CountedOnce
    <3> QED
      BY <1>4, <1>5, <3>1, <3>2
  <2> QED
    BY <1>1, <1>4, <2>1, <2>2 DEF CountedOnce, RecordsOK
<1>9. OnlyNewestOpen' /\ OpenIsLive'
  BY <1>1, <1>2 DEF IInv, OnlyNewestOpen, OpenIsLive
<1>10. RecordsBelowMark' /\ OneRecordPerHostWindow' /\ MarkIsARecord'
  BY <1>4 DEF RecordsOK
<1>11. NewestIsAccepted'
  BY <1>6, AcceptKeepsNewest
<1>12. EmittedForACause'
  <2>1. \E s \in Accepted : arrived[s].index > e.index
    BY <1>1 DEF IInv, NewestIsAccepted
  <2>2. \E s \in Accepted' : log[s].index > log[n + 1].index
    BY <1>1, <1>6, <2>1
  <2>3. \A q \in Emitted : \/ \E s \in Accepted' : log[s].index > log[q].index
                           \/ \E k \in flushed' : q <= k
    BY <1>1, <1>6 DEF IInv, EmittedForACause
  <2> QED
    BY <1>1, <1>4, <2>2, <2>3 DEF EmittedForACause
<1>13. HeldSinceFlush'
  BY <1>1, <1>5 DEF IInv, HeldSinceFlush
<1>14. LostExactlyIfLate'
  BY <1>6, AcceptKeepsLost
<1>15. StragglerWindowIsOnePacket'
  <2>1. \A r \in records : r.window # e.index /\ r.events \subseteq 1 .. n
    BY <1>1 DEF RecordsOK, RecordsBelowMark
  <2>2. ASSUME NEW r \in records', NEW p \in r.events,
               NEW q \in Accepted', q < p, log[q].index > r.window,
               NEW r2 \in records', r2.window = r.window
        PROVE  r2.events = {p}
    <3>1. CASE r \in N
      <4>1. r2 \in N
        BY <1>2, <1>3, <2>1, <2>2, <3>1
      <4> QED
        BY <1>3, <2>2, <3>1, <4>1
    <3>2. CASE r \in records
      <4>1. r2 \in records
        BY <1>1, <1>2, <1>3, <2>1, <2>2, <3>2
      <4>2. p \in 1 .. n
        BY <2>1, <2>2, <3>2
      <4>3. q \in Accepted
        BY <1>1, <1>6, <2>2, <4>2
      <4>4. arrived[q].index > r.window
        BY <1>1, <2>2, <4>3
      <4> QED
        BY <2>2, <3>2, <4>1, <4>3, <4>4 DEF IInv, StragglerWindowIsOnePacket
    <3> QED
      BY <1>2, <3>1, <3>2
  <2> QED
    BY <1>1, <2>2 DEF StragglerWindowIsOnePacket
<1> QED
  BY <1>7, <1>8, <1>9, <1>10, <1>11, <1>12, <1>13, <1>14, <1>15 DEF IInv

\* The case of the newest window.
LEMMA CurrentKeepsIInv ==
  ASSUME IInv, NEW e \in Packet, Add(e), ~IsLate(e), e.index = max_index
  PROVE  IInv'
<1> DEFINE n   == Len(arrived)
           log == Append(arrived, e)
<1>1. /\ arrived' = log /\ flushed' = flushed
      /\ n \in Nat /\ Len(log) = n + 1 /\ log[n + 1] = e
      /\ Extends(log)
      /\ \A q \in 1 .. n : log[q] = arrived[q] /\ arrived[q].index \in Int
      /\ Held \subseteq 1 .. n /\ Emitted \subseteq 1 .. n /\ Accepted \subseteq 1 .. n
      /\ flushed \subseteq 0 .. n
      /\ max_index \in Int /\ closed_below \in Nat
      /\ e.index \in Int /\ closed_below <= e.index
      /\ RecordsOK
  BY AcceptFacts
<1>2. /\ max_index' = max_index /\ closed_below' = closed_below /\ records' = records
      /\ DOMAIN buckets' = {e.index} /\ buckets' \in [{e.index} -> {Held \cup {n + 1}}]
  BY CurrentEffect
<1> HIDE DEF log
<1>3. buckets'[e.index] = Held \cup {n + 1}
  BY <1>2
<1>4. RecordsOK' /\ Emitted' = Emitted
  BY <1>1, <1>2, EmitNoWindow
<1>5. Held' = Held \cup {n + 1}
  BY <1>2, <1>3 DEF Held
<1>6. Accepted' = Accepted \cup {n + 1}
  BY <1>4, <1>5 DEF Accepted
<1>7. TypeOK'
  <2>1. Held \cup {n + 1} \subseteq 1 .. Len(log)
    <3>1. n + 1 \in 1 .. Len(log) /\ 1 .. n \subseteq 1 .. Len(log)
      BY <1>1
    <3> QED
      BY <1>1, <3>1
  <2>2. buckets' \in [DOMAIN buckets' -> SUBSET (1 .. Len(log))]
    BY <1>2, <2>1
  <2>3. flushed \subseteq Nat
    BY DEF IInv, TypeOK
  <2> QED
    BY <1>1, <1>2, <1>4, <2>2, <2>3 DEF TypeOK, RecordsOK, Extends
<1>8. \A p \in Held : arrived[p].index = max_index
  BY DEF IInv, CountedOnce, Held, OnlyNewestOpen
<1>9. CountedOnce'
  <2>1. \A i \in DOMAIN buckets' : \A p \in buckets'[i] : log[p].index = i
    BY <1>1, <1>2, <1>3, <1>8
  <2>2. Held' \cap Emitted' = {}
    <3>1. n + 1 \notin Emitted
      BY <1>1
    <3>2. Held \cap Emitted = {}
      BY DEF IInv, CountedOnce
    <3> QED
      BY <1>4, <1>5, <3>1, <3>2
  <2> QED
    BY <1>1, <1>4, <2>1, <2>2 DEF CountedOnce, RecordsOK
<1>10. OnlyNewestOpen' /\ OpenIsLive'
  BY <1>1, <1>2, <1>3 DEF OnlyNewestOpen, OpenIsLive
<1>11. RecordsBelowMark' /\ OneRecordPerHostWindow' /\ MarkIsARecord'
  BY <1>4 DEF RecordsOK
<1>12. NewestIsAccepted'
  BY <1>6, AcceptKeepsNewest
<1>13. EmittedForACause'
  BY <1>1, <1>4, <1>6 DEF IInv, EmittedForACause
<1>14. HeldSinceFlush'
  BY <1>1, <1>5 DEF IInv, HeldSinceFlush
<1>15. LostExactlyIfLate'
  BY <1>6, AcceptKeepsLost
<1>16. StragglerWindowIsOnePacket'
  <2>1. \A r \in records : r.events \subseteq 1 .. n
    BY <1>1 DEF RecordsOK
  <2>2. ASSUME NEW r \in records, NEW p \in r.events,
               NEW q \in Accepted', q < p, log[q].index > r.window
        PROVE  q \in Accepted /\ arrived[q].index > r.window
    <3>1. p \in 1 .. n
      BY <2>1
    <3>2. q \in Accepted
      BY <1>1, <1>6, <2>2, <3>1
    <3> QED
      BY <1>1, <2>2, <3>2
  <2>3. StragglerWindowIsOnePacket
    BY DEF IInv
  <2>4. arrived' = log /\ records' = records
    BY <1>1, <1>2
  <2> HIDE DEF log
  <2> QED
    BY <2>2, <2>3, <2>4 DEF StragglerWindowIsOnePacket
<1> QED
  BY <1>7, <1>9, <1>10, <1>11, <1>12, <1>13, <1>14, <1>15, <1>16 DEF IInv

\* The case of a newer window.
LEMMA NewerKeepsIInv ==
  ASSUME IInv, NEW e \in Packet, Add(e), ~IsLate(e), e.index > max_index
  PROVE  IInv'
<1> DEFINE n    == Len(arrived)
           log  == Append(arrived, e)
           held == Put(buckets, e.index, n + 1)
<1>1. /\ arrived' = log /\ flushed' = flushed
      /\ n \in Nat /\ Len(log) = n + 1 /\ log[n + 1] = e
      /\ Extends(log)
      /\ \A q \in 1 .. n : log[q] = arrived[q] /\ arrived[q].index \in Int
      /\ Held \subseteq 1 .. n /\ Emitted \subseteq 1 .. n /\ Accepted \subseteq 1 .. n
      /\ flushed \subseteq 0 .. n
      /\ max_index \in Int /\ closed_below \in Nat
      /\ e.index \in Int /\ closed_below <= e.index
      /\ RecordsOK
  BY AcceptFacts
<1>2. /\ max_index' = e.index
      /\ DOMAIN buckets' = {e.index} /\ buckets' \in [{e.index} -> {{n + 1}}]
      /\ \/ /\ DOMAIN buckets = {}
            /\ closed_below' = closed_below /\ records' = records
         \/ /\ DOMAIN buckets = {max_index}
            /\ closed_below' = max_index + 1
            /\ held[max_index] = buckets[max_index]
            /\ records' = records \cup RecordsOf(held, log, max_index)
  BY NewerEffect
<1> HIDE DEF log, held
<1>3. buckets'[e.index] = {n + 1}
  BY <1>2
<1>4. Held' = {n + 1}
  BY <1>2, <1>3 DEF Held
<1>5. \A p \in Held : arrived[p].index = max_index
  BY DEF IInv, CountedOnce, Held, OnlyNewestOpen
<1>6. /\ RecordsOK' /\ Emitted' = Emitted \cup Held /\ closed_below' <= e.index
      /\ \A r \in records' : r \notin records => r.window = max_index /\ r.events \subseteq Held
  <2>1. CASE DOMAIN buckets = {}
    <3>1. closed_below' = closed_below /\ records' = records
      BY <1>2, <2>1
    <3>2. Held = {}
      BY <2>1 DEF Held
    <3> QED
      BY <1>1, <3>1, <3>2, EmitNoWindow
  <2>2. CASE DOMAIN buckets = {max_index}
    <3>1. /\ closed_below' = max_index + 1
          /\ held[max_index] = buckets[max_index]
          /\ records' = records \cup RecordsOf(held, log, max_index)
      BY <1>2, <2>2
    <3>2. held[max_index] = Held
      BY <2>2, <3>1 DEF Held
    <3>3. closed_below <= max_index /\ Held # {}
      BY <2>2, <3>1, <3>2 DEF IInv, OpenIsLive
    <3>4. /\ held[max_index] \subseteq 1 .. Len(log) /\ held[max_index] # {}
          /\ \A p \in held[max_index] : log[p].index = max_index
      <4>1. Held \subseteq 1 .. Len(log)
        BY <1>1
      <4>2. \A p \in Held : log[p] = arrived[p]
        BY <1>1
      <4> QED
        BY <1>5, <3>2, <3>3, <4>1, <4>2
    <3>5. RecordsOK' /\ Emitted' = Emitted \cup held[max_index]
      <4>1. /\ arrived' = log /\ Extends(log) /\ RecordsOK
            /\ max_index \in Int /\ closed_below \in Nat
        BY <1>1
      <4> QED
        BY <3>1, <3>3, <3>4, <4>1, EmitOneWindow
    <3>6. \A r \in RecordsOf(held, log, max_index) : r.window = max_index /\ r.events \subseteq Held
      BY <3>2 DEF RecordsOf
    <3> QED
      BY <1>1, <3>1, <3>2, <3>5, <3>6
  <2> QED
    BY <1>2, <2>1, <2>2
<1>7. Accepted' = Accepted \cup {n + 1}
  BY <1>4, <1>6 DEF Accepted
<1>8. TypeOK'
  <2>1. {n + 1} \subseteq 1 .. Len(log)
    BY <1>1
  <2>2. buckets' \in [DOMAIN buckets' -> SUBSET (1 .. Len(log))]
    BY <1>2, <2>1
  <2>3. flushed \subseteq Nat
    BY DEF IInv, TypeOK
  <2> QED
    BY <1>1, <1>2, <1>6, <2>2, <2>3 DEF TypeOK, RecordsOK, Extends
<1>9. CountedOnce'
  <2>1. \A i \in DOMAIN buckets' : \A p \in buckets'[i] : log[p].index = i
    BY <1>1, <1>2, <1>3
  <2>2. Held' \cap Emitted' = {}
    BY <1>1, <1>4, <1>6
  <2> QED
    BY <1>1, <1>6, <2>1, <2>2 DEF CountedOnce, RecordsOK
<1>10. OnlyNewestOpen' /\ OpenIsLive'
  BY <1>2, <1>3, <1>6 DEF OnlyNewestOpen, OpenIsLive
<1>11. RecordsBelowMark' /\ OneRecordPerHostWindow' /\ MarkIsARecord'
  BY <1>6 DEF RecordsOK
<1>12. NewestIsAccepted'
  BY <1>7, AcceptKeepsNewest
<1>13. EmittedForACause'
  <2>1. \A q \in Emitted : \/ \E s \in Accepted' : log[s].index > log[q].index
                           \/ \E k \in flushed' : q <= k
    BY <1>1, <1>7 DEF IInv, EmittedForACause
  <2>2. \A q \in Held : log[n + 1].index > log[q].index
    BY <1>1, <1>5
  <2> QED
    BY <1>1, <1>6, <1>7, <2>1, <2>2 DEF EmittedForACause
<1>14. HeldSinceFlush'
  <2>1. flushed' \subseteq 0 .. Len(log) /\ \A k \in flushed' : k < n + 1
    BY <1>1
  <2> QED
    BY <1>1, <1>4, <2>1 DEF HeldSinceFlush
<1>15. LostExactlyIfLate'
  BY <1>7, AcceptKeepsLost
<1>16. StragglerWindowIsOnePacket'
  <2>1. \A r \in records : r.events \subseteq 1 .. n
    BY <1>1 DEF RecordsOK
  <2>2. ASSUME NEW r \in records', NEW p \in r.events,
               NEW q \in Accepted', q < p, log[q].index > r.window,
               NEW r2 \in records', r2.window = r.window
        PROVE  r2.events = {p}
    <3>1. p \in 1 .. n
      BY <1>1, <1>6, <2>1
    <3>2. q \in Accepted
      BY <1>1, <1>7, <2>2, <3>1
    <3>3. arrived[q].index > r.window /\ arrived[q].index <= max_index
      BY <1>1, <2>2, <3>2 DEF IInv, NewestIsAccepted
    <3>4. r.window # max_index
      BY <1>1, <3>2, <3>3
    <3>5. r \in records /\ r2 \in records
      BY <1>6, <2>2, <3>4
    <3> QED
      BY <2>2, <3>2, <3>3, <3>5 DEF IInv, StragglerWindowIsOnePacket
  <2> QED
    BY <1>1, <2>2 DEF StragglerWindowIsOnePacket
<1> QED
  BY <1>8, <1>9, <1>10, <1>11, <1>12, <1>13, <1>14, <1>15, <1>16 DEF IInv

\* add() keeps the invariant.
LEMMA AddKeepsIInv ==
  ASSUME IInv, NEW e \in Packet, Add(e)
  PROVE  IInv'
<1>1. e.index \in Int /\ max_index \in Int
  BY PacketAssumption DEF IInv, TypeOK
<1>2. e.index < max_index \/ e.index = max_index \/ e.index > max_index
  BY <1>1
<1> QED
  BY <1>2, LateKeepsIInv, StragglerKeepsIInv, CurrentKeepsIInv, NewerKeepsIInv

\* A flush closes the open window, if there is one.
LEMMA FlushEffect ==
  ASSUME IInv, FlushAll
  PROVE  /\ DOMAIN buckets' = {} /\ arrived' = arrived /\ max_index' = max_index
         /\ flushed' = flushed \cup {Len(arrived)}
         /\ \/ /\ DOMAIN buckets = {}
               /\ closed_below' = closed_below /\ records' = records
            \/ /\ DOMAIN buckets = {max_index}
               /\ closed_below' = max_index + 1
               /\ records' = records \cup RecordsOf(buckets, arrived, max_index)
<1>1. /\ arrived' = arrived /\ max_index' = max_index
      /\ flushed' = flushed \cup {Len(arrived)}
  BY DEF FlushAll
<1>2. DOMAIN buckets' = {}
  BY DEF FlushAll, Emit
<1>3. closed_below \in Nat /\ max_index \in Int
  BY DEF IInv, TypeOK
<1>4. CASE DOMAIN buckets = {}
  <2>1. closed_below' = closed_below
    BY <1>3, <1>4, ClosedAfterNone DEF FlushAll, Emit
  <2>2. records' = records
    BY <1>4 DEF FlushAll, Emit
  <2> QED
    BY <1>1, <1>2, <1>4, <2>1, <2>2
<1>5. CASE DOMAIN buckets = {max_index}
  <2>1. closed_below <= max_index
    BY <1>5 DEF IInv, OpenIsLive
  <2>2. closed_below' = max_index + 1
    BY <1>3, <1>5, <2>1, ClosedAfterOne DEF FlushAll, Emit
  <2>3. UNION {RecordsOf(buckets, arrived, i) : i \in {max_index}}
          = RecordsOf(buckets, arrived, max_index)
    OBVIOUS
  <2>4. records' = records \cup RecordsOf(buckets, arrived, max_index)
    BY <1>5, <2>3 DEF FlushAll, Emit
  <2> QED
    BY <1>1, <1>2, <1>5, <2>2, <2>4
<1> QED
  BY <1>4, <1>5 DEF IInv, OnlyNewestOpen

\* flush_all() keeps the invariant.
LEMMA FlushKeepsIInv ==
  ASSUME IInv, FlushAll
  PROVE  IInv'
<1> DEFINE n == Len(arrived)
<1>1. /\ DOMAIN buckets' = {} /\ arrived' = arrived /\ max_index' = max_index
      /\ flushed' = flushed \cup {n}
      /\ \/ /\ DOMAIN buckets = {}
            /\ closed_below' = closed_below /\ records' = records
         \/ /\ DOMAIN buckets = {max_index}
            /\ closed_below' = max_index + 1
            /\ records' = records \cup RecordsOf(buckets, arrived, max_index)
  BY FlushEffect
<1>2. /\ n \in Nat /\ max_index \in Int /\ closed_below \in Nat
      /\ arrived \in Seq(Packet) /\ Extends(arrived) /\ RecordsOK
      /\ flushed \subseteq 0 .. n /\ flushed \subseteq Nat
      /\ Held \subseteq 1 .. n /\ Emitted \subseteq 1 .. n /\ Accepted \subseteq 1 .. n
  BY DEF IInv, TypeOK, CountedOnce, RecordsOK, Extends, HeldSinceFlush, Accepted, Held, Emitted
<1>3. \A p \in Held : arrived[p].index = max_index
  BY DEF IInv, CountedOnce, Held, OnlyNewestOpen
<1>4. Held' = {}
  BY <1>1 DEF Held
<1>5. /\ RecordsOK' /\ Emitted' = Emitted \cup Held
      /\ \A r \in records' : r \notin records => r.window = max_index /\ r.events \subseteq Held
  <2>1. CASE DOMAIN buckets = {}
    <3>1. closed_below' = closed_below /\ records' = records
      BY <1>1, <2>1
    <3>2. Held = {}
      BY <2>1 DEF Held
    <3> QED
      BY <1>1, <1>2, <3>1, <3>2, EmitNoWindow
  <2>2. CASE DOMAIN buckets = {max_index}
    <3>1. /\ closed_below' = max_index + 1
          /\ records' = records \cup RecordsOf(buckets, arrived, max_index)
      BY <1>1, <2>2
    <3>2. buckets[max_index] = Held
      BY <2>2 DEF Held
    <3>3. closed_below <= max_index /\ Held # {}
      BY <2>2, <3>2 DEF IInv, OpenIsLive
    <3>4. /\ buckets[max_index] \subseteq 1 .. Len(arrived) /\ buckets[max_index] # {}
          /\ \A p \in buckets[max_index] : arrived[p].index = max_index
      BY <1>2, <1>3, <3>2, <3>3
    <3>5. RecordsOK' /\ Emitted' = Emitted \cup buckets[max_index]
      BY <1>1, <1>2, <3>1, <3>3, <3>4, EmitOneWindow
    <3>6. \A r \in RecordsOf(buckets, arrived, max_index) :
            r.window = max_index /\ r.events \subseteq Held
      BY <3>2 DEF RecordsOf
    <3> QED
      BY <3>1, <3>2, <3>5, <3>6
  <2> QED
    BY <2>1, <2>2 DEF IInv, OnlyNewestOpen
<1>6. Accepted' = Accepted
  BY <1>4, <1>5 DEF Accepted
<1>7. TypeOK'
  <2>1. flushed \cup {n} \subseteq Nat
    BY <1>2
  <2>2. buckets' \in [DOMAIN buckets' -> SUBSET (1 .. n)]
    <3>1. buckets' = [i \in {} |-> {}]
      BY <1>1 DEF FlushAll, Emit
    <3> QED
      BY <1>1, <3>1
  <2> QED
    BY <1>1, <1>2, <1>5, <2>1, <2>2 DEF TypeOK, RecordsOK
<1>8. CountedOnce'
  BY <1>1, <1>4, <1>5 DEF CountedOnce, RecordsOK
<1>9. OnlyNewestOpen' /\ OpenIsLive'
  BY <1>1 DEF OnlyNewestOpen, OpenIsLive
<1>10. RecordsBelowMark' /\ OneRecordPerHostWindow' /\ MarkIsARecord'
  BY <1>5 DEF RecordsOK
<1>11. NewestIsAccepted'
  BY <1>1, <1>6 DEF IInv, NewestIsAccepted
<1>12. EmittedForACause'
  <2>1. \A q \in Emitted : \/ \E s \in Accepted' : arrived[s].index > arrived[q].index
                           \/ \E k \in flushed' : q <= k
    BY <1>1, <1>6 DEF IInv, EmittedForACause
  <2>2. \A q \in Held : q <= n
    BY <1>2
  <2> QED
    BY <1>1, <1>5, <1>6, <2>1, <2>2 DEF EmittedForACause
<1>13. HeldSinceFlush'
  <2>1. flushed \cup {n} \subseteq 0 .. n
    <3>1. n \in 0 .. n
      BY <1>2
    <3> QED
      BY <1>2, <3>1
  <2> QED
    BY <1>1, <1>4, <2>1 DEF HeldSinceFlush
<1>14. LostExactlyIfLate'
  <2>1. \A q \in Accepted' : q <= n => q \in Accepted
    BY <1>6
  <2>2. flushed' \subseteq Nat /\ flushed \subseteq flushed'
    BY <1>1, <1>2
  <2>3. \A k \in flushed' : k < n => k \in flushed
    BY <1>1, <1>2
  <2>4. \A p \in 1 .. n : p \notin Accepted' <=> LateIn(arrived, Accepted', flushed', p)
    BY <1>1, <1>2, <1>6, <2>1, <2>2, <2>3, FateIsSettled
  <2> QED
    BY <1>1, <2>4 DEF LostExactlyIfLate, Late, LateIn
<1>15. StragglerWindowIsOnePacket'
  <2>1. ASSUME NEW r \in records', NEW p \in r.events,
               NEW q \in Accepted, q < p, arrived[q].index > r.window,
               NEW r2 \in records', r2.window = r.window
        PROVE  r2.events = {p}
    <3>1. arrived[q].index <= max_index
      BY DEF IInv, NewestIsAccepted
    <3>2. arrived[q].index \in Int
      <4>1. arrived[q] \in Packet
        BY <1>2
      <4> QED
        BY <4>1, PacketAssumption
    <3>3. r.window # max_index
      BY <1>2, <2>1, <3>1, <3>2
    <3>4. r \in records /\ r2 \in records
      BY <1>5, <2>1, <3>3
    <3> QED
      BY <2>1, <3>4 DEF IInv, StragglerWindowIsOnePacket
  <2> QED
    BY <1>1, <1>6, <2>1 DEF StragglerWindowIsOnePacket
<1> QED
  BY <1>7, <1>8, <1>9, <1>10, <1>11, <1>12, <1>13, <1>14, <1>15 DEF IInv

\* Every step keeps the invariant.
LEMMA NextKeepsIInv == IInv /\ [Next]_vars => IInv'
<1> SUFFICES ASSUME IInv, [Next]_vars PROVE IInv'
  OBVIOUS
<1>1. CASE \E e \in Packet : Add(e)
  BY <1>1, AddKeepsIInv
<1>2. CASE FlushAll
  BY <1>2, FlushKeepsIInv
<1>3. CASE UNCHANGED vars
  <2> USE <1>3 DEF vars
  <2>1. Held' = Held /\ Emitted' = Emitted /\ Accepted' = Accepted
    BY DEF Held, Emitted, Accepted
  <2>2. TypeOK'
    BY DEF IInv, TypeOK
  <2>3. OnlyNewestOpen' /\ OpenIsLive' /\ RecordsBelowMark' /\ OneRecordPerHostWindow'
    BY DEF IInv, OnlyNewestOpen, OpenIsLive, RecordsBelowMark, OneRecordPerHostWindow
  <2>4. CountedOnce' /\ MarkIsARecord' /\ HeldSinceFlush'
    BY <2>1 DEF IInv, CountedOnce, MarkIsARecord, HeldSinceFlush
  <2>5. NewestIsAccepted' /\ EmittedForACause'
    BY <2>1 DEF IInv, NewestIsAccepted, EmittedForACause
  <2>6. LostExactlyIfLate'
    BY <2>1 DEF IInv, LostExactlyIfLate, Late
  <2>7. StragglerWindowIsOnePacket'
    BY <2>1 DEF IInv, StragglerWindowIsOnePacket
  <2> QED
    BY <2>2, <2>3, <2>4, <2>5, <2>6, <2>7 DEF IInv
<1> QED
  BY <1>1, <1>2, <1>3 DEF Next

-----------------------------------------------------------------------------
(* The theorems.                                                           *)

\* The inductive invariant holds in every reachable state of the aggregator.
THEOREM Invariance == Spec => []IInv
<1>1. Init => IInv
  BY InitIInv
<1>2. IInv /\ [Next]_vars => IInv'
  BY NextKeepsIInv
<1> QED
  BY <1>1, <1>2, PTL DEF Spec

\* Every variable keeps its type (containers/defender/features/windows.py).
THEOREM TypeCorrect == Spec => []TypeOK
<1>1. IInv => TypeOK
  BY DEF IInv
<1> QED
  BY <1>1, Invariance, PTL

\* No captured packet is counted in two feature records, or in a record and
\* in an open window.
THEOREM PacketsCountedOnce == Spec => []CountedOnce
<1>1. IInv => CountedOnce
  BY DEF IInv
<1> QED
  BY <1>1, Invariance, PTL

\* _emit() never returns two records for one host and window.
THEOREM HostsRecordedOnce == Spec => []OneRecordPerHostWindow
<1>1. IInv => OneRecordPerHostWindow
  BY DEF IInv
<1> QED
  BY <1>1, Invariance, PTL

\* add() leaves at most the newest window open.
THEOREM OneWindowOpen == Spec => []OnlyNewestOpen
<1>1. IInv => OnlyNewestOpen
  BY DEF IInv
<1> QED
  BY <1>1, Invariance, PTL

\* The packets add() drops are exactly those that come after their window.
THEOREM LossIsLateness == Spec => []LostExactlyIfLate
<1>1. IInv => LostExactlyIfLate
  BY DEF IInv
<1> QED
  BY <1>1, Invariance, PTL

\* A straggler's window is emitted with that one packet.
THEOREM StragglersAreAlone == Spec => []StragglerWindowIsOnePacket
<1>1. IInv => StragglerWindowIsOnePacket
  BY DEF IInv
<1> QED
  BY <1>1, Invariance, PTL

\* Records of later calls are of later windows: what is emitted was not below
\* the mark, and everything emitted before is.
LEMMA NewRecordsAreLater ==
  ASSUME IInv, [Next]_vars, NEW r \in records, NEW new \in records' \ records
  PROVE  r.window < new.window
<1>1. r.window < closed_below /\ r.window \in Int /\ closed_below \in Nat /\ max_index \in Int
  BY DEF IInv, RecordsBelowMark, TypeOK
<1>2. SUFFICES new.window \in Int /\ closed_below <= new.window
  BY <1>1
<1>3. \A held, log, w : \A x \in RecordsOf(held, log, w) : x.window = w
  BY DEF RecordsOf
<1>4. DOMAIN buckets = {max_index} => closed_below <= max_index
  BY DEF IInv, OpenIsLive
<1>5. CASE \E e \in Packet : Add(e)
  <2>1. PICK e \in Packet : Add(e)
    BY <1>5
  <2>2. ~IsLate(e)
    BY <2>1 DEF Add
  <2>3. e.index \in Int /\ closed_below <= e.index
    BY <2>1, <2>2, AcceptFacts
  <2> DEFINE held == Put(buckets, e.index, Len(arrived) + 1)
             log  == Append(arrived, e)
  <2>4. CASE e.index < max_index
    <3>1. records' = records \cup RecordsOf(held, log, e.index)
      BY <2>1, <2>2, <2>4, StragglerEffect
    <3> HIDE DEF held, log
    <3> QED
      BY <1>3, <2>3, <3>1
  <2>5. CASE e.index = max_index
    BY <2>1, <2>2, <2>5, CurrentEffect
  <2>6. CASE e.index > max_index
    <3>1. \/ records' = records
          \/ /\ DOMAIN buckets = {max_index}
             /\ records' = records \cup RecordsOf(held, log, max_index)
      BY <2>1, <2>2, <2>6, NewerEffect
    <3> HIDE DEF held, log
    <3> QED
      BY <1>1, <1>3, <1>4, <3>1
  <2> QED
    BY <1>1, <2>3, <2>4, <2>5, <2>6
<1>6. CASE FlushAll
  <2>1. /\ DOMAIN buckets = {max_index}
        /\ new \in RecordsOf(buckets, arrived, max_index)
    BY <1>6, FlushEffect
  <2> QED
    BY <1>1, <1>3, <1>4, <2>1
<1>7. CASE UNCHANGED vars
  BY <1>7 DEF vars
<1> QED
  BY <1>5, <1>6, <1>7 DEF Next

\* Feature records leave the aggregator in window order.
THEOREM WindowsLeaveInOrder == Spec => RecordsInWindowOrder
<1>1. IInv /\ [Next]_vars
        => [\A r \in records, new \in records' \ records : r.window < new.window]_vars
  BY NewRecordsAreLater
<1> QED
  BY <1>1, Invariance, PTL DEF Spec, RecordsInWindowOrder
=============================================================================
