------------------------- MODULE DefenderLoopProofs -------------------------
(***************************************************************************)
(* The safety properties of the defender process, for both transports, any *)
(* traffic, and any number of starts, stops and deaths.  What its          *)
(* aggregator promises is taken from WindowAggregatorProofs.               *)
(***************************************************************************)
EXTENDS DefenderLoop, SequenceTheorems, TLAPS

Agg == INSTANCE WindowAggregatorProofs WITH
         Src <- Hosts, Packet <- Event, MaxArrivals <- MaxPackets

\* Where the process is in the topic: the batch is what was polled last, up to
\* the cursor, and the aggregator was given packets of before it, in their order.
InOrder ==
  /\ \A i \in 1 .. Len(batch) : batch[i] = cursor - Len(batch) + i
  /\ \A p \in 1 .. Len(arrived) :
       arrived[p].pos \in 1 .. Len(capture) /\ arrived[p].pos <= cursor - Len(batch)
  /\ \A p, q \in 1 .. Len(arrived) : p < q => arrived[p].pos < arrived[q].pos

\* A process that has not sought yet has read nothing.
SeeksFirst ==
  phase = "seek" =>
    cursor = FirstPosition /\ batch = << >> /\ todo = {} /\ arrived = << >> /\ records = {}

\* The tail is flushed before the drain.
FlushedBeforeDrain == phase = "drain" => batch = << >> /\ DOMAIN buckets = {}

\* What the sink makes of a record of this run.
HandledOf(r) ==
  [run |-> run, window |-> r.window, src |-> r.src, packets |-> Positions(r),
   outcome |-> IF mode = "detect" THEN OutcomeInDetect(r) ELSE "row"]

\* What this run handled are its records but those still to do.
HandledAreRecords ==
  /\ \A h \in handled : h.run <= run
  /\ \A h \in handled : h.run = run => \E r \in records : h = HandledOf(r)
  /\ \A r \in records \ todo : HandledOf(r) \in handled

\* A run that sought reads on after all that earlier runs handled.
PastRunsAreBehind ==
  env.seek /\ phase \in {"loop", "drain"} =>
    \A h \in handled : h.run < run =>
      \A i \in h.packets :
        /\ cursor = Unassigned \/ i <= cursor - Len(batch)
        /\ \A p \in 1 .. Len(arrived) : i < arrived[p].pos

IInv ==
  /\ TypeOK
  /\ Len(capture) <= MaxPackets
  /\ Agg!IInv
  /\ InOrder
  /\ SeeksFirst
  /\ FlushedBeforeDrain
  /\ HandledAreRecords
  /\ PastRunsAreBehind
  /\ NoPacketHandledTwice
  /\ OneAlertPerClientWindow
  /\ EveryPolledPacketIsSomewhere

-----------------------------------------------------------------------------
(* What the aggregator's proofs say of the instance the process runs.      *)

\* What the aggregator's module assumes of its packets holds of the events of the loop.
LEMMA EventsAreEvents ==
  (\A e \in Event : e.index \in Int /\ e.src \in Hosts) /\ MaxPackets \in Nat
  BY IndicesAssumption, BoundsAssumption DEF Event

\* A new aggregator satisfies the invariant, now and after a step.
LEMMA FreshAggregator == Agg!Init => Agg!IInv
  BY EventsAreEvents, Agg!InitIInv

\* The same of the next state, for the start of a run.
LEMMA FreshAggregatorNext == Agg!Init' => Agg!IInv'
  BY FreshAggregator, PTL

\* WindowAggregator()
LEMMA NewEffect ==
  ASSUME W!New
  PROVE  Agg!IInv' /\ arrived' = << >> /\ records' = {}
<1>1. Agg!Init'
  BY DEF W!New, W!FreshClosedBelow, Agg!Init, Agg!FreshClosedBelow
<1> QED
  BY <1>1, FreshAggregatorNext DEF W!New

\* add()
LEMMA AddEffect ==
  ASSUME Agg!IInv, NEW e \in Event, W!Add(e)
  PROVE  Agg!IInv' /\ arrived' = Append(arrived, e) /\ records \subseteq records'
<1>1. Agg!Add(e)
  BY DEF W!Add, W!Put, W!IsLate, W!Newest, W!Emit, W!RecordsOf, W!ClosedAfter, W!Max,
         Agg!Add, Agg!Put, Agg!IsLate, Agg!Newest, Agg!Emit, Agg!RecordsOf, Agg!ClosedAfter, Agg!Max
<1>2. Agg!IInv'
  BY <1>1, EventsAreEvents, Agg!AddKeepsIInv
<1> QED
  BY <1>2 DEF W!Add, W!Emit

\* flush_all()
LEMMA FlushEffect ==
  ASSUME Agg!IInv, W!FlushAll
  PROVE  Agg!IInv' /\ arrived' = arrived /\ records \subseteq records' /\ DOMAIN buckets' = {}
<1>1. Agg!FlushAll
  BY DEF W!FlushAll, W!Emit, W!RecordsOf, W!ClosedAfter, W!Max,
         Agg!FlushAll, Agg!Emit, Agg!RecordsOf, Agg!ClosedAfter, Agg!Max
<1>2. Agg!IInv'
  BY <1>1, EventsAreEvents, Agg!FlushKeepsIInv
<1> QED
  BY <1>2 DEF W!FlushAll, W!Emit

\* Between its calls nothing happens to the aggregator.
LEMMA IdleEffect ==
  ASSUME Agg!IInv, UNCHANGED aggregator
  PROVE  Agg!IInv'
<1>1. UNCHANGED Agg!vars
  BY DEF aggregator, Agg!vars
<1> QED
  BY <1>1, EventsAreEvents, Agg!NextKeepsIInv

\* The promises the process relies on.
LEMMA AggregatorPromises ==
  ASSUME Agg!IInv
  PROVE  /\ arrived \in Seq(Event)
         /\ records \subseteq [window : Int, src : Hosts, events : SUBSET (1 .. Len(arrived))]
         /\ \A r1, r2 \in records : r1.events \cap r2.events # {} => r1 = r2
         /\ \A r1, r2 \in records : r1.window = r2.window /\ r1.src = r2.src => r1 = r2
         /\ \A p \in 1 .. Len(arrived) :
              W!Late(p) \/ (\E i \in DOMAIN buckets : p \in buckets[i])
                        \/ (\E r \in records : p \in r.events)
<1>1. \A p \in 1 .. Len(arrived) : p \notin Agg!Accepted => W!Late(p)
  BY DEF Agg!IInv, Agg!LostExactlyIfLate, Agg!Late, W!Late, Agg!Accepted, W!Accepted,
         Agg!Held, W!Held, Agg!Emitted, W!Emitted
<1> QED
  BY <1>1 DEF Agg!IInv, Agg!TypeOK, Agg!CountedOnce, Agg!OneRecordPerHostWindow,
              Agg!Accepted, Agg!Held, Agg!Emitted

-----------------------------------------------------------------------------
(* What a step does to what earlier records were made from.                *)

\* Topic, arrivals and records only grow, within a run.
Grows ==
  /\ UNCHANGED <<env, run, mode>>
  /\ Len(capture) <= Len(capture') /\ \A i \in 1 .. Len(capture) : capture'[i] = capture[i]
  /\ Len(arrived) <= Len(arrived') /\ \A p \in 1 .. Len(arrived) : arrived'[p] = arrived[p]
  /\ records \subseteq records'

\* The head of the batch is an event of the topic, at the place the cursor says.
LEMMA EventOfBatch ==
  ASSUME IInv, batch # << >>
  PROVE  /\ Head(batch) = cursor - Len(batch) + 1 /\ Head(batch) \in 1 .. Len(capture)
         /\ [index |-> capture[Head(batch)].index, src |-> capture[Head(batch)].src,
              pos |-> Head(batch)] \in Event
<1>1. batch \in Seq(1 .. Len(capture)) /\ capture \in Seq(Packet) /\ Len(capture) <= MaxPackets
  BY DEF IInv, TypeOK
<1>2. Len(batch) \in Nat \ {0} /\ Head(batch) = batch[1] /\ Head(batch) \in 1 .. Len(capture)
  BY <1>1
<1>3. capture[Head(batch)] \in Packet
  BY <1>1, <1>2
<1>4. Head(batch) \in 1 .. MaxPackets
  BY <1>1, <1>2, EventsAreEvents
<1> QED
  BY <1>2, <1>3, <1>4 DEF IInv, InOrder, Event, Packet

\* One packet of the batch goes to the aggregator.
LEMMA AddEventEffect ==
  ASSUME IInv, AddEvent
  PROVE  /\ Agg!IInv' /\ records \subseteq records'
         /\ Len(arrived') = Len(arrived) + 1
         /\ \A p \in 1 .. Len(arrived) : arrived'[p] = arrived[p]
         /\ arrived'[Len(arrived) + 1].pos = Head(batch)
         /\ batch' = Tail(batch) /\ Len(batch') = Len(batch) - 1
         /\ \A i \in 1 .. Len(batch') : batch'[i] = batch[i + 1]
<1> DEFINE e == [index |-> capture[Head(batch)].index, src |-> capture[Head(batch)].src,
                 pos |-> Head(batch)]
<1>1. e \in Event
  BY EventOfBatch DEF AddEvent
<1>2. W!Add(e)
  BY DEF AddEvent
<1>3. Agg!IInv' /\ arrived' = Append(arrived, e) /\ records \subseteq records'
  BY <1>1, <1>2, AddEffect DEF IInv
<1>4. arrived \in Seq(Event)
  BY AggregatorPromises DEF IInv
<1>5. e.pos = Head(batch)
  OBVIOUS
<1> HIDE DEF e
<1>6. batch \in Seq(1 .. Len(capture)) /\ batch # << >> /\ batch' = Tail(batch)
  BY DEF IInv, TypeOK, AddEvent
<1>7. /\ Len(arrived') = Len(arrived) + 1
      /\ \A p \in 1 .. Len(arrived) : arrived'[p] = arrived[p]
      /\ arrived'[Len(arrived) + 1] = e
  BY <1>1, <1>3, <1>4, AppendProperties
<1>8. Len(batch') = Len(batch) - 1 /\ \A i \in 1 .. Len(batch') : batch'[i] = batch[i + 1]
  BY <1>6, HeadTailProperties
<1> QED
  BY <1>3, <1>5, <1>6, <1>7, <1>8

\* The sensor adds one packet to the topic.
LEMMA PublishEffect ==
  ASSUME IInv, NEW packet \in Packet, Publish(packet)
  PROVE  /\ capture' \in Seq(Packet) /\ Len(capture') = Len(capture) + 1
         /\ Len(capture') <= MaxPackets
         /\ \A i \in 1 .. Len(capture) : capture'[i] = capture[i]
<1>1. capture \in Seq(Packet) /\ capture' = Append(capture, packet) /\ Len(capture) < MaxPackets
  BY DEF IInv, TypeOK, Publish
<1> QED
  BY <1>1, AppendProperties, EventsAreEvents

\* No step but a start forgets anything.
LEMMA StepGrows ==
  ASSUME IInv, [Next]_vars
  PROVE  Start \/ Grows
<1>1. Len(capture) \in Nat /\ Len(arrived) \in Nat
  BY AggregatorPromises DEF IInv, TypeOK
<1>2. ASSUME NEW packet \in Packet, Publish(packet) PROVE Grows
  BY <1>1, <1>2, PublishEffect DEF Publish, Grows, process, aggregator
<1>3. CASE AddEvent
  BY <1>1, <1>3, AddEventEffect DEF AddEvent, Grows
<1>4. CASE IdleFlush
  BY <1>1, <1>4, FlushEffect DEF IdleFlush, Grows, IInv
<1>5. CASE Shutdown
  BY <1>1, <1>5, FlushEffect DEF Shutdown, Grows, IInv
<1>6. CASE Seek \/ Poll \/ Terminate \/ Exit \/ Die
  BY <1>1, <1>6 DEF Seek, Poll, Terminate, Exit, Die, Grows, aggregator
<1>7. ASSUME NEW r \in todo, HandleRecord(r) PROVE Grows
  BY <1>1, <1>7 DEF HandleRecord, Grows, aggregator
<1>8. CASE UNCHANGED vars
  BY <1>1, <1>8 DEF vars, process, aggregator, Grows
<1> QED
  BY <1>2, <1>3, <1>4, <1>5, <1>6, <1>7, <1>8 DEF Next

\* What a record becomes in the sink does not change while the run goes on.
LEMMA HandledOfIsStable ==
  ASSUME IInv, Grows, NEW r \in records
  PROVE  /\ \A p \in r.events : p \in 1 .. Len(arrived) /\ arrived[p].pos \in 1 .. Len(capture)
         /\ Positions(r)' = Positions(r) /\ Positions(r) \subseteq 1 .. Len(capture)
         /\ HandledOf(r)' = HandledOf(r)
<1>1. \A p \in r.events : p \in 1 .. Len(arrived)
  BY AggregatorPromises DEF IInv
<1>2. \A p \in r.events : arrived[p].pos \in 1 .. Len(capture) /\ arrived'[p] = arrived[p]
  BY <1>1 DEF IInv, InOrder, Grows
<1>3. Positions(r)' = Positions(r) /\ Positions(r) \subseteq 1 .. Len(capture)
  BY <1>2 DEF Positions
<1>4. \A i \in Positions(r) : capture'[i] = capture[i]
  BY <1>3 DEF Grows
<1>5. IsAttack(r)' <=> IsAttack(r)
  BY <1>3, <1>4 DEF IsAttack
<1> QED
  BY <1>1, <1>2, <1>3, <1>5 DEF HandledOf, OutcomeInDetect, Grows

-----------------------------------------------------------------------------
(* One lemma per part of the invariant.                                    *)

AggregatorInv == Len(capture) <= MaxPackets /\ Agg!IInv

\* Every step keeps the aggregator's own invariant.
LEMMA AggregatorKept ==
  ASSUME IInv, [Next]_vars
  PROVE  AggregatorInv'
<1> USE DEF AggregatorInv
<1>1. ASSUME NEW packet \in Packet, Publish(packet) PROVE AggregatorInv'
  BY <1>1, PublishEffect, IdleEffect DEF Publish, IInv
<1>2. CASE Start
  BY <1>2, NewEffect DEF Start, IInv
<1>3. CASE AddEvent
  BY <1>3, AddEventEffect DEF AddEvent, IInv
<1>4. CASE IdleFlush \/ Shutdown
  BY <1>4, FlushEffect DEF IdleFlush, Shutdown, IInv
<1>5. CASE Seek \/ Poll \/ Terminate \/ Exit \/ Die \/ (\E r \in todo : HandleRecord(r))
  BY <1>5, IdleEffect DEF Seek, Poll, Terminate, Exit, Die, HandleRecord, IInv
<1>6. CASE UNCHANGED vars
  BY <1>6, IdleEffect DEF vars, IInv
<1> QED
  BY <1>1, <1>2, <1>3, <1>4, <1>5, <1>6 DEF Next

\* A poll returns the packets from the cursor to its new place.
LEMMA PollEffect ==
  ASSUME IInv, NEW pos \in Unassigned .. Len(capture), PollTo(pos)
  PROVE  /\ cursor # Unassigned => pos >= cursor
         /\ Polled(pos) \in Seq(1 .. Len(capture))
         /\ Len(Polled(pos)) = IF cursor = Unassigned THEN 0 ELSE pos - cursor
         /\ \A i \in 1 .. Len(Polled(pos)) : Polled(pos)[i] = cursor + i
         /\ PassedOver(pos) \subseteq [run : Runs, packet : 1 .. Len(capture)]
<1>1. /\ Len(capture) \in Nat /\ cursor \in -1 .. Len(capture) /\ run \in Runs
      /\ skipped \subseteq [run : Runs, packet : 1 .. Len(capture)]
  BY DEF IInv, TypeOK, Unassigned
<1>2. cursor # Unassigned => cursor \in Nat /\ pos \in cursor .. Len(capture)
  BY <1>1 DEF PollTo, Unassigned
<1>3. CASE cursor = Unassigned
  BY <1>1, <1>3 DEF Polled, PassedOver, Unassigned
<1>4. CASE cursor # Unassigned
  <2>1. Polled(pos) = [i \in 1 .. pos - cursor |-> cursor + i] /\ pos - cursor \in Nat
    BY <1>2, <1>4 DEF Polled
  <2>2. \A i \in 1 .. pos - cursor : cursor + i \in 1 .. Len(capture)
    BY <1>1, <1>2, <1>4
  <2> QED
    BY <1>1, <1>2, <1>4, <2>1, <2>2 DEF PassedOver
<1> QED
  BY <1>3, <1>4

\* The types that grow with the topic and the aggregator.
LEMMA TypesGrow ==
  ASSUME IInv, Grows, UNCHANGED <<phase, stop, cursor, batch, todo, deaths, handled, skipped>>,
         capture' \in Seq(Packet)
  PROVE  TypeOK'
<1>1. 1 .. Len(capture) \subseteq 1 .. Len(capture') /\ Len(capture) \in Nat /\ Len(capture') \in Nat
      /\ Len(capture) <= Len(capture')
  BY DEF IInv, TypeOK, Grows
<1>2. batch \in Seq(1 .. Len(capture'))
  BY <1>1, SeqMonotonic DEF IInv, TypeOK
<1>3. /\ handled \subseteq [run : Runs, window : Int, src : Hosts,
                           packets : SUBSET (1 .. Len(capture')), outcome : Outcomes]
      /\ skipped \subseteq [run : Runs, packet : 1 .. Len(capture')]
  BY <1>1 DEF IInv, TypeOK
<1>4. cursor \in Unassigned .. Len(capture')
  BY <1>1 DEF IInv, TypeOK, Unassigned
<1> QED
  BY <1>2, <1>3, <1>4 DEF IInv, TypeOK, Grows

\* Every step keeps the types.
LEMMA TypesKept ==
  ASSUME IInv, [Next]_vars
  PROVE  TypeOK'
<1>1. /\ Len(capture) \in Nat /\ run \in Nat /\ deaths \in 0 .. MaxDeaths
      /\ MaxRuns \in Nat /\ MaxDeaths \in Nat /\ cursor \in -1 .. Len(capture)
  BY BoundsAssumption DEF IInv, TypeOK, Runs, Unassigned
<1>2. ASSUME NEW packet \in Packet, Publish(packet) PROVE TypeOK'
  <2>1. Grows
    BY <1>1, <1>2, StepGrows, PublishEffect, AggregatorPromises
       DEF Publish, Grows, aggregator, process, IInv
  <2> QED
    BY <1>2, <2>1, PublishEffect, TypesGrow DEF Publish, process
<1>3. CASE Start
  <2>1. run' \in Runs /\ cursor' \in Unassigned .. Len(capture) /\ todo' \subseteq records'
    BY <1>1, <1>3 DEF Start, Runs, FirstPosition, Unassigned
  <2>2. batch' \in Seq(1 .. Len(capture))
    BY <1>3 DEF Start
  <2> QED
    BY <1>3, <2>1, <2>2 DEF Start, IInv, TypeOK
<1>4. CASE Seek
  <2>1. skipped' \subseteq [run : Runs, packet : 1 .. Len(capture)] /\ cursor' \in -1 .. Len(capture)
    <3>1. CASE env.seek
      <4>1. PICK pos \in Unassigned .. Len(capture) :
              /\ PollTo(pos) /\ cursor' = pos
              /\ skipped' = PassedOver(pos)
                   \cup {[run |-> run, packet |-> Polled(pos)[i]] : i \in DOMAIN Polled(pos)}
        BY <1>4, <3>1 DEF Seek
      <4>2. Polled(pos) \in Seq(1 .. Len(capture))
            /\ PassedOver(pos) \subseteq [run : Runs, packet : 1 .. Len(capture)]
        BY <4>1, PollEffect
      <4>3. \A i \in DOMAIN Polled(pos) : Polled(pos)[i] \in 1 .. Len(capture)
        BY <4>2
      <4> QED
        BY <1>1, <4>1, <4>2, <4>3 DEF IInv, TypeOK, Unassigned
    <3>2. CASE ~env.seek
      BY <1>1, <1>4, <3>2 DEF Seek, IInv, TypeOK
    <3> QED
      BY <3>1, <3>2
  <2> QED
    BY <1>4, <2>1 DEF Seek, IInv, TypeOK, Unassigned, aggregator
<1>5. CASE Poll
  <2>1. PICK pos \in Unassigned .. Len(capture) :
          PollTo(pos) /\ cursor' = pos /\ batch' = Polled(pos) /\ skipped' = PassedOver(pos)
    BY <1>5 DEF Poll
  <2>2. /\ batch' \in Seq(1 .. Len(capture))
        /\ skipped' \subseteq [run : Runs, packet : 1 .. Len(capture)]
    BY <2>1, PollEffect
  <2> QED
    BY <1>5, <2>1, <2>2 DEF Poll, IInv, TypeOK, aggregator
<1>6. CASE AddEvent
  <2>1. batch' \in Seq(1 .. Len(capture))
    BY <1>6 DEF AddEvent, IInv, TypeOK
  <2> QED
    BY <1>6, <2>1 DEF AddEvent, IInv, TypeOK
<1>7. CASE IdleFlush \/ Shutdown
  BY <1>7 DEF IdleFlush, Shutdown, IInv, TypeOK
<1>8. ASSUME NEW r \in todo, HandleRecord(r) PROVE TypeOK'
  <2>1. Grows
    BY <1>1, <1>8, AggregatorPromises DEF HandleRecord, Grows, aggregator, IInv
  <2>2. r \in records /\ r.window \in Int /\ r.src \in Hosts
    BY AggregatorPromises DEF IInv, TypeOK
  <2>3. Positions(r) \subseteq 1 .. Len(capture)
    BY <2>1, <2>2, HandledOfIsStable
  <2>4. [run |-> run, window |-> r.window, src |-> r.src, packets |-> Positions(r),
         outcome |-> IF mode = "detect" THEN OutcomeInDetect(r) ELSE "row"]
          \in [run : Runs, window : Int, src : Hosts,
              packets : SUBSET (1 .. Len(capture)), outcome : Outcomes]
    BY <2>2, <2>3 DEF OutcomeInDetect, Outcomes, IInv, TypeOK
  <2> QED
    BY <1>8, <2>4 DEF HandleRecord, IInv, TypeOK, aggregator
<1>9. CASE Terminate \/ Exit
  BY <1>9 DEF Terminate, Exit, IInv, TypeOK, aggregator
<1>10. CASE Die
  BY <1>1, <1>10 DEF Die, IInv, TypeOK, aggregator
<1>11. CASE UNCHANGED vars
  BY <1>11 DEF vars, process, aggregator, IInv, TypeOK
<1> QED
  BY <1>2, <1>3, <1>4, <1>5, <1>6, <1>7, <1>8, <1>9, <1>10, <1>11 DEF Next

\* The process keeps its place in the topic.
PlaceInv == InOrder /\ SeeksFirst /\ FlushedBeforeDrain

\* Every step keeps cursor, batch and arrivals in one order.
LEMMA PlaceKept ==
  ASSUME IInv, [Next]_vars
  PROVE  PlaceInv'
<1> USE DEF PlaceInv
<1>1. /\ Len(capture) \in Nat /\ cursor \in -1 .. Len(capture) /\ Len(batch) \in Nat
      /\ Len(arrived) \in Nat /\ arrived \in Seq(Event) /\ \A p \in 1 .. Len(arrived) : arrived[p].pos \in Int
  <2>1. arrived \in Seq(Event)
    BY AggregatorPromises DEF IInv
  <2>2. \A p \in 1 .. Len(arrived) : arrived[p] \in Event
    BY <2>1
  <2>3. \A e \in Event : e.pos \in Int
    BY EventsAreEvents DEF Event
  <2>4. Len(arrived) \in Nat
    BY <2>1
  <2>5. Len(capture) \in Nat /\ cursor \in -1 .. Len(capture) /\ Len(batch) \in Nat
    BY DEF IInv, TypeOK, Unassigned
  <2> QED
    BY <2>1, <2>2, <2>3, <2>4, <2>5
<1>2. ASSUME NEW packet \in Packet, Publish(packet) PROVE PlaceInv'
  <2>1. InOrder'
    BY <1>1, <1>2, PublishEffect DEF Publish, IInv, InOrder, process, aggregator
  <2> QED
    BY <1>2, <2>1 DEF Publish, IInv, SeeksFirst, FlushedBeforeDrain, process, aggregator, FirstPosition
<1>3. CASE Start
  BY <1>1, <1>3, NewEffect DEF Start, InOrder, SeeksFirst, FlushedBeforeDrain, FirstPosition
<1>4. CASE Seek
  <2>1. batch = << >> /\ arrived = << >>
    BY <1>4 DEF Seek, IInv, SeeksFirst
  <2> QED
    BY <1>4, <2>1 DEF Seek, InOrder, SeeksFirst, FlushedBeforeDrain, aggregator
<1>5. CASE Poll
  <2>1. PICK pos \in Unassigned .. Len(capture) :
          PollTo(pos) /\ cursor' = pos /\ batch' = Polled(pos)
    BY <1>5 DEF Poll
  <2>2. /\ cursor # Unassigned => pos >= cursor
        /\ Len(batch') = IF cursor = Unassigned THEN 0 ELSE pos - cursor
        /\ \A i \in 1 .. Len(batch') : batch'[i] = cursor + i
    BY <2>1, PollEffect
  <2>3. batch = << >>
    BY <1>5 DEF Poll, Busy
  <2>4. \A i \in 1 .. Len(batch') : batch'[i] = cursor' - Len(batch') + i
    BY <1>1, <2>1, <2>2 DEF Unassigned
  <2>5. \A p \in 1 .. Len(arrived) : arrived[p].pos <= cursor' - Len(batch')
    BY <1>1, <2>1, <2>2, <2>3 DEF IInv, InOrder, Unassigned
  <2> QED
    BY <1>5, <2>4, <2>5 DEF Poll, IInv, InOrder, SeeksFirst, FlushedBeforeDrain, aggregator
<1>6. CASE AddEvent
  <2>1. /\ Len(arrived') = Len(arrived) + 1
        /\ \A p \in 1 .. Len(arrived) : arrived'[p] = arrived[p]
        /\ arrived'[Len(arrived) + 1].pos = cursor - Len(batch) + 1
        /\ cursor - Len(batch) + 1 \in 1 .. Len(capture)
        /\ Len(batch') = Len(batch) - 1
        /\ \A i \in 1 .. Len(batch') : batch'[i] = batch[i + 1]
    BY <1>6, AddEventEffect, EventOfBatch DEF AddEvent
  <2>2. cursor' = cursor /\ capture' = capture /\ phase' = phase /\ phase = "loop"
    BY <1>6 DEF AddEvent
  <2> HIDE DEF PlaceInv
  <2>6. /\ \A i \in 1 .. Len(batch) : batch[i] = cursor - Len(batch) + i
        /\ \A p \in 1 .. Len(arrived) :
             arrived[p].pos \in 1 .. Len(capture) /\ arrived[p].pos <= cursor - Len(batch)
        /\ \A p, q \in 1 .. Len(arrived) : p < q => arrived[p].pos < arrived[q].pos
    BY DEF IInv, InOrder
  <2>3. \A i \in 1 .. Len(batch') : batch'[i] = cursor' - Len(batch') + i
    <3>1. ASSUME NEW i \in 1 .. Len(batch') PROVE batch'[i] = cursor' - Len(batch') + i
      <4>1. i + 1 \in 1 .. Len(batch) /\ batch'[i] = batch[i + 1]
        BY <1>1, <2>1
      <4>2. batch[i + 1] = cursor - Len(batch) + (i + 1)
        BY <2>6, <4>1
      <4>3. i \in Int /\ Len(batch') = Len(batch) - 1 /\ cursor' = cursor /\ cursor \in Int
        BY <1>1, <2>1, <2>2
      <4> QED
        BY <1>1, <4>1, <4>2, <4>3
    <3> QED
      BY <3>1
  <2>4. \A p \in 1 .. Len(arrived') :
          arrived'[p].pos \in 1 .. Len(capture') /\ arrived'[p].pos <= cursor' - Len(batch')
    <3>1. ASSUME NEW p \in 1 .. Len(arrived')
          PROVE  arrived'[p].pos \in 1 .. Len(capture') /\ arrived'[p].pos <= cursor' - Len(batch')
      <4>1. CASE p = Len(arrived) + 1
        BY <1>1, <2>1, <2>2, <4>1
      <4>2. CASE p \in 1 .. Len(arrived)
        <5>1. arrived'[p] = arrived[p] /\ arrived[p].pos \in 1 .. Len(capture)
              /\ arrived[p].pos <= cursor - Len(batch)
          BY <2>1, <2>6, <4>2
        <5>2. cursor - Len(batch) \in Int /\ cursor' - Len(batch') = cursor - Len(batch) + 1
          BY <1>1, <2>1, <2>2
        <5> QED
          BY <2>2, <5>1, <5>2
      <4> QED
        BY <1>1, <2>1, <4>1, <4>2
    <3> QED
      BY <3>1
  <2>5. \A p, q \in 1 .. Len(arrived') : p < q => arrived'[p].pos < arrived'[q].pos
    <3>1. ASSUME NEW p \in 1 .. Len(arrived'), NEW q \in 1 .. Len(arrived'), p < q
          PROVE  arrived'[p].pos < arrived'[q].pos
      <4>1. p \in 1 .. Len(arrived) /\ arrived'[p] = arrived[p]
        BY <1>1, <2>1, <3>1
      <4>2. CASE q = Len(arrived) + 1
        BY <1>1, <2>1, <2>6, <4>1, <4>2
      <4>3. CASE q \in 1 .. Len(arrived)
        BY <2>1, <2>6, <3>1, <4>1, <4>3
      <4> QED
        BY <1>1, <2>1, <4>2, <4>3
    <3> QED
      BY <3>1
  <2> QED
    BY <2>2, <2>3, <2>4, <2>5 DEF InOrder, SeeksFirst, FlushedBeforeDrain, PlaceInv
<1>7. CASE IdleFlush \/ Shutdown
  BY <1>7, FlushEffect DEF IdleFlush, Shutdown, Busy, IInv, InOrder, SeeksFirst, FlushedBeforeDrain
<1>8. CASE (\E r \in todo : HandleRecord(r)) \/ Terminate \/ Exit \/ Die
  BY <1>8 DEF HandleRecord, Terminate, Exit, Die, IInv, InOrder, SeeksFirst, FlushedBeforeDrain,
              FirstPosition, aggregator
<1>9. CASE UNCHANGED vars
  BY <1>9 DEF vars, process, aggregator, IInv, InOrder, SeeksFirst, FlushedBeforeDrain, FirstPosition
<1> QED
  BY <1>2, <1>3, <1>4, <1>5, <1>6, <1>7, <1>8, <1>9 DEF Next

\* Every step keeps what was handled among the records of its run.
LEMMA HandledKept ==
  ASSUME IInv, [Next]_vars
  PROVE  HandledAreRecords'
<1> USE DEF HandledAreRecords
<1>1. run \in Nat /\ (\A h \in handled : h.run \in Nat) /\ todo \subseteq records
  BY BoundsAssumption DEF IInv, TypeOK, Runs
<1>2. CASE Start
  BY <1>1, <1>2, NewEffect DEF Start, IInv
<1>3. ASSUME Grows PROVE \A r \in records : HandledOf(r)' = HandledOf(r)
  BY <1>3, HandledOfIsStable
<1>4. ASSUME Grows, handled' = handled, records \ todo = records' \ todo'
      PROVE  HandledAreRecords'
  BY <1>3, <1>4 DEF Grows, IInv
<1>5. ASSUME NEW r \in todo, HandleRecord(r), Grows PROVE HandledAreRecords'
  <2>1. handled' = handled \cup {HandledOf(r)} /\ todo' = todo \ {r} /\ records' = records
    BY <1>5 DEF HandleRecord, HandledOf, aggregator
  <2>2. HandledOf(r).run = run
    BY DEF HandledOf
  <2>3. \A x \in records : HandledOf(x)' = HandledOf(x)
    BY <1>3, <1>5
  <2>4. run' = run
    BY <1>5 DEF Grows
  <2>5. \A h \in handled' : h.run <= run'
    BY <1>1, <2>1, <2>2, <2>4 DEF IInv
  <2>6. \A h \in handled' : h.run = run' => \E x \in records' : h = HandledOf(x)'
    BY <1>1, <2>1, <2>2, <2>3, <2>4 DEF IInv
  <2>7. \A x \in records' \ todo' : HandledOf(x)' \in handled'
    BY <2>1, <2>3 DEF IInv
  <2> QED
    BY <2>5, <2>6, <2>7
<1>6. CASE AddEvent \/ IdleFlush \/ Shutdown
  <2>1. todo = {} /\ todo' = records' \ records /\ handled' = handled
    BY <1>6 DEF AddEvent, IdleFlush, Shutdown, Busy
  <2>2. Grows
    BY <1>6, StepGrows DEF Grows, AddEvent, IdleFlush, Shutdown, Start
  <2>3. records \subseteq records'
    BY <2>2 DEF Grows
  <2>4. records \ todo = records' \ todo'
    BY <2>1, <2>3
  <2> QED
    BY <1>4, <2>1, <2>2, <2>4
<1>7. CASE (\E packet \in Packet : Publish(packet)) \/ Seek \/ Poll \/ Terminate \/ Exit \/ Die
           \/ UNCHANGED vars
  <2>1. handled' = handled /\ records \ todo = records' \ todo'
    BY <1>7 DEF Publish, Seek, Poll, Terminate, Exit, Die, vars, process, aggregator
  <2>2. ~Start
    BY <1>1, <1>7 DEF Publish, Seek, Poll, Terminate, Exit, Die, vars, process, Start
  <2> QED
    BY <1>4, <2>1, <2>2, StepGrows
<1> QED
  BY <1>2, <1>5, <1>6, <1>7, StepGrows DEF Next

\* Every step keeps what earlier runs handled behind the cursor, when the run seeks.
LEMMA PastKept ==
  ASSUME IInv, [Next]_vars
  PROVE  PastRunsAreBehind'
<1> SUFFICES ASSUME (env.seek /\ phase \in {"loop", "drain"})',
                    NEW h \in handled', h.run < run', NEW i \in h.packets
             PROVE  /\ cursor' = Unassigned \/ i <= cursor' - Len(batch')
                    /\ \A p \in 1 .. Len(arrived') : i < arrived'[p].pos
  BY DEF PastRunsAreBehind
<1>1. /\ Len(capture) \in Nat /\ cursor \in -1 .. Len(capture) /\ Len(batch) \in Nat
      /\ Len(arrived) \in Nat
  BY AggregatorPromises DEF IInv, TypeOK, Unassigned
<1>2. ~Start
  BY DEF Start
<1>3. Grows
  BY <1>2, StepGrows
<1>4. env.seek /\ h.run < run /\ run \in Int
  BY <1>3 DEF Grows, IInv, TypeOK, Runs
<1>5. h \in handled
  <2>1. CASE \E r \in todo : HandleRecord(r)
    BY <1>4, <2>1 DEF HandleRecord
  <2>2. CASE ~\E r \in todo : HandleRecord(r)
    BY <1>2, <2>2 DEF Next, Publish, Seek, Poll, AddEvent, IdleFlush, Terminate, Shutdown, Exit, Die,
                     vars, process
  <2> QED
    BY <2>1, <2>2
<1>6. i \in 1 .. Len(capture)
  BY <1>5 DEF IInv, TypeOK
<1>7. CASE Seek
  <2>1. PICK pos \in Unassigned .. Len(capture) : PollTo(pos) /\ cursor' = pos
    BY <1>4, <1>7 DEF Seek
  <2>2. arrived' = << >> /\ batch' = << >> /\ cursor = FirstPosition
    BY <1>7 DEF Seek, IInv, SeeksFirst, aggregator
  <2>3. pos = Unassigned \/ pos = Len(capture)
    BY <2>1, <2>2 DEF PollTo, FirstPosition
  <2> QED
    BY <1>1, <1>6, <2>1, <2>2, <2>3
<1>8. ASSUME phase \in {"loop", "drain"}
      PROVE  /\ cursor = Unassigned \/ i <= cursor - Len(batch)
             /\ \A p \in 1 .. Len(arrived) : i < arrived[p].pos
  BY <1>4, <1>5, <1>8 DEF IInv, PastRunsAreBehind
<1>9. CASE Poll
  <2>1. PICK pos \in Unassigned .. Len(capture) :
          PollTo(pos) /\ cursor' = pos /\ batch' = Polled(pos)
    BY <1>9 DEF Poll
  <2>2. batch = << >> /\ arrived' = arrived /\ phase = "loop"
    BY <1>9 DEF Poll, Busy, aggregator
  <2>3. CASE cursor = Unassigned
    <3>1. (pos = Unassigned \/ pos = Len(capture)) /\ batch' = << >>
      BY <2>1, <2>3 DEF PollTo, Polled
    <3> QED
      BY <1>1, <1>6, <1>8, <2>1, <2>2, <3>1
  <2>4. CASE cursor # Unassigned
    <3>1. Len(batch') = pos - cursor /\ pos \in Int
      BY <1>1, <2>1, <2>4, PollEffect DEF Unassigned
    <3> QED
      BY <1>1, <1>8, <2>1, <2>2, <2>4, <3>1
  <2> QED
    BY <2>3, <2>4
<1>10. CASE AddEvent
  <2>1. /\ Len(arrived') = Len(arrived) + 1
        /\ \A p \in 1 .. Len(arrived) : arrived'[p] = arrived[p]
        /\ arrived'[Len(arrived) + 1].pos = cursor - Len(batch) + 1
        /\ Len(batch') = Len(batch) - 1
        /\ cursor - Len(batch) + 1 >= 1
    BY <1>1, <1>10, AddEventEffect, EventOfBatch DEF AddEvent
  <2>2. cursor' = cursor /\ phase = "loop" /\ cursor # Unassigned
    BY <1>1, <1>10, <2>1 DEF AddEvent, Unassigned
  <2>3. i <= cursor - Len(batch) /\ \A p \in 1 .. Len(arrived) : i < arrived[p].pos
    BY <1>8, <2>2
  <2>4. ASSUME NEW p \in 1 .. Len(arrived') PROVE i < arrived'[p].pos
    <3>1. CASE p = Len(arrived) + 1
      BY <1>1, <1>6, <2>1, <2>3, <3>1
    <3>2. CASE p \in 1 .. Len(arrived)
      BY <2>1, <2>3, <3>2
    <3> QED
      BY <1>1, <2>1, <3>1, <3>2
  <2> QED
    BY <1>1, <1>6, <2>1, <2>2, <2>3, <2>4
<1>11. CASE (\E packet \in Packet : Publish(packet)) \/ (\E r \in todo : HandleRecord(r))
            \/ Terminate \/ Exit \/ Die \/ UNCHANGED vars
  BY <1>8, <1>11 DEF Publish, HandleRecord, Terminate, Exit, Die, vars, process, aggregator
<1>12. CASE IdleFlush \/ Shutdown
  <2>1. arrived' = arrived
    BY <1>12, FlushEffect DEF IdleFlush, Shutdown, IInv
  <2> QED
    BY <1>8, <1>12, <2>1 DEF IdleFlush, Shutdown
<1> QED
  BY <1>2, <1>7, <1>9, <1>10, <1>11, <1>12 DEF Next

\* The records of one run share no packet.
LEMMA RecordsShareNoPacket ==
  ASSUME IInv, NEW r1 \in records, NEW r2 \in records, Positions(r1) \cap Positions(r2) # {}
  PROVE  r1 = r2
<1>1. PICK p \in r1.events, q \in r2.events : arrived[p].pos = arrived[q].pos
  BY DEF Positions
<1>2. p \in 1 .. Len(arrived) /\ q \in 1 .. Len(arrived) /\ Len(arrived) \in Nat
  BY AggregatorPromises DEF IInv
<1>3. arrived[p].pos \in Int /\ ~(p < q) /\ ~(q < p)
  <2>1. arrived[p].pos \in Int
    BY <1>2 DEF IInv, InOrder, TypeOK
  <2> QED
    BY <1>1, <1>2, <2>1 DEF IInv, InOrder
<1>4. p = q
  BY <1>2, <1>3
<1> QED
  BY <1>4, AggregatorPromises DEF IInv

\* What the sink is given last meets nothing that was handled before.
LEMMA SinkKeepsPromises ==
  ASSUME IInv, NEW r \in todo, HandleRecord(r), NEW h \in handled
  PROVE  /\ env.seek => (h.packets \cap HandledOf(r).packets # {} => h = HandledOf(r))
         /\ h.run = run /\ h.window = r.window /\ h.src = r.src => h = HandledOf(r)
<1>1. r \in records /\ run \in Int /\ h.run \in Int /\ h.run <= run
  BY DEF IInv, TypeOK, Runs, HandledAreRecords
<1>2. HandledOf(r).packets = Positions(r)
  BY DEF HandledOf
<1>3. CASE h.run = run
  <2>1. PICK x \in records : h = HandledOf(x)
    BY <1>3 DEF IInv, HandledAreRecords
  <2>2. h.packets = Positions(x) /\ h.window = x.window /\ h.src = x.src
    BY <2>1 DEF HandledOf
  <2>3. h.packets \cap HandledOf(r).packets # {} => x = r
    BY <1>1, <1>2, <2>2, RecordsShareNoPacket
  <2>4. h.window = r.window /\ h.src = r.src => x = r
    BY <1>1, <2>2, AggregatorPromises DEF IInv
  <2> QED
    BY <2>1, <2>3, <2>4
<1>4. CASE h.run < run
  <2>1. phase \in {"loop", "drain"}
    BY DEF HandleRecord, IInv, TypeOK, SeeksFirst
  <2>2. \A p \in r.events : p \in 1 .. Len(arrived)
    BY <1>1, AggregatorPromises DEF IInv
  <2>3. env.seek => \A i \in h.packets : \A p \in r.events : i < arrived[p].pos
    BY <1>4, <2>1, <2>2 DEF IInv, PastRunsAreBehind
  <2>4. \A p \in r.events : arrived[p].pos \in Int
    BY <2>2 DEF IInv, InOrder, TypeOK
  <2>5. env.seek => h.packets \cap Positions(r) = {}
    BY <2>3, <2>4 DEF Positions
  <2> QED
    BY <1>1, <1>2, <1>4, <2>5
<1> QED
  BY <1>1, <1>3, <1>4

HandledOnce == NoPacketHandledTwice /\ OneAlertPerClientWindow

\* Every step keeps a packet handled once and a burst to one alert.
LEMMA OnceKept ==
  ASSUME IInv, [Next]_vars
  PROVE  HandledOnce'
<1>1. ASSUME NEW r \in todo, HandleRecord(r) PROVE HandledOnce'
  <2>1. handled' = handled \cup {HandledOf(r)} /\ env' = env
    BY <1>1 DEF HandleRecord, HandledOf
  <2>2. NoPacketHandledTwice'
    BY <1>1, <2>1, SinkKeepsPromises DEF IInv, NoPacketHandledTwice
  <2>3. HandledOf(r).outcome = "alert" => HandledOf(r).src \in Clients
    <3>1. r.src \in Hosts
      BY AggregatorPromises DEF IInv, TypeOK
    <3> QED
      BY <3>1 DEF HandledOf, OutcomeInDetect, Hosts
  <2>4. HandledOf(r).run = run /\ HandledOf(r).window = r.window /\ HandledOf(r).src = r.src
    BY DEF HandledOf
  <2>5. OneAlertPerClientWindow'
    BY <1>1, <2>1, <2>3, <2>4, SinkKeepsPromises DEF IInv, OneAlertPerClientWindow
  <2> QED
    BY <2>2, <2>5 DEF HandledOnce
<1>2. CASE (\E packet \in Packet : Publish(packet)) \/ Start \/ Seek \/ Poll \/ AddEvent \/ IdleFlush
           \/ Terminate \/ Shutdown \/ Exit \/ Die \/ UNCHANGED vars
  <2>1. handled' = handled /\ env' = env
    BY <1>2 DEF Publish, Start, Seek, Poll, AddEvent, IdleFlush, Terminate, Shutdown, Exit, Die, vars
  <2> QED
    BY <2>1 DEF HandledOnce, IInv, NoPacketHandledTwice, OneAlertPerClientWindow
<1> QED
  BY <1>1, <1>2 DEF Next

\* Every step keeps each polled packet skipped, in hand or with the aggregator.
LEMMA EveryPolledKept ==
  ASSUME IInv, [Next]_vars
  PROVE  EveryPolledPacketIsSomewhere'
<1> SUFFICES ASSUME (phase \in {"loop", "drain"})', NEW i \in 1 .. cursor'
             PROVE  \/ [run |-> run', packet |-> i] \in skipped'
                    \/ i \in ToSet(batch')
                    \/ \E p \in 1 .. Len(arrived') : arrived'[p].pos = i
  BY DEF EveryPolledPacketIsSomewhere
<1>1. /\ Len(capture) \in Nat /\ cursor \in -1 .. Len(capture) /\ Len(arrived) \in Nat
  BY AggregatorPromises DEF IInv, TypeOK, Unassigned
<1>2. ~Start
  BY DEF Start
<1>3. Grows
  BY <1>2, StepGrows
<1>4. i \in Nat /\ i >= 1
  <2>1. cursor' \in Int
    BY TypesKept DEF TypeOK, Unassigned
  <2> QED
    BY <2>1
<1>5. ASSUME NEW pos \in Unassigned .. Len(capture), PollTo(pos), cursor' = pos,
             cursor = Unassigned \/ i <= cursor
      PROVE  cursor = Unassigned => [run |-> run, packet |-> i] \in PassedOver(pos)
  BY <1>4, <1>5 DEF PassedOver
<1>6. ASSUME NEW pos \in Unassigned .. Len(capture), PollTo(pos), cursor' = pos,
             cursor # Unassigned, i > cursor
      PROVE  \E k \in DOMAIN Polled(pos) : Polled(pos)[k] = i
  <2>1. Polled(pos) = [k \in 1 .. pos - cursor |-> cursor + k]
    BY <1>6 DEF Polled
  <2>2. cursor \in Int /\ pos \in Int /\ i <= pos
    BY <1>1, <1>6, <1>4 DEF Unassigned
  <2>3. i - cursor \in 1 .. pos - cursor /\ cursor + (i - cursor) = i
    BY <1>4, <1>6, <2>2
  <2> QED
    BY <2>1, <2>3
<1>7. CASE Seek
  <2>1. cursor = FirstPosition
    BY <1>7 DEF Seek, IInv, SeeksFirst
  <2>2. env.seek
    BY <1>4, <1>7, <2>1 DEF Seek, FirstPosition, Unassigned
  <2>3. PICK pos \in Unassigned .. Len(capture) :
          /\ PollTo(pos) /\ cursor' = pos
          /\ skipped' = PassedOver(pos)
               \cup {[run |-> run, packet |-> Polled(pos)[k]] : k \in DOMAIN Polled(pos)}
    BY <1>7, <2>2 DEF Seek
  <2>4. CASE cursor = Unassigned
    BY <1>3, <1>5, <2>3, <2>4 DEF Grows
  <2>5. CASE cursor # Unassigned
    <3>1. i > cursor
      BY <1>4, <2>1, <2>5 DEF FirstPosition
    <3> QED
      BY <1>3, <1>6, <2>3, <2>5, <3>1 DEF Grows
  <2> QED
    BY <2>4, <2>5
<1>8. ASSUME phase \in {"loop", "drain"}, i \in 1 .. cursor
      PROVE  \/ [run |-> run, packet |-> i] \in skipped
             \/ i \in ToSet(batch)
             \/ \E p \in 1 .. Len(arrived) : arrived[p].pos = i
  BY <1>8 DEF IInv, EveryPolledPacketIsSomewhere
<1>9. CASE Poll
  <2>1. PICK pos \in Unassigned .. Len(capture) :
          PollTo(pos) /\ cursor' = pos /\ batch' = Polled(pos) /\ skipped' = PassedOver(pos)
    BY <1>9 DEF Poll
  <2>2. phase = "loop" /\ batch = << >> /\ arrived' = arrived /\ run' = run
    BY <1>9 DEF Poll, Busy, aggregator
  <2>3. CASE cursor = Unassigned
    BY <1>5, <2>1, <2>2, <2>3
  <2>4. CASE cursor # Unassigned /\ i > cursor
    BY <1>6, <2>1, <2>4 DEF ToSet
  <2>5. CASE cursor # Unassigned /\ i <= cursor
    <3>1. i \in 1 .. cursor
      BY <1>1, <1>4, <2>5
    <3>2. i \notin ToSet(batch)
      BY <2>2 DEF ToSet
    <3>3. skipped \subseteq skipped'
      BY <2>1 DEF PassedOver
    <3> QED
      BY <1>8, <2>2, <3>1, <3>2, <3>3
  <2> QED
    BY <1>1, <1>4, <2>3, <2>4, <2>5
<1>10. CASE AddEvent
  <2>1. /\ Len(arrived') = Len(arrived) + 1
        /\ \A p \in 1 .. Len(arrived) : arrived'[p] = arrived[p]
        /\ arrived'[Len(arrived) + 1].pos = Head(batch)
        /\ batch' = Tail(batch)
    BY <1>10, AddEventEffect
  <2>2. phase = "loop" /\ cursor' = cursor /\ skipped' = skipped /\ run' = run /\ batch # << >>
    BY <1>10 DEF AddEvent
  <2>3. batch \in Seq(1 .. Len(capture))
    BY DEF IInv, TypeOK
  <2>4. ASSUME i \in ToSet(batch) PROVE i = Head(batch) \/ i \in ToSet(Tail(batch))
    <3>1. PICK k \in DOMAIN batch : i = batch[k]
      BY <2>4 DEF ToSet
    <3>2. k \in 1 .. Len(batch) /\ Len(batch) \in Nat /\ Head(batch) = batch[1]
      BY <2>2, <2>3, <3>1
    <3>3. /\ DOMAIN Tail(batch) = 1 .. Len(batch) - 1
          /\ \A j \in 1 .. Len(batch) - 1 : Tail(batch)[j] = batch[j + 1]
      BY <2>2, <2>3, HeadTailProperties, LenProperties
    <3>4. k = 1 \/ (k - 1 \in 1 .. Len(batch) - 1 /\ Tail(batch)[k - 1] = batch[k])
      BY <3>2, <3>3
    <3> QED
      BY <3>1, <3>2, <3>3, <3>4 DEF ToSet
  <2>5. ASSUME NEW p \in 1 .. Len(arrived), arrived[p].pos = i
        PROVE  \E q \in 1 .. Len(arrived') : arrived'[q].pos = i
    BY <1>1, <2>1, <2>5
  <2>6. ASSUME i = Head(batch) PROVE \E q \in 1 .. Len(arrived') : arrived'[q].pos = i
    BY <1>1, <2>1, <2>6
  <2> QED
    BY <1>8, <2>1, <2>2, <2>4, <2>5, <2>6
<1>11. CASE (\E packet \in Packet : Publish(packet)) \/ (\E r \in todo : HandleRecord(r))
            \/ Terminate \/ Exit \/ Die \/ UNCHANGED vars
  BY <1>8, <1>11 DEF Publish, HandleRecord, Terminate, Exit, Die, vars, process, aggregator
<1>12. CASE IdleFlush \/ Shutdown
  <2>1. arrived' = arrived
    BY <1>12, FlushEffect DEF IdleFlush, Shutdown, IInv
  <2> QED
    BY <1>8, <1>12, <2>1 DEF IdleFlush, Shutdown
<1> QED
  BY <1>2, <1>7, <1>9, <1>10, <1>11, <1>12 DEF Next

-----------------------------------------------------------------------------

\* The invariant holds before the first start.
LEMMA InitInv == Init => IInv
<1> SUFFICES ASSUME Init PROVE IInv
  OBVIOUS
<1>1. arrived = << >> /\ records = {} /\ handled = {} /\ capture = << >> /\ phase = "down"
  BY DEF Init, W!Init
<1>2. Agg!Init
  BY DEF Init, W!Init, W!FreshClosedBelow, Agg!Init, Agg!FreshClosedBelow
<1>3. TypeOK
  <2>1. Len(capture) = 0 /\ batch = << >> /\ batch \in Seq(1 .. Len(capture)) /\ capture \in Seq(Packet)
    BY <1>1 DEF Init
  <2>2. run \in Runs /\ deaths \in 0 .. MaxDeaths /\ cursor \in Unassigned .. Len(capture)
    BY <2>1, BoundsAssumption DEF Init, Runs, Unassigned
  <2> QED
    BY <1>1, <2>1, <2>2 DEF Init, TypeOK
<1>4. Len(capture) <= MaxPackets
  BY <1>1, EventsAreEvents
<1>5. InOrder
  BY <1>1 DEF Init, InOrder
<1>6. SeeksFirst /\ FlushedBeforeDrain /\ PastRunsAreBehind /\ EveryPolledPacketIsSomewhere
  BY <1>1 DEF SeeksFirst, FlushedBeforeDrain, PastRunsAreBehind, EveryPolledPacketIsSomewhere
<1>7. HandledAreRecords /\ NoPacketHandledTwice /\ OneAlertPerClientWindow
  BY <1>1 DEF HandledAreRecords, NoPacketHandledTwice, OneAlertPerClientWindow
<1> QED
  BY <1>2, <1>3, <1>4, <1>5, <1>6, <1>7, FreshAggregator DEF IInv

\* Every step keeps the invariant.
LEMMA NextInv == IInv /\ [Next]_vars => IInv'
  BY TypesKept, AggregatorKept, PlaceKept, HandledKept, PastKept, OnceKept, EveryPolledKept
     DEF IInv, AggregatorInv, PlaceInv, HandledOnce

\* The inductive invariant holds in every reachable state of the defender.
THEOREM Invariance == Spec => []IInv
  BY InitInv, NextInv, PTL DEF Spec

\* Every variable of the defender keeps its type.
THEOREM TypeCorrect == Spec => []TypeOK
<1>1. IInv => TypeOK
  BY DEF IInv
<1> QED
  BY <1>1, Invariance, PTL

\* With SEEK_TO_END no packet is alerted on or recorded twice, whatever runs
\* stop, die and start.
THEOREM NothingHandledTwice == Spec => []NoPacketHandledTwice
<1>1. IInv => NoPacketHandledTwice
  BY DEF IInv
<1> QED
  BY <1>1, Invariance, PTL

\* DetectSink alerts on a client's window once in a run, and on no server.
THEOREM OneBurstOneAlert == Spec => []OneAlertPerClientWindow
<1>1. IInv => OneAlertPerClientWindow
  BY DEF IInv
<1> QED
  BY <1>1, Invariance, PTL

\* Between the poll and the aggregator the loop drops no packet.
THEOREM NothingIsDropped == Spec => []EveryPolledPacketIsSomewhere
<1>1. IInv => EveryPolledPacketIsSomewhere
  BY DEF IInv
<1> QED
  BY <1>1, Invariance, PTL

\* A run that ends by SIGTERM has put through its sink all it polled, but for
\* what came after its window.
THEOREM DrainIsComplete == Spec => []ShutdownDrains
<1>1. IInv => ShutdownDrains
  <2> SUFFICES ASSUME IInv, phase = "drain", todo = {}
               PROVE  /\ batch = << >>
                      /\ \A p \in 1 .. Len(arrived) :
                           W!Late(p) \/ \E h \in handled : h.run = run /\ arrived[p].pos \in h.packets
    BY DEF ShutdownDrains
  <2>1. batch = << >> /\ DOMAIN buckets = {}
    BY DEF IInv, FlushedBeforeDrain
  <2>2. ASSUME NEW p \in 1 .. Len(arrived), ~W!Late(p)
        PROVE  \E h \in handled : h.run = run /\ arrived[p].pos \in h.packets
    <3>1. PICK r \in records : p \in r.events
      BY <2>1, <2>2, AggregatorPromises DEF IInv
    <3>2. HandledOf(r) \in handled
      BY DEF IInv, HandledAreRecords
    <3>3. HandledOf(r).run = run /\ arrived[p].pos \in HandledOf(r).packets
      BY <3>1 DEF HandledOf, Positions
    <3> QED
      BY <3>2, <3>3
  <2> QED
    BY <2>1, <2>2
<1> QED
  BY <1>1, Invariance, PTL
=============================================================================
