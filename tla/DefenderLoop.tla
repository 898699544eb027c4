---------------------------- MODULE DefenderLoop ----------------------------
(***************************************************************************)
(* The defender process (containers/defender/main.py): it polls the        *)
(* capture topic, feeds every packet to a WindowAggregator, and hands the  *)
(* records it returns, one by one, to a sink: in detect mode a record is   *)
(* scored and may become an alert, in record mode it becomes a row of the  *)
(* benign baseline.  The process is stopped (SIGTERM), dies, and is        *)
(* started again; a start skips the backlog (SEEK_TO_END), whose place     *)
(* depends on the transport.                                               *)
(*                                                                         *)
(* Clients send queries and servers answer them, so a client's record has  *)
(* response_fraction 0 and a server's 1.  A packet is an attack packet     *)
(* when a record that has it scores as an anomaly (the score of a record   *)
(* is the maximum over its query names; an outlier model also finds the    *)
(* server's half anomalous).                                               *)
(***************************************************************************)
EXTENDS Integers, Sequences, SequencesExt

CONSTANTS
  Clients, Servers,  \* the hosts on the tapped network
  Indices,           \* window indices of packet timestamps
  Transports,        \* values TRANSPORT may have
  SeekChoices,       \* values SEEK_TO_END may have
  MaxPackets,        \* bound: packets captured
  MaxRuns,           \* bound: starts of the defender
  MaxDeaths          \* bound: runs that end without a shutdown

ASSUME HostsAssumption   == Clients \cap Servers = {}
ASSUME IndicesAssumption == Indices \subseteq Int
ASSUME BoundsAssumption  == {MaxPackets, MaxRuns, MaxDeaths} \subseteq Nat
ASSUME EnvAssumption     == Transports \subseteq {"file", "kafka"} /\ SeekChoices \subseteq BOOLEAN

VARIABLES
  env,      \* the container's environment: [transport, seek]
  capture,  \* the capture topic: packets published, in order
  phase,    \* of the process: "down", "seek", "loop", "drain"
  stop,     \* ~_running: SIGTERM has been received
  mode,     \* the sink of this run: "detect" or "record"
  cursor,   \* packets the consumer is past; Unassigned before Kafka placed it
  batch,    \* capture positions polled and not yet handled
  todo,     \* records returned by the aggregator and not yet through the sink
  run,      \* number of this run of the process
  deaths,   \* runs that died
  handled,  \* history: records that went through a sink, in any run
  skipped,  \* history: [run, packet] passed over unread
  buckets, max_index, closed_below, arrived, records, flushed  \* the aggregator

process == <<phase, stop, mode, cursor, batch, todo, run, deaths>>
aggregator == <<buckets, max_index, closed_below, arrived, records, flushed>>
vars == <<env, capture, process, handled, skipped, aggregator>>

Hosts == Clients \cup Servers

\* What the aggregator is given: a packet with its capture position.
Event == [index : Indices, src : Hosts, pos : 1 .. MaxPackets]

W == INSTANCE WindowAggregator WITH
       Src <- Hosts, Packet <- Event, MaxArrivals <- MaxPackets

Packet == [index : Indices, src : Hosts, attack : BOOLEAN]

Unassigned == -1

Init ==
  /\ env \in [transport : Transports, seek : SeekChoices]
  /\ capture = << >>
  /\ phase = "down" /\ stop = FALSE /\ mode = "record"
  /\ cursor = 0 /\ batch = << >> /\ todo = {}
  /\ run = 0 /\ deaths = 0
  /\ handled = {} /\ skipped = {}
  /\ W!Init

-----------------------------------------------------------------------------
(* The sensor and the consumer.                                            *)

\* The tap publishes a packet.
Publish(packet) ==
  /\ Len(capture) < MaxPackets
  /\ capture' = Append(capture, packet)
  /\ UNCHANGED <<env, process, handled, skipped, aggregator>>

\* Where a new consumer stands: the file queue at the beginning, a live Kafka
\* consumer nowhere until its partition is assigned.
FirstPosition == IF env.transport = "file" THEN 0 ELSE Unassigned

\* A poll moves the consumer to `pos` and returns the packets up to there.
\* Kafka may return some of what is there (a failed poll returns nothing), and
\* places an unassigned live consumer at the end of the topic.
PollTo(pos) ==
  IF env.transport = "file" THEN pos = Len(capture)
  ELSE IF cursor = Unassigned THEN pos \in {Unassigned, Len(capture)}
  ELSE pos \in cursor .. Len(capture)

Polled(pos) == IF cursor = Unassigned THEN << >> ELSE [i \in 1 .. pos - cursor |-> cursor + i]

PassedOver(pos) ==
  skipped \cup
    (IF cursor = Unassigned THEN {[run |-> run, packet |-> i] : i \in 1 .. pos} ELSE {})

-----------------------------------------------------------------------------
(* The process.                                                            *)

\* main() up to the seek.  The mode is "detect" when DEFENDER_MODE says so and
\* the selected backend has a model that loads, else "record".
Start ==
  /\ phase = "down" /\ run < MaxRuns
  /\ run' = run + 1
  /\ phase' = "seek"
  /\ stop' = FALSE
  /\ mode' \in {"detect", "record"}
  /\ cursor' = FirstPosition
  /\ batch' = << >> /\ todo' = {}
  /\ W!New
  /\ UNCHANGED <<env, capture, deaths, handled, skipped>>

SeekNothing ==
  /\ phase = "seek"
  /\ phase' = "loop"
  /\ UNCHANGED <<env, capture, stop, mode, cursor, batch, todo, run, deaths, handled, skipped,
                 aggregator>>

\* With SEEK_TO_END, a first poll whose packets are discarded
Seek ==
  /\ phase = "seek"
  /\ phase' = "loop"
  /\ IF env.seek
       THEN \E pos \in Unassigned .. Len(capture) :
              /\ PollTo(pos)
              /\ cursor' = pos
              /\ skipped' = PassedOver(pos)
                   \cup {[run |-> run, packet |-> Polled(pos)[i]] : i \in DOMAIN Polled(pos)}
       ELSE UNCHANGED <<cursor, skipped>>
  /\ UNCHANGED <<env, capture, stop, mode, batch, todo, run, deaths, handled, aggregator>>

Busy == batch # << >> \/ todo # {}

\* events = consumer.poll(CAPTURE_TOPIC)
Poll ==
  /\ phase = "loop" /\ ~stop /\ ~Busy
  /\ \E pos \in Unassigned .. Len(capture) :
       /\ PollTo(pos)
       /\ cursor' = pos
       /\ batch' = Polled(pos)
       /\ skipped' = PassedOver(pos)
  /\ UNCHANGED <<env, capture, phase, stop, mode, todo, run, deaths, handled, aggregator>>

AddEventForgettingBatch ==
  /\ phase = "loop" /\ batch # << >> /\ todo = {}
  /\ LET pos == Head(batch)
     IN  W!Add([index |-> capture[pos].index, src |-> capture[pos].src, pos |-> pos])
  /\ batch' = << >>
  /\ todo' = records' \ records
  /\ UNCHANGED <<env, capture, phase, stop, mode, cursor, run, deaths, handled, skipped>>

\* agg.add(CaptureEvent.from_dict(raw)) for the next packet of the batch
AddEvent ==
  /\ phase = "loop" /\ batch # << >> /\ todo = {}
  /\ LET pos == Head(batch)
     IN  W!Add([index |-> capture[pos].index, src |-> capture[pos].src, pos |-> pos])
  /\ batch' = Tail(batch)
  /\ todo' = records' \ records
  /\ UNCHANGED <<env, capture, phase, stop, mode, cursor, run, deaths, handled, skipped>>

Positions(r) == {arrived[p].pos : p \in r.events}
IsAttack(r) == \E i \in Positions(r) : capture[i].attack

\* DetectSink.handle() of one record: nothing for the server half, an alert
\* for an anomaly.
OutcomeInDetect(r) ==
  IF r.src \in Servers THEN "suppressed" ELSE IF IsAttack(r) THEN "alert" ELSE "quiet"

\* sink.handle(records), one record
HandleRecord(r) ==
  /\ phase # "down"
  /\ todo' = todo \ {r}
  /\ handled' = handled \cup
       {[run |-> run, window |-> r.window, src |-> r.src, packets |-> Positions(r),
         outcome |-> IF mode = "detect" THEN OutcomeInDetect(r) ELSE "row"]}
  /\ UNCHANGED <<env, capture, phase, stop, mode, cursor, batch, run, deaths, skipped, aggregator>>

IdleFlushUnhandled ==
  /\ phase = "loop" /\ ~stop /\ ~Busy
  /\ PollTo(cursor) /\ DOMAIN buckets # {}
  /\ W!FlushAll
  /\ UNCHANGED <<env, capture, phase, stop, mode, cursor, batch, todo, run, deaths, handled,
                 skipped>>

IdleFlushNewAggregator ==
  /\ phase = "loop" /\ ~stop /\ ~Busy
  /\ PollTo(cursor) /\ DOMAIN buckets # {}
  /\ buckets' = [i \in {} |-> {}] /\ max_index' = -1 /\ closed_below' = 0
  /\ records' = records \cup UNION {W!RecordsOf(buckets, arrived, i) : i \in DOMAIN buckets}
  /\ flushed' = flushed \cup {Len(arrived)}
  /\ todo' = records' \ records
  /\ UNCHANGED <<arrived, env, capture, phase, stop, mode, cursor, batch, run, deaths, handled,
                 skipped>>

\* A poll that returned nothing, idle_flush_s after the last packet: the tail
\* is flushed.  (The flush of an empty aggregator changes nothing.)
IdleFlush ==
  /\ phase = "loop" /\ ~stop /\ ~Busy
  /\ PollTo(cursor) /\ DOMAIN buckets # {}
  /\ W!FlushAll
  /\ todo' = records' \ records
  /\ UNCHANGED <<env, capture, phase, stop, mode, cursor, batch, run, deaths, handled, skipped>>

\* SIGTERM: _stop() clears _running
Terminate ==
  /\ phase \in {"seek", "loop"}
  /\ stop' = TRUE
  /\ UNCHANGED <<env, capture, phase, mode, cursor, batch, todo, run, deaths, handled, skipped,
                 aggregator>>

ShutdownWithoutFlush ==
  /\ phase = "loop" /\ stop /\ ~Busy
  /\ phase' = "drain"
  /\ UNCHANGED <<env, capture, stop, mode, cursor, batch, todo, run, deaths, handled, skipped,
                 aggregator>>

\* The loop ends and the tail is flushed.
Shutdown ==
  /\ phase = "loop" /\ stop /\ ~Busy
  /\ phase' = "drain"
  /\ W!FlushAll
  /\ todo' = records' \ records
  /\ UNCHANGED <<env, capture, stop, mode, cursor, batch, run, deaths, handled, skipped>>

Exit ==
  /\ phase = "drain" /\ todo = {}
  /\ phase' = "down"
  /\ UNCHANGED <<env, capture, stop, mode, cursor, batch, todo, run, deaths, handled, skipped,
                 aggregator>>

\* The process dies: SIGKILL, or an exception nothing catches (a poll of a torn
\* line, a sink that cannot write).
Die ==
  /\ phase # "down" /\ deaths < MaxDeaths
  /\ deaths' = deaths + 1
  /\ phase' = "down"
  /\ UNCHANGED <<env, capture, stop, mode, cursor, batch, todo, run, handled, skipped, aggregator>>

Next ==
  \/ \E packet \in Packet : Publish(packet)
  \/ Start \/ Seek \/ Poll \/ AddEvent
  \/ \E r \in todo : HandleRecord(r)
  \/ IdleFlush \/ Terminate \/ Shutdown \/ Exit \/ Die

\* The process takes its own steps as long as it lives; the clock passes
\* idle_flush_s when nothing comes.
Fairness ==
  /\ WF_vars(Seek) /\ WF_vars(Poll) /\ WF_vars(AddEvent)
  /\ WF_vars(\E r \in todo : HandleRecord(r))
  /\ WF_vars(IdleFlush) /\ WF_vars(Shutdown) /\ WF_vars(Exit)

Spec == Init /\ [][Next]_vars /\ Fairness

-----------------------------------------------------------------------------

Runs == 0 .. MaxRuns
Outcomes == {"row", "alert", "suppressed", "quiet"}

\* The type of every variable.
TypeOK ==
  /\ env \in [transport : Transports, seek : SeekChoices]
  /\ capture \in Seq(Packet)
  /\ phase \in {"down", "seek", "loop", "drain"}
  /\ stop \in BOOLEAN
  /\ mode \in {"detect", "record"}
  /\ cursor \in Unassigned .. Len(capture)
  /\ batch \in Seq(1 .. Len(capture))
  /\ todo \subseteq records
  /\ run \in Runs /\ deaths \in 0 .. MaxDeaths
  /\ handled \subseteq [run : Runs, window : Int, src : Hosts,
                        packets : SUBSET (1 .. Len(capture)), outcome : Outcomes]
  /\ skipped \subseteq [run : Runs, packet : 1 .. Len(capture)]

\* A restart does not replay packets: with SEEK_TO_END no packet is alerted on,
\* or recorded, twice, however the process stops, dies and starts.
NoPacketHandledTwice ==
  env.seek =>
    \A h1, h2 \in handled : h1.packets \cap h2.packets # {} => h1 = h2

\* One burst, one alert: in a run of the defender a window of an attacking
\* client raises at most one alert, though an idle flush or a straggler closes
\* it early, and the server's half of the exchange raises none.
OneAlertPerClientWindow ==
  \A h1, h2 \in {h \in handled : h.outcome = "alert"} :
    /\ h1.src \in Clients
    /\ h1.run = h2.run /\ h1.window = h2.window /\ h1.src = h2.src => h1 = h2

\* A run that ends by SIGTERM leaves nothing behind: every packet it polled is
\* in a record that went through the sink, or came after its window.
ShutdownDrains ==
  phase = "drain" /\ todo = {} =>
    /\ batch = << >>
    /\ \A p \in 1 .. Len(arrived) :
         W!Late(p) \/ \E h \in handled : h.run = run /\ arrived[p].pos \in h.packets

\* While a run lives, a packet is past, in the batch, in the aggregator, or
\* on its way to the sink: the loop drops none.
EveryPolledPacketIsSomewhere ==
  phase \in {"loop", "drain"} =>
    \A i \in 1 .. cursor :
      \/ [run |-> run, packet |-> i] \in skipped
      \/ i \in ToSet(batch)
      \/ \E p \in 1 .. Len(arrived) : arrived[p].pos = i

\* With SEEK_TO_END=false the backlog is processed: a run passes over nothing.
BacklogIsProcessed == ~env.seek => skipped = {}

\* The final partial window is not lost: when traffic stops, and the process
\* lives, every packet it added goes through the sink or was late.
TailIsHandled ==
  \A i \in 1 .. MaxPackets :
    (\E p \in 1 .. Len(arrived) : arrived[p].pos = i)
      ~> \/ phase = "down"
         \/ \E h \in handled : h.run = run /\ i \in h.packets
         \/ \E p \in 1 .. Len(arrived) : arrived[p].pos = i /\ W!Late(p)
=============================================================================
