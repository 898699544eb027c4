------------------------------ MODULE LabStream ------------------------------
(***************************************************************************)
(* The event pipeline of lab 5 (src/lab5/notebooks/1. Mittre               *)
(* classification): a notebook that publishes events on a Kafka topic of   *)
(* one partition, and one that classifies them into a CSV file.            *)
(*                                                                         *)
(* An event is its position in the topic.  What classify() looks up for it *)
(* is left out.  The cell of the consumer can be run again, interrupted,   *)
(* or die with its kernel; the group's offset is committed behind its      *)
(* back.                                                                   *)
(***************************************************************************)
EXTENDS Integers, Sequences

CONSTANTS
  NUM_EVENTS,  \* bound: events sent in all
  MaxCells     \* bound: executions of the consumer's cell

VARIABLES
  buffered,  \* events in the producer's buffer
  topic,     \* how many events.raw holds
  committed, \* the offset of classifier-group
  member,    \* an interrupted or dead consumer is still a member of the group
  cell,      \* "down", "joining", "reading", "interrupted", "finished"
  at,        \* the next event the consumer yields
  joined,    \* history: the group's offset when the cell was started
  rows,      \* of classified_packets.csv, with those Python still buffers
  cells      \* how many executions there were

labVars == <<buffered, topic, committed, member, cell, at, joined, rows, cells>>

LabInit ==
  /\ buffered = 0 /\ topic = 0 /\ committed = 0 /\ member = FALSE
  /\ cell = "down" /\ at = 1 /\ joined = 0 /\ rows = << >> /\ cells = 0

-----------------------------------------------------------------------------
(* The producer. *)

SendEvent ==
  /\ buffered + topic < NUM_EVENTS
  /\ buffered' = buffered + 1
  /\ UNCHANGED <<topic, committed, member, cell, at, joined, rows, cells>>

\* the client's sender thread, or flush()
Publish ==
  /\ buffered > 0
  /\ buffered' = buffered - 1 /\ topic' = topic + 1
  /\ UNCHANGED <<committed, member, cell, at, joined, rows, cells>>

ProducerDies ==
  /\ buffered > 0
  /\ buffered' = 0
  /\ UNCHANGED <<topic, committed, member, cell, at, joined, rows, cells>>

-----------------------------------------------------------------------------
(* The consumer. *)

Running == cell \in {"joining", "reading"}

AppendMode(lines) == lines

\* open(OUTPUT_CSV, "w")
Opened(lines) == << >>

RunCell ==
  /\ ~Running /\ cells < MaxCells
  /\ cell' = "joining" /\ cells' = cells + 1
  /\ joined' = committed
  /\ rows' = Opened(rows)
  /\ UNCHANGED <<buffered, topic, committed, member, at>>

\* The partition is assigned once the former member is gone, from the group's
\* offset or the earliest event.
Join ==
  /\ cell = "joining" /\ ~member
  /\ cell' = "reading" /\ at' = committed + 1
  /\ UNCHANGED <<buffered, topic, committed, member, joined, rows, cells>>

Classify ==
  /\ cell = "reading" /\ at <= topic
  /\ rows' = Append(rows, at) /\ at' = at + 1
  /\ UNCHANGED <<buffered, topic, committed, member, cell, joined, cells>>

\* What is committed: the events yielded before the one the loop asks for.
Consumed(next) == next - 1

\* The client commits by itself, every few seconds, when it is asked for the
\* next event.
AutoCommit ==
  /\ cell = "reading"
  /\ committed' = Consumed(at)
  /\ UNCHANGED <<buffered, topic, member, cell, at, joined, rows, cells>>

\* Nothing came for consumer_timeout_ms: the file is closed, and the consumer,
\* which commits.
FinishCell ==
  /\ Running
  /\ cell' = "finished"
  /\ committed' = IF cell = "reading" THEN Consumed(at) ELSE committed
  /\ UNCHANGED <<buffered, topic, member, at, joined, rows, cells>>

\* KeyboardInterrupt closes the file, and not the consumer.
InterruptCell ==
  /\ Running
  /\ cell' = "interrupted"
  /\ member' = (member \/ cell = "reading")
  /\ UNCHANGED <<buffered, topic, committed, at, joined, rows, cells>>

\* The file keeps the rows that had been flushed.
KernelDies ==
  /\ Running
  /\ cell' = "down"
  /\ member' = (member \/ cell = "reading")
  /\ \E k \in 0 .. Len(rows) : rows' = SubSeq(rows, 1, k)
  /\ UNCHANGED <<buffered, topic, committed, at, joined, cells>>

\* The broker gives up on a member that sends no heartbeats.
Evict ==
  /\ member
  /\ member' = FALSE
  /\ UNCHANGED <<buffered, topic, committed, cell, at, joined, rows, cells>>

LabNext ==
  \/ SendEvent \/ Publish \/ ProducerDies
  \/ RunCell \/ Join \/ Classify \/ AutoCommit \/ FinishCell
  \/ InterruptCell \/ KernelDies \/ Evict

LabSpec == LabInit /\ [][LabNext]_labVars

-----------------------------------------------------------------------------
(* Properties. *)

\* Though a later execution classifies again what an earlier one did not commit,
\* the file the statistics are made from has no event twice, none out of order
\* and no gap; and unless the kernel dies it has every event that was committed
\* since its cell was started, which no later execution reads.
ResultsOnceAndWhole ==
  /\ \A i \in 1 .. Len(rows) - 1 : rows[i + 1] = rows[i] + 1
  /\ cell # "down" =>
       \A e \in joined + 1 .. committed : \E i \in DOMAIN rows : rows[i] = e
=============================================================================
