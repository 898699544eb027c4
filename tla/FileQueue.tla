----------------------------- MODULE FileQueue ------------------------------
(***************************************************************************)
(* One topic of the file transport (shared/transport/file_queue.py): an    *)
(* append-only JSON-lines file, one producer, and consumers that remember  *)
(* a byte offset.                                                          *)
(*                                                                         *)
(* The file is a sequence of units, a unit being a run of bytes of one     *)
(* line: payload n is written as a line of size units, 1 .. size, of which *)
(* the last but one closes the object and the last is the newline.  An     *)
(* append can be seen half done (a write() of a long line, a producer      *)
(* killed in it), so a line may end short of its size, and the next one    *)
(* then continues it.  A line parses exactly when it is all the units of   *)
(* one object, with its newline or without: what json.loads() sees         *)
(* otherwise has unbalanced braces, or data after the first object.        *)
(*                                                                         *)
(* The collector's entrypoint removes the capture topic whenever the       *)
(* container starts; the consumers are other processes and keep their      *)
(* offsets.                                                                *)
(***************************************************************************)
EXTENDS Integers, Sequences, SequencesExt

CONSTANTS
  Consumers,    \* the processes that poll the topic
  MaxLineSize,  \* bound: units in a line, its newline among them
  MaxSends,     \* bound: payloads sent
  MaxCrashes,   \* bound: producers killed in the middle of a line
  MaxRemovals,  \* bound: removals of the file
  MaxRestarts   \* bound: consumers created anew

ASSUME BoundsAssumption ==
  /\ MaxLineSize \in Nat \ {0, 1}
  /\ {MaxSends, MaxCrashes, MaxRemovals, MaxRestarts} \subseteq Nat

VARIABLES
  file,      \* <root>/<topic>.jsonl
  pending,   \* the units of the current line not yet written
  offset,    \* _offsets[topic] of each consumer, 0 when it has none
  sent,      \* history: payloads send() was called with, numbered from 1
  returned,  \* history: everything each consumer's poll() has returned
  crashes, removals, restarts  \* bounded counters

vars == <<file, pending, offset, sent, returned, crashes, removals, restarts>>

-----------------------------------------------------------------------------
(* Lines and parsing.                                                      *)

Line(n, size) == [k \in 1 .. size |-> [id |-> n, part |-> k, size |-> size]]

Newline(u)    == u.part = u.size
EndsObject(u) == u.part = u.size - 1

\* u and v are consecutive in the text of well-formed lines.
Follows(u, v) ==
  IF Newline(u) THEN v.part = 1
                ELSE v.id = u.id /\ v.part = u.part + 1

\* Every line of the text parses, or is blank: it may begin with the newline
\* of an object that was read before, and end before that of the last one.
Parses(text) ==
  text # << >> =>
    /\ text[1].part = 1 \/ Newline(text[1])
    /\ EndsObject(text[Len(text)]) \/ Newline(text[Len(text)])
    /\ \A i \in 1 .. Len(text) - 1 : Follows(text[i], text[i + 1])

\* The payloads whose objects end in the first n units of a text, in order
PayloadsUpTo(text) ==
  LET payloads[n \in 0 .. Len(text)] ==
        IF n = 0 THEN << >>
        ELSE IF EndsObject(text[n]) THEN Append(payloads[n - 1], text[n].id) ELSE payloads[n - 1]
  IN  payloads

PayloadsOf(text) == PayloadsUpTo(text)[Len(text)]

-----------------------------------------------------------------------------

Init ==
  /\ file = << >> /\ pending = << >>
  /\ offset = [c \in Consumers |-> 0]
  /\ sent = 0
  /\ returned = [c \in Consumers |-> << >>]
  /\ crashes = 0 /\ removals = 0 /\ restarts = 0

\* FileQueueProducer.send(): open in append mode and write one line, all of
\* it or its first units.
Send ==
  /\ pending = << >>
  /\ sent < MaxSends
  /\ sent' = sent + 1
  /\ \E size \in 2 .. MaxLineSize : \E k \in 1 .. size :
       /\ file' = file \o SubSeq(Line(sent + 1, size), 1, k)
       /\ pending' = SubSeq(Line(sent + 1, size), k + 1, size)
  /\ UNCHANGED <<offset, returned, crashes, removals, restarts>>

\* The rest of the line reaches the file.
SendRest ==
  /\ pending # << >>
  /\ file' = file \o pending
  /\ pending' = << >>
  /\ UNCHANGED <<offset, sent, returned, crashes, removals, restarts>>

\* The producer is killed in the middle of a line.
ProducerCrash ==
  /\ pending # << >>
  /\ crashes < MaxCrashes
  /\ crashes' = crashes + 1
  /\ pending' = << >>
  /\ UNCHANGED <<file, offset, sent, returned, removals, restarts>>

UnreadSkippingOne(c) == SubSeq(file, offset[c] + 2, Len(file))

\* What a poll reads: from the offset to the end, nothing past the end.
Unread(c) == SubSeq(file, offset[c] + 1, Len(file))

\* fh.tell() at the end of the file; a seek past the end stays there.
OffsetNotKept(c) == offset[c]
OffsetAfter(c) == IF offset[c] > Len(file) THEN offset[c] ELSE Len(file)

\* FileQueueConsumer.poll(): json.loads() raises on the first line that does
\* not parse, before the offset is stored and with nothing returned.
PollIgnoringBadLines(c) ==
  /\ offset' = [offset EXCEPT ![c] = OffsetAfter(c)]
  /\ returned' = [returned EXCEPT
       ![c] = @ \o (IF Parses(Unread(c)) THEN PayloadsOf(Unread(c)) ELSE << >>)]
  /\ UNCHANGED <<file, pending, sent, crashes, removals, restarts>>

Poll(c) ==
  /\ Parses(Unread(c))
  /\ returned' = [returned EXCEPT ![c] = @ \o PayloadsOf(Unread(c))]
  /\ offset' = [offset EXCEPT ![c] = OffsetAfter(c)]
  /\ UNCHANGED <<file, pending, sent, crashes, removals, restarts>>

\* The poll of a text with a line that does not parse raises, and leaves
\* everything as it was: the consumer sees the same text again.
PollRaises(c) ==
  /\ ~Parses(Unread(c))
  /\ UNCHANGED vars

\* rm -f of the topic, as a new producer starts
RemoveFile ==
  /\ pending = << >>
  /\ removals < MaxRemovals
  /\ removals' = removals + 1
  /\ file' = << >>
  /\ UNCHANGED <<pending, offset, sent, returned, crashes, restarts>>

\* A consumer process restarts: FileQueueConsumer() with no offsets.
ConsumerRestart(c) ==
  /\ restarts < MaxRestarts
  /\ restarts' = restarts + 1
  /\ offset' = [offset EXCEPT ![c] = 0]
  /\ returned' = [returned EXCEPT ![c] = << >>]
  /\ UNCHANGED <<file, pending, sent, crashes, removals>>

Next ==
  \/ Send \/ SendRest \/ ProducerCrash \/ RemoveFile
  \/ \E c \in Consumers : Poll(c) \/ PollRaises(c) \/ ConsumerRestart(c)

\* A consumer polls in a loop; a producer that is not killed finishes its line.
Fairness ==
  /\ WF_vars(SendRest)
  /\ \A c \in Consumers : WF_vars(Poll(c))

Spec == Init /\ [][Next]_vars /\ Fairness

-----------------------------------------------------------------------------

Unit == [id : 1 .. MaxSends, part : 1 .. MaxLineSize, size : 2 .. MaxLineSize]

\* The type of every variable.
TypeOK ==
  /\ file \in Seq(Unit) /\ pending \in Seq(Unit)
  /\ offset \in [Consumers -> Nat]
  /\ sent \in 0 .. MaxSends
  /\ returned \in [Consumers -> Seq(1 .. MaxSends)]
  /\ crashes \in 0 .. MaxCrashes
  /\ removals \in 0 .. MaxRemovals
  /\ restarts \in 0 .. MaxRestarts

\* A consumer gets no payload twice and none out of order, whatever lines are
\* torn and whenever the file is removed under it.
ReturnedOnceInOrder ==
  \A c \in Consumers : \A i, j \in DOMAIN returned[c] :
    i < j => returned[c][i] < returned[c][j]

\* What lies before a consumer's offset has been returned to it ("returns only
\* new lines on each poll": a line that is not returned is not new).
ReadMeansReturned ==
  \A c \in Consumers :
    LET before == SubSeq(file, 1, IF offset[c] > Len(file) THEN Len(file) ELSE offset[c])
    IN  ToSet(PayloadsOf(before)) \subseteq ToSet(returned[c])

\* The promise of the Consumer protocol, for as long as the file is not
\* removed: torn lines delay a poll and never lose or repeat a payload.
T == INSTANCE Topic WITH
       Payloads  <- 1 .. MaxSends,
       published <- PayloadsOf(file),
       read      <- [c \in Consumers |-> Len(PayloadsOf(SubSeq(file, 1, offset[c])))]

ImplementsTopicUntilRemoved ==
  T!Init /\ [][removals' = 0 => [T!Next]_(T!vars)]_vars

\* Every payload whose object is whole reaches every consumer, unless the file
\* is removed, or a producer was killed in the middle of a line.
EveryPayloadArrives ==
  \A n \in 1 .. MaxSends : \A c \in Consumers :
    (n \in ToSet(PayloadsOf(file)))
      ~> (n \in ToSet(returned[c]) \/ removals > 0 \/ crashes > 0)
=============================================================================
