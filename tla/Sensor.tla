------------------------------- MODULE Sensor -------------------------------
(***************************************************************************)
(* The parser of the passive sensor (containers/collector/sensor.py), and  *)
(* the helpers of shared/dns.py that the stub collector reads names with.  *)
(*                                                                         *)
(* scapy (external) either dissects the question of a packet, or leaves it *)
(* as a blob of bytes in wire format, which the sensor walks itself.  A    *)
(* name is a sequence of labels, a label of bytes; text is left out.       *)
(***************************************************************************)
EXTENDS Integers, Sequences, SequencesExt

CONSTANTS
  Labels,     \* labels of the names that are asked for
  MaxLabels,  \* how many a name has at most
  QTypes,     \* query types, as numbers
  None

VARIABLES
  packet,  \* the packet on the wire, None without one
  event    \* what the sensor published of the last packet, None if nothing

vars == <<packet, event>>

DnsNames == UNION {[1 .. n -> Labels] : n \in 1 .. MaxLabels}

-----------------------------------------------------------------------------
(* Wire format. *)

BigEndian(bytes) ==
  LET value[i \in 0 .. Len(bytes)] == IF i = 0 THEN 0 ELSE 256 * value[i - 1] + bytes[i]
  IN  value[Len(bytes)]
TwoBytes(n) == <<n \div 256, n % 256>>

OnWire(name) == FlattenSeq([i \in DOMAIN name |-> <<Len(name[i])>> \o name[i]])

\* the question of build_query()
Question(name, qtype) == OnWire(name) \o <<0>> \o TwoBytes(qtype) \o TwoBytes(1)

\* a Python slice from i to before j, both counted from 1
Slice(buf, i, j) == SubSeq(buf, i, IF j - 1 < Len(buf) THEN j - 1 ELSE Len(buf))

\* From the length of a label: the labels up to a zero byte, to a pointer if those
\* are told apart, or to the end, and where they stop.  A label may run off the end.
WalkFrom(buf, pointers) ==
  LET walk[i \in Nat \ {0}] ==
        IF i > Len(buf) \/ buf[i] = 0 \/ (pointers /\ buf[i] >= 64)
        THEN [labels |-> << >>, at |-> i]
        ELSE LET rest == walk[i + 1 + buf[i]]
             IN  [labels |-> <<Slice(buf, i + 1, i + 1 + buf[i])>> \o rest.labels, at |-> rest.at]
  IN  walk
Walk(buf, pointers) == WalkFrom(buf, pointers)[1]

\* parse_qname() of a packet after its header
ParseQname(buf) ==
  LET w == Walk(buf, FALSE) IN IF w.at <= Len(buf) THEN w.labels ELSE None

QTypeOfWhatIsThere(buf, i) == IF i <= Len(buf) THEN BigEndian(Slice(buf, i, i + 2)) ELSE None
QTypeAt(buf, i) == IF i + 1 <= Len(buf) THEN BigEndian(Slice(buf, i, i + 2)) ELSE None

DecodeRawQuestion(buf) ==
  LET w == Walk(buf, TRUE)
      pointer == w.at <= Len(buf) /\ buf[w.at] # 0
      qname == IF w.labels \in {<< >>, << << >> >>} THEN None ELSE w.labels
  IN  [qname |-> qname,
       qtype |-> IF pointer \/ qname = None THEN None ELSE QTypeAt(buf, w.at + 1)]

-----------------------------------------------------------------------------
(* Packets. *)

\* What scapy makes of a question: a DNSQR, a blob, or nothing
QuestionFields(q) ==
  CASE q.kind = "DNSQR" -> [qname |-> q.name, qtype |-> q.qtype]
    [] q.kind = "Raw"   -> DecodeRawQuestion(q.load)
    [] q.kind = "none"  -> [qname |-> None, qtype |-> None]

ParseDns(p) ==
  LET question == QuestionFields(p.question)
  IN  [qname |-> question.qname, qtype |-> question.qtype,
       is_response |-> p.qr, rcode |-> IF p.qr THEN p.rcode ELSE None]

\* Any packet that is not DNS over port 53, or that scapy trips over, is None.
ParsePacket(p) == IF p.dns53 /\ ~p.malformed THEN ParseDns(p) ELSE None

Init == packet = None /\ event = None

Arrive(p) ==
  /\ packet = None
  /\ packet' = p /\ event' = None

\* handle()
Handle ==
  /\ packet # None
  /\ event' = ParsePacket(packet)
  /\ packet' = None

\* a question cut off after its first k bytes
Cut(name, qtype, k) ==
  [kind |-> "Raw", name |-> name, qtype |-> qtype, load |-> SubSeq(Question(name, qtype), 1, k)]

\* a name that ends in a compression pointer
Compressed(name) ==
  [kind |-> "Raw", name |-> name, qtype |-> 1,
   load |-> OnWire(name) \o <<192, 12>>]

Questions ==
  {[kind |-> "DNSQR", name |-> n, qtype |-> t] : n \in DnsNames, t \in QTypes}
    \cup (UNION {{Cut(n, t, k) : k \in 0 .. Len(Question(n, t))} : n \in DnsNames, t \in QTypes})
    \cup {Compressed(n) : n \in DnsNames} \cup {[kind |-> "none"]}

Next ==
  \/ \E q \in Questions, qr, dns53, malformed \in BOOLEAN :
       Arrive([question |-> q, qr |-> qr, rcode |-> 0, dns53 |-> dns53, malformed |-> malformed])
  \/ Handle

Spec == Init /\ [][Next]_vars

-----------------------------------------------------------------------------
(* Properties. *)

\* what a blob cut at some byte can still say of the question it came from
IsRestOf(qname, name) ==
  qname = None \/ /\ Len(qname) <= Len(name)
                  /\ \A i \in DOMAIN qname : /\ IsPrefix(qname[i], name[i])
                                             /\ i < Len(qname) => qname[i] = name[i]

\* A question that scapy leaves as a blob is not lost, and nothing is made up:
\* name and type are those that were asked for as far as the bytes are there,
\* whatever the bytes inside of labels look like; and the stub collector's
\* parser reads the same name of a whole question.
RawQuestionSurvives ==
  [][packet # None /\ packet' = None /\ packet.dns53 /\ ~packet.malformed
       /\ packet.question.kind = "Raw" =>
       LET q == packet.question
           nameEnd == Len(Question(q.name, q.qtype)) - 4
           whole == IsPrefix(SubSeq(Question(q.name, q.qtype), 1, nameEnd), q.load)
       IN  /\ event' # None
           /\ IsRestOf(event'.qname, q.name)
           /\ whole => event'.qname = q.name /\ ParseQname(q.load) = q.name
           /\ event'.qtype = (IF whole /\ Len(q.load) >= nameEnd + 2 THEN q.qtype ELSE None)]_vars
=============================================================================
