------------------------------- MODULE Topic --------------------------------
(***************************************************************************)
(* What a transport promises its callers (the Producer and Consumer        *)
(* protocols of shared/transport/base.py): send() publishes a payload,     *)
(* poll() returns the payloads published since the last poll, each once    *)
(* and in order, to every consumer.  A new consumer object starts at the   *)
(* beginning.                                                              *)
(***************************************************************************)
EXTENDS Naturals, Sequences

CONSTANTS Payloads, Consumers

VARIABLES
  published,  \* the payloads sent, in order
  read,       \* per consumer: how many of them poll() has returned
  returned    \* per consumer: everything its poll() has returned

vars == <<published, read, returned>>

Init ==
  /\ published = << >>
  /\ read = [c \in Consumers |-> 0]
  /\ returned = [c \in Consumers |-> << >>]

\* send(topic, payload)
Publish(p) ==
  /\ published' = Append(published, p)
  /\ UNCHANGED <<read, returned>>

\* poll(topic)
Poll(c) ==
  /\ returned' = [returned EXCEPT
       ![c] = @ \o SubSeq(published, read[c] + 1, Len(published))]
  /\ read' = [read EXCEPT ![c] = Len(published)]
  /\ UNCHANGED published

\* A consumer object is created anew.
Restart(c) ==
  /\ read' = [read EXCEPT ![c] = 0]
  /\ returned' = [returned EXCEPT ![c] = << >>]
  /\ UNCHANGED published

Next ==
  \/ \E p \in Payloads : Publish(p)
  \/ \E c \in Consumers : Poll(c) \/ Restart(c)

Spec == Init /\ [][Next]_vars
=============================================================================
