-------------------------- MODULE CtiWorkerProofs ---------------------------
(***************************************************************************)
(* Proofs about the CTI worker.  The invariant says where the worker       *)
(* stands: it handles the alerts in the order of the topic, so that the    *)
(* alerts it has handled are a prefix of it, and what is left of the batch *)
(* follows that prefix.                                                    *)
(***************************************************************************)
EXTENDS CtiWorker, SequenceTheorems, TLAPS

\* alerts handled in this run, or that it started after
handled == cursor - Len(batch)

Busy == phase \in {"chat", "send", "write", "save"}

\* reports of this run that are saved: the last may be open
Saved == IF phase = "save" THEN n - 1 ELSE n

\* Where the worker stands in the topic.
Positions ==
  /\ Len(alerts) <= MaxAlerts
  /\ transport = "file" => committed = 0 /\ Saved = handled
  /\ Len(batch) <= cursor /\ Saved \in 0 .. handled
  /\ \A i \in 1 .. Len(batch) : batch[i] = handled + i
  /\ Busy => batch # << >>
  /\ phase = "down" => outbox = << >>
  /\ phase # "down" => run # 0
  /\ last_llm <= now

\* The chats of this run are with the alerts handled, and the one at hand.
ChatsInOrder ==
  \A c \in chats :
    /\ c.run <= run
    /\ c.run = run /\ phase # "down" =>
         \/ c.alert <= handled /\ c.end <= last_llm
         \/ phase = "chat" /\ c.alert = handled + 1
         \/ phase \in {"send", "write", "save"} /\ c.alert = handled + 1 /\ c.end <= last_llm

Sent(a) == a \in ToSet(cti) \cup ToSet(outbox) \cup given_up
Done(a) == (\E r \in reported : r.alert = a) /\ Sent(a)

\* What is handled, or committed, is reported; a report follows its message.
HandledAreDone ==
  /\ \A a \in 1 .. handled : Done(a)
  /\ \A a \in 1 .. committed : Done(a)
  /\ phase \in {"write", "save"} => Sent(handled + 1)

Name(a, k) == [window |-> alerts[a], n |-> k]

\* A file, unless it is torn, is of the window in its name; a report of this run
\* is in the file with its number; a file consumer numbers an alert by its
\* position.
FilesInv ==
  /\ \A f \in DOMAIN files : files[f] # Torn =>
       /\ alerts[files[f]] = f.window
       /\ transport = "file" => files[f] = f.n
  /\ \A r \in reported : r.run = run /\ phase # "down" =>
       \E k \in 1 .. Saved : Name(r.alert, k) \in DOMAIN files /\ files[Name(r.alert, k)] = r.alert

\* The only report of this run that is open and not saved is the one at hand,
\* and its file is torn.
TornInv ==
  /\ \A q \in opened : q.run <= run
  /\ \A q \in opened \ reported : q.run = run /\ phase # "down" =>
       phase = "save" /\ q.alert = handled + 1
  /\ phase = "save" =>
       /\ Name(handled + 1, n) \in DOMAIN files /\ files[Name(handled + 1, n)] = Torn
       /\ [run |-> run, alert |-> handled + 1] \in opened

IInv ==
  /\ TypeOK /\ Positions
  /\ ChatsInOrder /\ Throttled
  /\ HandledAreDone
  /\ FilesInv /\ TornInv /\ ReportsKept

-----------------------------------------------------------------------------

\* The elements of a sequence that is appended to.
LEMMA ToSetOfAppend ==
  ASSUME NEW S, NEW s \in Seq(S), NEW e \in S
  PROVE  ToSet(Append(s, e)) = ToSet(s) \cup {e}
<1>1. DOMAIN Append(s, e) = 1 .. Len(s) + 1 /\ DOMAIN s = 1 .. Len(s) /\ Len(s) \in Nat
  OBVIOUS
<1>2. Append(s, e)[Len(s) + 1] = e /\ \A i \in 1 .. Len(s) : Append(s, e)[i] = s[i]
  OBVIOUS
<1>3. ASSUME NEW x \in ToSet(Append(s, e)) PROVE x \in ToSet(s) \cup {e}
  <2>1. PICK i \in 1 .. Len(s) + 1 : x = Append(s, e)[i]
    BY <1>1, <1>3 DEF ToSet
  <2>2. i = Len(s) + 1 \/ i \in 1 .. Len(s)
    BY <1>1
  <2> QED BY <1>1, <1>2, <2>1, <2>2 DEF ToSet
<1>4. ASSUME NEW x \in ToSet(s) \cup {e} PROVE x \in ToSet(Append(s, e))
  <2>1. \E i \in 1 .. Len(s) + 1 : x = Append(s, e)[i]
    <3>1. CASE x = e
      BY <1>1, <1>2, <3>1
    <3>2. CASE x \in ToSet(s)
      BY <1>1, <1>2, <3>2 DEF ToSet
    <3> QED BY <1>4, <3>1, <3>2
  <2> QED BY <1>1, <2>1 DEF ToSet
<1> QED BY <1>3, <1>4

\* The elements of a sequence, taken one by one.
LEMMA ToSetOfTail ==
  ASSUME NEW S, NEW s \in Seq(S), s # << >>
  PROVE  ToSet(s) = {Head(s)} \cup ToSet(Tail(s))
<1>1. DOMAIN s = 1 .. Len(s) /\ Len(s) \in Nat /\ Len(s) > 0 /\ Head(s) = s[1]
  OBVIOUS
<1>2. DOMAIN Tail(s) = 1 .. Len(s) - 1 /\ \A i \in 1 .. Len(s) - 1 : Tail(s)[i] = s[i + 1]
  OBVIOUS
<1>3. ASSUME NEW x \in ToSet(s) PROVE x \in {Head(s)} \cup ToSet(Tail(s))
  <2>1. PICK i \in 1 .. Len(s) : x = s[i]
    BY <1>1, <1>3 DEF ToSet
  <2>2. CASE i = 1
    BY <1>1, <2>1, <2>2
  <2>3. CASE i # 1
    <3>1. i - 1 \in 1 .. Len(s) - 1 /\ Tail(s)[i - 1] = x
      BY <1>1, <1>2, <2>1, <2>3
    <3> QED BY <1>2, <3>1 DEF ToSet
  <2> QED BY <2>2, <2>3
<1>4. ASSUME NEW x \in {Head(s)} \cup ToSet(Tail(s)) PROVE x \in ToSet(s)
  <2>1. CASE x = Head(s)
    BY <1>1, <2>1 DEF ToSet
  <2>2. CASE x \in ToSet(Tail(s))
    <3>1. PICK i \in 1 .. Len(s) - 1 : x = s[i + 1]
      BY <1>2, <2>2 DEF ToSet
    <3>2. i + 1 \in DOMAIN s
      BY <1>1
    <3> QED BY <3>1, <3>2 DEF ToSet
  <2> QED BY <1>4, <2>1, <2>2
<1> QED BY <1>3, <1>4


\* The constants are natural numbers.
LEMMA Bounds ==
  /\ Cooldown \in Nat /\ MaxAlerts \in Nat /\ MaxTime \in Nat
  /\ MaxRestarts \in Nat /\ MaxGiveUps \in Nat
BY TimesAssumption

\* So are the counters and the lengths of the sequences.
LEMMA Numbers ==
  ASSUME TypeOK
  PROVE  /\ Len(alerts) \in Nat /\ Len(batch) \in Nat /\ cursor \in Nat /\ handled \in Int
         /\ committed \in Nat /\ n \in Nat /\ run \in Nat /\ now \in Nat /\ last_llm \in Int
         /\ Saved \in Int /\ Published = 1 .. Len(alerts)
<1>1. alerts \in Seq(Windows) /\ batch \in Seq(Published)
  BY DEF TypeOK
<1>2. Len(alerts) \in Nat /\ Len(batch) \in Nat
  BY <1>1
<1>3. cursor \in Nat /\ committed \in Nat /\ n \in Nat /\ run \in Nat /\ now \in Nat
  BY <1>2, Bounds DEF TypeOK
<1>4. last_llm \in Int
  BY Bounds DEF TypeOK, Never
<1> QED
  BY <1>2, <1>3, <1>4 DEF handled, Saved, Published

\* Nothing is polled, reported or committed at first.
LEMMA InitInv == Init => IInv
<1> SUFFICES ASSUME Init PROVE IInv
  OBVIOUS
<1>0. /\ Len(alerts) = 0 /\ Len(batch) = 0 /\ alerts \in Seq(Windows)
      /\ cti \in Seq(Published) /\ batch \in Seq(Published) /\ outbox \in Seq(Published)
  BY DEF Init
<1>1. TypeOK
  <2>1. files = [f \in {} |-> 0]
    BY DEF Init
  <2>2. DOMAIN files = {} /\ files \in [DOMAIN files -> Published \cup {Torn}]
    BY <2>1
  <2>3. 0 \in 0 .. MaxTime /\ 0 \in 0 .. Len(alerts) /\ 0 \in 0 .. MaxAlerts /\ 0 \in 0 .. MaxRestarts + 1
    BY <1>0, Bounds
  <2> QED
    BY <1>0, <2>2, <2>3 DEF Init, TypeOK
<1>2. Positions
  <2>1. /\ phase = "down" /\ outbox = << >> /\ n = 0 /\ committed = 0 /\ cursor = 0 /\ now = 0
        /\ last_llm = -Cooldown
    BY DEF Init, Never
  <2>2. ~Busy /\ handled = 0 /\ Saved = 0 /\ last_llm <= now /\ Len(alerts) <= MaxAlerts
    BY <1>0, <2>1, Bounds DEF Busy, handled, Saved
  <2> QED
    BY <1>0, <2>1, <2>2 DEF Positions
<1>3. ChatsInOrder /\ Throttled /\ ReportsKept
  BY DEF Init, ChatsInOrder, Throttled, ReportsKept
<1>4. HandledAreDone
  BY <1>0 DEF Init, HandledAreDone, handled
<1>5. FilesInv /\ TornInv
  <2>1. DOMAIN files = {}
    BY DEF Init
  <2> QED
    BY <2>1 DEF Init, FilesInv, TornInv
<1> QED
  BY <1>1, <1>2, <1>3, <1>4, <1>5 DEF IInv

\* A published alert changes nothing of the alerts before it.
LEMMA PublishAlertInv ==
  ASSUME IInv, NEW w \in Windows, PublishAlert(w)
  PROVE  IInv'
<1> USE DEF IInv
<1>1. /\ Len(alerts') = Len(alerts) + 1 /\ alerts' \in Seq(Windows)
      /\ \A a \in Published : alerts'[a] = alerts[a]
      /\ Len(alerts) \in Nat
  BY DEF PublishAlert, TypeOK, Published
<1>2. Published \subseteq Published'
  BY <1>1 DEF Published
<1>3. TypeOK'
  <2>1. committed' \in 0 .. Len(alerts') /\ cursor' \in 0 .. Len(alerts')
    BY <1>1 DEF PublishAlert, TypeOK, worker
  <2>2. cti' \in Seq(Published') /\ batch' \in Seq(Published') /\ outbox' \in Seq(Published')
    BY <1>2 DEF PublishAlert, TypeOK, worker
  <2>3. files' \in [DOMAIN files' -> Published' \cup {Torn}]
    BY <1>2 DEF PublishAlert, TypeOK
  <2>4. /\ chats' \subseteq [run : Runs, start : 0 .. MaxTime, end : 0 .. MaxTime, alert : Published']
        /\ opened' \subseteq [run : Runs, alert : Published'] /\ reported' \subseteq opened'
        /\ given_up' \subseteq Published'
    BY <1>2 DEF PublishAlert, TypeOK, history
  <2> QED
    BY <1>1, <2>1, <2>2, <2>3, <2>4 DEF PublishAlert, TypeOK, worker, Never, Runs
<1>4. Positions'
  <2>1. Len(alerts') <= MaxAlerts
    <3>1. Len(alerts) < MaxAlerts
      BY DEF PublishAlert
    <3>2. MaxAlerts \in Nat
      BY Bounds
    <3> QED
      BY <1>1, <3>1, <3>2
  <2>2. UNCHANGED <<transport, committed, phase, cursor, batch, n, last_llm, outbox, run, now>>
    BY DEF PublishAlert, worker
  <2>3. UNCHANGED <<handled, Saved, Busy>>
    BY <2>2 DEF handled, Saved, Busy
  <2>4. Positions
    OBVIOUS
  <2> QED
    BY <2>1, <2>2, <2>3, <2>4 DEF Positions
<1>5. ChatsInOrder' /\ Throttled' /\ HandledAreDone'
  BY DEF PublishAlert, ChatsInOrder, Throttled, HandledAreDone, Done, Sent, handled, worker, history
<1>0. UNCHANGED <<transport, files, phase, cursor, batch, n, run, opened, reported>>
  BY DEF PublishAlert, worker, history
<1>6. \A q \in opened : q.alert \in Published /\ alerts'[q.alert] = alerts[q.alert]
  BY <1>1 DEF TypeOK
<1>7. FilesInv'
  <2>1. \A f \in DOMAIN files : files[f] # Torn => alerts'[files[f]] = alerts[files[f]]
    BY <1>1 DEF TypeOK
  <2>2. \A r \in reported, k \in 1 .. Saved : Name(r.alert, k)' = Name(r.alert, k)
    BY <1>6 DEF Name, TypeOK
  <2>3. ASSUME NEW f \in DOMAIN files', files'[f] # Torn
        PROVE  alerts'[files'[f]] = f.window /\ (transport' = "file" => files'[f] = f.n)
    BY <1>0, <2>1, <2>3 DEF FilesInv
  <2>4. ASSUME NEW r \in reported, r.run = run, phase # "down"
        PROVE  \E k \in 1 .. Saved : Name(r.alert, k)' \in DOMAIN files /\ files[Name(r.alert, k)'] = r.alert
    BY <2>2, <2>4 DEF FilesInv
  <2>5. Saved' = Saved
    BY <1>0 DEF Saved
  <2> QED
    BY <1>0, <2>3, <2>4, <2>5 DEF FilesInv, Name
<1>8. TornInv'
  <2>1. handled' = handled
    BY <1>0 DEF handled
  <2>2. ASSUME phase = "save" PROVE Name(handled + 1, n)' = Name(handled + 1, n)
    <3>1. [run |-> run, alert |-> handled + 1] \in opened
      BY <2>2 DEF TornInv
    <3>2. alerts'[handled + 1] = alerts[handled + 1]
      BY <1>6, <3>1
    <3> QED
      BY <1>0, <2>1, <3>2 DEF Name
  <2> QED
    BY <1>0, <2>1, <2>2 DEF TornInv
<1>9. ReportsKept'
  <2>1. reported \subseteq opened
    BY DEF TypeOK
  <2> QED
    BY <1>0, <1>6, <2>1 DEF ReportsKept
<1> QED
  BY <1>3, <1>4, <1>5, <1>7, <1>8, <1>9

\* The clock only makes the last chat older.
LEMMA TickInv == IInv /\ Tick => IInv'
<1> SUFFICES ASSUME IInv, Tick PROVE IInv'
  OBVIOUS
<1> USE DEF IInv
<1>1. now' \in 0 .. MaxTime /\ now' = now + 1 /\ now \in Nat
  BY SMTT(30), Bounds DEF Tick, TypeOK
<1>2. TypeOK'
  BY <1>1 DEF Tick, TypeOK, worker, history, Published, Never
<1>3. Positions'
  BY <1>1, Numbers DEF Tick, Positions, handled, Saved, Busy, worker
<1>4. ChatsInOrder' /\ Throttled' /\ HandledAreDone'
  BY DEF Tick, ChatsInOrder, Throttled, HandledAreDone, Done, Sent, handled, worker, history
<1>5. FilesInv' /\ TornInv' /\ ReportsKept'
  BY DEF Tick, FilesInv, TornInv, Name, ReportsKept, handled, Saved, worker, history
<1> QED
  BY <1>2, <1>3, <1>4, <1>5

\* What leaves the outbox is on the topic or given up; nothing else changes.
LEMMA DeliverInv == IInv /\ (Deliver \/ GiveUp) => IInv'
<1> SUFFICES ASSUME IInv, Deliver \/ GiveUp PROVE IInv'
  OBVIOUS
<1> USE DEF IInv
<1>0. UNCHANGED <<transport, alerts, now, committed, files, phase, llm, cursor, batch, n,
                  last_llm, report, run, chats, opened, reported>>
  BY DEF Deliver, GiveUp, history
<1>1. outbox \in Seq(Published) /\ outbox # << >> /\ cti \in Seq(Published)
  BY DEF Deliver, GiveUp, TypeOK
<1>2. Head(outbox) \in Published /\ outbox' = Tail(outbox) /\ outbox' \in Seq(Published)
  <2>1. outbox' = Tail(outbox)
    BY DEF Deliver, GiveUp
  <2> QED
    BY <1>1, <2>1, HeadTailProperties
<1>3. \/ cti' = Append(cti, Head(outbox)) /\ given_up' = given_up
      \/ cti' = cti /\ given_up' = given_up \cup {Head(outbox)}
  BY DEF Deliver, GiveUp, history
<1>4. cti' \in Seq(Published) /\ given_up' \subseteq Published
  <2>1. Append(cti, Head(outbox)) \in Seq(Published)
    BY <1>1, <1>2, AppendProperties
  <2> QED
    BY <1>1, <1>2, <1>3, <2>1 DEF TypeOK
<1>5. Published' = Published
  BY <1>0 DEF Published
<1>6. \A a \in Nat : Sent(a) => Sent(a)'
  <2>1. ToSet(outbox) = {Head(outbox)} \cup ToSet(outbox')
    BY <1>1, <1>2, ToSetOfTail
  <2>2. cti' = Append(cti, Head(outbox)) => ToSet(cti') = ToSet(cti) \cup {Head(outbox)}
    BY <1>1, <1>2, ToSetOfAppend
  <2> QED
    BY <1>3, <2>1, <2>2 DEF Sent
<1>7. TypeOK'
  BY <1>0, <1>2, <1>4, <1>5 DEF TypeOK, Never
<1>8. Positions'
  <2>1. phase # "down"
    BY <1>1 DEF Positions
  <2> QED
    BY <1>0, <2>1 DEF Positions, Busy, handled, Saved
<1>10. ChatsInOrder' /\ Throttled' /\ FilesInv' /\ TornInv' /\ ReportsKept'
  BY <1>0 DEF ChatsInOrder, Throttled, handled, Saved, FilesInv, TornInv, Name, ReportsKept
<1>9. HandledAreDone'
  <2>1. handled' = handled /\ handled \in Nat /\ committed \in Nat
    BY <1>0 DEF handled, Positions, TypeOK
  <2>2. \A a \in Nat : Done(a) => Done(a)'
    BY <1>0, <1>6 DEF Done
  <2> QED
    BY <1>0, <1>6, <2>1, <2>2 DEF HandledAreDone
<1> QED
  BY <1>7, <1>8, <1>9, <1>10


\* A file consumer starts over, a Kafka one after what is committed.
LEMMA StartInv == IInv /\ Start => IInv'
<1> SUFFICES ASSUME IInv, Start PROVE IInv'
  OBVIOUS
<1> USE DEF IInv
<1>0. /\ UNCHANGED <<transport, alerts, now, committed, cti, files, report, chats, opened, reported,
                     given_up>>
      /\ phase = "down" /\ phase' = "loop" /\ run' = run + 1 /\ run <= MaxRestarts /\ llm' \in BOOLEAN
      /\ cursor' = (IF transport = "file" THEN 0 ELSE committed)
      /\ batch' = << >> /\ n' = 0 /\ last_llm' = Never /\ outbox' = << >>
  BY DEF Start, history
<1>1. Published' = Published
  BY <1>0 DEF Published
<1>2. Len(batch') = 0 /\ batch' \in Seq(Published) /\ outbox' \in Seq(Published) /\ handled' = cursor'
      /\ Saved' = 0
  BY <1>0, Numbers DEF handled, Saved
<1>3. cursor' \in 0 .. Len(alerts) /\ cursor' <= committed
  BY <1>0, Numbers DEF TypeOK
<1>4. TypeOK'
  <2>1. 0 \in 0 .. MaxAlerts /\ run + 1 \in 0 .. MaxRestarts + 1
    BY <1>0, Bounds, Numbers
  <2> QED
    BY <1>0, <1>1, <1>2, <1>3, <2>1 DEF TypeOK, Never
<1>5. Positions'
  <2>1. Never <= now
    BY Bounds, Numbers DEF Never
  <2>2. transport' = "file" => committed' = 0 /\ Saved' = handled'
    BY <1>0, <1>2 DEF Positions
  <2>3. Len(alerts') <= MaxAlerts
    BY <1>0 DEF Positions
  <2>4. ~Busy'
    BY <1>0 DEF Busy
  <2> QED
    BY <1>0, <1>2, <1>3, <2>1, <2>2, <2>3, <2>4, Numbers DEF Positions
<1>6. ChatsInOrder'
  <2>1. \A c \in chats : c.run <= run /\ c.run \in Int
    BY DEF ChatsInOrder, TypeOK, Runs
  <2> QED
    BY <1>0, <2>1, Numbers DEF ChatsInOrder
<1>7. Throttled' /\ ReportsKept'
  BY <1>0 DEF Throttled, ReportsKept
<1>8. HandledAreDone'
  <2>1. phase = "down" => outbox = << >>
    BY DEF Positions
  <2>2. \A a : Done(a) => Done(a)'
    BY <1>0, <2>1 DEF Done, Sent
  <2>3. \A a \in 1 .. handled' : a \in 1 .. committed
    BY <1>2, <1>3, Numbers
  <2> QED
    BY <1>0, <2>2, <2>3 DEF HandledAreDone
<1>9. FilesInv' /\ TornInv'
  <2>1. \A q \in opened : q.run <= run /\ q.run \in Int
    BY DEF TornInv, TypeOK, Runs
  <2>2. \A q \in opened' : q.run <= run' /\ q.run # run'
    BY <1>0, <2>1, Numbers
  <2>3. reported' \subseteq opened'
    BY <1>0 DEF TypeOK
  <2>4. \A f \in DOMAIN files' : files'[f] # Torn =>
          alerts'[files'[f]] = f.window /\ (transport' = "file" => files'[f] = f.n)
    BY <1>0 DEF FilesInv
  <2> QED
    BY <1>0, <2>2, <2>3, <2>4 DEF FilesInv, TornInv
<1> QED
  BY <1>4, <1>5, <1>6, <1>7, <1>8, <1>9

\* A poll moves the cursor over what becomes the batch, and may commit where
\* it was, when all before it is handled.
LEMMA PollInv == IInv /\ Poll => IInv'
<1> SUFFICES ASSUME IInv, Poll PROVE IInv'
  OBVIOUS
<1> USE DEF IInv
<1>0. /\ UNCHANGED <<transport, alerts, now, cti, files, phase, llm, n, last_llm, report, outbox,
                     run, chats, opened, reported, given_up>>
      /\ phase = "loop" /\ batch = << >>
      /\ committed' = committed \/ (transport = "kafka" /\ committed' = cursor)
  BY DEF Poll, Commit, history
<1>1. PICK pos \in cursor .. Len(alerts) :
        batch' = [i \in 1 .. pos - cursor |-> cursor + i] /\ cursor' = pos
  <2>1. cursor \in 0 .. Len(alerts)
    BY DEF TypeOK
  <2> QED
    BY <2>1, Numbers DEF Poll
<1>2. pos - cursor \in Nat /\ pos \in Nat /\ Len(batch) = 0 /\ handled = cursor
  BY <1>0, Numbers DEF handled
<1>3. batch' \in Seq(Published) /\ Len(batch') = pos - cursor /\ DOMAIN batch' = 1 .. pos - cursor
  <2>1. \A i \in 1 .. pos - cursor : cursor + i \in Published
    BY <1>2, Numbers
  <2> QED
    BY <1>1, <1>2, <2>1
<1>4. handled' = handled /\ Saved' = Saved
  BY <1>0, <1>1, <1>2, <1>3, Numbers DEF handled, Saved
<1>5. Published' = Published
  BY <1>0 DEF Published
<1>6. TypeOK'
  <2>1. cursor' \in 0 .. Len(alerts) /\ committed' \in 0 .. Len(alerts)
    BY <1>0, <1>1, Numbers DEF TypeOK
  <2> QED
    BY <1>0, <1>3, <1>5, <2>1 DEF TypeOK, Never
<1>7. Positions'
  <2>1. \A i \in 1 .. Len(batch') : batch'[i] = handled' + i
    BY <1>1, <1>2, <1>3, <1>4
  <2>2. ~Busy'
    BY <1>0 DEF Busy
  <2>3. Len(batch') <= cursor'
    BY <1>1, <1>2, <1>3, Numbers
  <2>4. transport' = "file" => committed' = 0
    BY <1>0 DEF Positions
  <2> QED
    BY <1>0, <1>4, <2>1, <2>2, <2>3, <2>4 DEF Positions
<1>8. ChatsInOrder' /\ Throttled' /\ FilesInv' /\ TornInv' /\ ReportsKept'
  BY <1>0, <1>4 DEF ChatsInOrder, Throttled, FilesInv, TornInv, Name, ReportsKept
<1>9. HandledAreDone'
  <2>1. \A a : Done(a)' = Done(a)
    BY <1>0 DEF Done, Sent
  <2> QED
    BY <1>0, <1>2, <1>4, <2>1 DEF HandledAreDone
<1> QED
  BY <1>6, <1>7, <1>8, <1>9


\* The template needs no chat.
LEMMA WriteTemplateInv == IInv /\ WriteTemplate => IInv'
<1> SUFFICES ASSUME IInv, WriteTemplate PROVE IInv'
  OBVIOUS
<1> USE DEF IInv
<1>0. /\ UNCHANGED <<transport, alerts, now, committed, cti, files, llm, cursor, batch, n, last_llm,
                     outbox, run, chats, opened, reported, given_up>>
      /\ phase = "loop" /\ batch # << >> /\ phase' = "send" /\ report' = "template"
  BY DEF WriteTemplate, history
<1>1. TypeOK'
  BY <1>0 DEF TypeOK, Published, Never
<1>2. Positions' /\ ChatsInOrder' /\ Throttled' /\ FilesInv' /\ TornInv' /\ ReportsKept'
  BY <1>0 DEF Positions, Busy, ChatsInOrder, Throttled, handled, Saved, FilesInv, TornInv, Name,
              ReportsKept
<1>3. HandledAreDone'
  BY <1>0 DEF HandledAreDone, handled, Done, Sent
<1> QED
  BY <1>1, <1>2, <1>3

\* The head of the batch is the alert after those handled.
LEMMA AtHand ==
  ASSUME TypeOK, Positions, batch # << >>
  PROVE  /\ Head(batch) = handled + 1 /\ Head(batch) \in Published
         /\ Tail(batch) \in Seq(Published) /\ Len(Tail(batch)) = Len(batch) - 1
         /\ \A i \in 1 .. Len(batch) - 1 : Tail(batch)[i] = batch[i + 1]
<1>1. batch \in Seq(Published) /\ Len(batch) \in Nat /\ Len(batch) > 0
  BY DEF TypeOK
<1>2. Head(batch) = batch[1] /\ batch[1] = handled + 1
  BY <1>1 DEF Positions
<1> QED
  BY <1>1, <1>2, HeadTailProperties

\* A chat begins when the cooldown is over since the last one of this run,
\* which is with an alert handled.
LEMMA BeginChatInv == IInv /\ BeginChat => IInv'
<1> SUFFICES ASSUME IInv, BeginChat PROVE IInv'
  OBVIOUS
<1> USE DEF IInv
<1> DEFINE new == [run |-> run, start |-> now, end |-> MaxTime, alert |-> Head(batch)]
<1>0. /\ UNCHANGED <<transport, alerts, now, committed, cti, files, llm, cursor, batch, n, last_llm,
                     report, outbox, run, opened, reported, given_up>>
      /\ phase = "loop" /\ batch # << >> /\ phase' = "chat"
      /\ now - last_llm >= Cooldown /\ chats' = chats \cup {new}
  BY DEF BeginChat, UseLlm, history
<1>1. Head(batch) = handled + 1 /\ Head(batch) \in Published
  BY <1>0, AtHand
<1>2. run \in Runs
  <2>1. handled + 1 >= 1
    BY <1>1, Numbers
  <2>2. run # 0
    BY <1>0 DEF Positions
  <2> QED
    BY <2>2, Bounds DEF TypeOK, Runs
<1>3. new \in [run : Runs, start : 0 .. MaxTime, end : 0 .. MaxTime, alert : Published]
  BY <1>1, <1>2, Bounds DEF TypeOK
<1>4. TypeOK'
  BY <1>0, <1>3 DEF TypeOK, Published, Never
<1>5. Positions' /\ FilesInv' /\ TornInv' /\ ReportsKept'
  BY <1>0 DEF Positions, Busy, handled, Saved, FilesInv, TornInv, Name, ReportsKept
<1>6. HandledAreDone'
  BY <1>0 DEF HandledAreDone, handled, Done, Sent
<1>7. \A c \in chats : c.run = run => c.alert <= handled /\ c.end <= last_llm
  BY <1>0 DEF ChatsInOrder
<1>8. ChatsInOrder'
  <2>1. \A c \in chats : c.run <= run
    BY DEF ChatsInOrder
  <2> QED
    BY SMTT(30), <1>0, <1>1, <1>7, <2>1, Numbers DEF ChatsInOrder, handled
<1>9. Throttled'
  <2> SUFFICES ASSUME NEW c \in chats', NEW d \in chats', c.run = d.run, c.alert < d.alert
               PROVE  d.start - c.end >= Cooldown
    BY DEF Throttled
  <2>0. c.end \in Int /\ c.alert \in Int /\ d.alert \in Int
    <3>1. chats' \subseteq [run : Runs, start : 0 .. MaxTime, end : 0 .. MaxTime, alert : Published]
      BY <1>0, <1>3 DEF TypeOK
    <3>2. Published \subseteq Int /\ 0 .. MaxTime \subseteq Int
      BY Numbers
    <3> QED
      BY <3>1, <3>2
  <2>1. CASE d \in chats /\ c \in chats
    BY <2>1 DEF Throttled
  <2>2. CASE d = new
    <3>1. c \in chats
      BY <1>0, <2>0, <2>2
    <3> QED
      BY SMTT(30), <1>0, <1>7, <2>0, <2>2, <3>1, Bounds, Numbers
  <2>3. CASE d \in chats /\ c = new
    BY <1>1, <1>7, <2>0, <2>3, Numbers
  <2> QED
    BY <1>0, <2>1, <2>2, <2>3
<1> QED
  BY <1>4, <1>5, <1>6, <1>8, <1>9


\* A chat that ends is with the alert at hand, and the last.
LEMMA EndChatInv == IInv /\ EndChat => IInv'
<1> SUFFICES ASSUME IInv, EndChat PROVE IInv'
  OBVIOUS
<1> USE DEF IInv
<1> DEFINE Ended(c) == IF c.run = run /\ c.alert = Head(batch) THEN [c EXCEPT !.end = now] ELSE c
           Chat == [run : Runs, start : 0 .. MaxTime, end : 0 .. MaxTime, alert : Published]
<1>0. /\ UNCHANGED <<transport, alerts, now, committed, cti, files, llm, cursor, batch, n,
                     outbox, run, opened, reported, given_up>>
      /\ phase = "chat" /\ phase' = "send" /\ report' \in {"llm", "template"} /\ last_llm' = now
      /\ chats' = {Ended(c) : c \in chats}
  BY DEF EndChat, history
<1>1. Head(batch) = handled + 1 /\ Head(batch) \in Published /\ batch # << >>
  BY <1>0, AtHand DEF Positions, Busy
<1>2. chats \subseteq Chat /\ now \in 0 .. MaxTime
  BY DEF TypeOK
<1>3. \A c \in chats :
        /\ Ended(c) \in Chat /\ c.end \in Int /\ c.alert \in Int
        /\ Ended(c).run = c.run /\ Ended(c).alert = c.alert /\ Ended(c).start = c.start
        /\ Ended(c).end = IF c.run = run /\ c.alert = Head(batch) THEN now ELSE c.end
  <2>1. Published \subseteq Int /\ 0 .. MaxTime \subseteq Int
    BY Numbers
  <2> QED
    BY <1>2, <2>1
<1> HIDE DEF Ended
<1>4. TypeOK'
  <2>1. chats' \subseteq Chat
    BY <1>0, <1>3
  <2> QED
    BY <1>0, <1>2, <2>1 DEF TypeOK, Published, Never
<1>5. Positions'
  BY <1>0, Numbers DEF Positions, Busy, handled, Saved
<1>6. FilesInv' /\ TornInv' /\ ReportsKept'
  BY <1>0 DEF FilesInv, TornInv, Name, ReportsKept, handled, Saved
<1>7. HandledAreDone'
  BY <1>0 DEF HandledAreDone, handled, Done, Sent
<1>8. ChatsInOrder'
  <2> SUFFICES ASSUME NEW c \in chats
               PROVE  /\ c.run <= run
                      /\ c.run = run => \/ c.alert <= handled /\ Ended(c).end <= now
                                        \/ c.alert = handled + 1 /\ Ended(c).end <= now
    <3>1. handled' = handled
      BY <1>0 DEF handled
    <3> QED
      BY <1>0, <1>3, <3>1 DEF ChatsInOrder
  <2>1. /\ c.run <= run
        /\ c.run = run => \/ c.alert <= handled /\ c.end <= last_llm
                          \/ c.alert = handled + 1
    BY <1>0 DEF ChatsInOrder
  <2>2. last_llm <= now
    BY DEF Positions
  <2> QED
    BY SMTT(30), <1>1, <1>3, <2>1, <2>2, Numbers
<1>9. Throttled'
  <2> SUFFICES ASSUME NEW c \in chats, NEW d \in chats, c.run = d.run, c.alert < d.alert
               PROVE  d.start - Ended(c).end >= Cooldown
    BY <1>0, <1>3 DEF Throttled
  <2>1. d.start - c.end >= Cooldown
    BY DEF Throttled
  <2>2. CASE c.run = run /\ c.alert = Head(batch)
    \* no chat of this run is with a later alert
    <3>1. d.alert <= handled \/ d.alert = handled + 1
      BY <1>0, <2>2 DEF ChatsInOrder
    <3>2. c.alert \in Int /\ d.alert \in Int /\ c.alert = handled + 1 /\ handled \in Int
      BY <1>1, <1>3, <2>2, Numbers
    <3> QED
      BY <3>1, <3>2
  <2> QED
    BY <1>3, <2>1, <2>2
<1> QED
  BY <1>4, <1>5, <1>6, <1>7, <1>8, <1>9

\* The message of the alert at hand is sent or buffered.
LEMMA SendCtiInv == IInv /\ SendCti => IInv'
<1> SUFFICES ASSUME IInv, SendCti PROVE IInv'
  OBVIOUS
<1> USE DEF IInv
<1>0. /\ UNCHANGED <<transport, alerts, now, committed, files, llm, cursor, batch, n, last_llm,
                     report, run, chats, opened, reported, given_up>>
      /\ phase = "send" /\ phase' = "write"
      /\ \/ cti' = Append(cti, Head(batch)) /\ outbox' = outbox
         \/ cti' = cti /\ outbox' = Append(outbox, Head(batch))
  BY DEF SendCti, history
<1>1. Head(batch) = handled + 1 /\ Head(batch) \in Published /\ batch # << >>
  BY <1>0, AtHand DEF Positions, Busy
<1>2. cti \in Seq(Published) /\ outbox \in Seq(Published)
  BY DEF TypeOK
<1>3. cti' \in Seq(Published) /\ outbox' \in Seq(Published)
  <2>1. Append(cti, Head(batch)) \in Seq(Published) /\ Append(outbox, Head(batch)) \in Seq(Published)
    BY <1>1, <1>2, AppendProperties
  <2> QED
    BY <1>0, <1>2, <2>1
<1>4. ToSet(cti') \cup ToSet(outbox') = ToSet(cti) \cup ToSet(outbox) \cup {handled + 1}
  <2>1. cti' = Append(cti, Head(batch)) => ToSet(cti') = ToSet(cti) \cup {handled + 1}
    BY <1>1, <1>2, ToSetOfAppend
  <2>2. outbox' = Append(outbox, Head(batch)) => ToSet(outbox') = ToSet(outbox) \cup {handled + 1}
    BY <1>1, <1>2, ToSetOfAppend
  <2> QED
    BY <1>0, <2>1, <2>2
<1>5. TypeOK'
  BY <1>0, <1>3 DEF TypeOK, Published, Never
<1>6. Positions'
  BY <1>0, <1>1 DEF Positions, Busy, handled, Saved
<1>7. ChatsInOrder' /\ Throttled' /\ FilesInv' /\ TornInv' /\ ReportsKept'
  BY <1>0 DEF ChatsInOrder, Throttled, handled, Saved, FilesInv, TornInv, Name, ReportsKept
<1>8. HandledAreDone'
  <2>1. \A a : Sent(a)' <=> Sent(a) \/ a = handled + 1
    BY <1>0, <1>4 DEF Sent
  <2>2. handled' = handled
    BY <1>0 DEF handled
  <2> QED
    BY <1>0, <2>1, <2>2 DEF HandledAreDone, Done
<1> QED
  BY <1>5, <1>6, <1>7, <1>8

\* A file that is opened again has the window and the number of the new report;
\* it is of another run, and under the file transport of the same alert.
LEMMA OpenReportInv == IInv /\ OpenReport => IInv'
<1> SUFFICES ASSUME IInv, OpenReport PROVE IInv'
  OBVIOUS
<1> USE DEF IInv
<1> DEFINE a == Head(batch)
           file == Name(a, n + 1)
           new == [run |-> run, alert |-> a]
<1>0. /\ UNCHANGED <<transport, alerts, now, committed, cti, llm, cursor, batch, last_llm, report,
                     outbox, run, chats, reported, given_up>>
      /\ phase = "write" /\ phase' = "save" /\ n' = n + 1
      /\ files' = [f \in DOMAIN files \cup {file} |-> IF f = file THEN Torn ELSE files[f]]
      /\ opened' = opened \cup {new}
  BY DEF OpenReport, FileName, Name
<1>1. a = handled + 1 /\ a \in Published /\ batch # << >> /\ a \in Nat
  BY <1>0, AtHand, Numbers DEF Positions, Busy
<1>2. handled' = handled /\ Published' = Published /\ Saved = n /\ Saved' = n
  BY <1>0, Numbers DEF handled, Published, Saved
<1>3. n + 1 \in 1 .. MaxAlerts /\ (transport = "file" => n + 1 = a)
  <2>1. n <= handled /\ a <= Len(alerts) /\ Len(alerts) <= MaxAlerts
        /\ (transport = "file" => n = handled)
    BY <1>1, <1>2, Numbers DEF Positions
  <2> QED
    BY SMTT(30), <1>1, <2>1, Bounds, Numbers
<1>4. run \in Runs
  BY <1>0, Bounds DEF TypeOK, Runs, Positions
<1>5. file \in [window : Windows, n : 1 .. MaxAlerts]
  <2>1. alerts[a] \in Windows
    <3>1. alerts \in Seq(Windows) /\ a \in 1 .. Len(alerts)
      BY <1>1, Numbers DEF TypeOK
    <3> HIDE DEF IInv, a
    <3> QED
      BY <3>1
  <2> QED
    BY <1>3, <2>1 DEF Name
<1>6. /\ DOMAIN files' = DOMAIN files \cup {file} /\ files'[file] = Torn
      /\ \A f \in DOMAIN files : f # file => files'[f] = files[f]
  BY <1>0
<1>7. file.window = alerts[a] /\ file.n = n + 1
  BY DEF Name
<1>8. new \in [run : Runs, alert : Published] /\ new.run = run /\ new.alert = a
  BY <1>1, <1>4
<1>9. /\ \A x, k : Name(x, k)' = Name(x, k)
      /\ \A x : \A k \in 1 .. n : Name(x, k) # file
  BY <1>0, Numbers DEF Name
<1> HIDE DEF file, a, new
\* a report this run has saved is in the file it was saved in
<1>10. ASSUME NEW r \in reported, r.run = run
       PROVE  \E k \in 1 .. n :
                /\ Name(r.alert, k) \in DOMAIN files /\ files[Name(r.alert, k)] = r.alert
                /\ Name(r.alert, k) # file /\ files'[Name(r.alert, k)] = r.alert
  <2>1. PICK k \in 1 .. n : Name(r.alert, k) \in DOMAIN files /\ files[Name(r.alert, k)] = r.alert
    BY <1>0, <1>2, <1>10 DEF FilesInv
  <2> QED
    BY <1>6, <1>9, <2>1
<1>11. \A r \in reported : r \in opened /\ r.alert \in Published /\ r.alert # Torn
  BY Numbers DEF TypeOK, Torn
<1>12. TypeOK'
  <2>1. files' \in [DOMAIN files' -> Published \cup {Torn}]
    BY <1>0 DEF TypeOK
  <2>2. DOMAIN files' \subseteq [window : Windows, n : 1 .. MaxAlerts]
    BY <1>5, <1>6 DEF TypeOK
  <2>3. opened' \subseteq [run : Runs, alert : Published] /\ reported' \subseteq opened'
    BY <1>0, <1>8 DEF TypeOK
  <2>4. n' \in 0 .. MaxAlerts
    BY <1>0, <1>3
  <2> QED
    BY <1>0, <1>2, <2>1, <2>2, <2>3, <2>4 DEF TypeOK, Never
<1>13. Positions'
  BY <1>0, <1>1, <1>2 DEF Positions, Busy
<1>14. ChatsInOrder' /\ Throttled' /\ HandledAreDone'
  BY <1>0, <1>2 DEF ChatsInOrder, Throttled, HandledAreDone, Done, Sent
<1>15. FilesInv'
  <2>1. ASSUME NEW f \in DOMAIN files', files'[f] # Torn
        PROVE  alerts[files'[f]] = f.window /\ (transport = "file" => files'[f] = f.n)
    BY <1>6, <2>1 DEF FilesInv
  <2>2. ASSUME NEW r \in reported, r.run = run
        PROVE  \E k \in 1 .. n : Name(r.alert, k)' \in DOMAIN files' /\ files'[Name(r.alert, k)'] = r.alert
    BY <1>6, <1>9, <1>10, <2>2
  <2> QED
    BY <1>0, <1>2, <2>1, <2>2 DEF FilesInv
<1>16. TornInv'
  <2>1. \A q \in opened' : q.run <= run
    BY <1>0, <1>8, Numbers DEF TornInv
  <2>2. \A q \in opened' \ reported : q.run = run => q.alert = handled + 1
    BY <1>0, <1>1, <1>8 DEF TornInv
  <2>3. Name(handled + 1, n)' = file
    BY <1>0, <1>1, <1>2 DEF file, Name
  <2>4. [run |-> run, alert |-> handled + 1] = new
    BY <1>1 DEF new
  <2> QED
    BY <1>0, <1>2, <1>6, <2>1, <2>2, <2>3, <2>4 DEF TornInv
<1>17. ReportsKept'
  <2>1. ASSUME NEW r \in reported
        PROVE  \/ \E f \in DOMAIN files' : files'[f] = r.alert
               \/ \E q \in opened' :
                    /\ q.run > r.run /\ alerts[q.alert] = alerts[r.alert]
                    /\ transport = "file" => q.alert = r.alert /\ q \notin reported
    <3>1. CASE r.run = run
      BY <1>6, <1>10, <3>1
    <3>2. CASE \E f \in DOMAIN files : files[f] = r.alert /\ f # file
      BY <1>6, <3>2
    <3>3. CASE r.run # run /\ file \in DOMAIN files /\ files[file] = r.alert
      <4>1. alerts[r.alert] = alerts[a] /\ (transport = "file" => r.alert = a)
        BY <1>3, <1>7, <1>11, <3>3 DEF FilesInv
      <4>2. new.run > r.run
        <5>1. r.run <= run /\ r.run \in Int /\ run \in Int
          BY <1>11, Numbers DEF TornInv, TypeOK, Runs
        <5> QED
          BY <1>8, <3>3, <5>1
      <4>3. ASSUME transport = "file" PROVE new \notin reported
        <5> SUFFICES ASSUME new \in reported PROVE FALSE
          OBVIOUS
        <5>1. PICK k \in 1 .. n : Name(a, k) \in DOMAIN files /\ files[Name(a, k)] = a
          BY <1>8, <1>10
        <5>2. a = k
          BY <1>11, <1>8, <4>3, <5>1 DEF FilesInv, Name
        <5> QED
          BY <1>3, <4>3, <5>2, Numbers
      <4> QED
        BY <1>0, <1>8, <4>1, <4>2, <4>3
    <3>4. CASE ~ \E f \in DOMAIN files : files[f] = r.alert
      BY <1>0, <3>4 DEF ReportsKept
    <3> QED
      BY <3>1, <3>2, <3>3, <3>4
  <2>2. ASSUME NEW p \in opened' \ reported, NEW q \in opened' \ reported, p.run = q.run
        PROVE  p = q
    \* no report of this run was open
    <3>1. \A o \in opened \ reported : o.run # run
      BY <1>0 DEF TornInv
    <3> QED
      BY <1>0, <1>8, <2>2, <3>1 DEF ReportsKept
  <2> QED
    BY <1>0, <2>1, <2>2 DEF ReportsKept
<1> QED
  BY <1>12, <1>13, <1>14, <1>15, <1>16, <1>17

\* The file that is written was torn, so that no report is replaced.
LEMMA SaveReportInv == IInv /\ SaveReport => IInv'
<1> SUFFICES ASSUME IInv, SaveReport PROVE IInv'
  OBVIOUS
<1> USE DEF IInv
<1> DEFINE a == Head(batch)
           file == Name(a, n)
           new == [run |-> run, alert |-> a]
<1>0. /\ UNCHANGED <<transport, alerts, now, committed, cti, llm, cursor, n, last_llm, report, outbox,
                     run, chats, opened, given_up>>
      /\ phase = "save" /\ phase' = "loop" /\ batch' = Tail(batch)
      /\ files' = [files EXCEPT ![file] = a]
      /\ reported' = reported \cup {new}
  BY DEF SaveReport, FileName, Name
<1>1. a = handled + 1 /\ a \in Published /\ batch # << >> /\ a \in Nat
      /\ Tail(batch) \in Seq(Published) /\ Len(Tail(batch)) = Len(batch) - 1
      /\ \A i \in 1 .. Len(batch) - 1 : Tail(batch)[i] = batch[i + 1]
  BY <1>0, AtHand, Numbers DEF Positions, Busy
<1>2. handled' = a /\ Published' = Published /\ Saved = n - 1 /\ Saved' = n
  BY <1>0, <1>1, Numbers DEF handled, Published, Saved
<1>3. n \in 1 .. a /\ n \in Nat /\ (transport = "file" => n = a)
  BY SMTT(30), <1>1, <1>2, Numbers DEF Positions
<1>4. file \in DOMAIN files /\ files[file] = Torn /\ new \in opened
  BY <1>0, <1>1 DEF TornInv
<1>5. file.window = alerts[a] /\ file.n = n
  BY DEF Name
<1>6. /\ DOMAIN files' = DOMAIN files /\ files'[file] = a
      /\ \A f \in DOMAIN files : f # file => files'[f] = files[f]
  BY <1>0, <1>4 DEF TypeOK
<1>7. new.run = run /\ new.alert = a
  OBVIOUS
<1>8. \A x, k : Name(x, k)' = Name(x, k)
  BY <1>0 DEF Name
<1> HIDE DEF file, a, new
<1>9. \A r \in reported : r \in opened /\ r.alert \in Published /\ r.alert # Torn
  BY Numbers DEF TypeOK, Torn
<1>10. TypeOK'
  <2>1. files' \in [DOMAIN files' -> Published \cup {Torn}]
    BY <1>0, <1>1 DEF TypeOK
  <2>2. DOMAIN files' \subseteq [window : Windows, n : 1 .. MaxAlerts]
    BY <1>6 DEF TypeOK
  <2>3. opened' \subseteq [run : Runs, alert : Published] /\ reported' \subseteq opened'
    BY <1>0, <1>4 DEF TypeOK
  <2>4. batch' \in Seq(Published)
    BY <1>0, <1>1
  <2> QED
    BY <1>0, <1>2, <2>1, <2>2, <2>3, <2>4 DEF TypeOK, Never
<1>11. Positions'
  <2>1. Len(batch') <= cursor' /\ Saved' \in 0 .. handled'
    BY <1>0, <1>1, <1>2, <1>3, Numbers DEF Positions
  <2>2. ASSUME NEW i \in 1 .. Len(batch') PROVE batch'[i] = handled' + i
    <3>1. i \in 1 .. Len(batch) - 1 /\ i + 1 \in 1 .. Len(batch)
      BY <1>0, <1>1, Numbers
    <3>2. batch'[i] = handled + (i + 1)
      BY <1>0, <1>1, <3>1 DEF Positions
    <3> QED
      BY SMTT(30), <1>1, <1>2, <3>1, <3>2, Numbers
  <2>3. transport' = "file" => committed' = 0 /\ Saved' = handled'
    BY <1>0, <1>2, <1>3 DEF Positions
  <2>4. ~Busy'
    BY <1>0 DEF Busy
  <2> QED
    BY <1>0, <2>1, <2>2, <2>3, <2>4 DEF Positions
<1>12. ChatsInOrder' /\ Throttled'
  <2>1. Throttled'
    BY <1>0 DEF Throttled
  <2>2. \A c \in chats : c.alert \in Int
    BY SMTT(30), Numbers DEF TypeOK
  <2> QED
    BY SMTT(30), <1>0, <1>1, <1>2, <2>1, <2>2, Numbers DEF ChatsInOrder
<1>13. HandledAreDone'
  <2>1. \A x : Sent(x)' = Sent(x)
    BY <1>0 DEF Sent
  <2>2. \A x : Done(x) => Done(x)'
    BY <1>0, <2>1 DEF Done
  <2>3. \A x : x = a => Done(x)'
    BY <1>0, <1>1, <1>7, <2>1 DEF Done, HandledAreDone
  <2>4. \A x \in 1 .. handled' : x \in 1 .. handled \/ x = a
    BY <1>1, <1>2, Numbers
  <2> QED
    BY <1>0, <2>2, <2>3, <2>4 DEF HandledAreDone
<1>14. FilesInv'
  <2>1. ASSUME NEW f \in DOMAIN files', files'[f] # Torn
        PROVE  alerts[files'[f]] = f.window /\ (transport = "file" => files'[f] = f.n)
    <3>1. CASE f = file
      BY <1>3, <1>5, <1>6, <3>1
    <3>2. CASE f # file
      BY <1>6, <2>1, <3>2 DEF FilesInv
    <3> QED
      BY <3>1, <3>2
  <2>2. ASSUME NEW r \in reported', r.run = run
        PROVE  \E k \in 1 .. n : Name(r.alert, k) \in DOMAIN files' /\ files'[Name(r.alert, k)] = r.alert
    <3>1. CASE r = new
      <4>1. n \in 1 .. n
        BY <1>3
      <4>2. Name(r.alert, n) = file
        BY <1>7, <3>1 DEF file
      <4> QED
        BY <1>4, <1>6, <1>7, <3>1, <4>1, <4>2
    <3>2. CASE r \in reported
      <4>1. PICK k \in 1 .. n - 1 : Name(r.alert, k) \in DOMAIN files /\ files[Name(r.alert, k)] = r.alert
        BY <1>0, <1>2, <2>2, <3>2 DEF FilesInv
      <4>2. k \in 1 .. n /\ Name(r.alert, k) # file
        BY <1>3, <1>4, <1>9, <3>2, <4>1
      <4> QED
        BY <1>6, <4>1, <4>2
    <3> QED
      BY <1>0, <3>1, <3>2
  <2> QED
    BY <1>0, <1>2, <1>8, <2>1, <2>2 DEF FilesInv
<1>15. TornInv'
  <2>1. ASSUME NEW q \in opened \ reported', q.run = run PROVE FALSE
    \* it would be the one at hand, now reported
    <3>1. q.alert = a /\ q \in [run : Runs, alert : Published]
      BY <1>0, <1>1, <2>1 DEF TornInv, TypeOK
    <3>2. q = new
      BY <2>1, <3>1 DEF new
    <3> QED
      BY <1>0, <2>1, <3>2
  <2> QED
    BY <1>0, <2>1 DEF TornInv
<1>16. ReportsKept'
  <2>1. ASSUME NEW r \in reported'
        PROVE  \/ \E f \in DOMAIN files' : files'[f] = r.alert
               \/ \E q \in opened :
                    /\ q.run > r.run /\ alerts[q.alert] = alerts[r.alert]
                    /\ transport = "file" => q.alert = r.alert /\ q \notin reported'
    <3>1. CASE r.alert = a
      BY <1>4, <1>6, <3>1
    <3>2. CASE r \in reported /\ \E f \in DOMAIN files : files[f] = r.alert
      BY <1>4, <1>6, <1>9, <3>2
    <3>3. CASE r \in reported /\ r.alert # a /\ ~ \E f \in DOMAIN files : files[f] = r.alert
      BY <1>0, <1>7, <3>3 DEF ReportsKept
    <3> QED
      BY <1>0, <1>7, <3>1, <3>2, <3>3
  <2>2. \A p, q \in opened \ reported' : p.run = q.run => p = q
    BY <1>0 DEF ReportsKept
  <2> QED
    BY <1>0, <2>1, <2>2 DEF ReportsKept
<1> QED
  BY <1>10, <1>11, <1>12, <1>13, <1>14, <1>15, <1>16

\* A death forgets the batch, the counter and the last chat; what is open stays
\* torn.
LEMMA DieInv == IInv /\ Die => IInv'
<1> SUFFICES ASSUME IInv, Die PROVE IInv'
  OBVIOUS
<1> USE DEF IInv
<1>0. /\ UNCHANGED <<transport, alerts, now, committed, cti, files, run, chats, opened, reported>>
      /\ phase' = "down" /\ llm' = FALSE /\ cursor' = 0 /\ batch' = << >> /\ n' = 0
      /\ last_llm' = Never /\ report' = "template" /\ outbox' = << >>
      /\ given_up' = given_up \cup ToSet(outbox)
  BY DEF Die
<1>1. TypeOK'
  <2>1. ToSet(outbox) \subseteq Published
    BY DEF TypeOK, ToSet
  <2>2. outbox' \in Seq(Published) /\ batch' \in Seq(Published)
    BY <1>0
  <2>3. 0 \in 0 .. Len(alerts) /\ 0 \in 0 .. MaxAlerts
    BY Numbers, Bounds
  <2> QED
    BY <1>0, <2>1, <2>2, <2>3 DEF TypeOK, Published, Never
<1>2. Positions'
  <2>0. Never <= now
    BY Bounds, Numbers DEF Never
  <2>1. Len(batch') = 0 /\ handled' = 0 /\ Saved' = 0
    <3>1. Len(batch') = 0 /\ cursor' = 0
      BY <1>0
    <3>2. Saved' = 0
      BY <1>0 DEF Saved
    <3> QED
      BY <3>1, <3>2 DEF handled
  <2>2. ~Busy'
    BY <1>0 DEF Busy
  <2>3. Len(alerts') <= MaxAlerts /\ (transport' = "file" => committed' = 0)
    BY <1>0 DEF Positions
  <2> QED
    BY <1>0, <2>0, <2>1, <2>2, <2>3 DEF Positions
<1>3. ChatsInOrder' /\ Throttled' /\ FilesInv' /\ TornInv' /\ ReportsKept'
  BY <1>0 DEF ChatsInOrder, Throttled, FilesInv, TornInv, ReportsKept
<1>4. HandledAreDone'
  <2>1. \A x : Done(x) => Done(x)'
    BY <1>0 DEF Done, Sent
  <2>2. 1 .. handled' = {}
    BY <1>0 DEF handled
  <2> QED
    BY <1>0, <2>1, <2>2 DEF HandledAreDone
<1> QED
  BY <1>1, <1>2, <1>3, <1>4

\* Every step keeps the invariant.
LEMMA NextInv == IInv /\ [Next]_vars => IInv'
<1> SUFFICES ASSUME IInv, [Next]_vars PROVE IInv'
  OBVIOUS
<1>1. CASE UNCHANGED vars
  <2>0. /\ UNCHANGED <<transport, alerts, now, committed, cti, files, phase, llm, cursor, batch, n>>
        /\ UNCHANGED <<last_llm, report, outbox, run, chats, opened, reported, given_up>>
    BY <1>1 DEF vars, worker, history
  <2>1. TypeOK'
    BY <2>0 DEF IInv, TypeOK, Published, Never
  <2>2. Positions' /\ ChatsInOrder' /\ Throttled' /\ FilesInv' /\ TornInv' /\ ReportsKept'
    BY <2>0 DEF IInv, Positions, Busy, ChatsInOrder, Throttled, handled, Saved, FilesInv, TornInv,
                Name, ReportsKept
  <2>3. HandledAreDone'
    BY <2>0 DEF IInv, HandledAreDone, handled, Done, Sent
  <2> QED
    BY <2>1, <2>2, <2>3 DEF IInv
<1> QED
  BY <1>1, PublishAlertInv, TickInv, DeliverInv, StartInv, PollInv, WriteTemplateInv, BeginChatInv,
     EndChatInv, SendCtiInv, OpenReportInv, SaveReportInv, DieInv DEF Next

\* In every state the worker can reach, the invariant holds.
LEMMA InvHolds == Spec => []IInv
BY InitInv, NextInv, PTL DEF Spec

-----------------------------------------------------------------------------

\* Every variable keeps its type, whatever the windows and the bounds.
THEOREM TypeCorrect == Spec => []TypeOK
<1>1. IInv => TypeOK
  BY DEF IInv
<1> QED
  BY <1>1, InvHolds, PTL

\* The LLM is idle for the cooldown between two chats of a run, for every
\* cooldown and however the clock runs (main.py, the use_llm test).
THEOREM ThrottleHolds == Spec => []Throttled
<1>1. IInv => Throttled
  BY DEF IInv
<1> QED
  BY <1>1, InvHolds, PTL

\* An alert that the group has committed is reported, and its message sent:
\* the auto-commit of a poll never runs ahead of the batch.
THEOREM CommittedAlertsAreReported == Spec => []CommittedIsReported
<1>1. IInv => CommittedIsReported
  BY DEF IInv, HandledAreDone, Done, Sent, CommittedIsReported
<1> QED
  BY <1>1, InvHolds, PTL

\* A saved report is lost only to a later run that opens its name: under the file
\* transport only while that run has the same report open, or died with it open;
\* and a run leaves at most one report torn (main.py, the write_text call).
THEOREM ReportsAreKept == Spec => []ReportsKept
<1>1. IInv => ReportsKept
  BY DEF IInv
<1> QED
  BY <1>1, InvHolds, PTL
=============================================================================
