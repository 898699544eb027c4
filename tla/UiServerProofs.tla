--------------------------- MODULE UiServerProofs --------------------------
(***************************************************************************)
(* The safety properties of the dashboard: for any number of pages, any    *)
(* sizes of buffers and queues, and any number of rows and failures.       *)
(***************************************************************************)
EXTENDS UiServer, SequenceTheorems, TLAPS

Texts == {"waiting", "offline", "groq"}
DashType == [traffic : Seq(Nat), alerts : Seq(Nat), total_captures : Nat, total_alerts : Nat]
SummaryType == [text : Texts, seen : Nat, transient : BOOLEAN]
EventType ==
  [type : {"traffic", "alerts"}, rows : Seq(Nat)]
  \cup [type : {"stats"}, captures : Nat, alerts : Nat]
  \cup [type : {"summary"}, summary : SummaryType]
  \cup [type : {"detector"}, alert : Nat]
PageType ==
  [feed : Seq(Nat), box : Seq(Nat), captures : Nat, alerts : Nat,
   summary : SummaryType, detector : Nat]

\* The types TypeOK leaves out
Types ==
  /\ TypeOK
  /\ captures \in Nat /\ reports \in Nat
  /\ dash \in DashType
  /\ summary \in SummaryType /\ prompted \in Nat
  /\ queue \in [Pages -> Seq(EventType)]
  /\ page \in [Pages -> PageType]
  /\ lost \in [Pages -> BOOLEAN] /\ unsent \in BOOLEAN

-----------------------------------------------------------------------------

NewestOf(rows) == IF rows = << >> THEN 0 ELSE rows[Len(rows)]

\* The dashboard counts what it polled, and its buffers end with the newest rows.
CountsWhatItPolled ==
  /\ dash.total_captures = polled.captures /\ dash.total_alerts = polled.reports
  /\ Unbroken(dash.traffic) /\ NewestOf(dash.traffic) = dash.total_captures
  /\ Unbroken(dash.alerts) /\ NewestOf(dash.alerts) = dash.total_alerts

\* A prompt knows no more alerts than there are, and a summary by Groq no more
\* than the last prompt.
SummaryIsPrompted ==
  /\ prompted <= dash.total_alerts
  /\ summary.text = "groq" => summary.seen <= prompted

\* The last event of type t in q is e; without one, ready holds.
Comes(q, t, e, ready) ==
  \/ \E i \in 1 .. Len(q) : q[i] = e /\ \A j \in i + 1 .. Len(q) : q[j].type # t
  \/ (\A j \in 1 .. Len(q) : q[j].type # t) /\ ready

\* The rows of each event of type t in q follow each other, and are followed by
\* those of the next such event; those of the last one run up to total.
Chained(q, t, total) ==
  \A i \in 1 .. Len(q) : q[i].type = t =>
    /\ q[i].rows # << >> /\ Unbroken(q[i].rows)
    /\ \/ NewestOf(q[i].rows) = total /\ \A k \in i + 1 .. Len(q) : q[k].type # t
       \/ \E j \in i + 1 .. Len(q) :
            /\ q[j].type = t /\ q[j].rows[1] = NewestOf(q[i].rows) + 1
            /\ \A k \in i + 1 .. j - 1 : q[k].type # t

\* The first event of type t in q leaves no gap after the row newest; without one
\* that is the last row there is.
Begins(q, t, newest, total) ==
  \/ (\A k \in 1 .. Len(q) : q[k].type # t) /\ newest = total
  \/ \E i \in 1 .. Len(q) :
       /\ q[i].type = t /\ q[i].rows[1] <= newest + 1
       /\ \A k \in 1 .. i - 1 : q[k].type # t

\* How far a page's lists go: to the newest row before its snapshot is taken.
FeedTo(p) == IF stream[p] = "snapshot" THEN dash.total_captures ELSE NewestOf(page[p].feed)
BoxTo(p) == IF stream[p] = "snapshot" THEN dash.total_alerts ELSE NewestOf(page[p].box)

\* What a page is due to show from its subscription on, not only once it is live.
OnItsWay(p) ==
  /\ ~unsent => Comes(queue[p], "stats", Stats(dash),
                      stream[p] # "snapshot" => /\ page[p].captures = dash.total_captures
                                                /\ page[p].alerts = dash.total_alerts)
  /\ Comes(queue[p], "summary", Summary(summary),
           stream[p] \in {"detector", "live"} => page[p].summary = summary)
  /\ Comes(queue[p], "detector", Detector(detector),
           stream[p] = "live" => page[p].detector = detector)
  /\ Chained(queue[p], "traffic", dash.total_captures)
  /\ Chained(queue[p], "alerts", dash.total_alerts)
  /\ Begins(queue[p], "traffic", FeedTo(p), dash.total_captures)
  /\ Begins(queue[p], "alerts", BoxTo(p), dash.total_alerts)

\* A closed stream has no queue and no page; the other pages' lists have no gap.
StreamInv(p) ==
  /\ stream[p] = "closed" => queue[p] = << >> /\ page[p] = Blank /\ ~lost[p]
  /\ stream[p] \notin {"closed", "live"} => page[p].detector = 0
  /\ stream[p] # "closed" /\ ~lost[p] =>
       Unbroken(page[p].feed) /\ Unbroken(page[p].box) /\ OnItsWay(p)

IInv ==
  /\ Types
  /\ CountsWhatItPolled
  /\ SummaryIsPrompted
  /\ \A p \in Pages : StreamInv(p)

-----------------------------------------------------------------------------
(* Lists of rows.                                                          *)

\* The rows between two positions of a topic.
LEMMA NewRowsFacts ==
  ASSUME NEW from \in Nat, NEW to \in Nat, from <= to
  PROVE  LET rows == NewRows(from, to)
         IN  /\ rows \in Seq(Nat) /\ Len(rows) = to - from
             /\ rows = << >> <=> from = to
             /\ Unbroken(rows)
             /\ from # to => NewestOf(rows) = to /\ rows[1] = from + 1
<1> DEFINE rows == NewRows(from, to)
<1>1. to - from \in Nat /\ rows = [i \in 1 .. to - from |-> from + i]
  BY DEF NewRows
<1>2. \A i \in 1 .. to - from : from + i \in Nat
  OBVIOUS
<1>3. rows \in Seq(Nat) /\ Len(rows) = to - from /\ \A i \in 1 .. to - from : rows[i] = from + i
  BY <1>1, <1>2
<1> HIDE DEF rows
<1>4. rows = << >> <=> from = to
  BY <1>1, <1>3
<1>5. Unbroken(rows)
  <2> SUFFICES ASSUME NEW i \in 2 .. Len(rows) PROVE rows[i] <= rows[i - 1] + 1
    BY DEF Unbroken
  <2>1. i \in 1 .. to - from /\ i - 1 \in 1 .. to - from
    BY <1>1, <1>3
  <2> QED
    BY <1>3, <2>1
<1>6. from # to => NewestOf(rows) = to /\ rows[1] = from + 1
  BY <1>1, <1>3, <1>4 DEF NewestOf
<1> QED
  BY <1>3, <1>4, <1>5, <1>6 DEF rows

\* What a list of at most n rows keeps of a longer one.
LEMMA NewestFacts ==
  ASSUME NEW rows \in Seq(Nat), NEW n \in Nat \ {0}
  PROVE  LET kept == Newest(rows, n)
         IN  /\ kept \in Seq(Nat) /\ Len(kept) <= n
             /\ kept = << >> <=> rows = << >>
             /\ NewestOf(kept) = NewestOf(rows)
             /\ Unbroken(rows) => Unbroken(kept)
<1> DEFINE kept == Newest(rows, n)
           first == IF Len(rows) > n THEN Len(rows) - n + 1 ELSE 1
<1>1. /\ Len(rows) \in Nat /\ first \in 1 .. Len(rows) + 1 /\ (rows # << >> => first <= Len(rows))
      /\ Len(rows) - first + 1 <= n /\ Len(rows) - first + 1 \in Nat
  OBVIOUS
<1>2. kept = SubSeq(rows, first, Len(rows))
  BY DEF Newest
<1> HIDE DEF kept, first
<1>3. /\ kept \in Seq(Nat) /\ Len(kept) = Len(rows) - first + 1
      /\ \A i \in 1 .. Len(kept) : kept[i] = rows[first + i - 1]
  <2>1. \A i \in first .. Len(rows) : rows[i] \in Nat
    BY <1>1
  <2> QED
    BY <1>1, <1>2, <2>1, SubSeqProperties
<1>4. kept = << >> <=> rows = << >>
  BY <1>1, <1>3
<1>5. NewestOf(kept) = NewestOf(rows)
  <2>1. CASE rows = << >>
    BY <1>4, <2>1 DEF NewestOf
  <2>2. CASE rows # << >>
    <3>1. Len(kept) \in 1 .. Len(kept) /\ first + Len(kept) - 1 = Len(rows)
      BY <1>1, <1>3, <2>2
    <3> QED
      BY <1>3, <1>4, <2>2, <3>1 DEF NewestOf
  <2> QED
    BY <2>1, <2>2
<1>6. ASSUME Unbroken(rows) PROVE Unbroken(kept)
  <2> SUFFICES ASSUME NEW i \in 2 .. Len(kept) PROVE kept[i] <= kept[i - 1] + 1
    BY DEF Unbroken
  <2>1. i \in 1 .. Len(kept) /\ i - 1 \in 1 .. Len(kept) /\ first + i - 1 \in 2 .. Len(rows)
        /\ first + (i - 1) - 1 = (first + i - 1) - 1
    BY <1>1, <1>3
  <2>2. rows[first + i - 1] <= rows[(first + i - 1) - 1] + 1
    BY <1>6, <2>1 DEF Unbroken
  <2> QED
    BY <1>3, <2>1, <2>2
<1> QED
  BY <1>1, <1>3, <1>4, <1>5, <1>6 DEF kept

\* Rows that leave no gap after the newest one of a list extend it.
LEMMA ExtendFacts ==
  ASSUME NEW old \in Seq(Nat), NEW new \in Seq(Nat), Unbroken(old), Unbroken(new),
         new # << >> => new[1] <= NewestOf(old) + 1
  PROVE  /\ old \o new \in Seq(Nat) /\ Unbroken(old \o new)
         /\ NewestOf(old \o new) = IF new = << >> THEN NewestOf(old) ELSE NewestOf(new)
<1> DEFINE all == old \o new
<1>1. /\ all \in Seq(Nat) /\ Len(old) \in Nat /\ Len(new) \in Nat /\ Len(all) = Len(old) + Len(new)
      /\ \A i \in 1 .. Len(old) : all[i] = old[i]
      /\ \A i \in 1 .. Len(new) : all[Len(old) + i] = new[i]
  BY ConcatProperties
<1> HIDE DEF all
<1>2. Unbroken(all)
  <2> SUFFICES ASSUME NEW i \in 2 .. Len(all) PROVE all[i] <= all[i - 1] + 1
    BY DEF Unbroken
  <2>1. CASE i <= Len(old)
    <3>1. i \in 2 .. Len(old) /\ i \in 1 .. Len(old) /\ i - 1 \in 1 .. Len(old)
      BY <1>1, <2>1
    <3> QED
      BY <1>1, <3>1 DEF Unbroken
  <2>2. CASE i = Len(old) + 1
    <3>1. 1 \in 1 .. Len(new) /\ Len(old) \in 1 .. Len(old) /\ i - 1 = Len(old)
      BY <1>1, <2>2
    <3>2. all[i] = new[1] /\ all[i - 1] = old[Len(old)]
      BY <1>1, <2>2, <3>1
    <3>3. old # << >> /\ new # << >>
      BY <1>1, <3>1
    <3> QED
      BY <3>2, <3>3 DEF NewestOf
  <2>3. CASE i > Len(old) + 1
    <3> DEFINE k == i - Len(old)
    <3>1. k \in 2 .. Len(new) /\ k \in 1 .. Len(new) /\ k - 1 \in 1 .. Len(new)
          /\ i = Len(old) + k /\ i - 1 = Len(old) + (k - 1)
      BY <1>1, <2>3
    <3> HIDE DEF k
    <3>2. all[i] = new[k] /\ all[i - 1] = new[k - 1]
      BY <1>1, <3>1
    <3> QED
      BY <3>1, <3>2 DEF Unbroken
  <2>4. i <= Len(old) \/ i = Len(old) + 1 \/ i > Len(old) + 1
    BY SMTT(30), <1>1
  <2> QED
    BY <2>1, <2>2, <2>3, <2>4
<1>3. NewestOf(all) = IF new = << >> THEN NewestOf(old) ELSE NewestOf(new)
  <2>1. CASE new = << >>
    BY <1>1, <2>1 DEF NewestOf, all
  <2>2. CASE new # << >>
    <3>1. Len(new) \in 1 .. Len(new) /\ all # << >>
      BY <1>1, <2>2
    <3> QED
      BY <1>1, <2>2, <3>1 DEF NewestOf
  <2> QED
    BY <2>1, <2>2
<1> QED
  BY <1>1, <1>2, <1>3 DEF all

-----------------------------------------------------------------------------
(* Events that are queued, and the event that is sent first.               *)

None(sent, t) == \A m \in 1 .. Len(sent) : sent[m].type # t
Sole(sent, t, e) ==
  \E m \in 1 .. Len(sent) :
    sent[m] = e /\ \A k \in 1 .. Len(sent) : k # m => sent[k].type # t

\* Where the events of a queue that is extended come from.
LEMMA Queued ==
  ASSUME NEW q \in Seq(EventType), NEW sent \in Seq(EventType)
  PROVE  /\ q \o sent \in Seq(EventType)
         /\ Len(q) \in Nat /\ Len(sent) \in Nat /\ Len(q \o sent) = Len(q) + Len(sent)
         /\ \A i \in 1 .. Len(q) : (q \o sent)[i] = q[i]
         /\ \A m \in 1 .. Len(sent) : (q \o sent)[Len(q) + m] = sent[m]
         /\ \A i \in 1 .. Len(q) + Len(sent) :
              i \in 1 .. Len(q) \/ (i - Len(q) \in 1 .. Len(sent) /\ i = Len(q) + (i - Len(q)))
<1>1. Len(q) \in Nat /\ Len(sent) \in Nat
  OBVIOUS
<1>2. /\ q \o sent \in Seq(EventType) /\ Len(q \o sent) = Len(q) + Len(sent)
      /\ \A i \in 1 .. Len(q) : (q \o sent)[i] = q[i]
      /\ \A m \in 1 .. Len(sent) : (q \o sent)[Len(q) + m] = sent[m]
  <2> HIDE DEF EventType
  <2> QED
    BY ConcatProperties
<1>3. \A i \in 1 .. Len(q) + Len(sent) :
        i \in 1 .. Len(q) \/ (i - Len(q) \in 1 .. Len(sent) /\ i = Len(q) + (i - Len(q)))
  BY <1>1
<1> QED
  BY <1>1, <1>2, <1>3

\* Without an event of the type among those sent, all of that type are in q.
LEMMA QueuedNone ==
  ASSUME NEW q \in Seq(EventType), NEW sent \in Seq(EventType), NEW t, None(sent, t)
  PROVE  \A i \in 1 .. Len(q \o sent) : (q \o sent)[i].type = t => i \in 1 .. Len(q)
<1> SUFFICES ASSUME NEW i \in 1 .. Len(q \o sent), i \notin 1 .. Len(q) PROVE (q \o sent)[i].type # t
  OBVIOUS
<1>1. i - Len(q) \in 1 .. Len(sent) /\ i = Len(q) + (i - Len(q))
  BY Queued
<1>2. (q \o sent)[i] = sent[i - Len(q)]
  BY <1>1, Queued
<1> QED
  BY <1>1, <1>2 DEF None

\* A sole event of the type among those sent is the last one.
LEMMA QueuedSole ==
  ASSUME NEW q \in Seq(EventType), NEW sent \in Seq(EventType), NEW t, NEW e, Sole(sent, t, e)
  PROVE  \E n \in Len(q) + 1 .. Len(q \o sent) :
           /\ (q \o sent)[n] = e
           /\ \A i \in 1 .. Len(q \o sent) :
                (q \o sent)[i].type = t => i = n \/ i \in 1 .. Len(q)
<1>1. PICK m \in 1 .. Len(sent) :
        sent[m] = e /\ \A k \in 1 .. Len(sent) : k # m => sent[k].type # t
  BY DEF Sole
<1>2. Len(q) + m \in Len(q) + 1 .. Len(q \o sent) /\ (q \o sent)[Len(q) + m] = e
  BY <1>1, Queued
<1>3. ASSUME NEW i \in 1 .. Len(q \o sent), i # Len(q) + m, i \notin 1 .. Len(q)
      PROVE  (q \o sent)[i].type # t
  <2>1. i - Len(q) \in 1 .. Len(sent) /\ i = Len(q) + (i - Len(q)) /\ i - Len(q) # m
    BY <1>3, Queued
  <2>2. (q \o sent)[i] = sent[i - Len(q)]
    BY <2>1, Queued
  <2> QED
    BY <1>1, <2>1, <2>2
<1> QED
  BY <1>2, <1>3

\* What is due to be shown stays so when no event of its type is sent.
LEMMA ComesNone ==
  ASSUME NEW q \in Seq(EventType), NEW sent \in Seq(EventType), NEW t, NEW e, NEW ready \in BOOLEAN,
         None(sent, t), Comes(q, t, e, ready)
  PROVE  Comes(q \o sent, t, e, ready)
<1>1. \A i \in 1 .. Len(q \o sent) : (q \o sent)[i].type = t => i \in 1 .. Len(q)
  BY QueuedNone
<1>2. /\ Len(q) \in Nat /\ Len(q \o sent) \in Nat /\ Len(q) <= Len(q \o sent)
      /\ \A i \in 1 .. Len(q) : (q \o sent)[i] = q[i]
  BY Queued
<1>3. ASSUME NEW i \in 1 .. Len(q), q[i] = e, \A j \in i + 1 .. Len(q) : q[j].type # t
      PROVE  Comes(q \o sent, t, e, ready)
  <2>1. i \in 1 .. Len(q \o sent) /\ (q \o sent)[i] = e
    BY <1>2, <1>3
  <2>2. \A j \in i + 1 .. Len(q \o sent) : (q \o sent)[j].type # t
    <3> SUFFICES ASSUME NEW j \in i + 1 .. Len(q \o sent), (q \o sent)[j].type = t PROVE FALSE
      OBVIOUS
    <3>1. j \in 1 .. Len(q \o sent)
      BY <1>2
    <3>2. j \in 1 .. Len(q)
      BY <1>1, <3>1
    <3>3. j \in i + 1 .. Len(q)
      BY <3>2
    <3> QED
      BY <1>2, <1>3, <3>2, <3>3
  <2> QED
    BY <2>1, <2>2 DEF Comes
<1>4. CASE (\A j \in 1 .. Len(q) : q[j].type # t) /\ ready
  <2>1. \A j \in 1 .. Len(q \o sent) : (q \o sent)[j].type # t
    BY <1>1, <1>2, <1>4
  <2> QED
    BY <1>4, <2>1 DEF Comes
<1> QED
  BY <1>3, <1>4 DEF Comes

\* What is sent is due to be shown.
LEMMA ComesSole ==
  ASSUME NEW q \in Seq(EventType), NEW sent \in Seq(EventType), NEW t, NEW e, NEW ready \in BOOLEAN,
         Sole(sent, t, e)
  PROVE  Comes(q \o sent, t, e, ready)
<1>1. PICK n \in Len(q) + 1 .. Len(q \o sent) :
           /\ (q \o sent)[n] = e
           /\ \A i \in 1 .. Len(q \o sent) :
                (q \o sent)[i].type = t => i = n \/ i \in 1 .. Len(q)
  BY QueuedSole
<1>2. Len(q) \in Nat /\ Len(q \o sent) \in Nat /\ n \in 1 .. Len(q \o sent)
  BY Queued
<1>3. \A j \in n + 1 .. Len(q \o sent) : (q \o sent)[j].type # t
  <2> SUFFICES ASSUME NEW j \in n + 1 .. Len(q \o sent), (q \o sent)[j].type = t PROVE FALSE
    OBVIOUS
  <2>1. j \in 1 .. Len(q \o sent) /\ j # n /\ j \notin 1 .. Len(q)
    BY <1>2
  <2> QED
    BY <1>1, <2>1
<1> QED
  BY <1>1, <1>2, <1>3 DEF Comes

\* The rows that are queued still follow each other when none are sent.
LEMMA ChainedNone ==
  ASSUME NEW q \in Seq(EventType), NEW sent \in Seq(EventType), NEW t, NEW total,
         None(sent, t), Chained(q, t, total)
  PROVE  Chained(q \o sent, t, total)
<1> DEFINE all == q \o sent
<1>1. \A i \in 1 .. Len(all) : all[i].type = t => i \in 1 .. Len(q)
  BY QueuedNone
<1>2. /\ Len(q) \in Nat /\ Len(all) \in Nat /\ Len(q) <= Len(all)
      /\ \A i \in 1 .. Len(q) : all[i] = q[i]
  BY Queued
<1> HIDE DEF all
<1> SUFFICES ASSUME NEW i \in 1 .. Len(all), all[i].type = t
             PROVE  /\ all[i].rows # << >> /\ Unbroken(all[i].rows)
                    /\ \/ NewestOf(all[i].rows) = total
                          /\ \A k \in i + 1 .. Len(all) : all[k].type # t
                       \/ \E j \in i + 1 .. Len(all) :
                            /\ all[j].type = t /\ all[j].rows[1] = NewestOf(all[i].rows) + 1
                            /\ \A k \in i + 1 .. j - 1 : all[k].type # t
  BY DEF Chained, all
<1>3. i \in 1 .. Len(q) /\ all[i] = q[i] /\ q[i].type = t
  BY <1>1, <1>2
<1>4. q[i].rows # << >> /\ Unbroken(q[i].rows)
  BY <1>3 DEF Chained
<1>5. CASE NewestOf(q[i].rows) = total /\ \A k \in i + 1 .. Len(q) : q[k].type # t
  <2>1. ASSUME NEW k \in i + 1 .. Len(all) PROVE all[k].type # t
    <3>1. k \in 1 .. Len(all) /\ (k \in 1 .. Len(q) => k \in i + 1 .. Len(q))
      BY <1>2, <1>3
    <3> QED
      BY <1>1, <1>2, <1>5, <3>1
  <2> QED
    BY <1>3, <1>4, <1>5, <2>1
<1>6. ASSUME NEW j \in i + 1 .. Len(q),
             /\ q[j].type = t /\ q[j].rows[1] = NewestOf(q[i].rows) + 1
             /\ \A k \in i + 1 .. j - 1 : q[k].type # t
      PROVE  /\ j \in i + 1 .. Len(all)
             /\ all[j].type = t /\ all[j].rows[1] = NewestOf(all[i].rows) + 1
             /\ \A k \in i + 1 .. j - 1 : all[k].type # t
  <2>1. j \in i + 1 .. Len(all) /\ j \in 1 .. Len(q) /\ \A k \in i + 1 .. j - 1 : k \in 1 .. Len(q)
    BY <1>2, <1>3
  <2> QED
    BY <1>2, <1>3, <1>6, <2>1
<1>7. \/ NewestOf(q[i].rows) = total /\ \A k \in i + 1 .. Len(q) : q[k].type # t
      \/ \E j \in i + 1 .. Len(q) :
           /\ q[j].type = t /\ q[j].rows[1] = NewestOf(q[i].rows) + 1
           /\ \A k \in i + 1 .. j - 1 : q[k].type # t
  BY <1>3 DEF Chained
<1> QED
  BY <1>3, <1>4, <1>5, <1>6, <1>7

\* Rows that follow those that were counted follow those that are queued.
LEMMA ChainedSole ==
  ASSUME NEW q \in Seq(EventType), NEW sent \in Seq(EventType), NEW t, NEW e, NEW total \in Nat,
         Sole(sent, t, e), Chained(q, t, total), e.type = t,
         e.rows # << >>, Unbroken(e.rows), e.rows[1] = total + 1
  PROVE  Chained(q \o sent, t, NewestOf(e.rows))
<1> DEFINE all == q \o sent
<1>0. PICK n \in Len(q) + 1 .. Len(all) :
           /\ all[n] = e
           /\ \A i \in 1 .. Len(all) : all[i].type = t => i = n \/ i \in 1 .. Len(q)
  BY QueuedSole
<1>2. /\ Len(q) \in Nat /\ Len(all) \in Nat /\ Len(q) <= Len(all)
      /\ \A i \in 1 .. Len(q) : all[i] = q[i]
  BY Queued
<1> HIDE DEF all
<1>1. all[n].type = t /\ all[n].rows = e.rows /\ n \in 1 .. Len(all)
  BY <1>0, <1>2
<1> SUFFICES ASSUME NEW i \in 1 .. Len(all), all[i].type = t
             PROVE  /\ all[i].rows # << >> /\ Unbroken(all[i].rows)
                    /\ \/ NewestOf(all[i].rows) = NewestOf(e.rows)
                          /\ \A k \in i + 1 .. Len(all) : all[k].type # t
                       \/ \E j \in i + 1 .. Len(all) :
                            /\ all[j].type = t /\ all[j].rows[1] = NewestOf(all[i].rows) + 1
                            /\ \A k \in i + 1 .. j - 1 : all[k].type # t
  BY DEF Chained, all
<1>3. CASE i = n
  <2>1. ASSUME NEW k \in n + 1 .. Len(all) PROVE all[k].type # t
    <3>1. k \in 1 .. Len(all) /\ k # n /\ k \notin 1 .. Len(q)
      BY <1>2
    <3> QED
      BY <1>0, <3>1
  <2> QED
    BY <1>0, <1>3, <2>1
<1>4. CASE i # n
  <2>1. i \in 1 .. Len(q) /\ all[i] = q[i] /\ q[i].type = t
    BY <1>0, <1>2, <1>4
  <2>2. q[i].rows # << >> /\ Unbroken(q[i].rows)
    BY <2>1 DEF Chained
  <2>3. CASE NewestOf(q[i].rows) = total /\ \A k \in i + 1 .. Len(q) : q[k].type # t
    <3>1. ASSUME NEW k \in i + 1 .. n - 1 PROVE all[k].type # t
      <4>1. k \in 1 .. Len(all) /\ k # n /\ (k \in 1 .. Len(q) => k \in i + 1 .. Len(q))
        BY <1>2, <2>1
      <4> QED
        BY <1>0, <1>2, <2>3, <4>1
    <3>2. n \in i + 1 .. Len(all)
      BY <1>2, <2>1
    <3> QED
      BY <1>0, <1>1, <2>1, <2>2, <2>3, <3>1, <3>2
  <2>4. ASSUME NEW j \in i + 1 .. Len(q),
               /\ q[j].type = t /\ q[j].rows[1] = NewestOf(q[i].rows) + 1
               /\ \A k \in i + 1 .. j - 1 : q[k].type # t
        PROVE  /\ j \in i + 1 .. Len(all)
               /\ all[j].type = t /\ all[j].rows[1] = NewestOf(all[i].rows) + 1
               /\ \A k \in i + 1 .. j - 1 : all[k].type # t
    <3>1. j \in i + 1 .. Len(all) /\ j \in 1 .. Len(q)
          /\ \A k \in i + 1 .. j - 1 : k \in 1 .. Len(q)
      BY <1>2, <2>1
    <3> QED
      BY <1>2, <2>1, <2>4, <3>1
  <2>5. \/ NewestOf(q[i].rows) = total /\ \A k \in i + 1 .. Len(q) : q[k].type # t
        \/ \E j \in i + 1 .. Len(q) :
             /\ q[j].type = t /\ q[j].rows[1] = NewestOf(q[i].rows) + 1
             /\ \A k \in i + 1 .. j - 1 : q[k].type # t
    BY <2>1 DEF Chained
  <2> QED
    BY <2>1, <2>2, <2>3, <2>4, <2>5
<1> QED
  BY <1>3, <1>4

\* A list is still met by the first queued rows when none are sent.
LEMMA BeginsNone ==
  ASSUME NEW q \in Seq(EventType), NEW sent \in Seq(EventType), NEW t, NEW newest, NEW total,
         None(sent, t), Begins(q, t, newest, total)
  PROVE  Begins(q \o sent, t, newest, total)
<1> DEFINE all == q \o sent
<1>1. \A i \in 1 .. Len(all) : all[i].type = t => i \in 1 .. Len(q)
  BY QueuedNone
<1>2. /\ Len(q) \in Nat /\ Len(all) \in Nat /\ Len(q) <= Len(all)
      /\ \A i \in 1 .. Len(q) : all[i] = q[i]
  BY Queued
<1> HIDE DEF all
<1>3. CASE (\A k \in 1 .. Len(q) : q[k].type # t) /\ newest = total
  <2>1. \A k \in 1 .. Len(all) : all[k].type # t
    BY <1>1, <1>2, <1>3
  <2> QED
    BY <1>3, <2>1 DEF Begins, all
<1>4. ASSUME NEW i \in 1 .. Len(q), q[i].type = t, q[i].rows[1] <= newest + 1,
             \A k \in 1 .. i - 1 : q[k].type # t
      PROVE  Begins(all, t, newest, total)
  <2>1. i \in 1 .. Len(all) /\ all[i] = q[i] /\ \A k \in 1 .. i - 1 : k \in 1 .. Len(q)
    BY <1>2
  <2>2. \A k \in 1 .. i - 1 : all[k].type # t
    BY <1>2, <1>4, <2>1
  <2> QED
    BY <1>4, <2>1, <2>2 DEF Begins
<1> QED
  BY <1>3, <1>4 DEF Begins, all

\* The first queued rows still meet a list that may go further in the meantime (before
\* the snapshot is taken).
LEMMA BeginsSole ==
  ASSUME NEW q \in Seq(EventType), NEW sent \in Seq(EventType), NEW t, NEW e,
         NEW newest \in Nat, NEW further \in Nat, NEW total \in Nat, NEW newTotal,
         newest <= further,
         Sole(sent, t, e), Begins(q, t, newest, total), Chained(q, t, total), e.type = t,
         e.rows[1] = total + 1,
         \A i \in 1 .. Len(q) : q[i].type = t => q[i].rows[1] \in Nat
  PROVE  Begins(q \o sent, t, further, newTotal)
<1> DEFINE all == q \o sent
<1>0. PICK n \in Len(q) + 1 .. Len(all) :
           /\ all[n] = e
           /\ \A i \in 1 .. Len(all) : all[i].type = t => i = n \/ i \in 1 .. Len(q)
  BY QueuedSole
<1>2. /\ Len(q) \in Nat /\ Len(all) \in Nat /\ Len(q) <= Len(all)
      /\ \A i \in 1 .. Len(q) : all[i] = q[i]
  BY Queued
<1> HIDE DEF all
<1>1. all[n].type = t /\ all[n].rows[1] = total + 1 /\ n \in 1 .. Len(all)
  BY <1>0, <1>2
<1>3. CASE (\A k \in 1 .. Len(q) : q[k].type # t) /\ newest = total
  <2>1. \A k \in 1 .. n - 1 : all[k].type # t
    <3> SUFFICES ASSUME NEW k \in 1 .. n - 1, all[k].type = t PROVE FALSE
      OBVIOUS
    <3>1. k \in 1 .. Len(all) /\ k # n
      BY <1>2
    <3>2. k \in 1 .. Len(q)
      BY <1>0, <3>1
    <3> QED
      BY <1>2, <1>3, <3>2
  <2>2. all[n].rows[1] <= further + 1
    BY <1>1, <1>3
  <2> QED
    BY <1>1, <2>1, <2>2 DEF Begins, all
<1>4. ASSUME NEW i \in 1 .. Len(q), q[i].type = t, q[i].rows[1] <= newest + 1,
             \A k \in 1 .. i - 1 : q[k].type # t
      PROVE  Begins(all, t, further, newTotal)
  <2>1. i \in 1 .. Len(all) /\ all[i] = q[i] /\ \A k \in 1 .. i - 1 : k \in 1 .. Len(q)
    BY <1>2
  <2>2. \A k \in 1 .. i - 1 : all[k].type # t
    BY <1>2, <1>4, <2>1
  <2>3. q[i].rows[1] <= further + 1
    BY SMTT(30), <1>4
  <2> QED
    BY <1>4, <2>1, <2>2, <2>3 DEF Begins
<1> QED
  BY <1>3, <1>4 DEF Begins, all

-----------------------------------------------------------------------------

\* What is left of a queue when its head is sent.
LEMMA TailFacts ==
  ASSUME NEW q \in Seq(EventType), q # << >>
  PROVE  /\ Len(q) \in Nat \ {0} /\ Head(q) = q[1] /\ Head(q) \in EventType
         /\ Tail(q) \in Seq(EventType) /\ Len(Tail(q)) = Len(q) - 1
         /\ \A i \in 1 .. Len(q) - 1 : Tail(q)[i] = q[i + 1]
<1>1. Len(q) \in Nat \ {0} /\ Head(q) = q[1] /\ Head(q) \in EventType
  <2> HIDE DEF EventType
  <2> QED
    OBVIOUS
<1> QED
  BY <1>1, HeadTailProperties

\* When the head of a queue is sent, what it was the last to bring is shown.
LEMMA ComesTail ==
  ASSUME NEW q \in Seq(EventType), q # << >>, NEW t, NEW e, NEW ready \in BOOLEAN,
         NEW shown \in BOOLEAN, e.type = t, Comes(q, t, e, ready),
         Head(q) = e => shown, Head(q).type # t /\ ready => shown
  PROVE  Comes(Tail(q), t, e, shown)
<1> DEFINE rest == Tail(q)
<1>1. /\ Len(q) \in Nat \ {0} /\ Head(q) = q[1] /\ Len(rest) = Len(q) - 1
      /\ \A i \in 1 .. Len(q) - 1 : rest[i] = q[i + 1]
  BY TailFacts
<1> HIDE DEF rest
<1>2. ASSUME NEW i \in 1 .. Len(q), q[i] = e, \A j \in i + 1 .. Len(q) : q[j].type # t
      PROVE  Comes(rest, t, e, shown)
  <2>1. ASSUME NEW j \in i .. Len(rest) PROVE j \in 1 .. Len(rest) /\ rest[j].type # t
    <3>1. j \in 1 .. Len(q) - 1 /\ j + 1 \in i + 1 .. Len(q)
      BY <1>1
    <3> QED
      BY <1>1, <1>2, <3>1
  <2>2. CASE i = 1
    <3>1. shown /\ \A j \in 1 .. Len(rest) : rest[j].type # t
      BY <1>1, <1>2, <2>1, <2>2
    <3> QED
      BY <3>1 DEF Comes
  <2>3. CASE i # 1
    <3>1. i - 1 \in 1 .. Len(rest) /\ (i - 1) + 1 = i /\ i - 1 \in 1 .. Len(q) - 1
      BY <1>1, <2>3
    <3>2. rest[i - 1] = e /\ \A j \in (i - 1) + 1 .. Len(rest) : rest[j].type # t
      BY <1>1, <1>2, <2>1, <3>1
    <3> QED
      BY <3>1, <3>2 DEF Comes
  <2> QED
    BY <2>2, <2>3
<1>3. CASE (\A j \in 1 .. Len(q) : q[j].type # t) /\ ready
  <2>1. \A j \in 1 .. Len(rest) : rest[j].type # t
    <3> TAKE j \in 1 .. Len(rest)
    <3>1. j + 1 \in 1 .. Len(q) /\ rest[j] = q[j + 1]
      BY <1>1
    <3> QED
      BY <1>3, <3>1
  <2>2. shown
    BY <1>1, <1>3
  <2> QED
    BY <2>1, <2>2 DEF Comes
<1> QED
  BY <1>2, <1>3 DEF Comes, rest

\* The rows that are left still follow each other.
LEMMA ChainedTail ==
  ASSUME NEW q \in Seq(EventType), q # << >>, NEW t, NEW total, Chained(q, t, total)
  PROVE  Chained(Tail(q), t, total)
<1> DEFINE rest == Tail(q)
<1>1. /\ Len(q) \in Nat \ {0} /\ Len(rest) = Len(q) - 1
      /\ \A i \in 1 .. Len(q) - 1 : rest[i] = q[i + 1]
  BY TailFacts
<1> HIDE DEF rest
<1>2. \A i \in 1 .. Len(rest) : i + 1 \in 1 .. Len(q) /\ rest[i] = q[i + 1]
  BY <1>1
<1> SUFFICES ASSUME NEW i \in 1 .. Len(rest), rest[i].type = t
             PROVE  /\ rest[i].rows # << >> /\ Unbroken(rest[i].rows)
                    /\ \/ NewestOf(rest[i].rows) = total
                          /\ \A k \in i + 1 .. Len(rest) : rest[k].type # t
                       \/ \E j \in i + 1 .. Len(rest) :
                            /\ rest[j].type = t /\ rest[j].rows[1] = NewestOf(rest[i].rows) + 1
                            /\ \A k \in i + 1 .. j - 1 : rest[k].type # t
  BY DEF Chained, rest
<1>3. i + 1 \in 1 .. Len(q) /\ rest[i] = q[i + 1] /\ q[i + 1].type = t
  BY <1>2
<1>4. q[i + 1].rows # << >> /\ Unbroken(q[i + 1].rows)
  BY <1>3 DEF Chained
<1>5. CASE NewestOf(q[i + 1].rows) = total /\ \A k \in (i + 1) + 1 .. Len(q) : q[k].type # t
  <2>1. ASSUME NEW k \in i + 1 .. Len(rest) PROVE rest[k].type # t
    <3>1. k \in 1 .. Len(rest) /\ k + 1 \in (i + 1) + 1 .. Len(q)
      BY <1>1
    <3> QED
      BY <1>2, <1>5, <3>1
  <2> QED
    BY <1>3, <1>4, <1>5, <2>1
<1>6. ASSUME NEW j \in (i + 1) + 1 .. Len(q),
             /\ q[j].type = t /\ q[j].rows[1] = NewestOf(q[i + 1].rows) + 1
             /\ \A k \in (i + 1) + 1 .. j - 1 : q[k].type # t
      PROVE  \E l \in i + 1 .. Len(rest) :
               /\ rest[l].type = t /\ rest[l].rows[1] = NewestOf(rest[i].rows) + 1
               /\ \A k \in i + 1 .. l - 1 : rest[k].type # t
  <2>1. j - 1 \in i + 1 .. Len(rest) /\ j - 1 \in 1 .. Len(rest) /\ (j - 1) + 1 = j
    BY <1>1
  <2>2. rest[j - 1] = q[j]
    BY <1>2, <2>1
  <2>3. \A k \in i + 1 .. (j - 1) - 1 : rest[k].type # t
    <3> TAKE k \in i + 1 .. (j - 1) - 1
    <3>1. k \in 1 .. Len(rest) /\ k + 1 \in (i + 1) + 1 .. j - 1
      BY <1>1, <2>1
    <3> QED
      BY <1>2, <1>6, <3>1
  <2> QED
    BY <1>3, <1>6, <2>1, <2>2, <2>3
<1>7. \/ NewestOf(q[i + 1].rows) = total /\ \A k \in (i + 1) + 1 .. Len(q) : q[k].type # t
      \/ \E j \in (i + 1) + 1 .. Len(q) :
           /\ q[j].type = t /\ q[j].rows[1] = NewestOf(q[i + 1].rows) + 1
           /\ \A k \in (i + 1) + 1 .. j - 1 : q[k].type # t
  BY <1>3 DEF Chained
<1> QED
  BY <1>3, <1>4, <1>5, <1>6, <1>7

\* The rows at the head are shown: the list goes as far as they do.
LEMMA BeginsTail ==
  ASSUME NEW q \in Seq(EventType), q # << >>, NEW t, NEW newest, NEW further \in Nat, NEW total,
         Chained(q, t, total), Begins(q, t, newest, total),
         further = IF Head(q).type = t THEN NewestOf(Head(q).rows) ELSE newest
  PROVE  /\ Begins(Tail(q), t, further, total)
         /\ Head(q).type = t => Head(q).rows[1] <= newest + 1
<1> DEFINE rest == Tail(q)
<1>1. /\ Len(q) \in Nat \ {0} /\ Head(q) = q[1] /\ Len(rest) = Len(q) - 1
      /\ \A i \in 1 .. Len(q) - 1 : rest[i] = q[i + 1]
  BY TailFacts
<1> HIDE DEF rest
<1>2. \A i \in 1 .. Len(rest) : i + 1 \in 1 .. Len(q) /\ rest[i] = q[i + 1]
  BY <1>1
<1>3. CASE q[1].type = t
  <2>1. 1 \in 1 .. Len(q) /\ further = NewestOf(q[1].rows)
    BY <1>1, <1>3
  <2>2. q[1].rows[1] <= newest + 1
    <3>1. PICK i \in 1 .. Len(q) : q[i].rows[1] <= newest + 1 /\ \A k \in 1 .. i - 1 : q[k].type # t
      BY <1>3, <2>1 DEF Begins
    <3>2. i = 1
      BY <1>1, <1>3, <3>1
    <3> QED
      BY <3>1, <3>2
  <2>3. CASE NewestOf(q[1].rows) = total /\ \A k \in 1 + 1 .. Len(q) : q[k].type # t
    <3>1. \A k \in 1 .. Len(rest) : rest[k].type # t
      <4> TAKE k \in 1 .. Len(rest)
      <4>1. k + 1 \in 1 + 1 .. Len(q)
        BY <1>1
      <4> QED
        BY <1>2, <2>3, <4>1
    <3> QED
      BY <1>1, <2>1, <2>2, <2>3, <3>1 DEF Begins, rest
  <2>4. ASSUME NEW j \in 1 + 1 .. Len(q),
               /\ q[j].type = t /\ q[j].rows[1] = NewestOf(q[1].rows) + 1
               /\ \A k \in 1 + 1 .. j - 1 : q[k].type # t
        PROVE  Begins(rest, t, further, total)
    <3>1. j - 1 \in 1 .. Len(rest) /\ (j - 1) + 1 = j
      BY <1>1
    <3>2. rest[j - 1] = q[j]
      BY <1>2, <3>1
    <3>3. \A k \in 1 .. (j - 1) - 1 : rest[k].type # t
      <4> TAKE k \in 1 .. (j - 1) - 1
      <4>1. k \in 1 .. Len(rest) /\ k + 1 \in 1 + 1 .. j - 1
        BY <1>1, <3>1
      <4> QED
        BY <1>2, <2>4, <4>1
    <3>4. rest[j - 1].rows[1] <= further + 1
      BY <2>1, <2>4, <3>2
    <3> QED
      BY <2>4, <3>1, <3>2, <3>3, <3>4 DEF Begins
  <2>5. \/ NewestOf(q[1].rows) = total /\ \A k \in 1 + 1 .. Len(q) : q[k].type # t
        \/ \E j \in 1 + 1 .. Len(q) :
             /\ q[j].type = t /\ q[j].rows[1] = NewestOf(q[1].rows) + 1
             /\ \A k \in 1 + 1 .. j - 1 : q[k].type # t
    BY <1>3, <2>1 DEF Chained
  <2> QED
    BY <1>1, <2>2, <2>3, <2>4, <2>5 DEF rest
<1>4. CASE q[1].type # t
  <2>1. further = newest
    BY <1>1, <1>4
  <2>2. CASE (\A k \in 1 .. Len(q) : q[k].type # t) /\ newest = total
    <3>1. \A k \in 1 .. Len(rest) : rest[k].type # t
      BY <1>2, <2>2
    <3> QED
      BY <1>1, <1>4, <2>1, <2>2, <3>1 DEF Begins, rest
  <2>3. ASSUME NEW i \in 1 .. Len(q), q[i].type = t, q[i].rows[1] <= newest + 1,
               \A k \in 1 .. i - 1 : q[k].type # t
        PROVE  Begins(rest, t, further, total)
    <3>1. i # 1 /\ i - 1 \in 1 .. Len(rest) /\ (i - 1) + 1 = i
      BY <1>1, <1>4, <2>3
    <3>2. rest[i - 1] = q[i]
      BY <1>2, <3>1
    <3>3. \A k \in 1 .. (i - 1) - 1 : rest[k].type # t
      <4> TAKE k \in 1 .. (i - 1) - 1
      <4>1. k \in 1 .. Len(rest) /\ k + 1 \in 1 .. i - 1
        BY <1>1, <3>1
      <4> QED
        BY <1>2, <2>3, <4>1
    <3> QED
      BY <2>1, <2>3, <3>1, <3>2, <3>3 DEF Begins
  <2> QED
    BY <1>1, <1>4, <2>2, <2>3 DEF Begins, rest
<1> QED
  BY <1>3, <1>4

\* What is due to be shown stays so when the condition for showing it is weakened.
LEMMA ComesReady ==
  ASSUME NEW q, NEW t, NEW e, NEW ready, NEW shown, Comes(q, t, e, ready), ready => shown
  PROVE  Comes(q, t, e, shown)
BY DEF Comes

\* The events of two lists that are sent one after the other.
LEMMA SentFacts ==
  ASSUME NEW a \in Seq(EventType), NEW b \in Seq(EventType), NEW t, NEW e
  PROVE  /\ None(a, t) /\ None(b, t) => None(a \o b, t)
         /\ None(a, t) /\ Sole(b, t, e) => Sole(a \o b, t, e)
         /\ Sole(a, t, e) /\ None(b, t) => Sole(a \o b, t, e)
<1>1. /\ Len(a) \in Nat /\ Len(b) \in Nat /\ Len(a \o b) = Len(a) + Len(b)
      /\ \A i \in 1 .. Len(a) : (a \o b)[i] = a[i]
      /\ \A m \in 1 .. Len(b) : (a \o b)[Len(a) + m] = b[m]
      /\ \A i \in 1 .. Len(a) + Len(b) :
           i \in 1 .. Len(a) \/ (i - Len(a) \in 1 .. Len(b) /\ i = Len(a) + (i - Len(a)))
  BY Queued
<1>2. ASSUME None(a, t), None(b, t) PROVE None(a \o b, t)
  BY <1>1, <1>2 DEF None
<1>3. ASSUME None(a, t), Sole(b, t, e) PROVE Sole(a \o b, t, e)
  <2>1. PICK m \in 1 .. Len(b) : b[m] = e /\ \A k \in 1 .. Len(b) : k # m => b[k].type # t
    BY <1>3 DEF Sole
  <2>2. Len(a) + m \in 1 .. Len(a \o b) /\ (a \o b)[Len(a) + m] = e
    BY <1>1, <2>1
  <2>3. ASSUME NEW k \in 1 .. Len(a \o b), k # Len(a) + m PROVE (a \o b)[k].type # t
    <3>1. CASE k \in 1 .. Len(a)
      BY <1>1, <1>3, <3>1 DEF None
    <3>2. CASE k - Len(a) \in 1 .. Len(b) /\ k = Len(a) + (k - Len(a))
      BY <1>1, <2>1, <2>3, <3>2
    <3> QED
      BY <1>1, <3>1, <3>2
  <2> QED
    BY <2>2, <2>3 DEF Sole
<1>4. ASSUME Sole(a, t, e), None(b, t) PROVE Sole(a \o b, t, e)
  <2>1. PICK m \in 1 .. Len(a) : a[m] = e /\ \A k \in 1 .. Len(a) : k # m => a[k].type # t
    BY <1>4 DEF Sole
  <2>2. m \in 1 .. Len(a \o b) /\ (a \o b)[m] = e
    BY <1>1, <2>1
  <2>3. ASSUME NEW k \in 1 .. Len(a \o b), k # m PROVE (a \o b)[k].type # t
    BY <1>1, <1>4, <2>1, <2>3 DEF None
  <2> QED
    BY <2>2, <2>3 DEF Sole
<1> QED
  BY <1>2, <1>3, <1>4

\* An event is the only one of its type in the list of it alone; the empty list
\* has none.
LEMMA OneSent ==
  ASSUME NEW e \in EventType
  PROVE  /\ <<e>> \in Seq(EventType) /\ << >> \in Seq(EventType)
         /\ Sole(<<e>>, e.type, e)
         /\ \A t : (t # e.type => None(<<e>>, t)) /\ None(<< >>, t)
<1>1. Len(<<e>>) = 1 /\ <<e>>[1] = e
  OBVIOUS
<1>2. <<e>> \in Seq(EventType) /\ << >> \in Seq(EventType)
  <2> HIDE DEF EventType
  <2> QED
    OBVIOUS
<1>3. Sole(<<e>>, e.type, e)
  BY <1>1 DEF Sole
<1>4. ASSUME NEW t PROVE (t # e.type => None(<<e>>, t)) /\ None(<< >>, t)
  BY <1>1 DEF None
<1> QED
  BY <1>2, <1>3, <1>4

-----------------------------------------------------------------------------
(* The dashboard's state and the events that bring it.                     *)

\* What an event is made of is of its type.
LEMMA EventFacts ==
  /\ \A rows \in Seq(Nat) :
       /\ Traffic(rows) \in EventType /\ Traffic(rows).type = "traffic" /\ Traffic(rows).rows = rows
       /\ Alerts(rows) \in EventType /\ Alerts(rows).type = "alerts" /\ Alerts(rows).rows = rows
  /\ \A n \in Nat : Detector(n) \in EventType /\ Detector(n).type = "detector" /\ Detector(n).alert = n
  /\ \A s \in SummaryType :
       Summary(s) \in EventType /\ Summary(s).type = "summary" /\ Summary(s).summary = s
  /\ \A d : d.total_captures \in Nat /\ d.total_alerts \in Nat =>
       /\ Stats(d) \in EventType /\ Stats(d).type = "stats"
       /\ Stats(d).captures = d.total_captures /\ Stats(d).alerts = d.total_alerts
<1> HIDE DEF SummaryType
<1>1. \A rows \in Seq(Nat) :
       /\ Traffic(rows) \in EventType /\ Traffic(rows).type = "traffic" /\ Traffic(rows).rows = rows
       /\ Alerts(rows) \in EventType /\ Alerts(rows).type = "alerts" /\ Alerts(rows).rows = rows
  BY DEF EventType, Traffic, Alerts
<1>2. \A n \in Nat : Detector(n) \in EventType /\ Detector(n).type = "detector" /\ Detector(n).alert = n
  BY DEF EventType, Detector
<1>3. \A s \in SummaryType :
       Summary(s) \in EventType /\ Summary(s).type = "summary" /\ Summary(s).summary = s
  BY DEF EventType, Summary
<1>4. \A d : d.total_captures \in Nat /\ d.total_alerts \in Nat =>
       /\ Stats(d) \in EventType /\ Stats(d).type = "stats"
       /\ Stats(d).captures = d.total_captures /\ Stats(d).alerts = d.total_alerts
  BY DEF EventType, Stats
<1> QED
  BY <1>1, <1>2, <1>3, <1>4

\* The state of a dashboard that counts what it polled, and that took the new rows.
LEMMA DashFacts ==
  ASSUME Types, CountsWhatItPolled
  PROVE  /\ NewCaptures \in Seq(Nat) /\ Unbroken(NewCaptures)
         /\ NewCaptures = << >> <=> dash.total_captures = captures
         /\ NewCaptures # << >> => /\ NewestOf(NewCaptures) = captures
                                   /\ NewCaptures[1] = dash.total_captures + 1
         /\ NewReports \in Seq(Nat) /\ Unbroken(NewReports)
         /\ NewReports = << >> <=> dash.total_alerts = reports
         /\ NewReports # << >> => /\ NewestOf(NewReports) = reports
                                  /\ NewReports[1] = dash.total_alerts + 1
         /\ WithCaptures \in DashType /\ WithReports \in DashType
         /\ Len(WithCaptures.traffic) <= TRAFFIC_MAX
         /\ Unbroken(WithCaptures.traffic) /\ NewestOf(WithCaptures.traffic) = captures
         /\ WithCaptures.alerts = dash.alerts
         /\ WithCaptures.total_captures = captures /\ WithCaptures.total_alerts = dash.total_alerts
         /\ WithReports.traffic = WithCaptures.traffic
         /\ Len(WithReports.alerts) <= ALERTS_MAX
         /\ Unbroken(WithReports.alerts) /\ NewestOf(WithReports.alerts) = reports
         /\ WithReports.total_captures = captures /\ WithReports.total_alerts = reports
<1>0. TRAFFIC_MAX \in Nat \ {0} /\ ALERTS_MAX \in Nat \ {0}
  BY BuffersAssumption
<1>1. /\ captures \in Nat /\ reports \in Nat /\ polled.captures \in Nat /\ polled.reports \in Nat
      /\ polled.captures <= captures /\ polled.reports <= reports
      /\ dash \in DashType
      /\ dash.traffic \in Seq(Nat) /\ dash.alerts \in Seq(Nat)
      /\ dash.total_captures = polled.captures /\ dash.total_alerts = polled.reports
      /\ Unbroken(dash.traffic) /\ NewestOf(dash.traffic) = polled.captures
      /\ Unbroken(dash.alerts) /\ NewestOf(dash.alerts) = polled.reports
  BY DEF Types, TypeOK, CountsWhatItPolled, DashType
<1>2. /\ NewCaptures \in Seq(Nat) /\ Len(NewCaptures) = captures - polled.captures
      /\ NewCaptures = << >> <=> polled.captures = captures
      /\ Unbroken(NewCaptures)
      /\ NewCaptures # << >> => /\ NewestOf(NewCaptures) = captures
                                /\ NewCaptures[1] = polled.captures + 1
  BY <1>1, NewRowsFacts DEF NewCaptures
<1>3. /\ NewReports \in Seq(Nat) /\ Len(NewReports) = reports - polled.reports
      /\ NewReports = << >> <=> polled.reports = reports
      /\ Unbroken(NewReports)
      /\ NewReports # << >> => /\ NewestOf(NewReports) = reports
                               /\ NewReports[1] = polled.reports + 1
  BY <1>1, NewRowsFacts DEF NewReports
<1>4. /\ dash.traffic \o NewCaptures \in Seq(Nat) /\ Unbroken(dash.traffic \o NewCaptures)
      /\ NewestOf(dash.traffic \o NewCaptures) = captures
  <2>1. NewCaptures # << >> => NewCaptures[1] <= NewestOf(dash.traffic) + 1
    BY <1>1, <1>2
  <2>2. /\ dash.traffic \o NewCaptures \in Seq(Nat) /\ Unbroken(dash.traffic \o NewCaptures)
        /\ NewestOf(dash.traffic \o NewCaptures) =
             IF NewCaptures = << >> THEN NewestOf(dash.traffic) ELSE NewestOf(NewCaptures)
    BY <1>1, <1>2, <2>1, ExtendFacts
  <2> QED
    BY <1>1, <1>2, <2>2
<1>5. /\ dash.alerts \o NewReports \in Seq(Nat) /\ Unbroken(dash.alerts \o NewReports)
      /\ NewestOf(dash.alerts \o NewReports) = reports
  <2>1. NewReports # << >> => NewReports[1] <= NewestOf(dash.alerts) + 1
    BY <1>1, <1>3
  <2>2. /\ dash.alerts \o NewReports \in Seq(Nat) /\ Unbroken(dash.alerts \o NewReports)
        /\ NewestOf(dash.alerts \o NewReports) =
             IF NewReports = << >> THEN NewestOf(dash.alerts) ELSE NewestOf(NewReports)
    BY <1>1, <1>3, <2>1, ExtendFacts
  <2> QED
    BY <1>1, <1>3, <2>2
<1> DEFINE traffic == Newest(dash.traffic \o NewCaptures, TRAFFIC_MAX)
           alerts == Newest(dash.alerts \o NewReports, ALERTS_MAX)
<1>6. /\ traffic \in Seq(Nat) /\ Len(traffic) <= TRAFFIC_MAX
      /\ NewestOf(traffic) = captures /\ Unbroken(traffic)
  BY <1>0, <1>4, NewestFacts
<1>7. /\ alerts \in Seq(Nat) /\ Len(alerts) <= ALERTS_MAX
      /\ NewestOf(alerts) = reports /\ Unbroken(alerts)
  BY <1>0, <1>5, NewestFacts
<1>8. WithCaptures = [dash EXCEPT !.traffic = traffic, !.total_captures = @ + Len(NewCaptures)]
  BY DEF WithCaptures, AddCapture
<1>9. WithReports = [WithCaptures EXCEPT !.alerts = Newest(@ \o NewReports, ALERTS_MAX),
                                         !.total_alerts = @ + Len(NewReports)]
  BY DEF WithReports, AddCti
<1> HIDE DEF traffic, alerts
<1>10. /\ dash.total_captures + Len(NewCaptures) = captures
       /\ dash.total_alerts + Len(NewReports) = reports
  BY <1>1, <1>2, <1>3
<1>11. WithCaptures = [traffic |-> traffic, alerts |-> dash.alerts,
                       total_captures |-> captures, total_alerts |-> dash.total_alerts]
  BY <1>1, <1>8, <1>10 DEF DashType
<1>12. WithReports = [traffic |-> traffic, alerts |-> alerts,
                      total_captures |-> captures, total_alerts |-> reports]
  BY <1>9, <1>10, <1>11 DEF alerts
<1>13. WithCaptures \in DashType /\ WithReports \in DashType
  BY <1>1, <1>6, <1>7, <1>11, <1>12 DEF DashType
<1> QED
  BY <1>1, <1>2, <1>3, <1>6, <1>7, <1>11, <1>12, <1>13

-----------------------------------------------------------------------------
(* Broadcasts.                                                             *)

\* A stream that dropped nothing has all that was sent queued, in its order.
LEMMA BroadcastEffect ==
  ASSUME Types, NEW sent \in Seq(EventType), Broadcast(sent)
  PROVE  /\ stream' = stream /\ page' = page
         /\ queue' \in [Pages -> Seq(EventType)] /\ lost' \in [Pages -> BOOLEAN]
         /\ \A p \in Pages :
              /\ Len(queue'[p]) <= QUEUE_MAX
              /\ stream[p] = "closed" => queue'[p] = queue[p] /\ lost'[p] = lost[p]
              /\ stream[p] # "closed" /\ ~lost'[p] => ~lost[p] /\ queue'[p] = queue[p] \o sent
<1> HIDE DEF EventType
<1>0. /\ QUEUE_MAX \in Nat
      /\ queue \in [Pages -> Seq(EventType)] /\ lost \in [Pages -> BOOLEAN]
      /\ \A p \in Pages : Len(queue[p]) <= QUEUE_MAX
  BY CapsAssumption DEF Types, TypeOK
<1>1. ASSUME NEW p \in Pages
      PROVE  LET q == queue[p]
                 room == Room(q, sent)
             IN  /\ q \o room \in Seq(EventType) /\ Len(q \o room) <= QUEUE_MAX
                 /\ Len(q \o sent) <= QUEUE_MAX => room = sent
  <2> DEFINE q == queue[p]
             n == IF Len(sent) + Len(q) > QUEUE_MAX THEN QUEUE_MAX - Len(q) ELSE Len(sent)
  <2>1. /\ q \in Seq(EventType) /\ Len(q) \in Nat /\ Len(q) <= QUEUE_MAX /\ Len(sent) \in Nat
        /\ Len(q \o sent) = Len(q) + Len(sent)
    BY <1>0
  <2>2. n \in 0 .. Len(sent) /\ Len(q) + n <= QUEUE_MAX
        /\ (Len(q) + Len(sent) <= QUEUE_MAX => n = Len(sent))
    BY <1>0, <2>1
  <2>3. Room(q, sent) = SubSeq(sent, 1, n)
    BY DEF Room
  <2> HIDE DEF q, n
  <2>4. \A i \in 1 .. n : sent[i] \in EventType
    BY <2>1, <2>2
  <2>5. SubSeq(sent, 1, n) \in Seq(EventType) /\ Len(SubSeq(sent, 1, n)) = n
    BY <2>2, <2>4, SubSeqProperties
  <2>6. SubSeq(sent, 1, Len(sent)) = sent
    OBVIOUS
  <2>7. /\ q \o SubSeq(sent, 1, n) \in Seq(EventType)
        /\ Len(q \o SubSeq(sent, 1, n)) = Len(q) + n
    BY <2>1, <2>5, ConcatProperties
  <2> QED
    BY <2>1, <2>2, <2>3, <2>6, <2>7 DEF q
<1>2. /\ stream' = stream /\ page' = page
      /\ queue' = [p \in Pages |-> IF stream[p] = "closed" THEN queue[p]
                                    ELSE queue[p] \o Room(queue[p], sent)]
      /\ lost' = [p \in Pages |-> \/ lost[p]
                                  \/ stream[p] # "closed" /\ Len(queue[p] \o sent) > QUEUE_MAX]
  BY DEF Broadcast
<1>3. queue' \in [Pages -> Seq(EventType)]
  BY <1>0, <1>1, <1>2
<1>4. lost' \in [Pages -> BOOLEAN]
  BY <1>0, <1>2
<1>5. ASSUME NEW p \in Pages
      PROVE  /\ Len(queue'[p]) <= QUEUE_MAX
             /\ stream[p] = "closed" => queue'[p] = queue[p] /\ lost'[p] = lost[p]
             /\ stream[p] # "closed" /\ ~lost'[p] => ~lost[p] /\ queue'[p] = queue[p] \o sent
  <2>1. CASE stream[p] = "closed"
    BY <1>0, <1>2, <2>1
  <2>2. CASE stream[p] # "closed"
    <3>1. queue'[p] = queue[p] \o Room(queue[p], sent)
      BY <1>2, <2>2
    <3>2. ~lost'[p] => ~lost[p] /\ ~(Len(queue[p] \o sent) > QUEUE_MAX)
      BY <1>2, <2>2
    <3>3. Len(queue[p] \o sent) \in Nat
      BY <1>0
    <3>4. ~lost'[p] => ~lost[p] /\ Len(queue[p] \o sent) <= QUEUE_MAX
      BY <1>0, <3>2, <3>3
    <3>5. /\ Len(queue[p] \o Room(queue[p], sent)) <= QUEUE_MAX
          /\ Len(queue[p] \o sent) <= QUEUE_MAX => Room(queue[p], sent) = sent
      BY <1>1
    <3>6. ~lost'[p] => ~lost[p] /\ queue'[p] = queue[p] \o sent
      BY <3>1, <3>4, <3>5
    <3> QED
      BY <2>2, <3>1, <3>5, <3>6
  <2> QED
    BY <2>1, <2>2
<1> QED
  BY <1>2, <1>3, <1>4, <1>5

\* The newest row of a list is a position.
LEMMA NewestNat ==
  ASSUME NEW rows \in Seq(Nat) PROVE NewestOf(rows) \in Nat
<1>1. Len(rows) \in Nat /\ (rows # << >> => Len(rows) \in 1 .. Len(rows))
  OBVIOUS
<1> QED
  BY <1>1 DEF NewestOf

\* What is sent takes the rows of type t from the total old to the total new.
Brings(sent, t, rows, old, new) ==
  IF rows = << >> THEN None(sent, t) /\ new = old
  ELSE /\ \E e \in EventType : e.type = t /\ e.rows = rows /\ Sole(sent, t, e)
       /\ Unbroken(rows) /\ rows[1] = old + 1 /\ NewestOf(rows) = new

\* Chains of rows go on, and lists that they extend still have no gap.
LEMMA RowsOnTheirWay ==
  ASSUME NEW q \in Seq(EventType), NEW sent \in Seq(EventType), NEW t \in {"traffic", "alerts"},
         NEW rows \in Seq(Nat), NEW old \in Nat, NEW new \in Nat, Brings(sent, t, rows, old, new),
         NEW newest \in Nat, NEW further \in Nat,
         newest <= further, rows = << >> => further = newest,
         Chained(q, t, old), Begins(q, t, newest, old)
  PROVE  Chained(q \o sent, t, new) /\ Begins(q \o sent, t, further, new)
<1>1. CASE rows = << >>
  <2>1. None(sent, t) /\ new = old
    BY <1>1 DEF Brings
  <2> HIDE DEF EventType
  <2> QED
    BY <1>1, <2>1, ChainedNone, BeginsNone
<1>2. CASE rows # << >>
  <2>1. PICK e \in EventType : e.type = t /\ e.rows = rows /\ Sole(sent, t, e)
    BY <1>2 DEF Brings
  <2>2. Unbroken(e.rows) /\ e.rows[1] = old + 1 /\ NewestOf(e.rows) = new /\ e.rows # << >>
    BY <1>2, <2>1 DEF Brings
  <2>3. \A i \in 1 .. Len(q) : q[i].type = t => q[i].rows[1] \in Nat
    <3> SUFFICES ASSUME NEW i \in 1 .. Len(q), q[i].type = t PROVE q[i].rows[1] \in Nat
      OBVIOUS
    <3>1. q[i] \in EventType
      OBVIOUS
    <3>2. q[i].rows \in Seq(Nat)
      BY <3>1 DEF EventType
    <3>3. q[i].rows # << >>
      BY DEF Chained
    <3> QED
      BY SMTT(30), <3>2, <3>3
  <2> HIDE DEF EventType
  <2>4. Chained(q \o sent, t, NewestOf(e.rows))
    BY <2>1, <2>2, ChainedSole
  <2>5. Begins(q \o sent, t, further, new)
    BY <2>1, <2>2, <2>3, BeginsSole
  <2> QED
    BY <2>2, <2>4, <2>5
<1> QED
  BY <1>1, <1>2

\* What a step of the poller or of the summarizer sends.
Sends(sent) ==
  /\ sent \in Seq(EventType) /\ Broadcast(sent)
  /\ ~unsent' => \/ Sole(sent, "stats", Stats(dash'))
                 \/ /\ None(sent, "stats") /\ ~unsent
                    /\ dash'.total_captures = dash.total_captures
                    /\ dash'.total_alerts = dash.total_alerts
  /\ \/ Sole(sent, "summary", Summary(summary'))
     \/ None(sent, "summary") /\ summary' = summary
  /\ \/ Sole(sent, "detector", Detector(detector'))
     \/ None(sent, "detector") /\ detector' = detector
  /\ \E rows \in Seq(Nat) :
       Brings(sent, "traffic", rows, dash.total_captures, dash'.total_captures)
  /\ \E rows \in Seq(Nat) :
       Brings(sent, "alerts", rows, dash.total_alerts, dash'.total_alerts)

\* A broadcast of what changed keeps it on its way to every page.
LEMMA SendsKeep ==
  ASSUME IInv, NEW sent, Sends(sent), dash' \in DashType,
         dash.total_captures <= dash'.total_captures, dash.total_alerts <= dash'.total_alerts,
         NEW p \in Pages
  PROVE  StreamInv(p)'
<1>0. Types /\ StreamInv(p)
  BY DEF IInv
<1>1. /\ sent \in Seq(EventType) /\ Broadcast(sent)
      /\ queue[p] \in Seq(EventType) /\ page[p] \in PageType
      /\ dash.total_captures \in Nat /\ dash.total_alerts \in Nat
      /\ dash'.total_captures \in Nat /\ dash'.total_alerts \in Nat
  BY <1>0 DEF Types, Sends, DashType
<1>2. /\ stream' = stream /\ page' = page
      /\ stream[p] = "closed" => queue'[p] = queue[p] /\ lost'[p] = lost[p]
      /\ stream[p] # "closed" /\ ~lost'[p] => ~lost[p] /\ queue'[p] = queue[p] \o sent
  <2> HIDE DEF EventType
  <2> QED
    BY <1>0, <1>1, BroadcastEffect
<1>3. CASE stream[p] = "closed"
  BY <1>0, <1>2, <1>3 DEF StreamInv
<1>4. CASE stream[p] # "closed" /\ lost'[p]
  BY <1>0, <1>2, <1>4 DEF StreamInv
<1>5. CASE stream[p] # "closed" /\ ~lost'[p]
  <2> DEFINE q == queue[p]
  <2>1. /\ queue'[p] = q \o sent /\ q \in Seq(EventType)
        /\ Unbroken(page[p].feed) /\ Unbroken(page[p].box) /\ OnItsWay(p)
    BY <1>0, <1>1, <1>2, <1>5 DEF StreamInv
  <2> HIDE DEF q, EventType
  <2>2. ~unsent' => Comes(q \o sent, "stats", Stats(dash'),
                          stream[p] # "snapshot" => /\ page[p].captures = dash'.total_captures
                                                    /\ page[p].alerts = dash'.total_alerts)
    <3> SUFFICES ASSUME ~unsent'
                 PROVE  Comes(q \o sent, "stats", Stats(dash'),
                              stream[p] # "snapshot" => /\ page[p].captures = dash'.total_captures
                                                        /\ page[p].alerts = dash'.total_alerts)
      OBVIOUS
    <3>1. CASE Sole(sent, "stats", Stats(dash'))
      BY <1>1, <2>1, <3>1, ComesSole
    <3>2. CASE /\ None(sent, "stats") /\ ~unsent
               /\ dash'.total_captures = dash.total_captures
               /\ dash'.total_alerts = dash.total_alerts
      <4>1. Stats(dash') = Stats(dash)
        BY <3>2 DEF Stats
      <4>2. Comes(q, "stats", Stats(dash),
                  stream[p] # "snapshot" => /\ page[p].captures = dash.total_captures
                                            /\ page[p].alerts = dash.total_alerts)
        BY <2>1, <3>2 DEF OnItsWay, q
      <4> QED
        BY <1>1, <2>1, <3>2, <4>1, <4>2, ComesNone
    <3> QED
      BY <3>1, <3>2 DEF Sends
  <2>3. Comes(q \o sent, "summary", Summary(summary'),
              stream[p] \in {"detector", "live"} => page[p].summary = summary')
    <3>1. CASE Sole(sent, "summary", Summary(summary'))
      BY <1>1, <2>1, <3>1, ComesSole
    <3>2. CASE None(sent, "summary") /\ summary' = summary
      <4>1. Comes(q, "summary", Summary(summary),
                  stream[p] \in {"detector", "live"} => page[p].summary = summary)
        BY <2>1 DEF OnItsWay, q
      <4> QED
        BY <1>1, <2>1, <3>2, <4>1, ComesNone
    <3> QED
      BY <3>1, <3>2 DEF Sends
  <2>4. Comes(q \o sent, "detector", Detector(detector'),
              stream[p] = "live" => page[p].detector = detector')
    <3>1. CASE Sole(sent, "detector", Detector(detector'))
      BY <1>1, <2>1, <3>1, ComesSole
    <3>2. CASE None(sent, "detector") /\ detector' = detector
      <4>1. Comes(q, "detector", Detector(detector),
                  stream[p] = "live" => page[p].detector = detector)
        BY <2>1 DEF OnItsWay, q
      <4> QED
        BY <1>1, <2>1, <3>2, <4>1, ComesNone
    <3> QED
      BY <3>1, <3>2 DEF Sends
  <2>5. /\ Chained(q \o sent, "traffic", dash'.total_captures)
        /\ Begins(q \o sent, "traffic", FeedTo(p)', dash'.total_captures)
    <3>1. PICK rows \in Seq(Nat) :
            Brings(sent, "traffic", rows, dash.total_captures, dash'.total_captures)
      BY DEF Sends
    <3>2. NewestOf(page[p].feed) \in Nat
      BY <1>1, NewestNat DEF PageType
    <3>3. FeedTo(p) \in Nat /\ FeedTo(p)' \in Nat /\ FeedTo(p) <= FeedTo(p)'
      BY <1>1, <1>2, <3>2 DEF FeedTo
    <3>4. rows = << >> => FeedTo(p)' = FeedTo(p)
      BY <1>2, <3>1 DEF FeedTo, Brings
    <3>5. Chained(q, "traffic", dash.total_captures)
          /\ Begins(q, "traffic", FeedTo(p), dash.total_captures)
      BY <2>1 DEF OnItsWay, q
    <3> HIDE DEF FeedTo
    <3> QED
      BY <1>1, <2>1, <3>1, <3>3, <3>4, <3>5, RowsOnTheirWay
  <2>6. /\ Chained(q \o sent, "alerts", dash'.total_alerts)
        /\ Begins(q \o sent, "alerts", BoxTo(p)', dash'.total_alerts)
    <3>1. PICK rows \in Seq(Nat) :
            Brings(sent, "alerts", rows, dash.total_alerts, dash'.total_alerts)
      BY DEF Sends
    <3>2. NewestOf(page[p].box) \in Nat
      BY <1>1, NewestNat DEF PageType
    <3>3. BoxTo(p) \in Nat /\ BoxTo(p)' \in Nat /\ BoxTo(p) <= BoxTo(p)'
      BY <1>1, <1>2, <3>2 DEF BoxTo
    <3>4. rows = << >> => BoxTo(p)' = BoxTo(p)
      BY <1>2, <3>1 DEF BoxTo, Brings
    <3>5. Chained(q, "alerts", dash.total_alerts)
          /\ Begins(q, "alerts", BoxTo(p), dash.total_alerts)
      BY <2>1 DEF OnItsWay, q
    <3> HIDE DEF BoxTo
    <3> QED
      BY <1>1, <2>1, <3>1, <3>3, <3>4, <3>5, RowsOnTheirWay
  <2>7. OnItsWay(p)'
    BY <1>2, <2>1, <2>2, <2>3, <2>4, <2>5, <2>6 DEF OnItsWay
  <2>8. stream'[p] \notin {"closed", "live"} => page'[p].detector = 0
    BY <1>0, <1>2 DEF StreamInv
  <2> QED
    BY <1>2, <1>5, <2>1, <2>7, <2>8 DEF StreamInv
<1> QED
  BY <1>3, <1>4, <1>5

\* A step that broadcasts keeps the invariant when it keeps its parts that say
\* nothing of the pages.
LEMMA SendsInv ==
  ASSUME IInv, NEW sent, Sends(sent),
         captures' = captures, reports' = reports, prompted' = prompted,
         polled' \in [captures : 0 .. captures, reports : 0 .. reports],
         dash' \in DashType,
         Len(dash'.traffic) <= TRAFFIC_MAX, Len(dash'.alerts) <= ALERTS_MAX,
         detector' \in 0 .. reports, summary' \in SummaryType,
         summarizer' \in {"sleep", "due", "groq"}, unsent' \in BOOLEAN,
         dash.total_captures <= dash'.total_captures, dash.total_alerts <= dash'.total_alerts,
         CountsWhatItPolled', SummaryIsPrompted'
  PROVE  IInv'
<1>0. Types
  BY DEF IInv
<1>1. sent \in Seq(EventType) /\ Broadcast(sent)
  BY DEF Sends
<1>2. /\ stream' = stream /\ page' = page
      /\ queue' \in [Pages -> Seq(EventType)] /\ lost' \in [Pages -> BOOLEAN]
      /\ \A p \in Pages : Len(queue'[p]) <= QUEUE_MAX
  <2> HIDE DEF EventType
  <2> QED
    BY <1>0, <1>1, BroadcastEffect
<1>3. TypeOK'
  <2>1. dash'.traffic \in Seq(Nat) /\ dash'.alerts \in Seq(Nat) /\ summary'.text \in Texts
    BY DEF DashType, SummaryType
  <2>2. /\ stream \in [Pages -> Stages]
        /\ \A p \in Pages : Len(page[p].feed) <= TRAFFIC_CAP /\ Len(page[p].box) <= ALERTS_CAP
    BY <1>0 DEF Types, TypeOK
  <2> QED
    BY <1>2, <2>1, <2>2 DEF TypeOK, Texts
<1>4. Types'
  BY <1>0, <1>2, <1>3 DEF Types
<1>5. ASSUME NEW p \in Pages PROVE StreamInv(p)'
  BY SendsKeep
<1> QED
  BY <1>4, <1>5 DEF IInv

-----------------------------------------------------------------------------
(* One lemma for each operation.                                           *)

\* What a step that sends nothing and changes nothing that is shown keeps.
LEMMA QuietKeeps ==
  ASSUME IInv, UNCHANGED <<polled, dash, detector, summary, streams, unsent>>,
         captures' \in Nat, reports' \in Nat, captures <= captures', reports <= reports',
         summarizer' \in {"sleep", "due", "groq"}, prompted' \in Nat, SummaryIsPrompted'
  PROVE  IInv'
<1>0. Types
  BY DEF IInv
<1>1. TypeOK'
  <2>1. polled' \in [captures : 0 .. captures', reports : 0 .. reports'] /\ detector' \in 0 .. reports'
    <3>1. polled \in [captures : 0 .. captures, reports : 0 .. reports] /\ detector \in 0 .. reports
          /\ captures \in Nat /\ reports \in Nat
      BY <1>0 DEF Types, TypeOK
    <3>2. 0 .. captures \subseteq 0 .. captures' /\ 0 .. reports \subseteq 0 .. reports'
      BY <3>1
    <3> QED
      BY <3>1, <3>2
  <2> QED
    BY <1>0, <2>1 DEF Types, TypeOK, streams
<1>2. Types'
  BY <1>0, <1>1 DEF Types, streams
<1>3. CountsWhatItPolled'
  BY DEF IInv, CountsWhatItPolled
<1>4. ASSUME NEW p \in Pages PROVE StreamInv(p)'
  <2>1. StreamInv(p)
    BY DEF IInv
  <2> QED
    BY <2>1 DEF StreamInv, OnItsWay, FeedTo, BoxTo, streams
<1> QED
  BY <1>2, <1>3, <1>4 DEF IInv

\* The topics grow, and a failed poll of the captures changes nothing.
LEMMA EnvironmentInv ==
  ASSUME IInv, SensorCaptures \/ CtiReports \/ CapturePollFails
  PROVE  IInv'
<1>1. captures \in Nat /\ reports \in Nat /\ prompted \in Nat
      /\ summarizer \in {"sleep", "due", "groq"} /\ SummaryIsPrompted
  BY DEF IInv, Types, TypeOK
<1>2. CASE SensorCaptures
  BY <1>1, <1>2, QuietKeeps DEF SensorCaptures, server, SummaryIsPrompted
<1>3. CASE CtiReports
  BY <1>1, <1>3, QuietKeeps DEF CtiReports, server, SummaryIsPrompted
<1>4. CASE CapturePollFails
  BY <1>1, <1>4, QuietKeeps DEF CapturePollFails, topics, server, SummaryIsPrompted
<1> QED
  BY <1>2, <1>3, <1>4

\* A tick of the poller sends the new rows, the detector and the new totals.
LEMMA PollerTickInv ==
  ASSUME IInv, PollerTick
  PROVE  IInv'
<1>0. /\ Types /\ CountsWhatItPolled /\ SummaryIsPrompted
      /\ captures \in Nat /\ reports \in Nat /\ detector \in 0 .. reports /\ summary \in SummaryType
      /\ dash \in DashType /\ dash.total_captures \in 0 .. captures
      /\ dash.total_alerts \in 0 .. reports /\ unsent \in BOOLEAN /\ prompted \in Nat
      /\ summarizer \in {"sleep", "due", "groq"}
  BY DEF IInv, Types, TypeOK, CountsWhatItPolled
<1> DEFINE c == NewCaptures
           r == NewReports
           first == SomeIf(c # << >>, <<Traffic(c)>>)
           second == SomeIf(r # << >>, <<Alerts(r), Detector(reports)>>)
           third == SomeIf(c \o r # << >>, <<Stats(dash')>>)
           sent == first \o second \o third
<1>1. /\ c \in Seq(Nat) /\ Unbroken(c)
      /\ c = << >> <=> dash.total_captures = captures
      /\ c # << >> => NewestOf(c) = captures /\ c[1] = dash.total_captures + 1
      /\ r \in Seq(Nat) /\ Unbroken(r)
      /\ r = << >> <=> dash.total_alerts = reports
      /\ r # << >> => NewestOf(r) = reports /\ r[1] = dash.total_alerts + 1
  BY <1>0, DashFacts
<1>2. /\ dash' = WithReports /\ dash' \in DashType
      /\ Len(dash'.traffic) <= TRAFFIC_MAX /\ Len(dash'.alerts) <= ALERTS_MAX
      /\ Unbroken(dash'.traffic) /\ NewestOf(dash'.traffic) = captures
      /\ Unbroken(dash'.alerts) /\ NewestOf(dash'.alerts) = reports
      /\ dash'.total_captures = captures /\ dash'.total_alerts = reports
  BY <1>0, DashFacts DEF PollerTick
<1>3. /\ captures' = captures /\ reports' = reports /\ prompted' = prompted
      /\ summarizer' = summarizer /\ summary' = summary
      /\ polled' = [captures |-> captures, reports |-> reports]
      /\ detector' = IF r # << >> THEN reports ELSE detector
      /\ unsent' = (unsent /\ c \o r = << >>)
      /\ Broadcast(sent)
  BY DEF PollerTick, topics
<1>4. c \o r = << >> <=> c = << >> /\ r = << >>
  BY <1>1, ConcatProperties
<1>5. /\ Traffic(c) \in EventType /\ Traffic(c).type = "traffic" /\ Traffic(c).rows = c
      /\ Alerts(r) \in EventType /\ Alerts(r).type = "alerts" /\ Alerts(r).rows = r
      /\ Detector(reports) \in EventType /\ Detector(reports).type = "detector"
      /\ Stats(dash') \in EventType /\ Stats(dash').type = "stats"
  <2> HIDE DEF EventType, c, r
  <2> QED
    BY <1>0, <1>1, <1>2, EventFacts
<1> HIDE DEF EventType, c, r
<1>6. /\ first \in Seq(EventType)
      /\ c # << >> => Sole(first, "traffic", Traffic(c))
      /\ c = << >> => None(first, "traffic")
      /\ \A t : t # "traffic" => None(first, t)
  BY <1>5, OneSent DEF SomeIf
<1>7. /\ third \in Seq(EventType)
      /\ c \o r # << >> => Sole(third, "stats", Stats(dash'))
      /\ c \o r = << >> => None(third, "stats")
      /\ \A t : t # "stats" => None(third, t)
  BY <1>5, OneSent DEF SomeIf
<1>8. /\ second \in Seq(EventType)
      /\ r # << >> => Sole(second, "alerts", Alerts(r)) /\ Sole(second, "detector", Detector(reports))
      /\ r = << >> => None(second, "alerts") /\ None(second, "detector")
      /\ \A t : t \notin {"alerts", "detector"} => None(second, t)
  <2>1. CASE r = << >>
    BY <1>5, <2>1, OneSent DEF SomeIf
  <2>2. CASE r # << >>
    <3> DEFINE two == <<Alerts(r)>> \o <<Detector(reports)>>
    <3>1. second = two
      BY <2>2 DEF SomeIf
    <3>2. /\ Sole(<<Alerts(r)>>, "alerts", Alerts(r)) /\ None(<<Detector(reports)>>, "alerts")
          /\ Sole(<<Detector(reports)>>, "detector", Detector(reports)) /\ None(<<Alerts(r)>>, "detector")
          /\ \A t : t \notin {"alerts", "detector"} => None(<<Alerts(r)>>, t) /\ None(<<Detector(reports)>>, t)
          /\ <<Alerts(r)>> \in Seq(EventType) /\ <<Detector(reports)>> \in Seq(EventType)
      BY <1>5, OneSent
    <3>3. Sole(two, "alerts", Alerts(r)) /\ Sole(two, "detector", Detector(reports))
      BY <3>2, SentFacts
    <3>4. \A t : t \notin {"alerts", "detector"} => None(two, t)
      BY <3>2, SentFacts
    <3>5. two \in Seq(EventType)
      BY <3>2
    <3> QED
      BY <2>2, <3>1, <3>3, <3>4, <3>5
  <2> QED
    BY <2>1, <2>2
<1>9. first \o second \in Seq(EventType) /\ sent \in Seq(EventType)
  BY <1>6, <1>7, <1>8
<1> HIDE DEF first, second, third
<1>10. /\ c # << >> => Sole(sent, "traffic", Traffic(c))
       /\ c = << >> => None(sent, "traffic")
  <2>1. None(second, "traffic") /\ None(third, "traffic")
    BY <1>7, <1>8
  <2>2. /\ c # << >> => Sole(first \o second, "traffic", Traffic(c))
        /\ c = << >> => None(first \o second, "traffic")
    BY <1>6, <1>8, <2>1, SentFacts
  <2> QED
    BY <1>7, <1>9, <2>1, <2>2, SentFacts
<1>11. /\ r # << >> => Sole(sent, "alerts", Alerts(r)) /\ Sole(sent, "detector", Detector(reports))
       /\ r = << >> => None(sent, "alerts") /\ None(sent, "detector")
  <2>1. /\ None(first, "alerts") /\ None(third, "alerts")
        /\ None(first, "detector") /\ None(third, "detector")
    BY <1>6, <1>7
  <2>2. /\ r # << >> => /\ Sole(first \o second, "alerts", Alerts(r))
                        /\ Sole(first \o second, "detector", Detector(reports))
        /\ r = << >> => None(first \o second, "alerts") /\ None(first \o second, "detector")
    BY <1>6, <1>8, <2>1, SentFacts
  <2> QED
    BY <1>7, <1>9, <2>1, <2>2, SentFacts
<1>12. /\ c \o r # << >> => Sole(sent, "stats", Stats(dash'))
       /\ c \o r = << >> => None(sent, "stats")
       /\ None(sent, "summary")
  <2>1. /\ None(first, "stats") /\ None(second, "stats")
        /\ None(first, "summary") /\ None(second, "summary") /\ None(third, "summary")
    BY <1>6, <1>7, <1>8
  <2>2. None(first \o second, "stats") /\ None(first \o second, "summary")
    BY <1>6, <1>8, <2>1, SentFacts
  <2> QED
    BY <1>7, <1>9, <2>1, <2>2, SentFacts
<1> HIDE DEF sent
<1>13. Brings(sent, "traffic", c, dash.total_captures, dash'.total_captures)
  BY <1>1, <1>2, <1>5, <1>10 DEF Brings
<1>14. Brings(sent, "alerts", r, dash.total_alerts, dash'.total_alerts)
  BY <1>1, <1>2, <1>5, <1>11 DEF Brings
<1>15. Sends(sent)
  <2>1. ~unsent' => \/ Sole(sent, "stats", Stats(dash'))
                    \/ /\ None(sent, "stats") /\ ~unsent
                       /\ dash'.total_captures = dash.total_captures
                       /\ dash'.total_alerts = dash.total_alerts
    BY <1>1, <1>2, <1>3, <1>4, <1>12
  <2>2. None(sent, "summary") /\ summary' = summary
    BY <1>3, <1>12
  <2>3. \/ Sole(sent, "detector", Detector(detector'))
        \/ None(sent, "detector") /\ detector' = detector
    BY <1>3, <1>11
  <2> QED
    BY <1>1, <1>3, <1>9, <1>13, <1>14, <2>1, <2>2, <2>3 DEF Sends
<1>16. CountsWhatItPolled'
  BY <1>2, <1>3 DEF CountsWhatItPolled
<1>17. SummaryIsPrompted'
  BY <1>0, <1>2, <1>3 DEF SummaryIsPrompted
<1>18. /\ polled' \in [captures : 0 .. captures, reports : 0 .. reports]
       /\ detector' \in 0 .. reports /\ unsent' \in BOOLEAN
       /\ dash.total_captures <= dash'.total_captures /\ dash.total_alerts <= dash'.total_alerts
  BY <1>0, <1>2, <1>3
<1> QED
  BY <1>0, <1>2, <1>3, <1>15, <1>16, <1>17, <1>18, SendsInv

\* When the poll of the reports fails the captures are sent, and the totals wait.
LEMMA CtiPollFailsInv ==
  ASSUME IInv, CtiPollFails
  PROVE  IInv'
<1>0. /\ Types /\ CountsWhatItPolled /\ SummaryIsPrompted
      /\ captures \in Nat /\ reports \in Nat /\ detector \in 0 .. reports /\ summary \in SummaryType
      /\ dash \in DashType /\ dash.total_captures \in 0 .. captures
      /\ dash.total_alerts \in 0 .. reports /\ unsent \in BOOLEAN /\ prompted \in Nat
      /\ polled \in [captures : 0 .. captures, reports : 0 .. reports]
      /\ summarizer \in {"sleep", "due", "groq"}
      /\ polled.reports = dash.total_alerts
      /\ Unbroken(dash.alerts) /\ NewestOf(dash.alerts) = dash.total_alerts
      /\ Len(dash.alerts) <= ALERTS_MAX
  BY DEF IInv, Types, TypeOK, CountsWhatItPolled
<1> DEFINE c == NewCaptures
           sent == SomeIf(c # << >>, <<Traffic(c)>>)
<1>1. /\ c \in Seq(Nat) /\ Unbroken(c)
      /\ c = << >> <=> dash.total_captures = captures
      /\ c # << >> => NewestOf(c) = captures /\ c[1] = dash.total_captures + 1
  BY <1>0, DashFacts
<1>2. /\ dash' = WithCaptures /\ dash' \in DashType
      /\ Len(dash'.traffic) <= TRAFFIC_MAX /\ dash'.alerts = dash.alerts
      /\ Unbroken(dash'.traffic) /\ NewestOf(dash'.traffic) = captures
      /\ dash'.total_captures = captures /\ dash'.total_alerts = dash.total_alerts
  BY <1>0, DashFacts DEF CtiPollFails
<1>3. /\ captures' = captures /\ reports' = reports /\ prompted' = prompted
      /\ summarizer' = summarizer /\ summary' = summary /\ detector' = detector
      /\ polled' = [polled EXCEPT !.captures = captures]
      /\ unsent' = (unsent \/ c # << >>)
      /\ Broadcast(sent)
  BY DEF CtiPollFails, topics
<1>4. Traffic(c) \in EventType /\ Traffic(c).type = "traffic" /\ Traffic(c).rows = c
  <2> HIDE DEF EventType, c
  <2> QED
    BY <1>1, EventFacts
<1> HIDE DEF EventType, c
<1>5. /\ sent \in Seq(EventType)
      /\ c # << >> => Sole(sent, "traffic", Traffic(c))
      /\ c = << >> => None(sent, "traffic")
      /\ \A t : t # "traffic" => None(sent, t)
  BY <1>4, OneSent DEF SomeIf
<1> HIDE DEF sent
<1>6. Brings(sent, "traffic", c, dash.total_captures, dash'.total_captures)
  BY <1>1, <1>2, <1>4, <1>5 DEF Brings
<1>7. Brings(sent, "alerts", << >>, dash.total_alerts, dash'.total_alerts)
  BY <1>2, <1>5 DEF Brings
<1>8. Sends(sent)
  <2>1. None(sent, "stats") /\ None(sent, "summary") /\ None(sent, "detector")
    BY <1>5
  <2>2. ~unsent' => /\ ~unsent
                    /\ dash'.total_captures = dash.total_captures
                    /\ dash'.total_alerts = dash.total_alerts
    BY <1>1, <1>2, <1>3
  <2>3. << >> \in Seq(Nat)
    OBVIOUS
  <2> QED
    BY <1>1, <1>3, <1>5, <1>6, <1>7, <2>1, <2>2, <2>3 DEF Sends
<1>9. /\ polled' \in [captures : 0 .. captures, reports : 0 .. reports]
      /\ polled'.captures = captures /\ polled'.reports = polled.reports
  <2>1. captures \in 0 .. captures
    BY <1>0
  <2> QED
    BY <1>0, <1>3, <2>1
<1>10. CountsWhatItPolled'
  BY <1>0, <1>2, <1>3, <1>9 DEF CountsWhatItPolled
<1>11. SummaryIsPrompted'
  BY <1>0, <1>2, <1>3 DEF SummaryIsPrompted
<1>12. /\ unsent' \in BOOLEAN /\ Len(dash'.alerts) <= ALERTS_MAX
       /\ dash.total_captures <= dash'.total_captures /\ dash.total_alerts <= dash'.total_alerts
  BY <1>0, <1>2, <1>3
<1> QED
  BY <1>0, <1>2, <1>3, <1>8, <1>9, <1>10, <1>11, <1>12, SendsInv

\* The summarizer wakes, sends a prompt that knows the alerts there are, or has no key.
LEMMA SummarizerInv ==
  ASSUME IInv, SummarizerWakes \/ AskGroq \/ SummarizeOffline
  PROVE  IInv'
<1>1. /\ captures \in Nat /\ reports \in Nat /\ prompted \in Nat
      /\ summarizer \in {"sleep", "due", "groq"} /\ SummaryIsPrompted
      /\ dash.total_alerts \in Nat /\ summary \in SummaryType
  BY DEF IInv, Types, TypeOK, DashType
<1>2. CASE SummarizerWakes
  BY <1>1, <1>2, QuietKeeps DEF SummarizerWakes, topics, server, SummaryIsPrompted
<1>3. CASE AskGroq
  <2>1. /\ prompted' = dash.total_alerts /\ summarizer' = "groq" /\ captures' = captures
        /\ reports' = reports /\ UNCHANGED <<polled, dash, detector, summary, streams, unsent>>
    BY <1>3 DEF AskGroq, topics, Prompt
  <2>2. SummaryIsPrompted'
    BY <1>1, <2>1 DEF SummaryIsPrompted, SummaryType
  <2> QED
    BY <1>1, <2>1, <2>2, QuietKeeps
<1>4. CASE SummarizeOffline
  BY <1>1, <1>4, QuietKeeps DEF SummarizeOffline, topics, server, SummaryIsPrompted
<1> QED
  BY <1>2, <1>3, <1>4

\* Whatever Groq answers, the summary that follows is sent.
LEMMA AnswerInv ==
  ASSUME IInv, Answer
  PROVE  IInv'
<1>0. /\ Types /\ CountsWhatItPolled /\ SummaryIsPrompted
      /\ captures \in Nat /\ reports \in Nat /\ detector \in 0 .. reports /\ summary \in SummaryType
      /\ dash \in DashType /\ dash.total_captures \in Nat
      /\ dash.total_alerts \in Nat /\ unsent \in BOOLEAN /\ prompted \in Nat
      /\ polled \in [captures : 0 .. captures, reports : 0 .. reports]
      /\ Len(dash.traffic) <= TRAFFIC_MAX /\ Len(dash.alerts) <= ALERTS_MAX
  BY DEF IInv, Types, TypeOK, DashType
<1>1. /\ captures' = captures /\ reports' = reports /\ prompted' = prompted
      /\ summarizer' = "sleep" /\ detector' = detector /\ dash' = dash
      /\ polled' = polled /\ unsent' = unsent
      /\ Broadcast(<<Summary(summary')>>)
  BY DEF Answer, GroqAnswers, GroqRefuses, GroqFails, Answered, topics
<1>2. summary' \in SummaryType /\ (summary'.text = "groq" => summary'.seen <= prompted)
  <2>1. CASE GroqAnswers
    BY <1>0, <2>1 DEF GroqAnswers, SummaryType, Texts
  <2>2. CASE GroqRefuses
    BY <1>0, <2>2 DEF GroqRefuses, SummaryType, Texts, SummaryIsPrompted
  <2>3. CASE GroqFails
    BY <1>0, <2>3 DEF GroqFails, Offline, SummaryType, Texts, SummaryIsPrompted
  <2> QED
    BY <2>1, <2>2, <2>3 DEF Answer
<1> DEFINE sent == <<Summary(summary')>>
<1>3. Summary(summary') \in EventType /\ Summary(summary').type = "summary"
  <2> HIDE DEF EventType, SummaryType
  <2> QED
    BY <1>2, EventFacts
<1> HIDE DEF EventType
<1>4. /\ sent \in Seq(EventType) /\ Sole(sent, "summary", Summary(summary'))
      /\ None(sent, "stats") /\ None(sent, "detector")
      /\ None(sent, "traffic") /\ None(sent, "alerts")
  BY <1>3, OneSent
<1>5. Broadcast(sent)
  BY <1>1
<1> HIDE DEF sent
<1>6. /\ Brings(sent, "traffic", << >>, dash.total_captures, dash'.total_captures)
      /\ Brings(sent, "alerts", << >>, dash.total_alerts, dash'.total_alerts)
      /\ << >> \in Seq(Nat)
  BY <1>1, <1>4 DEF Brings
<1>7. Sends(sent)
  BY <1>1, <1>4, <1>5, <1>6 DEF Sends
<1>8. CountsWhatItPolled' /\ SummaryIsPrompted'
  BY <1>0, <1>1, <1>2 DEF CountsWhatItPolled, SummaryIsPrompted
<1> QED
  BY <1>0, <1>1, <1>2, <1>7, <1>8, SendsInv

\* A step of one stream keeps the invariant when it keeps what it says of that stream.
LEMMA OnePage ==
  ASSUME IInv, NEW p \in Pages, UNCHANGED <<topics, polled, server, summarizer, unsent>>,
         NEW to \in Stages, stream' = [stream EXCEPT ![p] = to],
         NEW q \in Seq(EventType), Len(q) <= QUEUE_MAX, queue' = [queue EXCEPT ![p] = q],
         NEW pg \in PageType, Len(pg.feed) <= TRAFFIC_CAP, Len(pg.box) <= ALERTS_CAP,
         page' = [page EXCEPT ![p] = pg],
         NEW dropped \in BOOLEAN, lost' = [lost EXCEPT ![p] = dropped],
         StreamInv(p)'
  PROVE  IInv'
<1> HIDE DEF EventType, PageType
<1>0. /\ Types
      /\ stream \in [Pages -> Stages] /\ queue \in [Pages -> Seq(EventType)]
      /\ page \in [Pages -> PageType] /\ lost \in [Pages -> BOOLEAN]
      /\ \A o \in Pages : Len(queue[o]) <= QUEUE_MAX
      /\ \A o \in Pages : Len(page[o].feed) <= TRAFFIC_CAP /\ Len(page[o].box) <= ALERTS_CAP
  BY DEF IInv, Types, TypeOK
<1>1. /\ stream' \in [Pages -> Stages] /\ queue' \in [Pages -> Seq(EventType)]
      /\ page' \in [Pages -> PageType] /\ lost' \in [Pages -> BOOLEAN]
  BY <1>0
<1>2. ASSUME NEW o \in Pages
      PROVE  /\ Len(queue'[o]) <= QUEUE_MAX
             /\ Len(page'[o].feed) <= TRAFFIC_CAP /\ Len(page'[o].box) <= ALERTS_CAP
             /\ StreamInv(o)'
  <2>1. CASE o = p
    BY <1>0, <2>1
  <2>2. CASE o # p
    <3>1. /\ stream'[o] = stream[o] /\ queue'[o] = queue[o]
          /\ page'[o] = page[o] /\ lost'[o] = lost[o]
          /\ dash' = dash /\ summary' = summary /\ detector' = detector /\ unsent' = unsent
      BY <1>0, <2>2 DEF server
    <3>2. StreamInv(o)
      BY DEF IInv
    <3>3. StreamInv(o)'
      BY <3>1, <3>2 DEF StreamInv, OnItsWay, FeedTo, BoxTo
    <3> QED
      BY <1>0, <3>1, <3>3
  <2> QED
    BY <2>1, <2>2
<1>3. TypeOK'
  BY <1>0, <1>1, <1>2 DEF Types, TypeOK, topics, server
<1>4. Types'
  BY <1>0, <1>1, <1>3 DEF Types, topics, server
<1>5. CountsWhatItPolled' /\ SummaryIsPrompted'
  BY DEF IInv, CountsWhatItPolled, SummaryIsPrompted, server
<1> QED
  BY <1>2, <1>4, <1>5 DEF IInv

\* What the invariant says of one stream.
LEMMA StreamFacts ==
  ASSUME IInv, NEW p \in Pages
  PROVE  /\ stream[p] \in Stages /\ queue[p] \in Seq(EventType) /\ Len(queue[p]) <= QUEUE_MAX
         /\ page[p] \in PageType /\ lost[p] \in BOOLEAN
         /\ Len(page[p].feed) <= TRAFFIC_CAP /\ Len(page[p].box) <= ALERTS_CAP
         /\ stream = [stream EXCEPT ![p] = stream[p]] /\ queue = [queue EXCEPT ![p] = queue[p]]
         /\ page = [page EXCEPT ![p] = page[p]] /\ lost = [lost EXCEPT ![p] = lost[p]]
         /\ \A to : [stream EXCEPT ![p] = to][p] = to
         /\ \A to : [page EXCEPT ![p] = to][p] = to
         /\ \A to : [queue EXCEPT ![p] = to][p] = to
         /\ \A to : [lost EXCEPT ![p] = to][p] = to
         /\ StreamInv(p)
         /\ dash \in DashType /\ dash.total_captures \in Nat /\ dash.total_alerts \in Nat
         /\ dash.traffic \in Seq(Nat) /\ dash.alerts \in Seq(Nat)
         /\ summary \in SummaryType /\ detector \in Nat
         /\ Unbroken(dash.traffic) /\ NewestOf(dash.traffic) = dash.total_captures
         /\ Unbroken(dash.alerts) /\ NewestOf(dash.alerts) = dash.total_alerts
<1> HIDE DEF EventType, PageType, SummaryType
<1>1. /\ stream \in [Pages -> Stages] /\ queue \in [Pages -> Seq(EventType)]
      /\ page \in [Pages -> PageType] /\ lost \in [Pages -> BOOLEAN]
      /\ \A o \in Pages : Len(queue[o]) <= QUEUE_MAX
      /\ \A o \in Pages : Len(page[o].feed) <= TRAFFIC_CAP /\ Len(page[o].box) <= ALERTS_CAP
      /\ StreamInv(p) /\ dash \in DashType /\ summary \in SummaryType
      /\ detector \in 0 .. reports /\ reports \in Nat
      /\ CountsWhatItPolled
  BY DEF IInv, Types, TypeOK
<1>2. detector \in Nat
  BY <1>1
<1>3. /\ dash.total_captures \in Nat /\ dash.total_alerts \in Nat
      /\ dash.traffic \in Seq(Nat) /\ dash.alerts \in Seq(Nat)
  BY <1>1 DEF DashType
<1>4. /\ stream = [stream EXCEPT ![p] = stream[p]] /\ queue = [queue EXCEPT ![p] = queue[p]]
      /\ page = [page EXCEPT ![p] = page[p]] /\ lost = [lost EXCEPT ![p] = lost[p]]
      /\ \A to : [stream EXCEPT ![p] = to][p] = to
      /\ \A to : [page EXCEPT ![p] = to][p] = to
      /\ \A to : [queue EXCEPT ![p] = to][p] = to
      /\ \A to : [lost EXCEPT ![p] = to][p] = to
  BY <1>1
<1> QED
  BY <1>1, <1>2, <1>3, <1>4 DEF CountsWhatItPolled

\* A page that is not connected shows nothing.
LEMMA BlankFacts ==
  /\ Blank \in PageType /\ Len(Blank.feed) = 0 /\ Len(Blank.box) = 0
  /\ Blank.feed = << >> /\ Blank.box = << >> /\ Blank.detector = 0
  /\ Unbroken(<< >>) /\ << >> \in Seq(EventType) /\ Len(<< >>) = 0
<1>1. /\ Blank \in PageType /\ Blank.feed = << >> /\ Blank.box = << >> /\ Blank.detector = 0
  BY DEF Blank, PageType, Waiting, SummaryType, Texts
<1>2. Unbroken(<< >>) /\ << >> \in Seq(EventType) /\ Len(<< >>) = 0
  <2> HIDE DEF EventType
  <2> QED
    BY DEF Unbroken
<1> QED
  BY <1>1, <1>2

\* Nothing is queued for a page that subscribes, and the snapshot comes next.
LEMMA ConnectInv ==
  ASSUME IInv, NEW p \in Pages, Connect(p)
  PROVE  IInv'
<1> HIDE DEF EventType, PageType
<1>0. /\ stream[p] = "closed" /\ stream' = [stream EXCEPT ![p] = "snapshot"]
      /\ queue' = queue /\ page' = page /\ lost' = lost
      /\ UNCHANGED <<topics, polled, server, summarizer, unsent>>
      /\ dash' = dash /\ summary' = summary /\ detector' = detector
  BY DEF Connect, server
<1>1. queue[p] = << >> /\ page[p] = Blank /\ ~lost[p]
  BY <1>0, StreamFacts DEF StreamInv
<1>2. stream'[p] = "snapshot" /\ queue'[p] = << >> /\ page'[p] = Blank /\ lost'[p] = lost[p]
  BY <1>0, <1>1, StreamFacts
<1>3. OnItsWay(p)'
  BY <1>0, <1>2, BlankFacts DEF OnItsWay, Comes, Chained, Begins, FeedTo, BoxTo
<1>4. StreamInv(p)'
  BY <1>1, <1>2, <1>3, BlankFacts DEF StreamInv
<1>5. "snapshot" \in Stages
  BY DEF Stages
<1> QED
  BY <1>0, <1>1, <1>4, <1>5, StreamFacts, OnePage

\* A page that leaves drops its queue and what it shows.
LEMMA DisconnectInv ==
  ASSUME IInv, NEW p \in Pages, Disconnect(p)
  PROVE  IInv'
<1> HIDE DEF EventType, PageType
<1>0. /\ stream' = [stream EXCEPT ![p] = "closed"] /\ queue' = [queue EXCEPT ![p] = << >>]
      /\ page' = [page EXCEPT ![p] = Blank] /\ lost' = [lost EXCEPT ![p] = FALSE]
      /\ UNCHANGED <<topics, polled, server, summarizer, unsent>>
  BY DEF Disconnect
<1>1. stream'[p] = "closed" /\ queue'[p] = << >> /\ page'[p] = Blank /\ lost'[p] = FALSE
  BY <1>0, StreamFacts
<1>2. StreamInv(p)'
  BY <1>1 DEF StreamInv
<1>3. "closed" \in Stages /\ QUEUE_MAX \in Nat /\ TRAFFIC_CAP \in Nat /\ ALERTS_CAP \in Nat
  BY CapsAssumption DEF Stages
<1>4. /\ Len(<< >>) <= QUEUE_MAX
      /\ Len(Blank.feed) <= TRAFFIC_CAP /\ Len(Blank.box) <= ALERTS_CAP
  BY <1>3, BlankFacts
<1> QED
  BY <1>0, <1>2, <1>3, <1>4, BlankFacts, OnePage

\* What is on its way to a page once its snapshot was taken.
LEMMA StaysOnItsWay ==
  ASSUME NEW p, NEW q, NEW pg, queue'[p] = q, page'[p] = pg, stream'[p] # "snapshot",
         dash' = dash, summary' = summary, detector' = detector, unsent' = unsent,
         ~unsent => Comes(q, "stats", Stats(dash), /\ pg.captures = dash.total_captures
                                                   /\ pg.alerts = dash.total_alerts),
         Comes(q, "summary", Summary(summary),
               stream'[p] \in {"detector", "live"} => pg.summary = summary),
         Comes(q, "detector", Detector(detector), stream'[p] = "live" => pg.detector = detector),
         Chained(q, "traffic", dash.total_captures), Chained(q, "alerts", dash.total_alerts),
         Begins(q, "traffic", NewestOf(pg.feed), dash.total_captures),
         Begins(q, "alerts", NewestOf(pg.box), dash.total_alerts)
  PROVE  OnItsWay(p)'
<1>1. ~unsent' => Comes(q, "stats", Stats(dash'),
                        stream'[p] # "snapshot" => /\ pg.captures = dash'.total_captures
                                                   /\ pg.alerts = dash'.total_alerts)
  <2> SUFFICES ASSUME ~unsent
               PROVE  Comes(q, "stats", Stats(dash),
                            stream'[p] # "snapshot" => /\ pg.captures = dash.total_captures
                                                       /\ pg.alerts = dash.total_alerts)
    OBVIOUS
  <2>1. Comes(q, "stats", Stats(dash), /\ pg.captures = dash.total_captures
                                       /\ pg.alerts = dash.total_alerts)
    OBVIOUS
  <2> QED
    BY <2>1, ComesReady
<1>2. /\ Comes(q, "summary", Summary(summary'),
                stream'[p] \in {"detector", "live"} => pg.summary = summary')
      /\ Comes(q, "detector", Detector(detector'), stream'[p] = "live" => pg.detector = detector')
  OBVIOUS
<1>3. /\ Begins(q, "traffic", FeedTo(p)', dash'.total_captures)
      /\ Begins(q, "alerts", BoxTo(p)', dash'.total_alerts)
      /\ Chained(q, "traffic", dash'.total_captures) /\ Chained(q, "alerts", dash'.total_alerts)
  BY DEF FeedTo, BoxTo
<1> QED
  BY <1>1, <1>2, <1>3 DEF OnItsWay

\* The snapshot shows the rows that are kept and the totals, as they are now.
LEMMA SendSnapshotInv ==
  ASSUME IInv, NEW p \in Pages, SendSnapshot(p)
  PROVE  IInv'
<1> DEFINE feed == Newest(dash.traffic, TRAFFIC_CAP)
           box == Newest(dash.alerts, ALERTS_CAP)
           pg == [page[p] EXCEPT !.feed = feed, !.box = box,
                                 !.captures = dash.total_captures, !.alerts = dash.total_alerts]
<1>0. /\ stream[p] = "snapshot" /\ stream' = [stream EXCEPT ![p] = "summary"]
      /\ queue' = queue /\ lost' = lost
      /\ UNCHANGED <<topics, polled, server, summarizer, unsent>>
      /\ dash' = dash /\ summary' = summary /\ detector' = detector /\ unsent' = unsent
  BY DEF SendSnapshot, server
<1>1. page' = [page EXCEPT ![p] = pg]
  BY DEF SendSnapshot, Snapshot, Stats
<1>2. TRAFFIC_CAP \in Nat \ {0} /\ ALERTS_CAP \in Nat \ {0}
  BY CapsAssumption
<1>3. /\ feed \in Seq(Nat) /\ Len(feed) <= TRAFFIC_CAP
      /\ NewestOf(feed) = dash.total_captures /\ Unbroken(feed)
      /\ box \in Seq(Nat) /\ Len(box) <= ALERTS_CAP
      /\ NewestOf(box) = dash.total_alerts /\ Unbroken(box)
  BY <1>2, StreamFacts, NewestFacts
<1> HIDE DEF feed, box
<1>4. /\ pg \in PageType /\ pg.feed = feed /\ pg.box = box
      /\ pg.captures = dash.total_captures /\ pg.alerts = dash.total_alerts
      /\ pg.detector = page[p].detector
  <2>1. page[p] \in PageType /\ dash.total_captures \in Nat /\ dash.total_alerts \in Nat
    BY StreamFacts
  <2> QED
    BY <1>3, <2>1 DEF PageType
<1> HIDE DEF pg, EventType, PageType
<1>5. /\ stream'[p] = "summary" /\ queue'[p] = queue[p] /\ page'[p] = pg /\ lost'[p] = lost[p]
  BY <1>0, <1>1, StreamFacts
<1>6. StreamInv(p) /\ page[p].detector = 0
  BY <1>0, StreamFacts DEF StreamInv
<1>7. ASSUME ~lost[p] PROVE OnItsWay(p)'
  <2>1. OnItsWay(p)
    BY <1>0, <1>6, <1>7 DEF StreamInv
  <2>2. ~unsent => Comes(queue[p], "stats", Stats(dash),
                         /\ pg.captures = dash.total_captures
                         /\ pg.alerts = dash.total_alerts)
    BY <1>0, <1>4, <2>1, ComesReady DEF OnItsWay
  <2>3. Comes(queue[p], "summary", Summary(summary),
              stream'[p] \in {"detector", "live"} => pg.summary = summary)
    BY <1>5, <2>1, ComesReady DEF OnItsWay
  <2>5. Comes(queue[p], "detector", Detector(detector), stream'[p] = "live" => pg.detector = detector)
    BY <1>5, <2>1, ComesReady DEF OnItsWay
  <2>4. /\ Chained(queue[p], "traffic", dash.total_captures)
        /\ Chained(queue[p], "alerts", dash.total_alerts)
        /\ Begins(queue[p], "traffic", NewestOf(pg.feed), dash.total_captures)
        /\ Begins(queue[p], "alerts", NewestOf(pg.box), dash.total_alerts)
    BY <1>0, <1>3, <1>4, <2>1 DEF OnItsWay, FeedTo, BoxTo
  <2> QED
    BY <1>0, <1>5, <2>2, <2>3, <2>4, <2>5, StaysOnItsWay
<1>8. StreamInv(p)'
  BY <1>3, <1>4, <1>5, <1>6, <1>7 DEF StreamInv
<1>9. "summary" \in Stages
  BY DEF Stages
<1> QED
  BY <1>0, <1>1, <1>3, <1>4, <1>8, <1>9, StreamFacts, OnePage

\* The summary is shown as it is now; a newer one is queued.
LEMMA SendSummaryInv ==
  ASSUME IInv, NEW p \in Pages, SendSummary(p)
  PROVE  IInv'
<1> DEFINE pg == [page[p] EXCEPT !.summary = summary]
<1>0. /\ stream[p] = "summary" /\ stream' = [stream EXCEPT ![p] = "detector"]
      /\ queue' = queue /\ lost' = lost
      /\ UNCHANGED <<topics, polled, server, summarizer, unsent>>
      /\ dash' = dash /\ summary' = summary /\ detector' = detector /\ unsent' = unsent
  BY DEF SendSummary, server
<1>1. page' = [page EXCEPT ![p] = pg]
  BY DEF SendSummary
<1>2. /\ pg \in PageType /\ pg.feed = page[p].feed /\ pg.box = page[p].box
      /\ pg.captures = page[p].captures /\ pg.alerts = page[p].alerts
      /\ pg.summary = summary /\ pg.detector = page[p].detector
  <2>1. page[p] \in PageType /\ summary \in SummaryType
    BY StreamFacts
  <2> HIDE DEF SummaryType
  <2> QED
    BY <2>1 DEF PageType
<1> HIDE DEF pg, EventType, PageType
<1>3. /\ stream'[p] = "detector" /\ queue'[p] = queue[p] /\ page'[p] = pg /\ lost'[p] = lost[p]
  BY <1>0, <1>1, StreamFacts
<1>4. StreamInv(p) /\ page[p].detector = 0
  BY <1>0, StreamFacts DEF StreamInv
<1>5. ASSUME ~lost[p] PROVE OnItsWay(p)'
  <2>1. OnItsWay(p)
    BY <1>0, <1>4, <1>5 DEF StreamInv
  <2>2. ~unsent => Comes(queue[p], "stats", Stats(dash),
                         /\ pg.captures = dash.total_captures
                         /\ pg.alerts = dash.total_alerts)
    BY <1>0, <1>2, <2>1, ComesReady DEF OnItsWay
  <2>3. Comes(queue[p], "summary", Summary(summary),
              stream'[p] \in {"detector", "live"} => pg.summary = summary)
    BY <1>2, <2>1, ComesReady DEF OnItsWay
  <2>5. Comes(queue[p], "detector", Detector(detector), stream'[p] = "live" => pg.detector = detector)
    BY <1>3, <2>1, ComesReady DEF OnItsWay
  <2>4. /\ Chained(queue[p], "traffic", dash.total_captures)
        /\ Chained(queue[p], "alerts", dash.total_alerts)
        /\ Begins(queue[p], "traffic", NewestOf(pg.feed), dash.total_captures)
        /\ Begins(queue[p], "alerts", NewestOf(pg.box), dash.total_alerts)
    BY <1>0, <1>2, <2>1 DEF OnItsWay, FeedTo, BoxTo
  <2> QED
    BY <1>0, <1>3, <2>2, <2>3, <2>4, <2>5, StaysOnItsWay
<1>6. StreamInv(p)'
  BY <1>0, <1>2, <1>3, <1>4, <1>5 DEF StreamInv
<1>7. "detector" \in Stages
  BY DEF Stages
<1> QED
  BY <1>0, <1>1, <1>2, <1>6, <1>7, StreamFacts, OnePage

\* So is the detector state, when there is one.
LEMMA SendDetectorInv ==
  ASSUME IInv, NEW p \in Pages, SendDetector(p)
  PROVE  IInv'
<1> DEFINE pg == IF detector # 0 THEN [page[p] EXCEPT !.detector = detector] ELSE page[p]
<1>0. /\ stream[p] = "detector" /\ stream' = [stream EXCEPT ![p] = "live"]
      /\ queue' = queue /\ lost' = lost
      /\ UNCHANGED <<topics, polled, server, summarizer, unsent>>
      /\ dash' = dash /\ summary' = summary /\ detector' = detector /\ unsent' = unsent
  BY DEF SendDetector, server
<1>1. page' = [page EXCEPT ![p] = pg]
  <2>1. page = [page EXCEPT ![p] = page[p]]
    BY StreamFacts
  <2> QED
    BY <2>1 DEF SendDetector
<1>2. StreamInv(p) /\ page[p].detector = 0
  BY <1>0, StreamFacts DEF StreamInv
<1>3. /\ pg \in PageType /\ pg.feed = page[p].feed /\ pg.box = page[p].box
      /\ pg.captures = page[p].captures /\ pg.alerts = page[p].alerts
      /\ pg.summary = page[p].summary /\ pg.detector = detector
  <2>1. page[p] \in PageType /\ detector \in Nat
    BY StreamFacts
  <2> HIDE DEF SummaryType
  <2> QED
    BY <1>2, <2>1 DEF PageType
<1> HIDE DEF pg, EventType, PageType
<1>4. /\ stream'[p] = "live" /\ queue'[p] = queue[p] /\ page'[p] = pg /\ lost'[p] = lost[p]
  BY <1>0, <1>1, StreamFacts
<1>5. ASSUME ~lost[p] PROVE OnItsWay(p)'
  <2>1. OnItsWay(p)
    BY <1>0, <1>2, <1>5 DEF StreamInv
  <2>2. ~unsent => Comes(queue[p], "stats", Stats(dash),
                         /\ pg.captures = dash.total_captures
                         /\ pg.alerts = dash.total_alerts)
    BY <1>0, <1>3, <2>1, ComesReady DEF OnItsWay
  <2>3. Comes(queue[p], "summary", Summary(summary),
              stream'[p] \in {"detector", "live"} => pg.summary = summary)
    <3>1. Comes(queue[p], "summary", Summary(summary),
                stream[p] \in {"detector", "live"} => page[p].summary = summary)
      BY <2>1 DEF OnItsWay
    <3> QED
      BY <1>0, <1>3, <3>1, ComesReady
  <2>5. Comes(queue[p], "detector", Detector(detector), stream'[p] = "live" => pg.detector = detector)
    BY <1>3, <2>1, ComesReady DEF OnItsWay
  <2>4. /\ Chained(queue[p], "traffic", dash.total_captures)
        /\ Chained(queue[p], "alerts", dash.total_alerts)
        /\ Begins(queue[p], "traffic", NewestOf(pg.feed), dash.total_captures)
        /\ Begins(queue[p], "alerts", NewestOf(pg.box), dash.total_alerts)
    BY <1>0, <1>3, <2>1 DEF OnItsWay, FeedTo, BoxTo
  <2> QED
    BY <1>0, <1>4, <2>2, <2>3, <2>4, <2>5, StaysOnItsWay
<1>6. StreamInv(p)'
  BY <1>0, <1>2, <1>3, <1>4, <1>5 DEF StreamInv
<1>7. "live" \in Stages
  BY DEF Stages
<1> QED
  BY <1>0, <1>1, <1>3, <1>6, <1>7, StreamFacts, OnePage

\* What an event changes on a page.
LEMMA ShownFacts ==
  ASSUME NEW pg \in PageType, NEW e \in EventType,
         Len(pg.feed) <= TRAFFIC_CAP, Len(pg.box) <= ALERTS_CAP
  PROVE  LET to == Shown(pg, e)
         IN  /\ to \in PageType /\ Len(to.feed) <= TRAFFIC_CAP /\ Len(to.box) <= ALERTS_CAP
             /\ to.feed = IF e.type = "traffic" THEN Newest(pg.feed \o e.rows, TRAFFIC_CAP) ELSE pg.feed
             /\ to.box = IF e.type = "alerts" THEN Newest(pg.box \o e.rows, ALERTS_CAP) ELSE pg.box
             /\ to.captures = IF e.type = "stats" THEN e.captures ELSE pg.captures
             /\ to.alerts = IF e.type = "stats" THEN e.alerts ELSE pg.alerts
             /\ to.summary = IF e.type = "summary" THEN e.summary ELSE pg.summary
             /\ to.detector = IF e.type = "detector" THEN e.alert ELSE pg.detector
<1> HIDE DEF SummaryType
<1>0. TRAFFIC_CAP \in Nat \ {0} /\ ALERTS_CAP \in Nat \ {0} /\ pg.feed \in Seq(Nat) /\ pg.box \in Seq(Nat)
  BY CapsAssumption DEF PageType
<1>1. CASE e \in [type : {"traffic", "alerts"}, rows : Seq(Nat)] /\ e.type = "traffic"
  <2>1. pg.feed \o e.rows \in Seq(Nat)
    BY <1>0, <1>1
  <2> DEFINE feed == Newest(pg.feed \o e.rows, TRAFFIC_CAP)
  <2>2. feed \in Seq(Nat) /\ Len(feed) <= TRAFFIC_CAP
    BY <1>0, <2>1, NewestFacts
  <2>3. Shown(pg, e) = [pg EXCEPT !.feed = feed]
    BY <1>1 DEF Shown
  <2> HIDE DEF feed
  <2>4. /\ Shown(pg, e) \in PageType /\ Shown(pg, e).feed = feed /\ Shown(pg, e).box = pg.box
        /\ Shown(pg, e).captures = pg.captures /\ Shown(pg, e).alerts = pg.alerts
        /\ Shown(pg, e).summary = pg.summary /\ Shown(pg, e).detector = pg.detector
    BY <2>2, <2>3 DEF PageType
  <2> QED
    BY <1>1, <2>2, <2>4 DEF feed
<1>2. CASE e \in [type : {"traffic", "alerts"}, rows : Seq(Nat)] /\ e.type = "alerts"
  <2>1. pg.box \o e.rows \in Seq(Nat)
    BY <1>0, <1>2
  <2> DEFINE box == Newest(pg.box \o e.rows, ALERTS_CAP)
  <2>2. box \in Seq(Nat) /\ Len(box) <= ALERTS_CAP
    BY <1>0, <2>1, NewestFacts
  <2>3. Shown(pg, e) = [pg EXCEPT !.box = box]
    BY <1>2 DEF Shown
  <2> HIDE DEF box
  <2>4. /\ Shown(pg, e) \in PageType /\ Shown(pg, e).box = box /\ Shown(pg, e).feed = pg.feed
        /\ Shown(pg, e).captures = pg.captures /\ Shown(pg, e).alerts = pg.alerts
        /\ Shown(pg, e).summary = pg.summary /\ Shown(pg, e).detector = pg.detector
    BY <2>2, <2>3 DEF PageType
  <2> QED
    BY <1>2, <2>2, <2>4 DEF box
<1>3. CASE e \in [type : {"stats"}, captures : Nat, alerts : Nat]
  <2>1. Shown(pg, e) = [pg EXCEPT !.captures = e.captures, !.alerts = e.alerts]
    BY <1>3 DEF Shown
  <2> QED
    BY <1>3, <2>1 DEF PageType
<1>4. CASE e \in [type : {"summary"}, summary : SummaryType]
  <2>1. Shown(pg, e) = [pg EXCEPT !.summary = e.summary]
    BY <1>4 DEF Shown
  <2> QED
    BY <1>4, <2>1 DEF PageType
<1>5. CASE e \in [type : {"detector"}, alert : Nat]
  <2>1. Shown(pg, e) = [pg EXCEPT !.detector = e.alert]
    BY <1>5 DEF Shown
  <2> QED
    BY <1>5, <2>1 DEF PageType
<1> QED
  BY <1>1, <1>2, <1>3, <1>4, <1>5 DEF EventType

\* The list that an event of rows extends has no gap, and goes as far as they do.
LEMMA ListGrows ==
  ASSUME NEW old \in Seq(Nat), NEW rows \in Seq(Nat), NEW n \in Nat \ {0},
         Unbroken(old), Unbroken(rows), rows # << >>, rows[1] <= NewestOf(old) + 1
  PROVE  /\ Unbroken(Newest(old \o rows, n))
         /\ NewestOf(Newest(old \o rows, n)) = NewestOf(rows)
<1>1. /\ old \o rows \in Seq(Nat) /\ Unbroken(old \o rows)
      /\ NewestOf(old \o rows) = NewestOf(rows)
  BY ExtendFacts
<1> QED
  BY <1>1, NewestFacts

\* The head of the queue is shown, and what else was on its way still is.
LEMMA SendEventInv ==
  ASSUME IInv, NEW p \in Pages, SendEvent(p)
  PROVE  IInv'
<1> DEFINE e == Head(queue[p])
           q == Tail(queue[p])
           pg == Shown(page[p], e)
<1>0. /\ stream[p] = "live" /\ stream' = stream /\ lost' = lost /\ queue[p] # << >>
      /\ queue' = [queue EXCEPT ![p] = q] /\ page' = [page EXCEPT ![p] = pg]
      /\ UNCHANGED <<topics, polled, server, summarizer, unsent>>
      /\ dash' = dash /\ summary' = summary /\ detector' = detector /\ unsent' = unsent
  BY DEF SendEvent, server
<1>1. /\ Len(queue[p]) \in Nat \ {0} /\ e = queue[p][1] /\ e \in EventType
      /\ q \in Seq(EventType) /\ Len(q) = Len(queue[p]) - 1
      /\ queue[p] \in Seq(EventType) /\ Len(queue[p]) <= QUEUE_MAX /\ QUEUE_MAX \in Nat
  <2> HIDE DEF EventType
  <2> QED
    BY <1>0, StreamFacts, TailFacts, CapsAssumption
<1>2. /\ pg \in PageType /\ Len(pg.feed) <= TRAFFIC_CAP /\ Len(pg.box) <= ALERTS_CAP
      /\ pg.feed = IF e.type = "traffic" THEN Newest(page[p].feed \o e.rows, TRAFFIC_CAP) ELSE page[p].feed
      /\ pg.box = IF e.type = "alerts" THEN Newest(page[p].box \o e.rows, ALERTS_CAP) ELSE page[p].box
      /\ pg.captures = IF e.type = "stats" THEN e.captures ELSE page[p].captures
      /\ pg.alerts = IF e.type = "stats" THEN e.alerts ELSE page[p].alerts
      /\ pg.summary = IF e.type = "summary" THEN e.summary ELSE page[p].summary
      /\ pg.detector = IF e.type = "detector" THEN e.alert ELSE page[p].detector
  <2>1. page[p] \in PageType /\ Len(page[p].feed) <= TRAFFIC_CAP /\ Len(page[p].box) <= ALERTS_CAP
    BY StreamFacts
  <2> HIDE DEF e, EventType, PageType
  <2>2. e \in EventType
    BY <1>1
  <2> QED
    BY <2>1, <2>2, ShownFacts
<1>3. page[p].feed \in Seq(Nat) /\ page[p].box \in Seq(Nat)
  BY StreamFacts DEF PageType
<1>4. e.type \in {"traffic", "alerts"} => e.rows \in Seq(Nat)
  BY <1>1 DEF EventType
<1> HIDE DEF e, q, pg, EventType, PageType
<1>5. /\ stream'[p] = "live" /\ queue'[p] = q /\ page'[p] = pg /\ lost'[p] = lost[p]
  BY <1>0, StreamFacts
<1>6. StreamInv(p)
  BY StreamFacts
<1>7. ASSUME ~lost[p] PROVE Unbroken(pg.feed) /\ Unbroken(pg.box) /\ OnItsWay(p)'
  <2>1. OnItsWay(p) /\ Unbroken(page[p].feed) /\ Unbroken(page[p].box)
    BY <1>0, <1>6, <1>7 DEF StreamInv
  <2>2. ASSUME ~unsent
        PROVE  Comes(q, "stats", Stats(dash), pg.captures = dash.total_captures
                                              /\ pg.alerts = dash.total_alerts)
    <3>1. Comes(queue[p], "stats", Stats(dash), page[p].captures = dash.total_captures
                                                /\ page[p].alerts = dash.total_alerts)
      BY <1>0, <2>1, <2>2, ComesReady DEF OnItsWay
    <3>2. Stats(dash).type = "stats" /\ Stats(dash).captures = dash.total_captures
          /\ Stats(dash).alerts = dash.total_alerts
      BY DEF Stats
    <3> QED
      BY <1>0, <1>1, <1>2, <3>1, <3>2, ComesTail DEF e, q
  <2>3. Comes(q, "summary", Summary(summary), pg.summary = summary)
    <3>1. Comes(queue[p], "summary", Summary(summary), page[p].summary = summary)
      BY <1>0, <2>1, ComesReady DEF OnItsWay
    <3>2. Summary(summary).type = "summary" /\ Summary(summary).summary = summary
      BY DEF Summary
    <3> QED
      BY <1>0, <1>1, <1>2, <3>1, <3>2, ComesTail DEF e, q
  <2>4. Comes(q, "detector", Detector(detector), pg.detector = detector)
    <3>1. Comes(queue[p], "detector", Detector(detector), page[p].detector = detector)
      BY <1>0, <2>1, ComesReady DEF OnItsWay
    <3>2. Detector(detector).type = "detector" /\ Detector(detector).alert = detector
      BY DEF Detector
    <3> QED
      BY <1>0, <1>1, <1>2, <3>1, <3>2, ComesTail DEF e, q
  <2>5. /\ Unbroken(pg.feed) /\ Chained(q, "traffic", dash.total_captures)
        /\ Begins(q, "traffic", NewestOf(pg.feed), dash.total_captures)
    <3>1. /\ Chained(queue[p], "traffic", dash.total_captures)
          /\ Begins(queue[p], "traffic", NewestOf(page[p].feed), dash.total_captures)
      BY <1>0, <2>1 DEF OnItsWay, FeedTo
    <3>2. Chained(q, "traffic", dash.total_captures)
      BY <1>0, <1>1, <3>1, ChainedTail DEF q
    <3>3. e.type = "traffic" => e.rows # << >> /\ Unbroken(e.rows) /\ NewestOf(e.rows) \in Nat
      <4>1. 1 \in 1 .. Len(queue[p])
        BY <1>1
      <4>2. e.type = "traffic" => e.rows # << >> /\ Unbroken(e.rows)
        BY <1>1, <3>1, <4>1 DEF Chained
      <4> QED
        BY <1>4, <4>2, NewestNat
    <3> DEFINE further == IF e.type = "traffic" THEN NewestOf(e.rows) ELSE NewestOf(page[p].feed)
    <3>4. further \in Nat
      BY <1>3, <3>3, NewestNat
    <3>5. /\ Begins(q, "traffic", further, dash.total_captures)
          /\ e.type = "traffic" => e.rows[1] <= NewestOf(page[p].feed) + 1
      BY <1>0, <1>1, <3>1, <3>4, BeginsTail DEF e, q
    <3>6. Unbroken(pg.feed) /\ NewestOf(pg.feed) = further
      <4>1. CASE e.type = "traffic"
        <5>1. TRAFFIC_CAP \in Nat \ {0}
          BY CapsAssumption
        <5> QED
          BY <1>2, <1>3, <1>4, <2>1, <3>3, <3>5, <4>1, <5>1, ListGrows
      <4>2. CASE e.type # "traffic"
        BY <1>2, <2>1, <4>2
      <4> QED
        BY <4>1, <4>2
    <3> QED
      BY <3>2, <3>5, <3>6
  <2>6. /\ Unbroken(pg.box) /\ Chained(q, "alerts", dash.total_alerts)
        /\ Begins(q, "alerts", NewestOf(pg.box), dash.total_alerts)
    <3>1. /\ Chained(queue[p], "alerts", dash.total_alerts)
          /\ Begins(queue[p], "alerts", NewestOf(page[p].box), dash.total_alerts)
      BY <1>0, <2>1 DEF OnItsWay, BoxTo
    <3>2. Chained(q, "alerts", dash.total_alerts)
      BY <1>0, <1>1, <3>1, ChainedTail DEF q
    <3>3. e.type = "alerts" => e.rows # << >> /\ Unbroken(e.rows) /\ NewestOf(e.rows) \in Nat
      <4>1. 1 \in 1 .. Len(queue[p])
        BY <1>1
      <4>2. e.type = "alerts" => e.rows # << >> /\ Unbroken(e.rows)
        BY <1>1, <3>1, <4>1 DEF Chained
      <4> QED
        BY <1>4, <4>2, NewestNat
    <3> DEFINE further == IF e.type = "alerts" THEN NewestOf(e.rows) ELSE NewestOf(page[p].box)
    <3>4. further \in Nat
      BY <1>3, <3>3, NewestNat
    <3>5. /\ Begins(q, "alerts", further, dash.total_alerts)
          /\ e.type = "alerts" => e.rows[1] <= NewestOf(page[p].box) + 1
      BY <1>0, <1>1, <3>1, <3>4, BeginsTail DEF e, q
    <3>6. Unbroken(pg.box) /\ NewestOf(pg.box) = further
      <4>1. CASE e.type = "alerts"
        <5>1. ALERTS_CAP \in Nat \ {0}
          BY CapsAssumption
        <5> QED
          BY <1>2, <1>3, <1>4, <2>1, <3>3, <3>5, <4>1, <5>1, ListGrows
      <4>2. CASE e.type # "alerts"
        BY <1>2, <2>1, <4>2
      <4> QED
        BY <4>1, <4>2
    <3> QED
      BY <3>2, <3>5, <3>6
  <2>7. OnItsWay(p)'
    <3>1. Comes(q, "summary", Summary(summary), stream'[p] \in {"detector", "live"} => pg.summary = summary)
      BY <2>3, ComesReady
    <3>2. Comes(q, "detector", Detector(detector), stream'[p] = "live" => pg.detector = detector)
      BY <2>4, ComesReady
    <3> QED
      BY <1>0, <1>5, <2>2, <2>5, <2>6, <3>1, <3>2, StaysOnItsWay
  <2> QED
    BY <2>5, <2>6, <2>7
<1>8. StreamInv(p)'
  BY <1>5, <1>7 DEF StreamInv
<1>9. "live" \in Stages /\ stream' = [stream EXCEPT ![p] = "live"]
      /\ lost' = [lost EXCEPT ![p] = lost[p]] /\ lost[p] \in BOOLEAN
      /\ Len(q) <= QUEUE_MAX
  BY <1>0, <1>1, StreamFacts DEF Stages
<1> QED
  BY <1>0, <1>1, <1>2, <1>8, <1>9, OnePage

-----------------------------------------------------------------------------
(* The theorems.                                                           *)

\* The initial states satisfy the invariant.
LEMMA InitInv == Init => IInv
<1> SUFFICES ASSUME Init PROVE IInv
  OBVIOUS
<1>1. /\ captures = 0 /\ reports = 0 /\ detector = 0 /\ summary = Waiting
      /\ polled = [captures |-> 0, reports |-> 0]
      /\ dash = [traffic |-> << >>, alerts |-> << >>, total_captures |-> 0, total_alerts |-> 0]
      /\ summarizer = "sleep" /\ prompted = 0 /\ unsent = FALSE
      /\ stream = [p \in Pages |-> "closed"] /\ queue = [p \in Pages |-> << >>]
      /\ page = [p \in Pages |-> Blank] /\ lost = [p \in Pages |-> FALSE]
  BY DEF Init, NewDashboard
<1>2. /\ TRAFFIC_MAX \in Nat \ {0} /\ ALERTS_MAX \in Nat \ {0}
      /\ TRAFFIC_CAP \in Nat \ {0} /\ ALERTS_CAP \in Nat \ {0} /\ QUEUE_MAX \in Nat
  BY BuffersAssumption, CapsAssumption
<1>3. summary \in SummaryType /\ summary.text = "waiting"
  BY <1>1 DEF SummaryType, Texts, Waiting
<1>4. dash \in DashType /\ Len(dash.traffic) = 0 /\ Len(dash.alerts) = 0
  BY <1>1 DEF DashType
<1>5. TypeOK
  <2>1. polled \in [captures : 0 .. captures, reports : 0 .. reports] /\ detector \in 0 .. reports
    BY <1>1
  <2>2. /\ dash.traffic \in Seq(Nat) /\ Len(dash.traffic) <= TRAFFIC_MAX
        /\ dash.alerts \in Seq(Nat) /\ Len(dash.alerts) <= ALERTS_MAX
    BY <1>2, <1>4 DEF DashType
  <2>3. stream \in [Pages -> Stages]
    BY <1>1 DEF Stages
  <2>4. ASSUME NEW p \in Pages
        PROVE  Len(queue[p]) <= QUEUE_MAX /\ Len(page[p].feed) <= TRAFFIC_CAP
               /\ Len(page[p].box) <= ALERTS_CAP
    BY <1>1, <1>2, BlankFacts
  <2> QED
    BY <1>1, <1>3, <2>1, <2>2, <2>3, <2>4 DEF TypeOK
<1>6. queue \in [Pages -> Seq(EventType)] /\ page \in [Pages -> PageType]
  <2> HIDE DEF EventType, PageType
  <2> QED
    BY <1>1, BlankFacts
<1>7. Types
  BY <1>1, <1>3, <1>4, <1>5, <1>6 DEF Types
<1>8. CountsWhatItPolled /\ SummaryIsPrompted
  BY <1>1, <1>3, BlankFacts DEF CountsWhatItPolled, SummaryIsPrompted, NewestOf
<1>9. ASSUME NEW p \in Pages PROVE StreamInv(p)
  BY <1>1 DEF StreamInv
<1> QED
  BY <1>7, <1>8, <1>9 DEF IInv

\* Every step keeps it.
LEMMA NextInv == IInv /\ [Next]_vars => IInv'
<1> SUFFICES ASSUME IInv, [Next]_vars PROVE IInv'
  OBVIOUS
<1>1. CASE Environment \/ CapturePollFails
  BY <1>1, EnvironmentInv DEF Environment
<1>2. CASE PollerTick
  BY <1>2, PollerTickInv
<1>3. CASE CtiPollFails
  BY <1>3, CtiPollFailsInv
<1>4. CASE Answer
  BY <1>4, AnswerInv
<1>5. CASE SummarizerWakes \/ AskGroq \/ SummarizeOffline
  BY <1>5, SummarizerInv
<1>6. ASSUME NEW p \in Pages, Connect(p) \/ Yield(p) \/ Disconnect(p) PROVE IInv'
  BY <1>6, ConnectInv, SendSnapshotInv, SendSummaryInv, SendDetectorInv, SendEventInv, DisconnectInv
     DEF Yield
<1>7. CASE UNCHANGED vars
  <2>1. captures \in Nat /\ reports \in Nat /\ prompted \in Nat
        /\ summarizer \in {"sleep", "due", "groq"} /\ SummaryIsPrompted
    BY DEF IInv, Types, TypeOK
  <2> QED
    BY <1>7, <2>1, QuietKeeps DEF vars, topics, server, SummaryIsPrompted
<1> QED
  BY <1>1, <1>2, <1>3, <1>4, <1>5, <1>6, <1>7 DEF Next, Poller, Summarizer

\* The inductive invariant: what a page does not show yet is in its queue, in order.
THEOREM Invariance == Spec => []IInv
<1> QED
  BY InitInv, NextInv, PTL DEF Spec

\* Every variable keeps its type; the buffers, lists and queues keep their bounds.
THEOREM TypeCorrect == Spec => []TypeOK
<1>1. IInv => TypeOK
  BY DEF IInv, Types
<1> QED
  BY <1>1, Invariance, PTL

\* A live page that lost no event is due to show the totals, the summary and the
\* detector state the server has, however its subscription and snapshot interleaved
\* with the poller and the summarizer.
THEOREM PagesCatchUp == Spec => []PagesConverge
<1>1. IInv => PagesConverge
  <2> SUFFICES ASSUME IInv, NEW p \in Pages, Whole(p)
               PROVE  /\ ~unsent => ComesToShow(p, Stats(dash))
                      /\ ComesToShow(p, Summary(summary))
                      /\ ComesToShow(p, Detector(detector))
    BY DEF PagesConverge
  <2>1. /\ stream[p] = "live" /\ ~lost[p] /\ OnItsWay(p) /\ page[p] \in PageType
        /\ Len(queue[p]) \in Nat
    <3> HIDE DEF EventType, PageType
    <3> QED
      BY StreamFacts DEF Whole, StreamInv
  <2>2. ASSUME NEW e, NEW ready, Comes(queue[p], e.type, e, ready), ready => Shown(page[p], e) = page[p]
        PROVE  ComesToShow(p, e)
    BY <2>1, <2>2 DEF Comes, ComesToShow
  <2>3. ASSUME ~unsent PROVE ComesToShow(p, Stats(dash))
    <3> DEFINE ready == page[p].captures = dash.total_captures /\ page[p].alerts = dash.total_alerts
    <3>1. /\ Stats(dash).type = "stats" /\ Stats(dash).captures = dash.total_captures
          /\ Stats(dash).alerts = dash.total_alerts
      BY DEF Stats
    <3>2. Comes(queue[p], "stats", Stats(dash), ready)
      BY <2>1, <2>3, ComesReady DEF OnItsWay
    <3>3. ready => Shown(page[p], Stats(dash)) = page[p]
      BY <2>1, <3>1 DEF Shown, PageType
    <3> QED
      BY <2>2, <3>1, <3>2, <3>3
  <2>4. ComesToShow(p, Summary(summary))
    <3>1. Summary(summary).type = "summary" /\ Summary(summary).summary = summary
      BY DEF Summary
    <3>2. Comes(queue[p], "summary", Summary(summary), page[p].summary = summary)
      BY <2>1, ComesReady DEF OnItsWay
    <3>3. page[p].summary = summary => Shown(page[p], Summary(summary)) = page[p]
      BY <2>1, <3>1 DEF Shown, PageType
    <3> QED
      BY <2>2, <3>1, <3>2, <3>3
  <2>5. ComesToShow(p, Detector(detector))
    <3>1. Detector(detector).type = "detector" /\ Detector(detector).alert = detector
      BY DEF Detector
    <3>2. Comes(queue[p], "detector", Detector(detector), page[p].detector = detector)
      BY <2>1, ComesReady DEF OnItsWay
    <3>3. page[p].detector = detector => Shown(page[p], Detector(detector)) = page[p]
      BY <2>1, <3>1 DEF Shown, PageType
    <3> QED
      BY <2>2, <3>1, <3>2, <3>3
  <2> QED
    BY <2>3, <2>4, <2>5
<1> QED
  BY <1>1, Invariance, PTL

\* The lists of such a page never have a gap, and run up to the newest row when
\* nothing is queued for it.
THEOREM RowsArriveInOrder == Spec => []NoRowIsSkipped
<1>1. IInv => NoRowIsSkipped
  <2> SUFFICES ASSUME IInv, NEW p \in Pages, Whole(p)
               PROVE  /\ Unbroken(page[p].feed) /\ Unbroken(page[p].box)
                      /\ queue[p] = << >> => /\ RunsUpTo(page[p].feed, dash.total_captures)
                                             /\ RunsUpTo(page[p].box, dash.total_alerts)
    BY DEF NoRowIsSkipped
  <2>1. /\ stream[p] = "live" /\ ~lost[p] /\ OnItsWay(p) /\ page[p] \in PageType
        /\ Unbroken(page[p].feed) /\ Unbroken(page[p].box)
    <3> HIDE DEF EventType, PageType
    <3> QED
      BY StreamFacts DEF Whole, StreamInv
  <2>2. /\ Begins(queue[p], "traffic", NewestOf(page[p].feed), dash.total_captures)
        /\ Begins(queue[p], "alerts", NewestOf(page[p].box), dash.total_alerts)
    BY <2>1 DEF OnItsWay, FeedTo, BoxTo
  <2>3. queue[p] = << >> => /\ NewestOf(page[p].feed) = dash.total_captures
                            /\ NewestOf(page[p].box) = dash.total_alerts
    BY <2>2 DEF Begins
  <2>4. page[p].feed \in Seq(Nat) /\ page[p].box \in Seq(Nat)
    BY <2>1 DEF PageType
  <2>5. ASSUME NEW rows \in Seq(Nat) PROVE RunsUpTo(rows, NewestOf(rows))
    BY DEF RunsUpTo, NewestOf, Last
  <2> QED
    BY <2>1, <2>3, <2>4, <2>5
<1> QED
  BY <1>1, Invariance, PTL

\* No step replaces a summary of the LLM by the template, or by one that knows less.
THEOREM SummaryOnlyAdvances == Spec => SummaryNeverGoesBack
<1>1. IInv /\ [Next]_vars =>
        [summary.text = "groq" => summary'.text = "groq" /\ summary'.seen >= summary.seen]_summary
  <2> SUFFICES ASSUME IInv, [Next]_vars, summary' # summary, summary.text = "groq"
               PROVE  summary'.text = "groq" /\ summary'.seen >= summary.seen
    OBVIOUS
  <2>1. summary \in SummaryType /\ summary.seen <= prompted /\ prompted \in Nat
    BY DEF IInv, Types, SummaryIsPrompted
  <2>2. CASE GroqAnswers
    BY <2>1, <2>2 DEF GroqAnswers, SummaryType
  <2>3. CASE GroqRefuses
    BY <2>1, <2>3 DEF GroqRefuses, SummaryType
  <2>4. CASE GroqFails
    BY <2>1, <2>4 DEF GroqFails, SummaryType
  <2>5. CASE ~Answer
    <3>1. summary' = summary
      BY <2>5 DEF Next, vars, Environment, Poller, Summarizer, Yield, SensorCaptures, CtiReports,
                  PollerTick, CapturePollFails, CtiPollFails, SummarizerWakes, AskGroq,
                  SummarizeOffline, Connect, SendSnapshot, SendSummary, SendDetector, SendEvent,
                  Disconnect, server
    <3> QED
      BY <3>1
  <2> QED
    BY <2>2, <2>3, <2>4, <2>5 DEF Answer
<1> QED
  BY <1>1, Invariance, PTL DEF Spec, SummaryNeverGoesBack
=============================================================================
