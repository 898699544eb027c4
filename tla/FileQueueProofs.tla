--------------------------- MODULE FileQueueProofs --------------------------
(***************************************************************************)
(* The file transport keeps its promise: for any number of consumers, any  *)
(* lengths of lines, and any number of payloads, torn lines, removals and  *)
(* restarts.                                                               *)
(***************************************************************************)
EXTENDS FileQueue, SequenceTheorems, WellFoundedInduction, TLAPS

Ascending(s) == \A i, j \in DOMAIN s : i < j => s[i] < s[j]

\* A line that is cut after k units
Begin(n, size, k) == SubSeq(Line(n, size), 1, k)
Rest(n, size, k)  == SubSeq(Line(n, size), k + 1, size)

\* The text closes an object.
Closes(text) == \E m \in 1 .. Len(text) : EndsObject(text[m])

\* The last payload has no closed object in the file, and no consumer has got it.
Undelivered ==
  /\ \A k \in 1 .. Len(file) : EndsObject(file[k]) => file[k].id < sent
  /\ \A c \in Consumers : \A i \in DOMAIN returned[c] : returned[c][i] < sent

\* The rest of the line that is being written: if it is more than the newline, its
\* object is still to be closed.
PendingInv ==
  /\ \E size \in 2 .. MaxLineSize : \E k \in 1 .. size :
       sent \in 1 .. MaxSends /\ pending = Rest(sent, size, k)
  /\ Closes(pending) => Undelivered

\* The units of the file are of the payloads sent, and objects are closed in their order.
FileInv ==
  /\ \A k \in 1 .. Len(file) : file[k].id <= sent
  /\ \A k, l \in 1 .. Len(file) :
       k < l /\ EndsObject(file[k]) /\ EndsObject(file[l]) => file[k].id < file[l].id

\* A consumer has payloads that were sent, in order, and has yet to read only newer ones.
ConsumerInv(c) ==
  /\ Ascending(returned[c])
  /\ \A i \in DOMAIN returned[c] : returned[c][i] <= sent
  /\ \A i \in DOMAIN returned[c] : \A k \in 1 .. Len(file) :
       k > offset[c] /\ EndsObject(file[k]) => returned[c][i] < file[k].id
  /\ removals = 0 => offset[c] <= Len(file)

IInv ==
  /\ TypeOK
  /\ pending # << >> => PendingInv
  /\ FileInv
  /\ \A c \in Consumers : ConsumerInv(c)

-----------------------------------------------------------------------------
(* Induction, and the function that PayloadsOf applies.                    *)

\* A set of natural numbers that is not empty has a least element: to prove a fact for
\* all numbers, take the least one it is false for.
LEMMA LeastOf ==
  ASSUME NEW S \in SUBSET Nat, S # {}
  PROVE  \E n \in S : \A m \in S : n <= m
<1> DEFINE less == {xy \in Nat \X Nat : xy[1] < xy[2]}
<1>1. IsWellFoundedOn(less, Nat)
  BY NatLessThanWellFounded DEF OpToRel
<1>2. \E n \in S : \A m \in S : ~ (<<m, n>> \in less)
  <2> HIDE DEF less
  <2> QED
    BY <1>1, WFMin
<1>3. PICK n \in S : \A m \in S : ~ (<<m, n>> \in less)
  BY <1>2
<1>4. ASSUME NEW m \in S PROVE n <= m
  <2>1. n \in Nat /\ m \in Nat /\ <<m, n>> \notin less
    BY <1>3
  <2>2. ~ (m < n)
    BY <2>1
  <2> QED
    BY <2>1, <2>2
<1> QED
  BY <1>4

\* One unit of PayloadsUpTo
Step(text, f, n) ==
  IF n = 0 THEN << >>
  ELSE IF EndsObject(text[n]) THEN Append(f[n - 1], text[n].id) ELSE f[n - 1]

UpTo(text, m, f) == f = [n \in 0 .. m |-> Step(text, f, n)]

\* For every text there is a function that its recursive definition describes.
LEMMA PayloadsExist ==
  ASSUME NEW text
  PROVE  \A m \in Nat : \E f : UpTo(text, m, f)
<1> DEFINE S == {m \in Nat : ~ \E f : UpTo(text, m, f)}
<1> SUFFICES ASSUME S # {} PROVE FALSE
  OBVIOUS
<1>1. PICK m \in S : \A l \in S : m <= l
  <2> HIDE DEF S
  <2>1. S \in SUBSET Nat
    BY DEF S
  <2> QED
    BY <2>1, LeastOf
<1>2. m \in Nat /\ ~ \E f : UpTo(text, m, f)
  OBVIOUS
<1>3. CASE m = 0
  <2> DEFINE f == [n \in 0 .. 0 |-> << >>]
  <2>1. \A n \in 0 .. 0 : Step(text, f, n) = << >>
    BY DEF Step
  <2>2. UpTo(text, 0, f)
    BY <2>1 DEF UpTo
  <2> QED
    BY <1>2, <1>3, <2>2
<1>4. CASE m # 0
  <2>1. m - 1 \in Nat /\ m - 1 \notin S
    BY <1>1, <1>2, <1>4
  <2>2. PICK f : UpTo(text, m - 1, f)
    BY <2>1
  <2> DEFINE g == [n \in 0 .. m |-> IF n = m THEN Step(text, f, m) ELSE f[n]]
  <2>3. \A n \in 0 .. m - 1 : g[n] = f[n] /\ f[n] = Step(text, f, n)
    BY <1>2, <2>2 DEF UpTo
  <2>4. \A n \in 0 .. m : g[n] = Step(text, g, n)
    <3> TAKE n \in 0 .. m
    <3>1. n = 0 \/ (n - 1 \in 0 .. m - 1 /\ n # 0)
      BY <1>2
    <3>2. n = m \/ n \in 0 .. m - 1
      BY <1>2
    <3>3. n # 0 => g[n - 1] = f[n - 1]
      BY <2>3, <3>1
    <3>4. Step(text, g, n) = Step(text, f, n)
      BY <3>1, <3>3 DEF Step
    <3>5. g[n] = Step(text, f, n)
      BY <2>3, <3>2
    <3> QED
      BY <3>4, <3>5
  <2>5. g = [n \in 0 .. m |-> g[n]]
    OBVIOUS
  <2> HIDE DEF g
  <2>6. UpTo(text, m, g)
    BY <2>4, <2>5 DEF UpTo
  <2> QED
    BY <1>2, <2>6
<1> QED
  BY <1>3, <1>4

\* So PayloadsUpTo is that function.
LEMMA PayloadsStep ==
  ASSUME NEW text, Len(text) \in Nat
  PROVE  /\ PayloadsUpTo(text)[0] = << >>
         /\ \A n \in 1 .. Len(text) :
              PayloadsUpTo(text)[n] = IF EndsObject(text[n])
                                      THEN Append(PayloadsUpTo(text)[n - 1], text[n].id)
                                      ELSE PayloadsUpTo(text)[n - 1]
<1> DEFINE P(f) == UpTo(text, Len(text), f)
<1>1. PayloadsUpTo(text) = CHOOSE f : P(f)
  BY DEF PayloadsUpTo, UpTo, Step
<1>2. \E f : P(f)
  BY PayloadsExist
<1>3. P(CHOOSE f : P(f))
  <2> HIDE DEF P
  <2> QED
    BY <1>2
<1>4. UpTo(text, Len(text), PayloadsUpTo(text))
  BY <1>1, <1>3
<1> DEFINE f == PayloadsUpTo(text)
<1> HIDE DEF f, P
<1>5. \A n \in 0 .. Len(text) : f[n] = Step(text, f, n)
  BY <1>4 DEF UpTo, f
<1>6. 0 \in 0 .. Len(text) /\ \A n \in 1 .. Len(text) : n \in 0 .. Len(text) /\ n # 0
  OBVIOUS
<1> QED
  BY <1>5, <1>6 DEF Step, f
-----------------------------------------------------------------------------
(* What PayloadsOf returns.                                                *)

\* The payloads are those of the objects that the text closes, in its order.
LEMMA PayloadsFacts ==
  ASSUME NEW text \in Seq(Unit)
  PROVE  \A n \in 0 .. Len(text) :
           LET s == PayloadsUpTo(text)[n]
           IN  /\ s \in Seq(1 .. MaxSends)
               /\ \A i \in DOMAIN s : \E k \in 1 .. n : EndsObject(text[k]) /\ s[i] = text[k].id
               /\ (\A k, l \in 1 .. n : k < l /\ EndsObject(text[k]) /\ EndsObject(text[l]) => text[k].id < text[l].id)
                    => Ascending(s)
<1> DEFINE f == PayloadsUpTo(text)
           Holds(n) == /\ f[n] \in Seq(1 .. MaxSends)
                       /\ \A i \in DOMAIN f[n] : \E k \in 1 .. n : EndsObject(text[k]) /\ f[n][i] = text[k].id
                       /\ (\A k, l \in 1 .. n : k < l /\ EndsObject(text[k]) /\ EndsObject(text[l]) => text[k].id < text[l].id)
                            => Ascending(f[n])
           S == {n \in 0 .. Len(text) : ~Holds(n)}
<1>0. /\ Len(text) \in Nat /\ f[0] = << >>
      /\ \A n \in 1 .. Len(text) :
           f[n] = IF EndsObject(text[n]) THEN Append(f[n - 1], text[n].id) ELSE f[n - 1]
      /\ \A n \in 1 .. Len(text) : text[n].id \in 1 .. MaxSends
  <2>1. Len(text) \in Nat /\ \A n \in 1 .. Len(text) : text[n] \in Unit
    OBVIOUS
  <2> QED
    BY <2>1, PayloadsStep DEF Unit
<1> SUFFICES ASSUME S # {} PROVE FALSE
  OBVIOUS
<1>1. PICK n \in S : \A m \in S : n <= m
  <2> HIDE DEF S
  <2>1. S \in SUBSET Nat
    BY <1>0 DEF S
  <2> QED
    BY <2>1, LeastOf
<1>2. n \in 0 .. Len(text) /\ ~Holds(n)
  OBVIOUS
<1> HIDE DEF f
<1>3. CASE n = 0
  <2>1. Holds(0)
    BY <1>0 DEF Ascending
  <2> QED
    BY <1>2, <1>3, <2>1
<1>4. CASE n # 0
  <2>1. n \in 1 .. Len(text) /\ n - 1 \in 0 .. Len(text) /\ n \in Nat
    BY <1>0, <1>2, <1>4
  <2>2. Holds(n - 1)
    <3>1. n - 1 \notin S
      <4> HIDE DEF S, Holds
      <4> QED
        BY <1>1, <2>1
    <3> QED
      BY <2>1, <3>1
  <2> HIDE DEF S
  <2>3. CASE ~EndsObject(text[n])
    <3>1. f[n] = f[n - 1]
      BY <1>0, <2>1, <2>3
    <3>2. \A k \in 1 .. n - 1 : k \in 1 .. n
      BY <2>1
    <3>3. Holds(n)
      BY <2>2, <3>1, <3>2
    <3> QED
      BY <1>2, <3>3
  <2>4. CASE EndsObject(text[n])
    <3> DEFINE s == f[n - 1]
               x == text[n].id
    <3>1. f[n] = Append(s, x) /\ s \in Seq(1 .. MaxSends) /\ x \in 1 .. MaxSends
      BY <1>0, <2>1, <2>2, <2>4
    <3>2. /\ Len(s) \in Nat /\ f[n] \in Seq(1 .. MaxSends) /\ Len(f[n]) = Len(s) + 1
          /\ \A i \in 1 .. Len(s) : f[n][i] = s[i]
          /\ f[n][Len(s) + 1] = x /\ DOMAIN f[n] = 1 .. Len(s) + 1 /\ DOMAIN s = 1 .. Len(s)
      BY <3>1
    <3>3. ASSUME NEW i \in DOMAIN f[n] PROVE i \in DOMAIN s \/ i = Len(s) + 1
      BY <3>2
    <3> HIDE DEF s, x
    <3>4. ASSUME NEW i \in DOMAIN s PROVE \E k \in 1 .. n - 1 : EndsObject(text[k]) /\ s[i] = text[k].id
      BY <2>2 DEF s
    <3>5. ASSUME NEW i \in DOMAIN f[n] PROVE \E k \in 1 .. n : EndsObject(text[k]) /\ f[n][i] = text[k].id
      <4>1. CASE i \in DOMAIN s
        <5>1. PICK k \in 1 .. n - 1 : EndsObject(text[k]) /\ s[i] = text[k].id
          BY <3>4, <4>1
        <5>2. k \in 1 .. n
          BY <2>1
        <5> QED
          BY <3>2, <4>1, <5>1, <5>2
      <4>2. CASE i = Len(s) + 1
        <5>1. n \in 1 .. n
          BY <2>1
        <5> QED
          BY <2>4, <3>2, <4>2, <5>1 DEF x
      <4> QED
        BY <3>3, <4>1, <4>2
    <3>6. ASSUME \A k, l \in 1 .. n : k < l /\ EndsObject(text[k]) /\ EndsObject(text[l]) => text[k].id < text[l].id,
                 NEW i \in DOMAIN f[n], NEW j \in DOMAIN f[n], i < j
          PROVE  f[n][i] < f[n][j]
      <4>1. i \in DOMAIN s
        BY <3>2, <3>6
      <4>2. CASE j \in DOMAIN s
        <5>1. \A k \in 1 .. n - 1 : k \in 1 .. n
          BY <2>1
        <5>2. Ascending(s)
          BY <2>2, <3>6, <5>1 DEF s
        <5> QED
          BY <3>2, <3>6, <4>1, <4>2, <5>2 DEF Ascending
      <4>3. CASE j = Len(s) + 1
        <5>1. PICK k \in 1 .. n - 1 : EndsObject(text[k]) /\ s[i] = text[k].id
          BY <3>4, <4>1
        <5>2. k \in 1 .. n /\ n \in 1 .. n /\ k < n
          BY <2>1
        <5> QED
          BY <2>4, <3>2, <3>6, <4>1, <4>3, <5>1, <5>2 DEF x
      <4> QED
        BY <3>3, <4>2, <4>3
    <3>7. Holds(n)
      BY <3>2, <3>5, <3>6 DEF Ascending
    <3> QED
      BY <1>2, <3>7
  <2> QED
    BY <2>3, <2>4
<1> QED
  BY <1>3, <1>4

\* A text without the end of an object has no payload up to there.
LEMMA NoPayload ==
  ASSUME NEW text \in Seq(Unit), NEW m \in 0 .. Len(text), \A k \in 1 .. m : ~EndsObject(text[k])
  PROVE  PayloadsUpTo(text)[m] = << >>
<1> DEFINE s == PayloadsUpTo(text)[m]
<1>1. s \in Seq(1 .. MaxSends) /\ \A i \in DOMAIN s : FALSE
  BY PayloadsFacts
<1> HIDE DEF s
<1>2. Len(s) \in Nat /\ DOMAIN s = 1 .. Len(s)
  BY <1>1
<1>3. Len(s) = 0
  <2>1. Len(s) # 0 => 1 \in DOMAIN s
    BY <1>2
  <2> QED
    BY <1>1, <2>1
<1>4. s = << >>
  BY <1>1, <1>3
<1> QED
  BY <1>4 DEF s

\* The payloads of two texts, one after the other.
LEMMA PayloadsOfBoth ==
  ASSUME NEW a \in Seq(Unit), NEW b \in Seq(Unit)
  PROVE  PayloadsOf(a \o b) = PayloadsOf(a) \o PayloadsOf(b)
<1> DEFINE f == PayloadsUpTo(a)
           g == PayloadsUpTo(b)
           h == PayloadsUpTo(a \o b)
<1>1. /\ a \o b \in Seq(Unit) /\ Len(a) \in Nat /\ Len(b) \in Nat /\ Len(a \o b) = Len(a) + Len(b)
      /\ \A i \in 1 .. Len(a) : (a \o b)[i] = a[i]
      /\ \A i \in 1 .. Len(b) : (a \o b)[Len(a) + i] = b[i]
  <2> HIDE DEF Unit
  <2> QED
    BY ConcatProperties
<1>2. /\ f[0] = << >> /\ g[0] = << >> /\ h[0] = << >>
      /\ \A n \in 1 .. Len(a) : f[n] = IF EndsObject(a[n]) THEN Append(f[n - 1], a[n].id) ELSE f[n - 1]
      /\ \A n \in 1 .. Len(b) : g[n] = IF EndsObject(b[n]) THEN Append(g[n - 1], b[n].id) ELSE g[n - 1]
      /\ \A n \in 1 .. Len(a \o b) :
           h[n] = IF EndsObject((a \o b)[n]) THEN Append(h[n - 1], (a \o b)[n].id) ELSE h[n - 1]
  <2>1. f[0] = << >> /\ g[0] = << >> /\ h[0] = << >>
    BY <1>1, PayloadsStep
  <2>2. \A n \in 1 .. Len(a) : f[n] = IF EndsObject(a[n]) THEN Append(f[n - 1], a[n].id) ELSE f[n - 1]
    BY <1>1, PayloadsStep
  <2>3. \A n \in 1 .. Len(b) : g[n] = IF EndsObject(b[n]) THEN Append(g[n - 1], b[n].id) ELSE g[n - 1]
    BY <1>1, PayloadsStep
  <2>4. Len(a \o b) \in Nat
    BY <1>1
  <2> DEFINE c == a \o b
  <2> HIDE DEF c
  <2>5. Len(c) \in Nat
    BY <2>4 DEF c
  <2>6. \A n \in 1 .. Len(c) :
          PayloadsUpTo(c)[n] = IF EndsObject(c[n]) THEN Append(PayloadsUpTo(c)[n - 1], c[n].id)
                                                 ELSE PayloadsUpTo(c)[n - 1]
    BY <2>5, PayloadsStep
  <2> QED
    BY <2>1, <2>2, <2>3, <2>6 DEF c
<1>3. /\ \A n \in 0 .. Len(a) : f[n] \in Seq(1 .. MaxSends)
      /\ \A n \in 0 .. Len(b) : g[n] \in Seq(1 .. MaxSends)
      /\ \A n \in 1 .. Len(b) : b[n].id \in 1 .. MaxSends
  <2>1. \A n \in 1 .. Len(b) : b[n] \in Unit
    OBVIOUS
  <2>2. \A n \in 1 .. Len(b) : b[n].id \in 1 .. MaxSends
    BY <2>1 DEF Unit
  <2> HIDE DEF Unit
  <2> QED
    BY <2>2, PayloadsFacts
<1> HIDE DEF f, g, h, Unit
<1>4. \A n \in 0 .. Len(a) : h[n] = f[n]
  <2> DEFINE S == {n \in 0 .. Len(a) : h[n] # f[n]}
  <2> SUFFICES ASSUME S # {} PROVE FALSE
    OBVIOUS
  <2>1. PICK n \in S : \A m \in S : n <= m
    <3>1. S \in SUBSET Nat
      BY <1>1
    <3> HIDE DEF S
    <3> QED
      BY <3>1, LeastOf
  <2>2. n \in 0 .. Len(a) /\ h[n] # f[n] /\ n # 0
    BY <1>2
  <2>3. n \in 1 .. Len(a) /\ n \in 1 .. Len(a \o b) /\ n - 1 \in 0 .. Len(a) /\ ~ (n <= n - 1)
    BY <1>1, <2>2
  <2>4. h[n - 1] = f[n - 1]
    BY <2>1, <2>3
  <2> HIDE DEF S
  <2> QED
    BY <1>1, <1>2, <2>2, <2>3, <2>4
<1>5. \A n \in 0 .. Len(b) : h[Len(a) + n] = f[Len(a)] \o g[n]
  <2> DEFINE S == {n \in 0 .. Len(b) : h[Len(a) + n] # f[Len(a)] \o g[n]}
  <2> SUFFICES ASSUME S # {} PROVE FALSE
    OBVIOUS
  <2>1. PICK n \in S : \A m \in S : n <= m
    <3>1. S \subseteq 0 .. Len(b)
      OBVIOUS
    <3> HIDE DEF S
    <3>2. S \in SUBSET Nat
      BY <1>1, <3>1
    <3> QED
      BY <3>2, LeastOf
  <2>2. n \in 0 .. Len(b) /\ h[Len(a) + n] # f[Len(a)] \o g[n]
    OBVIOUS
  <2>3. f[Len(a)] \in Seq(1 .. MaxSends) /\ Len(a) + 0 = Len(a)
    BY <1>1, <1>3
  <2>4. n # 0
    <3>1. f[Len(a)] \o g[0] = f[Len(a)]
      BY <1>2, <2>3, ConcatEmptySeq
    <3>2. Len(a) \in 0 .. Len(a)
      BY <1>1
    <3>3. h[Len(a) + 0] = f[Len(a)]
      BY <1>4, <2>3, <3>2
    <3> HIDE DEF S
    <3> QED
      BY <2>2, <3>1, <3>3
  <2>5. /\ n \in 1 .. Len(b) /\ n - 1 \in 0 .. Len(b) /\ ~ (n <= n - 1)
        /\ Len(a) + n \in 1 .. Len(a \o b) /\ (Len(a) + n) - 1 = Len(a) + (n - 1)
    BY <1>1, <2>2, <2>4
  <2>6. h[Len(a) + (n - 1)] = f[Len(a)] \o g[n - 1]
    BY <2>1, <2>5
  <2> HIDE DEF S
  <2>7. /\ h[Len(a) + n] = IF EndsObject(b[n]) THEN Append(h[Len(a) + (n - 1)], b[n].id)
                                             ELSE h[Len(a) + (n - 1)]
        /\ g[n] = IF EndsObject(b[n]) THEN Append(g[n - 1], b[n].id) ELSE g[n - 1]
    BY <1>1, <1>2, <2>5
  <2>8. f[Len(a)] \o Append(g[n - 1], b[n].id) = Append(f[Len(a)] \o g[n - 1], b[n].id)
    <3>1. g[n - 1] \in Seq(1 .. MaxSends) /\ b[n].id \in 1 .. MaxSends
      BY <1>3, <2>5
    <3> DEFINE x == f[Len(a)]
               y == g[n - 1]
               e == b[n].id
               Ids == 1 .. MaxSends
    <3>2. x \in Seq(Ids) /\ y \in Seq(Ids) /\ e \in Ids
      BY <2>3, <3>1
    <3> HIDE DEF x, y, e, Ids
    <3>3. x \o y \in Seq(Ids) /\ <<e>> \in Seq(Ids)
      BY <3>2
    <3>4. Append(y, e) = y \o <<e>> /\ Append(x \o y, e) = (x \o y) \o <<e>>
      BY <3>2, <3>3, AppendIsConcat
    <3>5. (x \o y) \o <<e>> = x \o (y \o <<e>>)
      BY <3>2, <3>3, ConcatAssociative
    <3> QED
      BY <3>4, <3>5 DEF x, y, e
  <2> QED
    BY <2>2, <2>6, <2>7, <2>8
<1>6. h[Len(a \o b)] = f[Len(a)] \o g[Len(b)]
  <2>1. Len(b) \in 0 .. Len(b) /\ Len(a \o b) = Len(a) + Len(b)
    BY <1>1
  <2> QED
    BY <1>5, <2>1
<1> QED
  BY <1>6 DEF PayloadsOf, f, g, h

\* A part of one line has its payload when it has the end of its object.
LEMMA LineFacts ==
  ASSUME NEW n \in 1 .. MaxSends, NEW size \in 2 .. MaxLineSize,
         NEW a \in 1 .. size + 1, NEW b \in 0 .. size
  PROVE  LET s == SubSeq(Line(n, size), a, b)
         IN  /\ s \in Seq(Unit) /\ Len(s) = IF a <= b THEN b - a + 1 ELSE 0
             /\ \A i \in 1 .. Len(s) : s[i].id = n /\ (EndsObject(s[i]) <=> a + i - 1 = size - 1)
             /\ PayloadsOf(s) = IF a <= size - 1 /\ size - 1 <= b THEN <<n>> ELSE << >>
<1> DEFINE line == Line(n, size)
           s == SubSeq(line, a, b)
<1>0. size \in Nat /\ MaxLineSize \in Nat /\ MaxSends \in Nat /\ a \in Nat /\ b \in Nat
  BY BoundsAssumption
<1>1. /\ line \in Seq(Unit) /\ Len(line) = size
      /\ \A k \in 1 .. size : line[k] = [id |-> n, part |-> k, size |-> size]
  <2>1. \A k \in 1 .. size : [id |-> n, part |-> k, size |-> size] \in Unit
    BY <1>0 DEF Unit
  <2> HIDE DEF Unit
  <2> QED
    BY <1>0, <2>1 DEF Line
<1> HIDE DEF line
<1>2. /\ s \in Seq(Unit) /\ Len(s) = IF a <= b THEN b - a + 1 ELSE 0
      /\ \A i \in 1 .. Len(s) : s[i] = line[a + i - 1] /\ a + i - 1 \in 1 .. size
  <2>1. \A i \in a .. b : line[i] \in Unit
    BY <1>0, <1>1
  <2> HIDE DEF Unit
  <2>2. s = [i \in 1 .. (IF a <= b THEN b - a + 1 ELSE 0) |-> line[a + i - 1]]
    BY <1>0, <2>1, SubSeqProperties
  <2>3. s \in Seq(Unit) /\ Len(s) = IF a <= b THEN b - a + 1 ELSE 0
    BY <1>0, <2>1, SubSeqProperties
  <2> QED
    BY <1>0, <2>2, <2>3
<1> HIDE DEF s, Unit
<1>3. \A i \in 1 .. Len(s) : s[i].id = n /\ (EndsObject(s[i]) <=> a + i - 1 = size - 1)
  <2> TAKE i \in 1 .. Len(s)
  <2>1. s[i] = [id |-> n, part |-> a + i - 1, size |-> size]
    BY <1>1, <1>2
  <2> QED
    BY <2>1 DEF EndsObject
<1>4. Len(s) \in Nat
  BY <1>2
<1>5. CASE ~ (a <= size - 1 /\ size - 1 <= b)
  <2>1. \A k \in 1 .. Len(s) : ~EndsObject(s[k])
    BY <1>0, <1>2, <1>3, <1>5
  <2>2. Len(s) \in 0 .. Len(s)
    BY <1>4
  <2> QED
    BY <1>2, <1>3, <1>5, <2>1, <2>2, NoPayload DEF PayloadsOf, s, line
<1>6. CASE a <= size - 1 /\ size - 1 <= b
  <2> DEFINE e == size - a
  <2>1. /\ e \in 1 .. Len(s) /\ e - 1 \in 0 .. Len(s) /\ EndsObject(s[e]) /\ s[e].id = n
        /\ \A k \in 1 .. e - 1 : ~EndsObject(s[k])
    <3>1. /\ Len(s) = b - a + 1 /\ e \in 1 .. Len(s) /\ e - 1 \in 0 .. Len(s)
          /\ a + e - 1 = size - 1
      BY <1>0, <1>2, <1>6
    <3>2. EndsObject(s[e]) /\ s[e].id = n
      BY <1>3, <3>1
    <3>3. \A k \in 1 .. e - 1 : k \in 1 .. Len(s) /\ a + k - 1 # size - 1
      BY <1>0, <3>1
    <3> HIDE DEF e
    <3> QED
      BY <1>3, <3>1, <3>2, <3>3
  <2>2. PayloadsUpTo(s)[e - 1] = << >>
    <3> HIDE DEF e
    <3> QED
      BY <1>2, <2>1, NoPayload
  <2>3. PayloadsUpTo(s)[e] = Append(<< >>, n)
    <3> HIDE DEF e
    <3> QED
      BY <1>4, <2>1, <2>2, PayloadsStep
  <2>4. Len(s) = e \/ (Len(s) = e + 1 /\ Len(s) - 1 = e /\ ~EndsObject(s[Len(s)]) /\ Len(s) \in 1 .. Len(s))
    <3>1. Len(s) = b - a + 1 /\ (b = size - 1 \/ b = size)
      BY <1>0, <1>2, <1>6
    <3>2. CASE b = size - 1
      BY <1>0, <3>1, <3>2
    <3>3. CASE b = size
      <4>1. Len(s) = e + 1 /\ Len(s) - 1 = e /\ Len(s) \in 1 .. Len(s) /\ a + Len(s) - 1 # size - 1
        BY <1>0, <1>6, <3>1, <3>3
      <4> HIDE DEF e
      <4> QED
        BY <1>3, <4>1
    <3> QED
      BY <3>1, <3>2, <3>3
  <2>5. PayloadsUpTo(s)[Len(s)] = <<n>>
    <3> HIDE DEF e
    <3>1. CASE Len(s) = e
      BY <2>3, <3>1
    <3>2. CASE Len(s) = e + 1 /\ Len(s) - 1 = e /\ ~EndsObject(s[Len(s)]) /\ Len(s) \in 1 .. Len(s)
      <4>1. PayloadsUpTo(s)[Len(s)] = PayloadsUpTo(s)[Len(s) - 1]
        BY <1>4, <3>2, PayloadsStep
      <4> QED
        BY <2>3, <3>2, <4>1
    <3> QED
      BY <2>4, <3>1, <3>2
  <2>6. PayloadsOf(s) = <<n>>
    BY <2>5 DEF PayloadsOf
  <2> QED
    BY <1>2, <1>3, <1>6, <2>6 DEF s, line
<1> QED
  BY <1>5, <1>6

\* The first units of a line have its payload when they close its object.
LEMMA BeginFacts ==
  ASSUME NEW n \in 1 .. MaxSends, NEW size \in 2 .. MaxLineSize, NEW k \in 1 .. size
  PROVE  /\ Begin(n, size, k) \in Seq(Unit) /\ Len(Begin(n, size, k)) = k
         /\ \A m \in 1 .. k :
              Begin(n, size, k)[m].id = n /\ (EndsObject(Begin(n, size, k)[m]) <=> m = size - 1)
         /\ PayloadsOf(Begin(n, size, k)) = IF size - 1 <= k THEN <<n>> ELSE << >>
<1>0. size \in Nat /\ k \in Nat /\ 1 \in 1 .. size + 1 /\ k \in 0 .. size
  BY BoundsAssumption
<1> DEFINE part(b) == SubSeq(Line(n, size), 1, b)
<1>1. \A b \in 0 .. size :
        /\ part(b) \in Seq(Unit) /\ Len(part(b)) = IF 1 <= b THEN b - 1 + 1 ELSE 0
        /\ \A i \in 1 .. Len(part(b)) :
             part(b)[i].id = n /\ (EndsObject(part(b)[i]) <=> 1 + i - 1 = size - 1)
        /\ PayloadsOf(part(b)) = IF 1 <= size - 1 /\ size - 1 <= b THEN <<n>> ELSE << >>
  <2> DEFINE any(a, b) == SubSeq(Line(n, size), a, b)
  <2>1. \A a \in 1 .. size + 1 : \A b \in 0 .. size :
          /\ any(a, b) \in Seq(Unit) /\ Len(any(a, b)) = IF a <= b THEN b - a + 1 ELSE 0
          /\ \A i \in 1 .. Len(any(a, b)) :
               any(a, b)[i].id = n /\ (EndsObject(any(a, b)[i]) <=> a + i - 1 = size - 1)
          /\ PayloadsOf(any(a, b)) = IF a <= size - 1 /\ size - 1 <= b THEN <<n>> ELSE << >>
    BY LineFacts
  <2>2. \A b : part(b) = any(1, b)
    OBVIOUS
  <2> HIDE DEF any, part, Unit
  <2> QED
    BY <1>0, <2>1, <2>2
<1>2. part(k) = Begin(n, size, k)
  BY DEF Begin
<1> HIDE DEF part, Unit
<1>3. /\ Begin(n, size, k) \in Seq(Unit)
      /\ Len(Begin(n, size, k)) = IF 1 <= k THEN k - 1 + 1 ELSE 0
      /\ \A i \in 1 .. Len(Begin(n, size, k)) :
           Begin(n, size, k)[i].id = n /\ (EndsObject(Begin(n, size, k)[i]) <=> 1 + i - 1 = size - 1)
      /\ PayloadsOf(Begin(n, size, k)) = IF 1 <= size - 1 /\ size - 1 <= k THEN <<n>> ELSE << >>
  BY <1>0, <1>1, <1>2
<1> QED
  BY <1>0, <1>3

\* The units left of a line have its payload when they are more than the newline.
LEMMA RestFacts ==
  ASSUME NEW n \in 1 .. MaxSends, NEW size \in 2 .. MaxLineSize, NEW k \in 1 .. size
  PROVE  /\ Rest(n, size, k) \in Seq(Unit) /\ Len(Rest(n, size, k)) = size - k
         /\ \A m \in 1 .. size - k :
              Rest(n, size, k)[m].id = n /\ (EndsObject(Rest(n, size, k)[m]) <=> m = size - k - 1)
         /\ PayloadsOf(Rest(n, size, k)) = IF k < size - 1 THEN <<n>> ELSE << >>
<1>0. size \in Nat /\ k \in Nat /\ k + 1 \in 1 .. size + 1 /\ size \in 0 .. size
  BY BoundsAssumption
<1> DEFINE part(a) == SubSeq(Line(n, size), a, size)
<1>1. \A a \in 1 .. size + 1 :
        /\ part(a) \in Seq(Unit) /\ Len(part(a)) = IF a <= size THEN size - a + 1 ELSE 0
        /\ \A i \in 1 .. Len(part(a)) :
             part(a)[i].id = n /\ (EndsObject(part(a)[i]) <=> a + i - 1 = size - 1)
        /\ PayloadsOf(part(a)) = IF a <= size - 1 /\ size - 1 <= size THEN <<n>> ELSE << >>
  <2> DEFINE any(a, b) == SubSeq(Line(n, size), a, b)
  <2>1. \A a \in 1 .. size + 1 : \A b \in 0 .. size :
          /\ any(a, b) \in Seq(Unit) /\ Len(any(a, b)) = IF a <= b THEN b - a + 1 ELSE 0
          /\ \A i \in 1 .. Len(any(a, b)) :
               any(a, b)[i].id = n /\ (EndsObject(any(a, b)[i]) <=> a + i - 1 = size - 1)
          /\ PayloadsOf(any(a, b)) = IF a <= size - 1 /\ size - 1 <= b THEN <<n>> ELSE << >>
    BY LineFacts
  <2>2. \A a : part(a) = any(a, size)
    OBVIOUS
  <2> HIDE DEF any, part, Unit
  <2> QED
    BY <1>0, <2>1, <2>2
<1>2. part(k + 1) = Rest(n, size, k)
  BY DEF Rest
<1> DEFINE s == Rest(n, size, k)
<1> HIDE DEF part, s, Unit
<1>3. /\ s \in Seq(Unit) /\ Len(s) = IF k + 1 <= size THEN size - (k + 1) + 1 ELSE 0
      /\ \A i \in 1 .. Len(s) : s[i].id = n /\ (EndsObject(s[i]) <=> k + 1 + i - 1 = size - 1)
      /\ PayloadsOf(s) = IF k + 1 <= size - 1 /\ size - 1 <= size THEN <<n>> ELSE << >>
  BY <1>0, <1>1, <1>2 DEF s
<1>4. Len(s) = size - k
  BY <1>0, <1>3
<1>5. \A m \in 1 .. size - k : k + 1 + m - 1 = size - 1 <=> m = size - k - 1
  BY <1>0
<1>6. k + 1 <= size - 1 /\ size - 1 <= size <=> k < size - 1
  BY <1>0
<1>7. PayloadsOf(s) = IF k < size - 1 THEN <<n>> ELSE << >>
  BY <1>3, <1>6
<1> QED
  BY <1>3, <1>4, <1>5, <1>7 DEF s

\* The units left of a line, for every line: its type and its length.
LEMMA RestUnits ==
  \A n \in 1 .. MaxSends : \A size \in 2 .. MaxLineSize : \A k \in 1 .. size :
    Rest(n, size, k) \in Seq(Unit) /\ Len(Rest(n, size, k)) = size - k
<1> SUFFICES ASSUME NEW n \in 1 .. MaxSends, NEW size \in 2 .. MaxLineSize, NEW k \in 1 .. size
             PROVE  Rest(n, size, k) \in Seq(Unit) /\ Len(Rest(n, size, k)) = size - k
  OBVIOUS
<1> HIDE DEF Unit
<1>1. MaxSends \in Nat /\ MaxLineSize \in Nat /\ size \in Nat /\ k \in Nat
  BY BoundsAssumption
<1> QED
  BY <1>1, RestFacts

-----------------------------------------------------------------------------
(* What the file and what a poll reads of it are made of.                  *)

\* Types, and that a file that a line is appended to begins as it did.
LEMMA GrownFile ==
  ASSUME NEW old \in Seq(Unit), NEW new \in Seq(Unit)
  PROVE  /\ old \o new \in Seq(Unit)
         /\ Len(old) \in Nat /\ Len(new) \in Nat /\ Len(old \o new) = Len(old) + Len(new)
         /\ \A k \in 1 .. Len(old) : (old \o new)[k] = old[k]
         /\ \A m \in 1 .. Len(new) : (old \o new)[Len(old) + m] = new[m]
         /\ \A k \in 1 .. Len(old \o new) :
              k \in 1 .. Len(old) \/ (k - Len(old) \in 1 .. Len(new) /\ k = Len(old) + (k - Len(old)))
<1> HIDE DEF Unit
<1>1. Len(old) \in Nat /\ Len(new) \in Nat
  OBVIOUS
<1>2. /\ old \o new \in Seq(Unit) /\ Len(old \o new) = Len(old) + Len(new)
      /\ \A k \in 1 .. Len(old) : (old \o new)[k] = old[k]
      /\ \A m \in 1 .. Len(new) : (old \o new)[Len(old) + m] = new[m]
  BY ConcatProperties
<1>3. \A k \in 1 .. Len(old) + Len(new) :
        k \in 1 .. Len(old) \/ (k - Len(old) \in 1 .. Len(new) /\ k = Len(old) + (k - Len(old)))
  BY <1>1
<1> QED
  BY <1>1, <1>2, <1>3

\* What is not read are the units of the file from the offset on, none past the end.
LEMMA UnreadFacts ==
  ASSUME IInv, NEW c \in Consumers
  PROVE  /\ Unread(c) \in Seq(Unit) /\ offset[c] \in Nat /\ Len(file) \in Nat
         /\ Len(Unread(c)) = IF offset[c] <= Len(file) THEN Len(file) - offset[c] ELSE 0
         /\ \A i \in 1 .. Len(Unread(c)) :
              offset[c] + i \in 1 .. Len(file) /\ Unread(c)[i] = file[offset[c] + i]
<1> HIDE DEF Unit
<1>1. offset[c] \in Nat /\ file \in Seq(Unit) /\ Len(file) \in Nat
  BY DEF IInv, TypeOK
<1>2. \A i \in offset[c] + 1 .. Len(file) : file[i] \in Unit
  BY <1>1
<1> DEFINE s == SubSeq(file, offset[c] + 1, Len(file))
<1>3. /\ s \in Seq(Unit)
      /\ Len(s) = IF offset[c] + 1 <= Len(file) THEN Len(file) - (offset[c] + 1) + 1 ELSE 0
      /\ \A i \in 1 .. Len(file) - (offset[c] + 1) + 1 : s[i] = file[(offset[c] + 1) + i - 1]
  BY <1>1, <1>2, SubSeqProperties
<1> HIDE DEF s
<1>4. /\ Len(s) = IF offset[c] <= Len(file) THEN Len(file) - offset[c] ELSE 0
      /\ \A i \in 1 .. Len(s) : /\ i \in 1 .. Len(file) - (offset[c] + 1) + 1
                                /\ (offset[c] + 1) + i - 1 = offset[c] + i
                                /\ offset[c] + i \in 1 .. Len(file)
  <2> DEFINE o == offset[c]
             n == Len(file)
             m == Len(s)
  <2>1. o \in Nat /\ n \in Nat /\ m = IF o + 1 <= n THEN n - (o + 1) + 1 ELSE 0
    BY <1>1, <1>3
  <2> HIDE DEF o, n, m
  <2>2. m = IF o <= n THEN n - o ELSE 0
    BY <2>1
  <2>3. \A i \in 1 .. m : i \in 1 .. n - (o + 1) + 1 /\ (o + 1) + i - 1 = o + i /\ o + i \in 1 .. n
    BY <2>1
  <2> QED
    BY <2>2, <2>3 DEF o, n, m
<1>5. \A i \in 1 .. Len(s) : offset[c] + i \in 1 .. Len(file) /\ s[i] = file[offset[c] + i]
  <2> TAKE i \in 1 .. Len(s)
  <2> QED
    BY <1>3, <1>4
<1> QED
  BY <1>1, <1>3, <1>4, <1>5 DEF Unread, s

\* What poll() returns of it: payloads that were sent, in order, newer than those
\* returned before.
LEMMA PolledFacts ==
  ASSUME IInv, NEW c \in Consumers
  PROVE  LET s == PayloadsOf(Unread(c))
         IN  /\ s \in Seq(1 .. MaxSends) /\ Ascending(s)
             /\ \A i \in DOMAIN s : \E k \in 1 .. Len(file) :
                  k > offset[c] /\ EndsObject(file[k]) /\ s[i] = file[k].id
<1> DEFINE text == Unread(c)
           s == PayloadsOf(text)
<1>1. /\ text \in Seq(Unit) /\ offset[c] \in Nat /\ Len(file) \in Nat
      /\ \A i \in 1 .. Len(text) :
           offset[c] + i \in 1 .. Len(file) /\ text[i] = file[offset[c] + i]
  BY UnreadFacts
<1>2. Len(text) \in Nat /\ Len(text) \in 0 .. Len(text)
  BY <1>1
<1>3. \A k, l \in 1 .. Len(text) : k < l /\ EndsObject(text[k]) /\ EndsObject(text[l]) => text[k].id < text[l].id
  <2> SUFFICES ASSUME NEW k \in 1 .. Len(text), NEW l \in 1 .. Len(text), k < l,
                      EndsObject(text[k]), EndsObject(text[l])
               PROVE  text[k].id < text[l].id
    OBVIOUS
  <2>1. /\ offset[c] + k \in 1 .. Len(file) /\ text[k] = file[offset[c] + k]
        /\ offset[c] + l \in 1 .. Len(file) /\ text[l] = file[offset[c] + l]
        /\ offset[c] + k < offset[c] + l
    BY <1>1
  <2> HIDE DEF text
  <2> QED
    BY <2>1 DEF IInv, FileInv
<1> HIDE DEF text
<1>4. /\ s \in Seq(1 .. MaxSends) /\ Ascending(s)
      /\ \A i \in DOMAIN s : \E k \in 1 .. Len(text) : EndsObject(text[k]) /\ s[i] = text[k].id
  BY <1>1, <1>2, <1>3, PayloadsFacts DEF PayloadsOf
<1> HIDE DEF s
<1>5. ASSUME NEW i \in DOMAIN s
      PROVE  \E k \in 1 .. Len(file) : k > offset[c] /\ EndsObject(file[k]) /\ s[i] = file[k].id
  <2>1. PICK k \in 1 .. Len(text) : EndsObject(text[k]) /\ s[i] = text[k].id
    BY <1>4
  <2>2. /\ offset[c] + k \in 1 .. Len(file) /\ text[k] = file[offset[c] + k]
        /\ offset[c] + k > offset[c]
    BY <1>1, <1>2
  <2> QED
    BY <2>1, <2>2
<1> QED
  BY <1>4, <1>5 DEF s, text

-----------------------------------------------------------------------------
(* One lemma for each operation.                                           *)

\* Units of the last payload are appended; if they close its object, no older unit did
\* and nobody has it.
LEMMA FileGrows ==
  ASSUME IInv, NEW new \in Seq(Unit), file' = file \o new,
         UNCHANGED <<offset, returned, removals>>,
         sent' \in 0 .. MaxSends, sent <= sent',
         \A m \in 1 .. Len(new) : new[m].id = sent',
         \A m, l \in 1 .. Len(new) : m < l => ~(EndsObject(new[m]) /\ EndsObject(new[l])),
         Closes(new) =>
           /\ \A k \in 1 .. Len(file) : EndsObject(file[k]) => file[k].id < sent'
           /\ \A c \in Consumers : \A i \in DOMAIN returned[c] : returned[c][i] < sent'
  PROVE  file' \in Seq(Unit) /\ FileInv' /\ \A c \in Consumers : ConsumerInv(c)'
<1>0. /\ file \in Seq(Unit) /\ sent \in Nat /\ sent' \in Nat /\ offset \in [Consumers -> Nat]
      /\ returned \in [Consumers -> Seq(1 .. MaxSends)] /\ MaxSends \in Nat
  BY BoundsAssumption DEF IInv, TypeOK
<1>1. /\ file' \in Seq(Unit) /\ Len(file) \in Nat /\ Len(new) \in Nat
      /\ Len(file') = Len(file) + Len(new)
      /\ \A k \in 1 .. Len(file) : file'[k] = file[k]
      /\ \A m \in 1 .. Len(new) : file'[Len(file) + m] = new[m]
      /\ \A k \in 1 .. Len(file') :
           k \in 1 .. Len(file)
           \/ (k - Len(file) \in 1 .. Len(new) /\ k = Len(file) + (k - Len(file)))
  <2> HIDE DEF Unit
  <2> QED
    BY <1>0, GrownFile
<1>2. ASSUME NEW k \in 1 .. Len(file'), k \notin 1 .. Len(file)
      PROVE  file'[k].id = sent' /\ k > Len(file) /\ k - Len(file) \in 1 .. Len(new)
             /\ file'[k] = new[k - Len(file)]
  BY <1>1, <1>2
<1>3. \A k \in 1 .. Len(file) : file[k].id \in Nat
  <2>1. \A k \in 1 .. Len(file) : file[k] \in Unit
    BY <1>0
  <2> QED
    BY SMTT(30), <1>0, <2>1 DEF Unit
<1>4. \A k \in 1 .. Len(file') : file'[k].id <= sent'
  <2> TAKE k \in 1 .. Len(file')
  <2>1. CASE k \in 1 .. Len(file)
    <3>1. file[k].id <= sent
      BY <2>1 DEF IInv, FileInv
    <3> QED
      BY <1>0, <1>1, <1>3, <2>1, <3>1
  <2>2. CASE k \notin 1 .. Len(file)
    BY <1>0, <1>2, <2>2
  <2> QED
    BY <2>1, <2>2
<1>5. ASSUME NEW k \in 1 .. Len(file'), NEW l \in 1 .. Len(file'), k < l,
             EndsObject(file'[k]), EndsObject(file'[l])
      PROVE  file'[k].id < file'[l].id
  <2>1. CASE l \in 1 .. Len(file)
    <3>1. k \in 1 .. Len(file)
      BY <1>1, <1>5, <2>1
    <3> QED
      BY <1>1, <1>5, <2>1, <3>1 DEF IInv, FileInv
  <2>2. CASE l \notin 1 .. Len(file) /\ k \in 1 .. Len(file)
    <3>1. Closes(new)
      BY <1>2, <1>5, <2>2 DEF Closes
    <3> QED
      BY <1>1, <1>2, <1>5, <2>2, <3>1
  <2>3. CASE l \notin 1 .. Len(file) /\ k \notin 1 .. Len(file)
    <3>1. k - Len(file) < l - Len(file)
      BY <1>1, <1>5
    <3> QED
      BY <1>2, <1>5, <2>3, <3>1
  <2> QED
    BY <2>1, <2>2, <2>3
<1>6. ASSUME NEW c \in Consumers PROVE ConsumerInv(c)'
  <2>1. ConsumerInv(c) /\ offset[c] \in Nat /\ offset'[c] = offset[c] /\ returned'[c] = returned[c]
    BY <1>0 DEF IInv
  <2>2. ASSUME NEW i \in DOMAIN returned[c], NEW k \in 1 .. Len(file'), k > offset[c], EndsObject(file'[k])
        PROVE  returned[c][i] < file'[k].id
    <3>1. CASE k \in 1 .. Len(file)
      BY <1>1, <2>1, <2>2, <3>1 DEF ConsumerInv
    <3>2. CASE k \notin 1 .. Len(file)
      <4>1. Closes(new)
        BY <1>2, <2>2, <3>2 DEF Closes
      <4> QED
        BY <1>2, <2>2, <3>2, <4>1
    <3> QED
      BY <3>1, <3>2
  <2>3. \A i \in DOMAIN returned[c] : returned[c][i] <= sent'
    <3> TAKE i \in DOMAIN returned[c]
    <3>1. returned[c][i] \in Nat /\ returned[c][i] <= sent
      BY <1>0, <2>1 DEF ConsumerInv
    <3> QED
      BY <1>0, <3>1
  <2>4. removals' = 0 => offset[c] <= Len(file')
    BY <1>1, <2>1 DEF ConsumerInv
  <2> QED
    BY <2>1, <2>2, <2>3, <2>4 DEF ConsumerInv
<1> QED
  BY <1>1, <1>4, <1>5, <1>6 DEF FileInv

\* send() writes a newer line, or its first units.
LEMMA SendInv == IInv /\ Send => IInv'
<1> SUFFICES ASSUME IInv, Send PROVE IInv'
  OBVIOUS
<1>0. /\ sent' = sent + 1 /\ sent' \in 1 .. MaxSends /\ sent' \in 0 .. MaxSends /\ sent \in Nat
      /\ MaxSends \in Nat /\ MaxLineSize \in Nat /\ returned \in [Consumers -> Seq(1 .. MaxSends)]
      /\ file \in Seq(Unit)
      /\ UNCHANGED <<offset, returned, crashes, removals, restarts>>
  BY BoundsAssumption DEF IInv, TypeOK, Send
<1>1. PICK size \in 2 .. MaxLineSize : \E k \in 1 .. size :
        /\ file' = file \o Begin(sent', size, k)
        /\ pending' = Rest(sent', size, k)
  BY <1>0 DEF Send, Begin, Rest
<1>2. PICK k \in 1 .. size :
        /\ file' = file \o Begin(sent', size, k)
        /\ pending' = Rest(sent', size, k)
  BY <1>1
<1> DEFINE new == Begin(sent', size, k)
           rest == Rest(sent', size, k)
<1>3. size \in Nat /\ k \in Nat /\ k <= size
  BY <1>0
<1>4. /\ new \in Seq(Unit) /\ Len(new) = k
      /\ \A m \in 1 .. k : new[m].id = sent' /\ (EndsObject(new[m]) <=> m = size - 1)
      /\ rest \in Seq(Unit) /\ Len(rest) = size - k
      /\ \A m \in 1 .. size - k : EndsObject(rest[m]) <=> m = size - k - 1
  <2> HIDE DEF Unit
  <2>1. /\ new \in Seq(Unit) /\ Len(new) = k
        /\ \A m \in 1 .. k : new[m].id = sent' /\ (EndsObject(new[m]) <=> m = size - 1)
    BY <1>0, BeginFacts
  <2>2. /\ rest \in Seq(Unit) /\ Len(rest) = size - k
        /\ \A m \in 1 .. size - k : EndsObject(rest[m]) <=> m = size - k - 1
    BY <1>0, RestFacts
  <2> QED
    BY <2>1, <2>2
<1> HIDE DEF new, rest
<1>6. \A m, l \in 1 .. Len(new) : m < l => ~(EndsObject(new[m]) /\ EndsObject(new[l]))
  BY <1>3, <1>4
<1>7. \A j \in 1 .. Len(file) : file[j].id < sent'
  <2> TAKE j \in 1 .. Len(file)
  <2>1. file[j].id <= sent /\ file[j] \in Unit
    BY <1>0 DEF IInv, FileInv
  <2> QED
    BY <1>0, <2>1 DEF Unit
<1>8. \A c \in Consumers : \A i \in DOMAIN returned[c] : returned[c][i] < sent'
  <2> TAKE c \in Consumers
  <2> TAKE i \in DOMAIN returned[c]
  <2>1. returned[c][i] <= sent /\ returned[c][i] \in Nat
    BY <1>0 DEF IInv, ConsumerInv
  <2> QED
    BY <1>0, <2>1
<1>9. file' \in Seq(Unit) /\ FileInv' /\ \A c \in Consumers : ConsumerInv(c)'
  <2>1. file' = file \o new
    BY <1>2 DEF new
  <2>2. \A m \in 1 .. Len(new) : new[m].id = sent'
    BY <1>0, <1>4
  <2>3. sent' \in 0 .. MaxSends /\ sent <= sent' /\ UNCHANGED <<offset, returned, removals>>
    BY <1>0
  <2>4. \A j \in 1 .. Len(file) : EndsObject(file[j]) => file[j].id < sent'
    BY <1>7
  <2> HIDE DEF Unit
  <2> QED
    BY <1>4, <1>6, <1>8, <2>1, <2>2, <2>3, <2>4, FileGrows
<1>10. PendingInv'
  <2>1. ASSUME Closes(rest) PROVE Undelivered'
    <3>1. \A m \in 1 .. Len(new) : ~EndsObject(new[m])
      <4>1. PICK m \in 1 .. size - k : EndsObject(rest[m])
        BY <1>4, <2>1 DEF Closes
      <4>2. k < size - 1
        BY <1>3, <1>4, <4>1
      <4> QED
        BY <1>3, <1>4, <4>2
    <3>2. \A j \in 1 .. Len(file') : EndsObject(file'[j]) => file'[j].id < sent'
      <4> SUFFICES ASSUME NEW j \in 1 .. Len(file'), EndsObject(file'[j]) PROVE file'[j].id < sent'
        OBVIOUS
      <4>1. file' = file \o new
        BY <1>2 DEF new
      <4>2. CASE j \in 1 .. Len(file)
        <5>1. file'[j] = file[j]
          BY <1>0, <1>4, <4>1, <4>2, GrownFile
        <5> QED
          BY <1>7, <4>2, <5>1
      <4>3. CASE j - Len(file) \in 1 .. Len(new) /\ j = Len(file) + (j - Len(file))
        <5>1. file'[j] = new[j - Len(file)]
          BY <1>0, <1>4, <4>1, <4>3, GrownFile
        <5> QED
          BY <3>1, <4>3, <5>1
      <4> QED
        BY <1>0, <1>4, <4>1, <4>2, <4>3, GrownFile
    <3>3. \A c \in Consumers : \A i \in DOMAIN returned'[c] : returned'[c][i] < sent'
      BY <1>0, <1>8
    <3> QED
      BY <3>2, <3>3 DEF Undelivered
  <2>2. pending' = rest
    BY <1>2 DEF rest
  <2>3. Closes(pending)' => Undelivered'
    BY <2>1, <2>2 DEF Closes
  <2> QED
    BY <1>0, <2>2, <2>3 DEF PendingInv, rest
<1>11. TypeOK'
  <2>1. pending' \in Seq(Unit)
    BY <1>2, <1>4 DEF rest
  <2> QED
    BY <1>0, <1>9, <2>1 DEF IInv, TypeOK
<1> QED
  BY <1>9, <1>10, <1>11 DEF IInv

\* The rest of the line is of the newest payload, and closes its object or is the newline.
LEMMA SendRestInv == IInv /\ SendRest => IInv'
<1> SUFFICES ASSUME IInv, SendRest PROVE IInv'
  OBVIOUS
<1>0. /\ pending' = << >> /\ file' = file \o pending /\ PendingInv /\ sent \in Nat
      /\ UNCHANGED <<offset, sent, returned, crashes, removals, restarts>>
  BY BoundsAssumption DEF IInv, TypeOK, SendRest
<1>1. PICK size \in 2 .. MaxLineSize : \E k \in 1 .. size :
        sent \in 1 .. MaxSends /\ pending = Rest(sent, size, k)
  BY <1>0 DEF PendingInv
<1>2. PICK k \in 1 .. size :
        sent \in 1 .. MaxSends /\ pending = Rest(sent, size, k)
  BY <1>1
<1>3. /\ pending \in Seq(Unit) /\ Len(pending) \in Nat
      /\ \A m \in 1 .. Len(pending) : pending[m].id = sent /\ (EndsObject(pending[m]) <=> m = Len(pending) - 1)
  <2> DEFINE rest == Rest(sent, size, k)
  <2> HIDE DEF Unit
  <2>1. /\ rest \in Seq(Unit) /\ Len(rest) = size - k
        /\ \A m \in 1 .. size - k : rest[m].id = sent /\ (EndsObject(rest[m]) <=> m = size - k - 1)
    <3>1. sent \in 1 .. MaxSends
      BY <1>2
    <3>2. rest \in Seq(Unit) /\ Len(rest) = size - k
      BY <3>1, RestUnits
    <3>3. MaxSends \in Nat /\ MaxLineSize \in Nat /\ size \in Nat /\ k \in Nat
      BY BoundsAssumption
    <3>4. \A m \in 1 .. size - k : rest[m].id = sent /\ (EndsObject(rest[m]) <=> m = size - k - 1)
      BY <3>1, <3>3, RestFacts
    <3> QED
      BY <3>2, <3>4
  <2> HIDE DEF rest
  <2> QED
    BY <1>2, <2>1 DEF rest
<1>4. \A m, l \in 1 .. Len(pending) : m < l => ~(EndsObject(pending[m]) /\ EndsObject(pending[l]))
  BY <1>3
<1>5. file' \in Seq(Unit) /\ FileInv' /\ \A c \in Consumers : ConsumerInv(c)'
  <2>1. sent' = sent /\ sent' \in 0 .. MaxSends /\ sent <= sent' /\ UNCHANGED <<offset, returned, removals>>
    BY <1>0 DEF IInv, TypeOK
  <2>2. ASSUME Closes(pending)
        PROVE  /\ \A j \in 1 .. Len(file) : EndsObject(file[j]) => file[j].id < sent'
               /\ \A c \in Consumers : \A i \in DOMAIN returned[c] : returned[c][i] < sent'
    BY <1>0, <2>1, <2>2 DEF PendingInv, Undelivered
  <2>4. \A m \in 1 .. Len(pending) : pending[m].id = sent'
    BY <1>3, <2>1
  <2> HIDE DEF Unit
  <2> QED
    BY <1>0, <1>3, <1>4, <2>1, <2>2, <2>4, FileGrows
<1> QED
  BY <1>0, <1>5 DEF IInv, TypeOK

\* A producer that is killed leaves the file as it is.
LEMMA ProducerCrashInv == IInv /\ ProducerCrash => IInv'
<1> SUFFICES ASSUME IInv, ProducerCrash PROVE IInv'
  OBVIOUS
<1>0. /\ pending' = << >> /\ crashes' \in 0 .. MaxCrashes
      /\ UNCHANGED <<file, offset, sent, returned, removals, restarts>>
  BY BoundsAssumption DEF IInv, TypeOK, ProducerCrash
<1>1. TypeOK'
  BY <1>0 DEF IInv, TypeOK
<1>2. FileInv'
  BY <1>0 DEF IInv, FileInv
<1>3. ASSUME NEW c \in Consumers PROVE ConsumerInv(c)'
  BY <1>0 DEF IInv, ConsumerInv
<1> QED
  BY <1>0, <1>1, <1>2, <1>3 DEF IInv

\* A poll adds newer payloads to what a consumer has, and leaves it with all of the file read.
LEMMA PollInv == ASSUME IInv, NEW c \in Consumers, Poll(c) PROVE IInv'
<1> DEFINE s == PayloadsOf(Unread(c))
           r == returned[c]
<1>0. /\ returned' = [returned EXCEPT ![c] = r \o s]
      /\ offset' = [offset EXCEPT ![c] = OffsetAfter(c)]
      /\ UNCHANGED <<file, pending, sent, crashes, removals, restarts>>
  BY DEF Poll
<1>1. /\ s \in Seq(1 .. MaxSends) /\ Ascending(s)
      /\ \A i \in DOMAIN s : \E k \in 1 .. Len(file) :
           k > offset[c] /\ EndsObject(file[k]) /\ s[i] = file[k].id
  BY PolledFacts
<1>2. /\ r \in Seq(1 .. MaxSends) /\ ConsumerInv(c) /\ returned \in [Consumers -> Seq(1 .. MaxSends)]
      /\ offset \in [Consumers -> Nat] /\ file \in Seq(Unit) /\ Len(file) \in Nat /\ MaxSends \in Nat
      /\ sent \in Nat
  BY BoundsAssumption DEF IInv, TypeOK
<1> HIDE DEF s
<1>3. /\ returned'[c] = r \o s /\ \A d \in Consumers \ {c} : returned'[d] = returned[d]
      /\ offset'[c] = OffsetAfter(c) /\ \A d \in Consumers \ {c} : offset'[d] = offset[d]
  BY <1>0, <1>2
<1>4. /\ r \o s \in Seq(1 .. MaxSends) /\ Len(r) \in Nat /\ Len(s) \in Nat
      /\ DOMAIN r = 1 .. Len(r) /\ DOMAIN s = 1 .. Len(s)
      /\ DOMAIN (r \o s) = 1 .. Len(r) + Len(s)
      /\ \A i \in 1 .. Len(r) : (r \o s)[i] = r[i]
      /\ \A i \in 1 .. Len(s) : (r \o s)[Len(r) + i] = s[i]
  <2> HIDE DEF r
  <2> QED
    BY <1>1, <1>2, ConcatProperties
<1> HIDE DEF r
<1>5. ASSUME NEW i \in 1 .. Len(r) + Len(s)
      PROVE  \/ i \in DOMAIN r /\ (r \o s)[i] = r[i]
             \/ ~ (i <= Len(r)) /\ i - Len(r) \in DOMAIN s /\ (r \o s)[i] = s[i - Len(r)]
  <2>1. i \in 1 .. Len(r) \/ (~ (i <= Len(r)) /\ i - Len(r) \in 1 .. Len(s) /\ Len(r) + (i - Len(r)) = i)
    BY <1>4
  <2> QED
    BY <1>4, <2>1
<1>6. \A i \in DOMAIN s : s[i] \in Nat /\ \A j \in DOMAIN r : r[j] < s[i]
  <2> TAKE i \in DOMAIN s
  <2>1. PICK k \in 1 .. Len(file) : k > offset[c] /\ EndsObject(file[k]) /\ s[i] = file[k].id
    BY <1>1
  <2>2. \A j \in DOMAIN r : r[j] < file[k].id
    BY <1>2, <2>1 DEF ConsumerInv, r
  <2> QED
    BY <1>1, <1>2, <2>1, <2>2
<1>7. Ascending(r \o s)
  <2>1. ASSUME NEW i \in 1 .. Len(r) + Len(s), NEW j \in 1 .. Len(r) + Len(s), i < j
        PROVE  (r \o s)[i] < (r \o s)[j]
    <3>1. CASE j \in DOMAIN r
      <4>1. i \in DOMAIN r
        BY <1>4, <2>1, <3>1
      <4>2. Ascending(r)
        BY <1>2 DEF ConsumerInv, r
      <4> QED
        BY <1>4, <2>1, <3>1, <4>1, <4>2 DEF Ascending
    <3>2. CASE j \notin DOMAIN r /\ i \in DOMAIN r
      <4>1. j - Len(r) \in DOMAIN s /\ (r \o s)[j] = s[j - Len(r)] /\ (r \o s)[i] = r[i]
        BY <1>4, <1>5, <3>2
      <4> QED
        BY <1>6, <3>2, <4>1
    <3>3. CASE j \notin DOMAIN r /\ i \notin DOMAIN r
      <4>1. /\ j - Len(r) \in DOMAIN s /\ (r \o s)[j] = s[j - Len(r)]
            /\ i - Len(r) \in DOMAIN s /\ (r \o s)[i] = s[i - Len(r)]
        BY <1>5, <3>3
      <4>2. i - Len(r) < j - Len(r)
        BY <1>4, <2>1
      <4> QED
        BY <1>1, <4>1, <4>2 DEF Ascending
    <3> QED
      BY <3>1, <3>2, <3>3
  <2> QED
    BY <1>4, <2>1 DEF Ascending
<1>8. \A i \in 1 .. Len(r) + Len(s) : (r \o s)[i] <= sent
  <2>1. \A i \in DOMAIN r : r[i] <= sent
    BY <1>2 DEF ConsumerInv, r
  <2>2. \A i \in DOMAIN s : s[i] <= sent
    BY <1>1 DEF IInv, FileInv
  <2> QED
    BY <1>5, <2>1, <2>2
<1>9. /\ OffsetAfter(c) \in Nat /\ Len(file) <= OffsetAfter(c)
      /\ removals = 0 => OffsetAfter(c) <= Len(file)
  BY <1>2 DEF OffsetAfter, ConsumerInv
<1>10. ConsumerInv(c)'
  <2>1. \A k \in 1 .. Len(file) : ~ (k > OffsetAfter(c))
    BY <1>2, <1>9
  <2>2. Ascending(returned'[c]) /\ \A i \in DOMAIN returned'[c] : returned'[c][i] <= sent'
    BY <1>0, <1>3, <1>4, <1>7, <1>8
  <2>3. \A k \in 1 .. Len(file') : ~ (k > offset'[c])
    BY <1>0, <1>3, <2>1
  <2>4. removals' = 0 => offset'[c] <= Len(file')
    BY <1>0, <1>3, <1>9
  <2> QED
    BY <2>2, <2>3, <2>4 DEF ConsumerInv
<1>11. ASSUME NEW d \in Consumers, d # c PROVE ConsumerInv(d)'
  <2>1. ConsumerInv(d) /\ returned'[d] = returned[d] /\ offset'[d] = offset[d]
    BY <1>3, <1>11 DEF IInv
  <2> QED
    BY <1>0, <2>1 DEF ConsumerInv
<1>12. TypeOK'
  <2>1. returned' \in [Consumers -> Seq(1 .. MaxSends)] /\ offset' \in [Consumers -> Nat]
    BY <1>0, <1>2, <1>4, <1>9
  <2> QED
    BY <1>0, <2>1 DEF IInv, TypeOK
<1>13. FileInv'
  BY <1>0 DEF IInv, FileInv
<1>14. ASSUME pending' # << >> PROVE PendingInv'
  <2>1. PendingInv
    BY <1>0, <1>14 DEF IInv
  <2>2. ASSUME Closes(pending) PROVE Undelivered'
    <3>1. Undelivered
      BY <2>1, <2>2 DEF PendingInv
    <3>2. \A i \in DOMAIN s : s[i] < sent
      BY <1>1, <3>1 DEF Undelivered
    <3>3. \A i \in DOMAIN r : r[i] < sent
      BY <3>1 DEF Undelivered, r
    <3>4. \A i \in DOMAIN returned'[c] : returned'[c][i] < sent
      BY <1>3, <1>4, <1>5, <3>2, <3>3
    <3>5. ASSUME NEW d \in Consumers, NEW i \in DOMAIN returned'[d] PROVE returned'[d][i] < sent
      <4>1. CASE d = c
        BY <3>4, <3>5, <4>1
      <4>2. CASE d # c
        BY <1>3, <3>1, <3>5, <4>2 DEF Undelivered
      <4> QED
        BY <4>1, <4>2
    <3> QED
      BY <1>0, <3>1, <3>5 DEF Undelivered
  <2>3. Closes(pending)' => Undelivered'
    BY <1>0, <2>2 DEF Closes
  <2> QED
    BY <1>0, <2>1, <2>3 DEF PendingInv
<1> QED
  BY <1>10, <1>11, <1>12, <1>13, <1>14 DEF IInv

\* When the file is removed, the consumers keep what they have and their offsets.
LEMMA RemoveFileInv == IInv /\ RemoveFile => IInv'
<1> SUFFICES ASSUME IInv, RemoveFile PROVE IInv'
  OBVIOUS
<1>0. /\ pending' = << >> /\ file' = << >> /\ removals' \in 0 .. MaxRemovals /\ removals' # 0
      /\ UNCHANGED <<pending, offset, sent, returned, crashes, restarts>>
  BY BoundsAssumption DEF IInv, TypeOK, RemoveFile
<1>1. TypeOK'
  BY <1>0 DEF IInv, TypeOK
<1>2. FileInv'
  BY <1>0 DEF FileInv
<1>3. ASSUME NEW c \in Consumers PROVE ConsumerInv(c)'
  BY <1>0 DEF IInv, ConsumerInv
<1> QED
  BY <1>0, <1>1, <1>2, <1>3 DEF IInv

\* A new consumer has nothing and has read nothing.
LEMMA ConsumerRestartInv == ASSUME IInv, NEW c \in Consumers, ConsumerRestart(c) PROVE IInv'
<1>0. /\ offset' = [offset EXCEPT ![c] = 0] /\ returned' = [returned EXCEPT ![c] = << >>]
      /\ restarts' \in 0 .. MaxRestarts
      /\ UNCHANGED <<file, pending, sent, crashes, removals>>
  BY BoundsAssumption DEF IInv, TypeOK, ConsumerRestart
<1>1. /\ offset \in [Consumers -> Nat] /\ returned \in [Consumers -> Seq(1 .. MaxSends)]
      /\ file \in Seq(Unit)
  BY DEF IInv, TypeOK
<1>2. ASSUME NEW d \in Consumers
      PROVE  \/ offset'[d] = 0 /\ returned'[d] = << >>
             \/ offset'[d] = offset[d] /\ returned'[d] = returned[d]
  BY <1>0, <1>1
<1>3. TypeOK'
  BY <1>0, <1>1 DEF IInv, TypeOK
<1>4. FileInv'
  BY <1>0 DEF IInv, FileInv
<1>5. ASSUME NEW d \in Consumers PROVE ConsumerInv(d)'
  <2>1. CASE offset'[d] = 0 /\ returned'[d] = << >>
    <3>1. DOMAIN returned'[d] = {} /\ 0 <= Len(file')
      BY <1>0, <1>1, <2>1
    <3> QED
      BY <2>1, <3>1 DEF ConsumerInv, Ascending
  <2>2. CASE offset'[d] = offset[d] /\ returned'[d] = returned[d]
    BY <1>0, <2>2 DEF IInv, ConsumerInv
  <2> QED
    BY <1>2, <2>1, <2>2
<1>6. ASSUME pending' # << >> PROVE PendingInv'
  <2>1. PendingInv
    BY <1>0, <1>6 DEF IInv
  <2>2. ASSUME Closes(pending) PROVE Undelivered'
    <3>1. Undelivered
      BY <2>1, <2>2 DEF PendingInv
    <3>2. \A d \in Consumers : \A i \in DOMAIN returned'[d] : returned'[d][i] < sent
      BY <1>2, <3>1 DEF Undelivered
    <3> QED
      BY <1>0, <3>1, <3>2 DEF Undelivered
  <2>3. Closes(pending)' => Undelivered'
    BY <1>0, <2>2 DEF Closes
  <2> QED
    BY <1>0, <2>1, <2>3 DEF PendingInv
<1> QED
  BY <1>3, <1>4, <1>5, <1>6 DEF IInv

\* Nothing is written, sent or read at first.
LEMMA InitInv == Init => IInv
<1> SUFFICES ASSUME Init PROVE IInv
  OBVIOUS
<1>1. TypeOK
  BY BoundsAssumption DEF Init, TypeOK
<1>2. FileInv
  BY DEF Init, FileInv
<1>3. ASSUME NEW c \in Consumers PROVE ConsumerInv(c)
  BY DEF Init, ConsumerInv, Ascending
<1> QED
  BY <1>1, <1>2, <1>3 DEF Init, IInv

\* Every step keeps the invariant.
LEMMA NextInv == IInv /\ [Next]_vars => IInv'
<1> SUFFICES ASSUME IInv, [Next]_vars PROVE IInv'
  OBVIOUS
<1>1. ASSUME UNCHANGED vars PROVE IInv'
  <2>1. PendingInv => PendingInv'
    BY <1>1 DEF vars, PendingInv, Closes, Undelivered
  <2>2. ASSUME NEW c \in Consumers PROVE ConsumerInv(c)'
    BY <1>1 DEF vars, IInv, ConsumerInv
  <2> QED
    BY <1>1, <2>1, <2>2 DEF vars, IInv, TypeOK, FileInv
<1>2. CASE Send
  BY <1>2, SendInv
<1>3. CASE SendRest
  BY <1>3, SendRestInv
<1>4. CASE ProducerCrash
  BY <1>4, ProducerCrashInv
<1>5. CASE RemoveFile
  BY <1>5, RemoveFileInv
<1>6. CASE \E c \in Consumers : Poll(c) \/ PollRaises(c) \/ ConsumerRestart(c)
  <2>1. PICK c \in Consumers : Poll(c) \/ PollRaises(c) \/ ConsumerRestart(c)
    BY <1>6
  <2>2. CASE Poll(c)
    BY <2>2, PollInv
  <2>3. CASE PollRaises(c)
    BY <1>1, <2>3 DEF PollRaises
  <2>4. CASE ConsumerRestart(c)
    BY <2>4, ConsumerRestartInv
  <2> QED
    BY <2>1, <2>2, <2>3, <2>4
<1> QED
  BY <1>1, <1>2, <1>3, <1>4, <1>5, <1>6 DEF Next

-----------------------------------------------------------------------------
(* The results.                                                            *)

\* The inductive invariant of the file transport holds in every reachable state.
THEOREM Invariance == Spec => []IInv
<1> QED
  BY InitInv, NextInv, PTL DEF Spec

\* Every variable has its type.
THEOREM TypeCorrect == Spec => []TypeOK
<1>1. IInv => TypeOK
  BY DEF IInv
<1> QED
  BY <1>1, Invariance, PTL

\* However the lines are torn, and whenever the file is removed under it, poll() returns
\* no payload twice to a consumer and none out of order.
THEOREM PayloadsReturnedOnceInOrder == Spec => []ReturnedOnceInOrder
<1>1. IInv => ReturnedOnceInOrder
  BY DEF IInv, ConsumerInv, Ascending, ReturnedOnceInOrder
<1> QED
  BY <1>1, Invariance, PTL

-----------------------------------------------------------------------------
(* The refinement: while the file is not removed, every step is a step of  *)
(* a topic that loses nothing, or changes nothing that a topic has.        *)

\* A sequence is its first n elements and the others.
LEMMA CutSequence ==
  ASSUME NEW S, NEW s \in Seq(S), NEW n \in 0 .. Len(s)
  PROVE  /\ SubSeq(s, 1, n) \in Seq(S) /\ SubSeq(s, n + 1, Len(s)) \in Seq(S)
         /\ s = SubSeq(s, 1, n) \o SubSeq(s, n + 1, Len(s))
<1>1. Len(s) \in Nat /\ n \in Nat /\ \A i \in 1 .. Len(s) : s[i] \in S
  OBVIOUS
<1>2. (\A i \in 1 .. n : s[i] \in S) /\ (\A i \in n + 1 .. Len(s) : s[i] \in S)
  BY <1>1
<1>3. SubSeq(s, 1, n) \in Seq(S)
  BY <1>1, <1>2, SubSeqProperties
<1>4. SubSeq(s, n + 1, Len(s)) \in Seq(S)
  BY <1>1, <1>2, SubSeqProperties
<1>5. 1 \in 1 .. Len(s) + 1 /\ n \in 1 - 1 .. Len(s) /\ Len(s) \in n .. Len(s)
  BY <1>1
<1>6. SubSeq(s, 1, n) \o SubSeq(s, n + 1, Len(s)) = SubSeq(s, 1, Len(s))
  BY <1>5, ConcatAdjacentSubSeq
<1> QED
  BY <1>3, <1>4, <1>6, SubSeqFull

\* What follows p in p \o q is q.
LEMMA EndOfConcat ==
  ASSUME NEW S, NEW p \in Seq(S), NEW q \in Seq(S)
  PROVE  SubSeq(p \o q, Len(p) + 1, Len(p \o q)) = q
<1>1. Len(p) \in Nat /\ Len(q) \in Nat /\ Len(p \o q) = Len(p) + Len(q)
  BY ConcatProperties
<1>2. CASE Len(q) = 0
  <2>1. q = << >>
    BY <1>2
  <2> QED
    BY <1>1, <1>2, <2>1, SubSeqEmpty
<1>3. CASE Len(q) # 0
  <2>1. /\ Len(p) + 1 \in Len(p) + 1 .. Len(p) + Len(q)
        /\ Len(p) + Len(q) \in Len(p) + 1 .. Len(p) + Len(q)
        /\ Len(p) + 1 - Len(p) = 1 /\ Len(p) + Len(q) - Len(p) = Len(q)
    BY <1>1, <1>3
  <2>2. SubSeq(p \o q, Len(p) + 1, Len(p) + Len(q)) = SubSeq(q, 1, Len(q))
    BY <2>1, SubSeqOfConcat2
  <2> QED
    BY <1>1, <2>2, SubSeqFull
<1> QED
  BY <1>2, <1>3

\* The first n elements stay what they are when others follow.
LEMMA BeginOfConcat ==
  ASSUME NEW S, NEW p \in Seq(S), NEW q \in Seq(S), NEW n \in 0 .. Len(p)
  PROVE  SubSeq(p \o q, 1, n) = SubSeq(p, 1, n)
<1>1. Len(p) \in Nat
  OBVIOUS
<1>2. CASE n = 0
  BY <1>2, SubSeqEmpty
<1>3. CASE n # 0
  <2>1. 1 \in 1 .. Len(p) /\ n \in 1 .. Len(p)
    BY <1>1, <1>3
  <2> QED
    BY <2>1, SubSeqOfConcat1
<1> QED
  BY <1>2, <1>3

\* How many payloads a consumer has read, as FileQueue!T has it
ReadOf(c) == Len(PayloadsOf(SubSeq(file, 1, offset[c])))

\* PayloadsOf returns payloads.
LEMMA PayloadsType ==
  ASSUME NEW text \in Seq(Unit)
  PROVE  PayloadsOf(text) \in Seq(1 .. MaxSends)
<1>1. Len(text) \in 0 .. Len(text)
  OBVIOUS
<1> HIDE DEF Unit
<1> QED
  BY <1>1, PayloadsFacts DEF PayloadsOf

\* The empty text has none.
LEMMA PayloadsOfNothing == PayloadsOf(<< >>) = << >> /\ Len(PayloadsOf(<< >>)) = 0
<1>1. Len(<< >>) = 0
  OBVIOUS
<1> QED
  BY <1>1, PayloadsStep DEF PayloadsOf

\* A consumer's offset is in the file, which is what it has read and what it has not.
LEMMA ReadAndUnread ==
  ASSUME IInv, removals = 0, NEW c \in Consumers
  PROVE  /\ offset[c] \in 0 .. Len(file)
         /\ SubSeq(file, 1, offset[c]) \in Seq(Unit) /\ Unread(c) \in Seq(Unit)
         /\ PayloadsOf(file) = PayloadsOf(SubSeq(file, 1, offset[c])) \o PayloadsOf(Unread(c))
<1>1. file \in Seq(Unit) /\ Len(file) \in Nat /\ offset[c] \in Nat /\ offset[c] <= Len(file)
  BY DEF IInv, TypeOK, ConsumerInv
<1>2. offset[c] \in 0 .. Len(file)
  BY <1>1
<1> HIDE DEF Unit
<1> DEFINE n == offset[c]
<1>3. /\ SubSeq(file, 1, n) \in Seq(Unit) /\ SubSeq(file, n + 1, Len(file)) \in Seq(Unit)
      /\ file = SubSeq(file, 1, n) \o SubSeq(file, n + 1, Len(file))
  <2> HIDE DEF n
  <2>1. n \in 0 .. Len(file)
    BY <1>2 DEF n
  <2> QED
    BY <1>1, <2>1, CutSequence
<1>4. Unread(c) = SubSeq(file, n + 1, Len(file))
  BY DEF Unread
<1>5. PayloadsOf(SubSeq(file, 1, n) \o Unread(c)) = PayloadsOf(SubSeq(file, 1, n)) \o PayloadsOf(Unread(c))
  BY <1>3, <1>4, PayloadsOfBoth
<1> QED
  BY <1>2, <1>3, <1>4, <1>5

\* What is appended is published when it closes an object, and nobody has read it.
LEMMA AppendPublishes ==
  ASSUME IInv, removals = 0, NEW new \in Seq(Unit), file' = file \o new, UNCHANGED <<offset, returned>>,
         NEW n \in 1 .. MaxSends, PayloadsOf(new) = << >> \/ PayloadsOf(new) = <<n>>
  PROVE  [T!Next]_(T!vars)
<1>1. file \in Seq(Unit)
  BY DEF IInv, TypeOK
<1> HIDE DEF Unit
<1>2. PayloadsOf(file') = PayloadsOf(file) \o PayloadsOf(new)
  BY <1>1, PayloadsOfBoth
<1>3. PayloadsOf(file) \in Seq(1 .. MaxSends)
  BY <1>1, PayloadsType
<1>4. [c \in Consumers |-> ReadOf(c)]' = [c \in Consumers |-> ReadOf(c)]
  <2>1. ASSUME NEW c \in Consumers PROVE SubSeq(file', 1, offset'[c]) = SubSeq(file, 1, offset[c])
    <3>1. offset[c] \in 0 .. Len(file) /\ offset'[c] = offset[c]
      BY ReadAndUnread
    <3> QED
      BY <1>1, <3>1, BeginOfConcat
  <2>2. \A c \in Consumers : ReadOf(c)' = ReadOf(c)
    BY <2>1 DEF ReadOf
  <2> QED
    BY <2>2
<1>5. CASE PayloadsOf(new) = << >>
  <2>1. PayloadsOf(file') = PayloadsOf(file)
    BY <1>2, <1>3, <1>5, ConcatEmptySeq
  <2>2. UNCHANGED T!vars
    BY <1>4, <2>1 DEF T!vars, ReadOf
  <2> QED
    BY <2>2
<1>6. CASE PayloadsOf(new) = <<n>>
  <2>1. PayloadsOf(file') = Append(PayloadsOf(file), n)
    BY <1>2, <1>3, <1>6, AppendIsConcat
  <2>2. T!Publish(n)
    BY <1>4, <2>1 DEF T!Publish, ReadOf
  <2> QED
    BY <2>2 DEF T!Next
<1> QED
  BY <1>5, <1>6

\* A poll returns what is published after what was read.
LEMMA PollIsPoll ==
  ASSUME IInv, removals = 0, NEW c \in Consumers, Poll(c)
  PROVE  T!Poll(c)
<1>0. /\ returned' = [returned EXCEPT ![c] = returned[c] \o PayloadsOf(Unread(c))]
      /\ offset' = [offset EXCEPT ![c] = OffsetAfter(c)] /\ file' = file
  BY DEF Poll
<1>1. /\ file \in Seq(Unit) /\ Len(file) \in Nat /\ offset \in [Consumers -> Nat]
      /\ offset[c] \in 0 .. Len(file)
      /\ SubSeq(file, 1, offset[c]) \in Seq(Unit) /\ Unread(c) \in Seq(Unit)
      /\ PayloadsOf(file) = PayloadsOf(SubSeq(file, 1, offset[c])) \o PayloadsOf(Unread(c))
  <2>1. file \in Seq(Unit) /\ Len(file) \in Nat /\ offset \in [Consumers -> Nat]
    BY DEF IInv, TypeOK
  <2> HIDE DEF Unit
  <2> QED
    BY <2>1, ReadAndUnread
<1> HIDE DEF Unit
<1> DEFINE before == PayloadsOf(SubSeq(file, 1, offset[c]))
           after  == PayloadsOf(Unread(c))
<1>2. before \in Seq(1 .. MaxSends) /\ after \in Seq(1 .. MaxSends) /\ PayloadsOf(file) = before \o after
  BY <1>1, PayloadsType
<1>3. ReadOf(c) = Len(before)
  BY DEF ReadOf
<1> HIDE DEF before, after
<1>4. after = SubSeq(PayloadsOf(file), ReadOf(c) + 1, Len(PayloadsOf(file)))
  BY <1>2, <1>3, EndOfConcat
<1>5. ReadOf(c)' = Len(PayloadsOf(file)) /\ \A d \in Consumers \ {c} : ReadOf(d)' = ReadOf(d)
  <2>1. offset'[c] = Len(file) /\ \A d \in Consumers \ {c} : offset'[d] = offset[d]
    <3>1. OffsetAfter(c) = Len(file)
      BY <1>1 DEF OffsetAfter
    <3> QED
      BY <1>0, <1>1, <3>1
  <2>2. SubSeq(file, 1, Len(file)) = file
    BY <1>1, SubSeqFull
  <2> QED
    BY <1>0, <2>1, <2>2 DEF ReadOf
<1>6. [d \in Consumers |-> ReadOf(d)]' = [[d \in Consumers |-> ReadOf(d)] EXCEPT ![c] = Len(PayloadsOf(file))]
  <2> DEFINE r == [d \in Consumers |-> ReadOf(d)]
             n == Len(PayloadsOf(file))
  <2>1. r' = [d \in Consumers |-> ReadOf(d)']
    OBVIOUS
  <2>2. \A d \in Consumers : r'[d] = IF d = c THEN n ELSE r[d]
    BY <1>5
  <2>3. r = [d \in Consumers |-> r[d]] /\ r' = [d \in Consumers |-> r'[d]]
    BY <2>1
  <2> HIDE DEF r, n
  <2> QED
    BY <2>2, <2>3 DEF r, n
<1>7. returned' = [returned EXCEPT ![c] = returned[c] \o SubSeq(PayloadsOf(file), ReadOf(c) + 1, Len(PayloadsOf(file)))]
  BY <1>0, <1>4 DEF after
<1> QED
  BY <1>0, <1>6, <1>7 DEF T!Poll, ReadOf

\* A new consumer has read nothing.
LEMMA RestartIsRestart ==
  ASSUME IInv, NEW c \in Consumers, ConsumerRestart(c)
  PROVE  T!Restart(c)
<1>0. /\ offset' = [offset EXCEPT ![c] = 0] /\ returned' = [returned EXCEPT ![c] = << >>] /\ file' = file
      /\ offset \in [Consumers -> Nat]
  BY DEF IInv, TypeOK, ConsumerRestart
<1>1. ReadOf(c)' = 0 /\ \A d \in Consumers \ {c} : ReadOf(d)' = ReadOf(d)
  <2>1. offset'[c] = 0 /\ \A d \in Consumers \ {c} : offset'[d] = offset[d]
    BY <1>0
  <2>2. SubSeq(file, 1, 0) = << >>
    BY SubSeqEmpty
  <2>3. ReadOf(c)' = 0
    <3>1. ReadOf(c)' = Len(PayloadsOf(SubSeq(file', 1, offset'[c])))
      BY DEF ReadOf
    <3> QED
      BY <1>0, <2>1, <2>2, <3>1, PayloadsOfNothing
  <2>4. \A d \in Consumers \ {c} : ReadOf(d)' = ReadOf(d)
    BY <1>0, <2>1 DEF ReadOf
  <2> QED
    BY <2>3, <2>4
<1>2. [d \in Consumers |-> ReadOf(d)]' = [[d \in Consumers |-> ReadOf(d)] EXCEPT ![c] = 0]
  BY <1>1
<1> QED
  BY <1>0, <1>2 DEF T!Restart, ReadOf

\* One step, while the file is not removed.
LEMMA TopicStep ==
  ASSUME IInv, [Next]_vars, removals' = 0
  PROVE  [T!Next]_(T!vars)
<1>0. removals = 0 /\ ~RemoveFile /\ MaxSends \in Nat /\ MaxLineSize \in Nat /\ sent \in Nat
  BY BoundsAssumption DEF IInv, TypeOK, Next, vars, Send, SendRest, ProducerCrash, RemoveFile, Poll, PollRaises,
     ConsumerRestart
<1>1. ASSUME UNCHANGED <<file, offset, returned>> PROVE [T!Next]_(T!vars)
  BY <1>1 DEF T!vars
<1>2. CASE Send
  <2>0. sent' = sent + 1 /\ sent' \in 1 .. MaxSends /\ UNCHANGED <<offset, returned>>
    BY <1>0, <1>2 DEF Send
  <2>1. PICK size \in 2 .. MaxLineSize : \E k \in 1 .. size : file' = file \o Begin(sent', size, k)
    BY <1>2, <2>0 DEF Send, Begin
  <2>2. PICK k \in 1 .. size : file' = file \o Begin(sent', size, k)
    BY <2>1
  <2> HIDE DEF Unit
  <2>3. Begin(sent', size, k) \in Seq(Unit)
    BY <1>0, <2>0, BeginFacts
  <2>4. PayloadsOf(Begin(sent', size, k)) = << >> \/ PayloadsOf(Begin(sent', size, k)) = <<sent'>>
    BY <1>0, <2>0, BeginFacts
  <2> DEFINE new == Begin(sent', size, k)
             n == sent'
  <2> HIDE DEF new, n
  <2>5. /\ new \in Seq(Unit) /\ file' = file \o new /\ n \in 1 .. MaxSends
        /\ PayloadsOf(new) = << >> \/ PayloadsOf(new) = <<n>>
    BY <2>0, <2>2, <2>3, <2>4 DEF new, n
  <2> QED
    BY <1>0, <2>0, <2>5, AppendPublishes
<1>3. CASE SendRest
  <2>0. PendingInv /\ file' = file \o pending /\ UNCHANGED <<offset, returned>> /\ pending \in Seq(Unit)
    BY <1>3 DEF SendRest, IInv, TypeOK
  <2>1. PICK size \in 2 .. MaxLineSize : \E k \in 1 .. size :
          sent \in 1 .. MaxSends /\ pending = Rest(sent, size, k)
    BY <2>0 DEF PendingInv
  <2>2. PICK k \in 1 .. size : sent \in 1 .. MaxSends /\ pending = Rest(sent, size, k)
    BY <2>1
  <2> HIDE DEF Unit
  <2>3. PayloadsOf(Rest(sent, size, k)) = << >> \/ PayloadsOf(Rest(sent, size, k)) = <<sent>>
    BY <1>0, <2>2, RestFacts
  <2> QED
    BY <1>0, <2>0, <2>2, <2>3, AppendPublishes
<1>4. CASE ProducerCrash
  BY <1>1, <1>4 DEF ProducerCrash
<1>5. CASE \E c \in Consumers : Poll(c) \/ PollRaises(c) \/ ConsumerRestart(c)
  <2>1. PICK c \in Consumers : Poll(c) \/ PollRaises(c) \/ ConsumerRestart(c)
    BY <1>5
  <2>2. CASE Poll(c)
    <3>1. T!Poll(c)
      BY <1>0, <2>2, PollIsPoll
    <3> QED
      BY <3>1 DEF T!Next
  <2>3. CASE PollRaises(c)
    BY <1>1, <2>3 DEF PollRaises, vars
  <2>4. CASE ConsumerRestart(c)
    <3>1. T!Restart(c)
      BY <2>4, RestartIsRestart
    <3> QED
      BY <3>1 DEF T!Next
  <2> QED
    BY <2>1, <2>2, <2>3, <2>4
<1>6. CASE UNCHANGED vars
  BY <1>1, <1>6 DEF vars
<1> QED
  BY <1>0, <1>2, <1>3, <1>4, <1>5, <1>6 DEF Next

\* The promise of the Producer and Consumer protocols: for as long as the file is not
\* removed, what is published is what poll() returns to every consumer, each payload
\* once and in order, whatever is torn and whoever crashes.
THEOREM FileQueueIsATopic == Spec => ImplementsTopicUntilRemoved
<1>1. Init => T!Init
  <2> SUFFICES ASSUME Init PROVE T!Init
    OBVIOUS
  <2>1. \A c \in Consumers : SubSeq(file, 1, offset[c]) = << >>
    BY SubSeqEmpty DEF Init
  <2>2. ASSUME NEW c \in Consumers PROVE Len(PayloadsOf(SubSeq(file, 1, offset[c]))) = 0
    <3>1. SubSeq(file, 1, offset[c]) = << >>
      BY <2>1
    <3> QED
      BY <3>1, PayloadsOfNothing
  <2> QED
    BY <2>2, PayloadsOfNothing DEF Init, T!Init
<1>2. IInv /\ [Next]_vars => [removals' = 0 => [T!Next]_(T!vars)]_vars
  BY TopicStep
<1> QED
  BY <1>1, <1>2, Invariance, PTL DEF Spec, ImplementsTopicUntilRemoved
=============================================================================
