---------------------------- MODULE PartsProofs ----------------------------
(***************************************************************************)
(* The safety properties of the smaller parts, each for its own            *)
(* specification and for every value of its constants.  The parts are      *)
(* those MCParts brings together.                                          *)
(***************************************************************************)
EXTENDS MCParts, SequenceTheorems, FiniteSetTheorems, WellFoundedInduction, TLAPS

-----------------------------------------------------------------------------
(* LabStream: the results file of the consumer.                            *)

\* The rows are the events from the offset the cell started at, without a gap.
\* That offset is the group's until the first event is asked for; from then on
\* at most what has been written is committed.
StreamInv ==
  /\ joined \in Nat /\ committed \in Nat /\ at \in Nat
  /\ cell \in {"down", "joining", "reading", "interrupted", "finished"}
  /\ rows \in Seq(Nat) /\ \A i \in 1 .. Len(rows) : rows[i] = joined + i
  /\ cell = "joining" => rows = << >> /\ committed = joined
  /\ cell = "reading" => at = joined + Len(rows) + 1
  /\ cell # "down" => committed <= joined + Len(rows)

\* A step of the consumer or of its producer keeps the rows whole.
LEMMA StreamNext == StreamInv /\ [LabNext]_labVars => StreamInv'
<1> SUFFICES ASSUME StreamInv, [LabNext]_labVars PROVE StreamInv'
  OBVIOUS
<1>0. Len(rows) \in Nat
  BY DEF StreamInv
<1>1. ASSUME SendEvent \/ Publish \/ ProducerDies \/ Evict PROVE StreamInv'
  BY <1>1 DEF SendEvent, Publish, ProducerDies, Evict, StreamInv
<1>2. CASE RunCell
  <2>1. rows' = << >> /\ Len(rows') = 0
    BY <1>2 DEF RunCell, Opened
  <2> QED
    BY <1>2, <2>1 DEF RunCell, StreamInv
<1>3. CASE Join
  <2>1. Len(rows) = 0 /\ at' = joined + 1
    BY <1>3 DEF Join, StreamInv
  <2> QED
    BY <1>3, <2>1 DEF Join, StreamInv
<1>4. CASE Classify
  <2>1. at \in Nat /\ rows \in Seq(Nat) /\ at = joined + Len(rows) + 1 /\ rows' = Append(rows, at)
    BY <1>4 DEF Classify, StreamInv
  <2>2. /\ rows' \in Seq(Nat) /\ Len(rows') = Len(rows) + 1
        /\ \A i \in 1 .. Len(rows) : rows'[i] = rows[i]
        /\ rows'[Len(rows) + 1] = at
    BY <2>1, AppendProperties
  <2>3. \A i \in 1 .. Len(rows') : rows'[i] = joined + i
    <3> TAKE i \in 1 .. Len(rows')
    <3>1. CASE i = Len(rows) + 1
      BY <1>0, <2>1, <2>2, <3>1 DEF StreamInv
    <3>2. CASE i # Len(rows) + 1
      <4>1. i \in 1 .. Len(rows)
        BY <1>0, <2>2, <3>2
      <4> QED
        BY <4>1, <2>2 DEF StreamInv
    <3> QED
      BY <3>1, <3>2
  <2> QED
    BY <1>0, <1>4, <2>1, <2>2, <2>3 DEF Classify, StreamInv
<1>5. CASE AutoCommit
  BY <1>0, <1>5 DEF AutoCommit, Consumed, StreamInv
<1>6. CASE FinishCell
  <2>1. committed' \in Nat /\ committed' <= joined + Len(rows)
    BY <1>0, <1>6 DEF FinishCell, Running, Consumed, StreamInv
  <2> QED
    BY <1>6, <2>1 DEF FinishCell, StreamInv
<1>7. CASE InterruptCell
  BY <1>7 DEF InterruptCell, Running, StreamInv
<1>8. CASE KernelDies
  <2>1. PICK k \in 0 .. Len(rows) : rows' = SubSeq(rows, 1, k)
    BY <1>8 DEF KernelDies
  <2>2. /\ rows' \in Seq(Nat) /\ Len(rows') = k
        /\ \A i \in 1 .. k : rows'[i] = rows[i]
    BY <1>0, <2>1 DEF StreamInv
  <2> QED
    BY <1>0, <1>8, <2>1, <2>2 DEF KernelDies, StreamInv
<1>9. CASE UNCHANGED labVars
  BY <1>9 DEF labVars, StreamInv
<1> QED
  BY <1>1, <1>2, <1>3, <1>4, <1>5, <1>6, <1>7, <1>8, <1>9 DEF LabNext

\* However the cell is run again, interrupted or killed, the results have no
\* event twice, none out of order, no gap, and every event that was committed
\* since the cell was started.
THEOREM StreamResults == LabSpec => []ResultsOnceAndWhole
<1>1. LabInit => StreamInv
  BY DEF LabInit, StreamInv
<1>2. StreamInv => ResultsOnceAndWhole
  <2> SUFFICES ASSUME StreamInv PROVE ResultsOnceAndWhole
    OBVIOUS
  <2>0. Len(rows) \in Nat /\ joined \in Nat /\ committed \in Nat
    BY DEF StreamInv
  <2>1. \A i \in 1 .. Len(rows) - 1 : rows[i + 1] = rows[i] + 1
    <3> TAKE i \in 1 .. Len(rows) - 1
    <3>1. i \in 1 .. Len(rows) /\ i + 1 \in 1 .. Len(rows)
      BY <2>0
    <3> QED
      BY <2>0, <3>1 DEF StreamInv
  <2>2. ASSUME cell # "down", NEW e \in joined + 1 .. committed
        PROVE  \E i \in DOMAIN rows : rows[i] = e
    <3>1. committed <= joined + Len(rows)
      BY <2>2 DEF StreamInv
    <3>2. e - joined \in 1 .. Len(rows)
      BY <2>0, <3>1
    <3>3. DOMAIN rows = 1 .. Len(rows) /\ rows[e - joined] = joined + (e - joined)
      BY <3>2 DEF StreamInv
    <3> QED
      BY <2>0, <3>2, <3>3
  <2> QED
    BY <2>1, <2>2 DEF ResultsOnceAndWhole
<1> QED
  BY <1>1, <1>2, StreamNext, PTL DEF LabSpec

-----------------------------------------------------------------------------
(* CharTraining: the weights that are kept.                                *)

\* No loss so far is better than the one of the epoch whose weights are kept in
\* best_state by more than an improvement that does not count.  While there is
\* no such epoch, every loss was NaN.
FitInv ==
  /\ losses \in Seq(Losses \cup {NaN})
  /\ phase = "train" => weights = Len(losses)
  /\ IF best_state = NoState
       THEN best = NoBest /\ \A e \in DOMAIN losses : losses[e] = NaN
       ELSE /\ best_state \in DOMAIN losses /\ losses[best_state] = best /\ best \in Losses
            /\ \A e \in DOMAIN losses : losses[e] # NaN => best <= losses[e] + 1
  /\ phase # "train" /\ best_state # NoState => weights = best_state

\* An epoch leaves the losses before it as they are.
LEMMA EpochEffect ==
  ASSUME FitInv, NEW vl \in Losses \cup {NaN}, Epoch(vl)
  PROVE  /\ Len(losses) \in Nat /\ DOMAIN losses = 1 .. Len(losses)
         /\ losses' \in Seq(Losses \cup {NaN}) /\ Len(losses') = Len(losses) + 1
         /\ DOMAIN losses' = 1 .. Len(losses) + 1
         /\ \A e \in 1 .. Len(losses) : losses'[e] = losses[e]
         /\ losses'[Len(losses) + 1] = vl
         /\ weights' = Len(losses) + 1
         /\ \A e \in DOMAIN losses' : e \in DOMAIN losses \/ e = Len(losses) + 1
<1>1. losses \in Seq(Losses \cup {NaN}) /\ losses' = Append(losses, vl)
  BY DEF FitInv, Epoch
<1>2. weights' = Len(losses) + 1
  BY DEF FitInv, Epoch
<1> QED
  BY <1>1, <1>2, AppendProperties

\* An epoch that improves on the best loss takes its place, and one that does
\* not is no better than it by more than what counts.
LEMMA EpochInv ==
  ASSUME FitInv, NEW vl \in Losses \cup {NaN}, Epoch(vl)
  PROVE  FitInv'
<1> DEFINE n == Len(losses) + 1
<1>0. /\ n \in Nat \ {0} /\ n \in DOMAIN losses' /\ losses'[n] = vl /\ weights' = n
      /\ losses' \in Seq(Losses \cup {NaN}) /\ Len(losses') = n
      /\ \A e \in DOMAIN losses : e \in DOMAIN losses' /\ losses'[e] = losses[e]
      /\ \A e \in DOMAIN losses' : e \in DOMAIN losses \/ e = n
  BY EpochEffect
<1>1. phase = "train" /\ phase' = "train" /\ NoState = -1 /\ NoBest = -1
  BY DEF Epoch, NoState, NoBest
<1>2. \A l \in Losses : l \in Nat /\ l # NaN
  BY LossesAssumption
<1> HIDE DEF n
<1>3. CASE Improves(vl)
  <2>1. vl \in Losses /\ vl \in Nat /\ vl # NaN /\ (best = NoBest \/ vl < best - 1)
    BY <1>2, <1>3 DEF Improves
  <2>2. best' = vl /\ best_state' = n
    BY <1>0, <1>3 DEF Epoch
  <2>3. ASSUME NEW e \in DOMAIN losses', losses'[e] # NaN PROVE vl <= losses'[e] + 1
    <3>1. CASE e = n
      BY <1>0, <2>1, <3>1
    <3>2. CASE e # n
      <4>1. e \in DOMAIN losses /\ losses[e] = losses'[e] /\ losses[e] # NaN
        BY <1>0, <2>3, <3>2
      <4>2. best_state # NoState /\ best \in Losses /\ best <= losses[e] + 1
        BY <4>1 DEF FitInv
      <4>3. losses[e] \in Nat /\ best \in Nat /\ best # NoBest
        BY <1>1, <1>2, <4>1, <4>2 DEF FitInv
      <4> QED
        BY <2>1, <4>1, <4>2, <4>3
    <3> QED
      BY <3>1, <3>2
  <2> QED
    BY <1>0, <1>1, <2>1, <2>2, <2>3 DEF FitInv
<1>4. CASE ~Improves(vl)
  <2>1. best' = best /\ best_state' = best_state
    BY <1>4 DEF Epoch
  <2>2. CASE best_state = NoState
    <3>1. vl = NaN /\ best = NoBest
      BY <1>4, <2>2 DEF Improves, FitInv
    <3>2. \A e \in DOMAIN losses' : losses'[e] = NaN
      BY <1>0, <2>2, <3>1 DEF FitInv
    <3> QED
      BY <1>0, <1>1, <2>1, <2>2, <3>1, <3>2 DEF FitInv
  <2>3. CASE best_state # NoState
    <3>1. best \in Losses /\ best \in Nat /\ best # NoBest /\ best_state \in DOMAIN losses
      BY <1>1, <1>2, <2>3 DEF FitInv
    <3>2. vl # NaN => vl \in Nat /\ best <= vl + 1
      BY <1>2, <1>4, <3>1 DEF Improves
    <3>3. \A e \in DOMAIN losses' : losses'[e] # NaN => best <= losses'[e] + 1
      BY <1>0, <2>3, <3>2 DEF FitInv
    <3> QED
      BY <1>0, <1>1, <2>1, <2>3, <3>1, <3>3 DEF FitInv
  <2> QED
    BY <2>2, <2>3
<1> QED
  BY <1>3, <1>4

\* For any losses, also NaN, and whenever patience is over, the model keeps the
\* weights of its best epoch, but for an improvement too small to count.
THEOREM BestEpochIsKept == CharSpec => []KeepsTheBestEpoch
<1>1. CharInit => FitInv
  BY DEF CharInit, FitInv
<1>2. FitInv /\ [CharNext]_charVars => FitInv'
  <2> SUFFICES ASSUME FitInv, [CharNext]_charVars PROVE FitInv'
    OBVIOUS
  <2>1. ASSUME NEW vl \in Losses \cup {NaN}, Epoch(vl) PROVE FitInv'
    BY <2>1, EpochInv
  <2>2. CASE Restore
    BY <2>2 DEF Restore, FitInv
  <2>3. ASSUME NEW b, NEW percent, Calibrate(b, percent) PROVE FitInv'
    BY <2>3 DEF Calibrate, FitInv
  <2>4. CASE UNCHANGED charVars
    BY <2>4 DEF charVars, FitInv
  <2> QED
    BY <2>1, <2>2, <2>3, <2>4 DEF CharNext
<1>3. FitInv => KeepsTheBestEpoch
  <2> SUFFICES ASSUME FitInv, phase # "train", NEW e \in DOMAIN losses, losses[e] # NaN
               PROVE  /\ weights \in DOMAIN losses /\ losses[weights] # NaN
                      /\ losses[weights] <= losses[e] + 1
    BY DEF KeepsTheBestEpoch
  <2>1. best_state # NoState
    BY DEF FitInv
  <2> QED
    BY <2>1, LossesAssumption DEF FitInv
<1> QED
  BY <1>1, <1>2, <1>3, PTL DEF CharSpec

-----------------------------------------------------------------------------
(* CharTraining: the cutoffs.                                              *)

\* The share that is rounded down to i leaves less than one of the names out.
LEMMA AdmittedShare ==
  ASSUME NEW n \in Nat, NEW percent \in 0 .. 100
  PROVE  /\ Admitted(percent, n) \in 0 .. n
         /\ 100 * (n - Admitted(percent, n) - 1) < percent * n
<1> DEFINE a == (100 - percent) * n
           i == a \div 100
<1>1. a \in Nat /\ a <= 100 * n
  <2>1. 100 - percent \in 0 .. 100
    OBVIOUS
  <2>2. ASSUME NEW k \in 0 .. 100 PROVE k * n \in Nat /\ k * n <= 100 * n
    OBVIOUS
  <2> QED
    BY <2>1, <2>2
<1>2. a = 100 * n - percent * n /\ percent * n \in Nat
  OBVIOUS
<1> HIDE DEF a
<1>3. i \in Nat /\ 100 * i <= a /\ a < 100 * i + 100
  BY <1>1
<1> HIDE DEF i
<1>4. i <= n /\ 100 * (n - i - 1) < percent * n
  BY <1>1, <1>2, <1>3
<1>5. Admitted(percent, n) = i
  BY DEF Admitted, a, i
<1> QED
  BY <1>3, <1>4, <1>5

\* Scores above the i-th of a sorted list come after it.
LEMMA AboveComeAfter ==
  ASSUME NEW n \in Nat, NEW b \in [1 .. n -> Nat], NEW i \in 0 .. n, NEW c \in Int,
         \A k, l \in 1 .. n : k < l => b[k] <= b[l],
         i > 0 => c >= 100 * b[i]
  PROVE  Cardinality({k \in 1 .. n : 100 * b[k] > c}) \in 0 .. n - i
<1> DEFINE above == {k \in 1 .. n : 100 * b[k] > c}
<1>1. above \subseteq i + 1 .. n
  <2> SUFFICES ASSUME NEW k \in 1 .. n, 100 * b[k] > c, k <= i PROVE FALSE
    OBVIOUS
  <2>1. i \in 1 .. n /\ b[k] \in Nat /\ b[i] \in Nat /\ b[k] <= b[i]
    OBVIOUS
  <2> QED
    BY <2>1
<1>2. IsFiniteSet(i + 1 .. n) /\ Cardinality(i + 1 .. n) = n - i
  <2>1. i + 1 \in Int /\ n \in Int
    OBVIOUS
  <2>2. Cardinality(i + 1 .. n) = IF i + 1 <= n THEN n - (i + 1) + 1 ELSE 0
    BY <2>1, FS_Interval
  <2>3. IsFiniteSet(i + 1 .. n)
    BY <2>1, FS_Interval
  <2>4. Cardinality(i + 1 .. n) = n - i
    BY <2>2
  <2> QED
    BY <2>3, <2>4
<1>3. IsFiniteSet(above) /\ Cardinality(above) <= Cardinality(i + 1 .. n)
  BY <1>1, <1>2, FS_Subset
<1>4. Cardinality(above) \in Nat
  BY <1>3, FS_CardinalityType
<1> QED
  BY <1>2, <1>3, <1>4

\* A list of n sorted scores and the cutoff computed from it.
LEMMA NamesCutoff ==
  ASSUME NEW n \in Nat \ {0}, NEW b \in [1 .. n -> Nat], NEW percent \in 0 .. 100, Len(b) = n,
         \A k, l \in 1 .. n : k < l => b[k] <= b[l]
  PROVE  \E i \in 0 .. n : /\ i > 0 => 100 * FprThreshold(b, percent) >= 100 * b[i]
                          /\ 100 * FprThreshold(b, percent) \in Int
                          /\ 100 * (n - i - 1) < percent * n
<1> DEFINE i == Admitted(percent, n)
<1>1. i \in 0 .. n /\ 100 * (n - i - 1) < percent * n
  BY AdmittedShare
<1>2. FprThreshold(b, percent) = IF i = 0 THEN b[n] ELSE b[i]
  BY DEF FprThreshold
<1>3. n \in 1 .. n /\ b[n] \in Nat /\ (i > 0 => b[i] \in Nat)
  BY <1>1
<1> HIDE DEF i
<1> QED
  BY <1>1, <1>2, <1>3

\* The interpolated cutoff is not below the lower one of its two scores.
LEMMA WindowsCutoff ==
  ASSUME NEW n \in Nat \ {0}, NEW b \in [1 .. n -> Nat], NEW percent \in 0 .. 100, Len(b) = n,
         \A k, l \in 1 .. n : k < l => b[k] <= b[l]
  PROVE  \E i \in 0 .. n : /\ i > 0 => WindowThreshold(b, percent) >= 100 * b[i]
                          /\ WindowThreshold(b, percent) \in Int
                          /\ 100 * (n - i - 1) < percent * n
<1> DEFINE a == (100 - percent) * (n - 1)
           q == a \div 100
           i == q + 1
           rest == a % 100
           gap == IF i < n THEN b[i + 1] - b[i] ELSE 0
<1>1. a \in Nat /\ a <= 100 * (n - 1)
  <2>1. 100 - percent \in 0 .. 100 /\ n - 1 \in Nat
    OBVIOUS
  <2>2. ASSUME NEW k \in 0 .. 100, NEW m \in Nat PROVE k * m \in Nat /\ k * m <= 100 * m
    OBVIOUS
  <2> QED
    BY <2>1, <2>2
<1>2. a = 100 * n - percent * n - 100 + percent /\ percent * n \in Nat
  OBVIOUS
<1>3. WindowThreshold(b, percent) = 100 * b[i] + rest * gap
  BY DEF WindowThreshold
<1> HIDE DEF a
<1>4. q \in Nat /\ 100 * q <= a /\ a < 100 * q + 100 /\ rest \in 0 .. 99
  BY <1>1
<1> HIDE DEF q, rest
<1>5. i \in 1 .. n
  BY <1>1, <1>4
<1>6. 100 * (n - i - 1) < percent * n
  BY <1>2, <1>4
<1>7. gap \in Nat
  <2>1. CASE i < n
    <3>1. i + 1 \in 1 .. n /\ i < i + 1
      BY <1>5, <2>1
    <3>2. b[i] <= b[i + 1] /\ b[i] \in Nat /\ b[i + 1] \in Nat
      BY <1>5, <3>1
    <3> QED
      BY <2>1, <3>2
  <2>2. CASE ~(i < n)
    BY <2>2
  <2> QED
    BY <2>1, <2>2
<1> HIDE DEF i, gap
<1>8. rest * gap \in Nat
  BY <1>4, <1>7
<1>9. b[i] \in Nat
  BY <1>5
<1>10. WindowThreshold(b, percent) >= 100 * b[i] /\ WindowThreshold(b, percent) \in Int
  BY <1>3, <1>8, <1>9
<1> QED
  BY <1>5, <1>6, <1>10

\* Both ways of computing a cutoff let the share through that was asked for, for
\* any number of scores and any rate.
THEOREM CutoffsAdmit == CharSpec => []CutoffAdmitsItsShare
<1>1. CharInit => CutoffAdmitsItsShare
  BY DEF CharInit, CutoffAdmitsItsShare
<1>2. ASSUME CutoffAdmitsItsShare, [CharNext]_charVars PROVE CutoffAdmitsItsShare'
  <2>1. ASSUME NEW vl, Epoch(vl) PROVE CutoffAdmitsItsShare'
    BY <2>1 DEF Epoch, CutoffAdmitsItsShare
  <2>2. CASE Restore
    BY <2>2 DEF Restore, CutoffAdmitsItsShare
  <2>3. ASSUME NEW b \in SortedScores, NEW percent \in Percents, Calibrate(b, percent)
        PROVE  CutoffAdmitsItsShare'
    <3>1. PICK n \in 1 .. MaxNames : b \in [1 .. n -> Scores]
      BY DEF SortedScores
    <3>2. /\ n \in Nat \ {0} /\ b \in [1 .. n -> Nat] /\ percent \in 0 .. 100
          /\ DOMAIN b = 1 .. n /\ Len(b) = n
      <4>1. n \in Nat \ {0} /\ percent \in 0 .. 100
        BY CutoffAssumption
      <4>2. b \in [1 .. n -> Nat]
        BY <3>1, CutoffAssumption
      <4>3. b \in Seq(Nat)
        BY <4>1, <4>2, SeqDef
      <4> QED
        BY <4>1, <4>2, <4>3
    <3>3. \A k, l \in 1 .. n : k < l => b[k] <= b[l]
      BY <3>2 DEF SortedScores
    <3>4. benign_scores' = b /\ fpr' = percent
          /\ (cutoff' = 100 * FprThreshold(b, percent) \/ cutoff' = WindowThreshold(b, percent))
      BY <2>3 DEF Calibrate
    <3>5. PICK i \in 0 .. n : /\ i > 0 => cutoff' >= 100 * b[i]
                              /\ cutoff' \in Int
                              /\ 100 * (n - i - 1) < percent * n
      <4>1. CASE cutoff' = 100 * FprThreshold(b, percent)
        BY <3>2, <3>3, <4>1, NamesCutoff
      <4>2. CASE cutoff' = WindowThreshold(b, percent)
        BY <3>2, <3>3, <4>2, WindowsCutoff
      <4> QED
        BY <3>4, <4>1, <4>2
    <3> DEFINE above == {k \in 1 .. n : 100 * b[k] > cutoff'}
    <3>6. Cardinality(above) \in Nat /\ Cardinality(above) <= n - i
      <4>1. \A c \in Int : (i > 0 => c >= 100 * b[i]) =>
              Cardinality({k \in 1 .. n : 100 * b[k] > c}) \in 0 .. n - i
        BY ZenonT(30), <3>2, <3>3, AboveComeAfter
      <4>2. Cardinality(above) \in 0 .. n - i
        BY <3>5, <4>1
      <4> QED
        BY <3>2, <4>2
    <3>7. 100 * (Cardinality(above) - 1) < percent * n
      <4> HIDE DEF above
      <4>1. percent * n \in Nat
        BY <3>2
      <4> QED
        BY <3>2, <3>5, <3>6, <4>1
    <3> HIDE DEF above
    <3> QED
      BY <3>2, <3>4, <3>7 DEF above, CutoffAdmitsItsShare
  <2>4. CASE UNCHANGED charVars
    BY <1>2, <2>4 DEF charVars, CutoffAdmitsItsShare
  <2> QED
    BY <1>2, <2>1, <2>2, <2>3, <2>4 DEF CharNext
<1> QED
  BY <1>1, <1>2, PTL DEF CharSpec

-----------------------------------------------------------------------------
(* DashboardChart: the alerts of each period.                              *)

\* No alert is newer than the last bucket, which has begun.
ChartInv ==
  /\ TypeOK
  /\ cur_bucket_start <= clock
  /\ \A i \in DOMAIN ingested : ingested[i] < cur_bucket_start + BUCKET_SECONDS
  /\ AlertsAreInTheirPeriod

\* The alerts of s that were added in the period that begins at begin
During(s, begin) == {i \in DOMAIN s : begin <= s[i] /\ s[i] < begin + BUCKET_SECONDS}

\* Rolled up to now, the last bucket is the one now is in.
LEMMA NowIsInTheLastBucket ==
  ASSUME TypeOK, cur_bucket_start <= clock
  PROVE  /\ steps \in Nat /\ NewStart = cur_bucket_start + steps * BUCKET_SECONDS
         /\ NewStart \in Nat /\ cur_bucket_start <= NewStart
         /\ NewStart <= clock /\ clock < NewStart + BUCKET_SECONDS
<1> DEFINE d == clock - cur_bucket_start
<1>1. d \in Nat /\ BUCKET_SECONDS \in Nat \ {0} /\ cur_bucket_start \in Nat /\ clock \in Nat
  BY ChartAssumption DEF TypeOK
<1>2. steps = d \div BUCKET_SECONDS
  BY DEF steps
<1>3. \A a \in Nat, m \in Nat \ {0} :
        a \div m \in Nat /\ (a \div m) * m <= a /\ a < (a \div m) * m + m
  OBVIOUS
<1> HIDE DEF d
<1>4. steps \in Nat /\ steps * BUCKET_SECONDS <= d /\ d < steps * BUCKET_SECONDS + BUCKET_SECONDS
  BY <1>1, <1>2, <1>3
<1>5. steps * BUCKET_SECONDS \in Nat
  BY <1>1, <1>4
<1> QED
  BY <1>1, <1>4, <1>5 DEF NewStart, d

\* A whole number of periods: moving by them, and how far at least.
LEMMA Periods ==
  ASSUME NEW k \in Int, NEW s \in Int
  PROVE  /\ k * BUCKET_SECONDS \in Int
         /\ (k - s) * BUCKET_SECONDS = k * BUCKET_SECONDS - s * BUCKET_SECONDS
         /\ s < k => s * BUCKET_SECONDS + BUCKET_SECONDS <= k * BUCKET_SECONDS
<1>1. BUCKET_SECONDS \in Nat /\ k * BUCKET_SECONDS \in Int /\ s * BUCKET_SECONDS \in Int
  BY ChartAssumption
<1>2. (k - s) * BUCKET_SECONDS = k * BUCKET_SECONDS - s * BUCKET_SECONDS
  BY <1>1
<1>3. ASSUME s < k PROVE s * BUCKET_SECONDS + BUCKET_SECONDS <= k * BUCKET_SECONDS
  <2>1. k - s - 1 \in Nat
    BY <1>3
  <2>2. (k - s - 1) * BUCKET_SECONDS \in Nat
    BY <1>1, <2>1
  <2>3. (k - s - 1) * BUCKET_SECONDS = k * BUCKET_SECONDS - s * BUCKET_SECONDS - BUCKET_SECONDS
    BY <1>1
  <2> QED
    BY <1>1, <2>2, <2>3
<1> QED
  BY <1>1, <1>2, <1>3

\* A rolled chart counts right, for what was added so far.
LEMMA RolledCounts ==
  ASSUME ChartInv, NEW k \in 0 .. BUCKETS - 1
  PROVE  Rolled[BUCKETS - k] = Cardinality(During(ingested, NewStart - k * BUCKET_SECONDS))
<1> DEFINE n == Min2(steps, BUCKETS)
           back == k * BUCKET_SECONDS
           moved == steps * BUCKET_SECONDS
<1>0. /\ BUCKETS \in Nat \ {0} /\ BUCKET_SECONDS \in Nat \ {0}
      /\ steps \in Nat /\ cur_bucket_start \in Nat /\ NewStart = cur_bucket_start + moved
      /\ back \in Int /\ moved \in Int /\ TypeOK
  BY ChartAssumption, NowIsInTheLastBucket, Periods DEF ChartInv, TypeOK
<1>1. n \in 0 .. BUCKETS /\ n <= steps /\ (n # BUCKETS => n = steps)
  BY <1>0 DEF Min2
<1>2. Rolled[BUCKETS - k] = IF n <= k THEN alert_buckets[BUCKETS - k + n] ELSE 0
  <2>1. BUCKETS - k \in 1 .. BUCKETS /\ (BUCKETS - k + n <= BUCKETS <=> n <= k)
    BY <1>0, <1>1
  <2> HIDE DEF n
  <2>2. Shifted(alert_buckets, n)[BUCKETS - k]
          = IF BUCKETS - k + n <= BUCKETS THEN alert_buckets[BUCKETS - k + n] ELSE 0
    BY <2>1 DEF Shifted
  <2>3. Rolled = Shifted(alert_buckets, n)
    BY DEF Rolled, n
  <2> QED
    BY <2>1, <2>2, <2>3
<1> HIDE DEF n
<1>3. CASE n <= k
  <2>1. n = steps /\ k - n \in 0 .. BUCKETS - 1 /\ BUCKETS - (k - n) = BUCKETS - k + n
    BY <1>0, <1>1, <1>3
  <2>2. alert_buckets[BUCKETS - (k - n)]
          = Cardinality(During(ingested, cur_bucket_start - (k - n) * BUCKET_SECONDS))
    BY <2>1 DEF ChartInv, AlertsAreInTheirPeriod, During
  <2>3. cur_bucket_start - (k - n) * BUCKET_SECONDS = NewStart - back
    <3>1. (k - steps) * BUCKET_SECONDS = back - moved
      BY <1>0, Periods
    <3> QED
      BY <1>0, <2>1, <3>1
  <2> QED
    BY <1>2, <1>3, <2>1, <2>2, <2>3
<1>4. CASE ~(n <= k)
  <2>1. k < steps
    BY <1>0, <1>1, <1>4
  <2>2. back + BUCKET_SECONDS <= moved
    BY <1>0, <2>1, Periods
  <2>3. During(ingested, NewStart - back) = {}
    <3> SUFFICES ASSUME NEW i \in DOMAIN ingested, NewStart - back <= ingested[i] PROVE FALSE
      BY DEF During
    <3>1. ingested[i] \in Nat /\ ingested[i] < cur_bucket_start + BUCKET_SECONDS
      BY <1>0 DEF ChartInv, TypeOK
    <3> QED
      BY <1>0, <2>2, <3>1
  <2> QED
    BY <1>2, <1>4, <2>3, FS_EmptySet
<1> QED
  BY <1>3, <1>4

\* The rolled series is a series, and no alert is newer than its last bucket.
LEMMA RolledTypes ==
  ASSUME ChartInv
  PROVE  /\ Rolled \in [1 .. BUCKETS -> Nat]
         /\ \A i \in DOMAIN ingested : ingested[i] < NewStart + BUCKET_SECONDS
<1>0. /\ BUCKETS \in Nat \ {0} /\ BUCKET_SECONDS \in Nat \ {0} /\ TypeOK
      /\ steps \in Nat /\ cur_bucket_start \in Nat /\ NewStart \in Nat
      /\ cur_bucket_start <= NewStart
  BY ChartAssumption, NowIsInTheLastBucket DEF ChartInv, TypeOK
<1>1. Min2(steps, BUCKETS) \in Nat
  BY <1>0 DEF Min2
<1>2. Rolled \in [1 .. BUCKETS -> Nat]
  <2>1. ASSUME NEW n \in Nat PROVE Shifted(alert_buckets, n) \in [1 .. BUCKETS -> Nat]
    BY <1>0 DEF Shifted, TypeOK
  <2> QED
    BY <1>1, <2>1 DEF Rolled
<1>3. \A i \in DOMAIN ingested : ingested[i] < NewStart + BUCKET_SECONDS
  BY <1>0 DEF ChartInv, TypeOK
<1> QED
  BY <1>2, <1>3

\* An alert that is added falls into the last bucket and no other.
LEMMA AddAlertInv == ChartInv /\ AddAlert => ChartInv'
<1> SUFFICES ASSUME ChartInv, AddAlert PROVE ChartInv'
  OBVIOUS
<1> DEFINE n == Len(ingested) + 1
<1>0. /\ BUCKETS \in Nat \ {0} /\ BUCKET_SECONDS \in Nat \ {0} /\ TypeOK /\ clock \in Nat
      /\ NewStart \in Nat /\ NewStart <= clock /\ clock < NewStart + BUCKET_SECONDS
      /\ ingested \in Seq(Nat) /\ Len(ingested) \in Nat
  BY ChartAssumption, NowIsInTheLastBucket DEF ChartInv, TypeOK
<1>1. /\ clock' = clock /\ cur_bucket_start' = NewStart
      /\ alert_buckets' = [Rolled EXCEPT ![BUCKETS] = @ + 1] /\ ingested' = Append(ingested, clock)
  BY DEF AddAlert
<1>2. /\ ingested' \in Seq(Nat) /\ Len(ingested') = n /\ DOMAIN ingested' = 1 .. n
      /\ DOMAIN ingested = 1 .. Len(ingested)
      /\ \A i \in 1 .. Len(ingested) : ingested'[i] = ingested[i]
      /\ ingested'[n] = clock
  BY <1>0, <1>1, AppendProperties
<1>3. TypeOK'
  <2>1. alert_buckets' \in [1 .. BUCKETS -> Nat]
    BY <1>0, <1>1, RolledTypes
  <2> QED
    BY <1>0, <1>1, <1>2, <2>1 DEF TypeOK
<1>4. \A i \in DOMAIN ingested' : ingested'[i] < cur_bucket_start' + BUCKET_SECONDS
  <2> TAKE i \in DOMAIN ingested'
  <2>1. CASE i = n
    BY <1>0, <1>1, <1>2, <2>1
  <2>2. CASE i # n
    <3>1. i \in DOMAIN ingested /\ ingested'[i] = ingested[i]
      BY <1>0, <1>2, <2>2
    <3> QED
      BY <1>1, <3>1, RolledTypes
  <2> QED
    BY <2>1, <2>2
<1>5. AlertsAreInTheirPeriod'
  <2> SUFFICES ASSUME NEW k \in 0 .. BUCKETS - 1
               PROVE  alert_buckets'[BUCKETS - k]
                        = Cardinality(During(ingested', NewStart - k * BUCKET_SECONDS))
    BY <1>1 DEF AlertsAreInTheirPeriod, During
  <2> DEFINE begin == NewStart - k * BUCKET_SECONDS
  <2>1. Rolled[BUCKETS - k] = Cardinality(During(ingested, begin)) /\ begin \in Int
    BY <1>0, RolledCounts, Periods
  <2>2. IsFiniteSet(During(ingested, begin)) /\ n \notin During(ingested, begin)
    <3>1. During(ingested, begin) \subseteq 1 .. Len(ingested)
      BY <1>2 DEF During
    <3>2. IsFiniteSet(1 .. Len(ingested))
      BY <1>0, FS_Interval
    <3>3. IsFiniteSet(During(ingested, begin))
      BY <3>1, <3>2, FS_Subset
    <3> QED
      BY <1>0, <3>1, <3>3
  <2>3. CASE k = 0
    <3>1. begin = NewStart
      BY <1>0, <2>3
    <3>2. During(ingested', begin) = During(ingested, begin) \cup {n}
      <4>1. ASSUME NEW i \in During(ingested', begin)
            PROVE  i \in During(ingested, begin) \cup {n}
        BY <1>0, <1>2, <4>1 DEF During
      <4>2. ASSUME NEW i \in During(ingested, begin) PROVE i \in During(ingested', begin)
        <5>1. i \in DOMAIN ingested' /\ ingested'[i] = ingested[i]
          BY <1>0, <1>2, <4>2 DEF During
        <5> QED
          BY <4>2, <5>1 DEF During
      <4>3. n \in During(ingested', begin)
        <5>1. n \in DOMAIN ingested'
          BY <1>0, <1>2
        <5> QED
          BY <1>0, <1>2, <3>1, <5>1 DEF During
      <4> QED
        BY <4>1, <4>2, <4>3
    <3>3. Cardinality(During(ingested', begin)) = Cardinality(During(ingested, begin)) + 1
      BY <2>2, <3>2, FS_AddElement
    <3>4. BUCKETS - k = BUCKETS /\ BUCKETS \in 1 .. BUCKETS /\ DOMAIN Rolled = 1 .. BUCKETS
      BY <1>0, <2>3, RolledTypes
    <3>5. alert_buckets'[BUCKETS] = Rolled[BUCKETS] + 1
      BY <1>1, <3>4
    <3> QED
      BY <2>1, <3>3, <3>4, <3>5
  <2>4. CASE k # 0
    <3>1. begin + BUCKET_SECONDS <= NewStart
      <4>1. 0 < k /\ 0 * BUCKET_SECONDS = 0 /\ k \in Int
        BY <1>0, <2>4
      <4>2. BUCKET_SECONDS <= k * BUCKET_SECONDS /\ k * BUCKET_SECONDS \in Int
        BY <1>0, <4>1, Periods
      <4> QED
        BY <1>0, <4>2
    <3>2. During(ingested', begin) = During(ingested, begin)
      <4>1. ASSUME NEW i \in During(ingested', begin) PROVE i \in During(ingested, begin)
        <5>1. i \in 1 .. n /\ ingested'[i] < begin + BUCKET_SECONDS
          BY <1>2, <4>1 DEF During
        <5>2. i # n
          <6>1. ~(clock < begin + BUCKET_SECONDS)
            <7> HIDE DEF begin
            <7> QED
              BY <1>0, <2>1, <3>1
          <6> QED
            BY <1>2, <5>1, <6>1
        <5>3. i \in DOMAIN ingested /\ ingested'[i] = ingested[i]
          BY <1>0, <1>2, <5>1, <5>2
        <5> QED
          BY <4>1, <5>3 DEF During
      <4>2. ASSUME NEW i \in During(ingested, begin) PROVE i \in During(ingested', begin)
        <5>1. i \in DOMAIN ingested' /\ ingested'[i] = ingested[i]
          BY <1>0, <1>2, <4>2 DEF During
        <5> QED
          BY <4>2, <5>1 DEF During
      <4> QED
        BY <4>1, <4>2
    <3>3. alert_buckets'[BUCKETS - k] = Rolled[BUCKETS - k]
      BY <1>0, <1>1, <2>4, RolledTypes
    <3> QED
      BY <2>1, <3>2, <3>3
  <2> QED
    BY <2>3, <2>4
<1> QED
  BY <1>0, <1>1, <1>3, <1>4, <1>5 DEF ChartInv

\* However late and unevenly the chart is rolled, and for any number and length
\* of buckets, each bucket holds the alerts of its period.
THEOREM ChartCountsRight == Spec => []AlertsAreInTheirPeriod
<1>1. Init => ChartInv
  <2> SUFFICES ASSUME Init PROVE ChartInv
    OBVIOUS
  <2>1. /\ clock \in Nat /\ cur_bucket_start = clock /\ ingested = << >>
        /\ alert_buckets = [i \in 1 .. BUCKETS |-> 0] /\ DOMAIN ingested = {}
    BY ChartAssumption DEF Init
  <2>2. AlertsAreInTheirPeriod
    <3> SUFFICES ASSUME NEW k \in 0 .. BUCKETS - 1, NEW begin
                 PROVE  alert_buckets[BUCKETS - k] = Cardinality(During(ingested, begin))
      BY DEF AlertsAreInTheirPeriod, During
    <3>1. During(ingested, begin) = {}
      BY <2>1 DEF During
    <3>2. BUCKETS - k \in 1 .. BUCKETS
      BY ChartAssumption
    <3> QED
      BY <2>1, <3>1, <3>2, FS_EmptySet
  <2> QED
    BY <2>1, <2>2 DEF ChartInv, TypeOK
<1>2. ChartInv /\ [Next]_vars => ChartInv'
  <2> SUFFICES ASSUME ChartInv, [Next]_vars PROVE ChartInv'
    OBVIOUS
  <2>1. CASE TimePasses
    BY <2>1 DEF TimePasses, ChartInv, TypeOK, AlertsAreInTheirPeriod
  <2>2. CASE AddAlert
    BY <2>2, AddAlertInv
  <2>3. CASE Stats
    <3>1. AlertsAreInTheirPeriod'
      BY <2>3, RolledCounts DEF Stats, AlertsAreInTheirPeriod, During
    <3>2. TypeOK' /\ cur_bucket_start' <= clock'
      BY <2>3, RolledTypes, NowIsInTheLastBucket DEF Stats, ChartInv, TypeOK
    <3>3. \A i \in DOMAIN ingested' : ingested'[i] < cur_bucket_start' + BUCKET_SECONDS
      BY <2>3, RolledTypes DEF Stats
    <3> QED
      BY <3>1, <3>2, <3>3 DEF ChartInv
  <2>4. CASE UNCHANGED vars
    BY <2>4 DEF vars, ChartInv, TypeOK, AlertsAreInTheirPeriod
  <2> QED
    BY <2>1, <2>2, <2>3, <2>4 DEF Next
<1>3. ChartInv => AlertsAreInTheirPeriod
  BY DEF ChartInv
<1> QED
  BY <1>1, <1>2, <1>3, PTL DEF Spec

-----------------------------------------------------------------------------
(* SystemPanel: restarts asked for on a page.                              *)

\* A container shows as restarting at least until the time of the last click on
\* it is over, and its button is enabled only in a drawing made after that.
PanelInv ==
  /\ now \in Nat
  /\ DOMAIN status \subseteq REPORTED /\ DOMAIN health.rows \subseteq REPORTED
  /\ DOMAIN lastOps \subseteq REPORTED /\ DOMAIN shown \subseteq REPORTED
  /\ pendingRestart \in [REPORTED -> Nat]
  /\ clicks \in Seq([target : REPORTED, at : Nat])
  /\ \A i \in DOMAIN clicks :
       /\ clicks[i].at <= now
       /\ clicks[i].at + RestartSeconds <= pendingRestart[clicks[i].target]
  /\ \A c \in DOMAIN shown : shown[c].enabled => pendingRestart[c] <= now
  /\ OneRestartAtATime

\* A drawing offers the containers whose time is over, of those in its rows.
LEMMA DrawnEffect ==
  ASSUME NEW old, NEW pending
  PROVE  /\ DOMAIN Panel!Drawn(old, pending) = DOMAIN old
         /\ \A c \in DOMAIN old :
              Panel!Drawn(old, pending)[c].enabled => ~(now < pending[c])
BY DEF Panel!Drawn, Panel!Pending

\* A page with no rows shows no container.
LEMMA NoRowsNoContainers == DOMAIN Panel!NoRows = {}
BY DEF Panel!NoRows

\* What is known of each click.
LEMMA ClickFacts ==
  ASSUME PanelInv, NEW i \in DOMAIN clicks
  PROVE  /\ clicks[i].at \in Nat /\ clicks[i].target \in REPORTED
         /\ clicks[i].at <= now
         /\ clicks[i].at + RestartSeconds <= pendingRestart[clicks[i].target]
<1>1. clicks \in Seq([target : REPORTED, at : Nat])
  BY DEF PanelInv
<1>2. clicks[i] \in [target : REPORTED, at : Nat]
  <2> DEFINE Click == [target : REPORTED, at : Nat]
  <2>1. clicks \in Seq(Click) /\ i \in DOMAIN clicks
    BY <1>1
  <2> HIDE DEF Click
  <2>2. i \in 1 .. Len(clicks)
    BY <2>1
  <2>3. clicks[i] \in Click
    BY <2>1, <2>2, ElementOfSeq
  <2> QED
    BY <2>3 DEF Click
<1> QED
  BY <1>2 DEF PanelInv

\* Marking a container as restarting, for no shorter than a restart takes, keeps
\* what is known of the clicks there were.
LEMMA MarkInv ==
  ASSUME PanelInv, NEW c, NEW seconds \in Nat, RestartSeconds <= seconds,
         Panel!MarkRestarting(c, seconds)
  PROVE  /\ pendingRestart' \in [REPORTED -> Nat]
         /\ c \in REPORTED => pendingRestart'[c] = now + seconds
         /\ \A d \in REPORTED : d # c => pendingRestart'[d] = pendingRestart[d]
         /\ DOMAIN shown' \subseteq REPORTED
         /\ \A d \in DOMAIN shown' : shown'[d].enabled => pendingRestart'[d] <= now
<1>1. now \in Nat /\ pendingRestart \in [REPORTED -> Nat] /\ DOMAIN lastOps \subseteq REPORTED
  BY DEF PanelInv
<1>2. pendingRestart' = [pendingRestart EXCEPT ![c] = now + seconds]
  BY DEF Panel!MarkRestarting
<1>3. pendingRestart' \in [REPORTED -> Nat]
  <2>1. now + seconds \in Nat
    BY <1>1
  <2> QED
    BY <1>1, <1>2, <2>1
<1>4. shown' = Panel!Drawn(lastOps, pendingRestart')
  BY DEF Panel!MarkRestarting
<1>5. DOMAIN shown' = DOMAIN lastOps
      /\ \A d \in DOMAIN lastOps : shown'[d].enabled => ~(now < pendingRestart'[d])
  BY <1>4, DrawnEffect
<1>6. \A d \in DOMAIN shown' : shown'[d].enabled => pendingRestart'[d] <= now
  BY <1>1, <1>3, <1>5
<1> QED
  BY <1>1, <1>2, <1>3, <1>5, <1>6

\* A click that is possible comes when the time of the clicks before it is over.
LEMMA ClickInv ==
  ASSUME PanelInv, NEW c, Panel!ClickRestart(c)
  PROVE  PanelInv'
<1> DEFINE n == Len(clicks) + 1
           click == [target |-> c, at |-> now]
<1>0. RestartSeconds \in Nat /\ ApplySeconds \in Nat
  BY SecondsAssumption
<1>1. /\ now \in Nat /\ c \in REPORTED /\ clicks \in Seq([target : REPORTED, at : Nat])
      /\ Len(clicks) \in Nat /\ DOMAIN clicks = 1 .. Len(clicks)
      /\ c \in DOMAIN shown /\ shown[c].enabled /\ pendingRestart \in [REPORTED -> Nat]
  BY DEF PanelInv, Panel!ClickRestart
<1>2. pendingRestart[c] <= now
  BY <1>1 DEF PanelInv
<1>3. Panel!MarkRestarting(c, RestartSeconds) /\ clicks' = Append(clicks, click)
      /\ UNCHANGED <<now, status, health, lastOps>>
  BY DEF Panel!ClickRestart
<1>4. /\ pendingRestart' \in [REPORTED -> Nat] /\ pendingRestart'[c] = now + RestartSeconds
      /\ \A d \in REPORTED : d # c => pendingRestart'[d] = pendingRestart[d]
      /\ DOMAIN shown' \subseteq REPORTED
      /\ \A d \in DOMAIN shown' : shown'[d].enabled => pendingRestart'[d] <= now
  BY <1>0, <1>1, <1>3, MarkInv
<1>5. click \in [target : REPORTED, at : Nat]
  BY <1>1
<1>6. /\ clicks' \in Seq([target : REPORTED, at : Nat]) /\ DOMAIN clicks' = 1 .. n
      /\ \A i \in 1 .. Len(clicks) : clicks'[i] = clicks[i]
      /\ clicks'[n] = click
  BY <1>1, <1>3, <1>5, AppendProperties
<1>7. \A i \in DOMAIN clicks : clicks[i].at \in Nat /\ clicks[i].target \in REPORTED
        /\ clicks[i].at <= now /\ clicks[i].at + RestartSeconds <= pendingRestart[clicks[i].target]
  BY ClickFacts
<1>8. \A i \in DOMAIN clicks : clicks[i].target = c => now - clicks[i].at >= RestartSeconds
  BY SMTT(30), <1>0, <1>1, <1>2, <1>7
<1>9. ASSUME NEW i \in DOMAIN clicks'
      PROVE  /\ clicks'[i].at <= now
             /\ clicks'[i].at + RestartSeconds <= pendingRestart'[clicks'[i].target]
  <2>1. CASE i = n
    BY <1>4, <1>6, <2>1
  <2>2. CASE i # n
    <3>1. i \in DOMAIN clicks /\ clicks'[i] = clicks[i]
      <4>1. i \in 1 .. n /\ n = Len(clicks) + 1
        BY <1>6
      <4>2. i \in 1 .. Len(clicks)
        BY <1>1, <2>2, <4>1
      <4> QED
        BY <1>1, <1>6, <4>2
    <3>2. CASE clicks[i].target = c
      BY SMTT(30), <1>0, <1>1, <1>4, <1>7, <1>8, <3>1, <3>2
    <3>3. CASE clicks[i].target # c
      BY <1>4, <1>7, <3>1, <3>3
    <3> QED
      BY <3>2, <3>3
  <2> QED
    BY <2>1, <2>2
<1>10. OneRestartAtATime'
  <2> SUFFICES ASSUME NEW i \in DOMAIN clicks', NEW j \in DOMAIN clicks', i < j,
                      clicks'[i].target = clicks'[j].target
               PROVE  clicks'[j].at - clicks'[i].at >= RestartSeconds
    BY DEF OneRestartAtATime, Panel!OneRestartAtATime
  <2>0. i \in 1 .. n /\ j \in 1 .. n /\ n = Len(clicks) + 1
    BY <1>6
  <2>1. i \in DOMAIN clicks /\ clicks'[i] = clicks[i]
    <3>1. i \in 1 .. Len(clicks)
      BY <1>1, <2>0
    <3> QED
      BY <1>1, <1>6, <3>1
  <2>2. CASE j = n
    BY <1>6, <1>8, <2>1, <2>2
  <2>3. CASE j # n
    <3>1. j \in DOMAIN clicks /\ clicks'[j] = clicks[j]
      <4>1. j \in 1 .. Len(clicks)
        BY <1>1, <2>0, <2>3
      <4> QED
        BY <1>1, <1>6, <4>1
    <3> QED
      BY <2>1, <3>1 DEF PanelInv, OneRestartAtATime, Panel!OneRestartAtATime
  <2> QED
    BY <2>2, <2>3
<1> HIDE DEF n, click
<1> QED
  BY <1>1, <1>3, <1>4, <1>6, <1>9, <1>10 DEF PanelInv

\* Every step of the panel, or of the clock, keeps the invariant.
LEMMA PanelNext == PanelInv /\ [Panel!Next]_(Panel!vars) => PanelInv'
<1> SUFFICES ASSUME PanelInv, [Panel!Next]_(Panel!vars) PROVE PanelInv'
  OBVIOUS
<1> USE DEF OneRestartAtATime, Panel!OneRestartAtATime
<1>0. now \in Nat /\ pendingRestart \in [REPORTED -> Nat]
  BY DEF PanelInv
<1>1. CASE Panel!SecondPasses
  <2>1. \A c \in DOMAIN shown : pendingRestart[c] \in Nat
    BY <1>0 DEF PanelInv
  <2>2. \A i \in DOMAIN clicks : clicks[i].at \in Nat
    BY ClickFacts
  <2> QED
    BY <1>0, <1>1, <2>1, <2>2 DEF Panel!SecondPasses, PanelInv
<1>2. ASSUME NEW c, Panel!StatusChanges(c) PROVE PanelInv'
  BY <1>2 DEF Panel!StatusChanges, PanelInv
<1>3. ASSUME NEW c, Panel!ClickRestart(c) PROVE PanelInv'
  BY <1>3, ClickInv
<1>4. CASE Panel!OpenHealth
  <2>1. health'.rows = status
    BY <1>4 DEF Panel!OpenHealth
  <2> QED
    BY <1>4, <2>1 DEF Panel!OpenHealth, PanelInv
<1>5. CASE Panel!WriteHealth
  <2>1. DOMAIN health'.rows \subseteq REPORTED
    BY <1>5 DEF Panel!WriteHealth, PanelInv
  <2> QED
    BY <1>5, <2>1 DEF Panel!WriteHealth, PanelInv
<1>6. CASE Panel!OpsEvent
  <2>1. DOMAIN Panel!OpsRows \subseteq REPORTED
    BY NoRowsNoContainers DEF Panel!OpsRows, PanelInv
  <2>2. /\ lastOps' = Panel!OpsRows /\ shown' = Panel!Drawn(Panel!OpsRows, pendingRestart)
        /\ UNCHANGED <<now, status, health, pendingRestart, clicks>>
    BY <1>6 DEF Panel!OpsEvent
  <2>3. DOMAIN shown' \subseteq REPORTED
        /\ \A c \in DOMAIN shown' : shown'[c].enabled => pendingRestart[c] <= now
    BY <1>0, <2>1, <2>2, DrawnEffect
  <2> QED
    BY <2>1, <2>2, <2>3 DEF PanelInv
<1>7. CASE Panel!ClickApply
  <2>1. Panel!MarkRestarting("soc-defender", ApplySeconds)
        /\ UNCHANGED <<now, status, health, lastOps, clicks>>
    BY <1>7 DEF Panel!ClickApply
  <2>2. /\ pendingRestart' \in [REPORTED -> Nat]
        /\ "soc-defender" \in REPORTED => pendingRestart'["soc-defender"] = now + ApplySeconds
        /\ \A d \in REPORTED : d # "soc-defender" => pendingRestart'[d] = pendingRestart[d]
        /\ DOMAIN shown' \subseteq REPORTED
        /\ \A d \in DOMAIN shown' : shown'[d].enabled => pendingRestart'[d] <= now
    BY <2>1, MarkInv, SecondsAssumption
  <2>3. ASSUME NEW i \in DOMAIN clicks
        PROVE  clicks[i].at + RestartSeconds <= pendingRestart'[clicks[i].target]
    <3>1. clicks[i].target \in REPORTED /\ clicks[i].at \in Nat /\ clicks[i].at <= now
          /\ clicks[i].at + RestartSeconds <= pendingRestart[clicks[i].target]
      BY ClickFacts
    <3>2. CASE clicks[i].target # "soc-defender"
      BY <2>2, <3>1, <3>2
    <3>3. CASE clicks[i].target = "soc-defender"
      BY <1>0, <2>2, <3>1, <3>3, SecondsAssumption
    <3> QED
      BY <3>2, <3>3
  <2> QED
    BY <2>1, <2>2, <2>3 DEF PanelInv
<1>8. CASE Panel!Reload
  <2>1. clicks' = << >> /\ DOMAIN clicks' = {} /\ lastOps' = Panel!NoRows /\ shown' = Panel!NoRows
        /\ pendingRestart' \in [REPORTED -> Nat]
    BY <1>8 DEF Panel!Reload
  <2> QED
    BY <1>8, <2>1, NoRowsNoContainers DEF Panel!Reload, PanelInv
<1>9. CASE UNCHANGED Panel!vars
  BY <1>9 DEF Panel!vars, PanelInv
<1> QED
  BY <1>1, <1>2, <1>3, <1>4, <1>5, <1>6, <1>7, <1>8, <1>9 DEF Panel!Next

\* Whatever the rows the page is drawn from, a page asks for the next restart of
\* a container only when the time of the one before is over.
THEOREM PanelRestartsOnce == Panel!Spec => []OneRestartAtATime
<1>1. Panel!Init => PanelInv
  <2> SUFFICES ASSUME Panel!Init PROVE PanelInv
    OBVIOUS
  <2>1. clicks = << >> /\ DOMAIN clicks = {} /\ health.rows = Panel!NoRows
    BY DEF Panel!Init
  <2> QED
    BY <2>1, NoRowsNoContainers
       DEF Panel!Init, PanelInv, OneRestartAtATime, Panel!OneRestartAtATime
<1>2. PanelInv => OneRestartAtATime
  BY DEF PanelInv
<1> QED
  BY <1>1, <1>2, PanelNext, PTL DEF Panel!Spec

-----------------------------------------------------------------------------
(* ToolAgent: the steps that are displayed.                                *)

Call == [id : Ids \cup {"None"}, args : Arguments, started : BOOLEAN]
CallEvents == {Agent!ExecuteFunctionEvent(c) : c \in Call}
              \cup {Agent!ExecutedFunctionEvent(c) : c \in Call}

\* The key on_message() computes from the events of a call
CallKey(c) == IF c.id # "None" THEN c.id ELSE Agent!FuncName(c.args)

Starts(e, key) == e.type = "ExecuteFunctionEvent" /\ Agent!ToolKey(e) = key

\* After the first n of the queued events, dict[key] will hold what a call with
\* these arguments was started with: by the last of them that starts a call with
\* that key, or, if none does, already now.
WillHold(evs, dict, n, key, args) ==
  \/ \E j \in 1 .. n :
       /\ Starts(evs[j], key)
       /\ evs[j].func_name = Agent!FuncName(args) /\ evs[j].arguments = args
       /\ \A k \in j + 1 .. n : ~Starts(evs[k], key)
  \/ /\ \A k \in 1 .. n : ~Starts(evs[k], key)
     /\ key \in DOMAIN dict
     /\ dict[key] = [name |-> Agent!FuncName(args), input |-> args]

\* Calls that are under way have keys of their own, and when the end of a call is
\* handled its key holds what it was started with.
AgentInv ==
  /\ calls \subseteq Call /\ events \in Seq(CallEvents)
  /\ \A c, d \in calls : CallKey(c) = CallKey(d) => c = d
  /\ \A c \in calls :
       c.started => WillHold(events, tool_inputs, Len(events), CallKey(c), c.args)
  /\ \A i \in 1 .. Len(events) : events[i].type = "ExecutedFunctionEvent" =>
       \E args \in Arguments :
         /\ events[i].content = Agent!Output(args)
         /\ WillHold(events, tool_inputs, i - 1, Agent!ToolKey(events[i]), args)
  /\ StepShowsItsInput

\* The events of a call have its key.
LEMMA EventFacts ==
  ASSUME NEW c \in Call
  PROVE  LET s == Agent!ExecuteFunctionEvent(c)
             e == Agent!ExecutedFunctionEvent(c)
         IN  /\ s \in CallEvents /\ s.type = "ExecuteFunctionEvent"
             /\ s.func_name = Agent!FuncName(c.args) /\ s.arguments = c.args
             /\ Agent!ToolKey(s) = CallKey(c)
             /\ e \in CallEvents /\ e.type = "ExecutedFunctionEvent"
             /\ e.content = Agent!Output(c.args) /\ Agent!ToolKey(e) = CallKey(c)
<1>1. Agent!NoId = "None"
  BY DEF Agent!NoId
<1> QED
  BY <1>1 DEF Agent!ExecuteFunctionEvent, Agent!ExecutedFunctionEvent, Agent!ToolKey, CallKey,
              CallEvents

\* An event starts a call or ends one; the start has that call's input.
LEMMA EventKinds ==
  ASSUME NEW e \in CallEvents
  PROVE  \/ e.type = "ExecutedFunctionEvent"
         \/ /\ e.type = "ExecuteFunctionEvent"
            /\ \E c \in Call : e.func_name = Agent!FuncName(c.args) /\ e.arguments = c.args
<1>1. CASE \E c \in Call : e = Agent!ExecuteFunctionEvent(c)
  BY <1>1, EventFacts
<1>2. CASE \E c \in Call : e = Agent!ExecutedFunctionEvent(c)
  BY <1>2, EventFacts
<1> QED
  BY <1>1, <1>2 DEF CallEvents

\* What the dictionary will hold does not depend on events that come later.
LEMMA LaterEvents ==
  ASSUME NEW evs, NEW evs2, NEW dict, NEW n \in Nat, NEW key, NEW args,
         \A k \in 1 .. n : evs2[k] = evs[k], WillHold(evs, dict, n, key, args)
  PROVE  WillHold(evs2, dict, n, key, args)
<1>1. ASSUME NEW j \in 1 .. n,
             /\ Starts(evs[j], key)
             /\ evs[j].func_name = Agent!FuncName(args) /\ evs[j].arguments = args
             /\ \A k \in j + 1 .. n : ~Starts(evs[k], key)
      PROVE  WillHold(evs2, dict, n, key, args)
  <2>1. \A k \in j + 1 .. n : ~Starts(evs2[k], key)
    <3> TAKE k \in j + 1 .. n
    <3>1. k \in 1 .. n
      OBVIOUS
    <3> QED
      BY <1>1, <3>1
  <2> QED
    BY <1>1, <2>1 DEF WillHold
<1>2. CASE \A k \in 1 .. n : ~Starts(evs[k], key)
  BY <1>2 DEF WillHold
<1> QED
  BY <1>1, <1>2 DEF WillHold

\* One more event that does not start a call with the key changes nothing.
LEMMA OtherEvent ==
  ASSUME NEW evs, NEW dict, NEW n \in Nat, NEW key, NEW args,
         ~Starts(evs[n + 1], key), WillHold(evs, dict, n, key, args)
  PROVE  WillHold(evs, dict, n + 1, key, args)
<1>1. ASSUME NEW j \in 1 .. n,
             /\ Starts(evs[j], key)
             /\ evs[j].func_name = Agent!FuncName(args) /\ evs[j].arguments = args
             /\ \A k \in j + 1 .. n : ~Starts(evs[k], key)
      PROVE  WillHold(evs, dict, n + 1, key, args)
  <2>1. \A k \in j + 1 .. n + 1 : k \in j + 1 .. n \/ k = n + 1
    OBVIOUS
  <2>2. j \in 1 .. n + 1
    OBVIOUS
  <2> QED
    BY <1>1, <2>1, <2>2 DEF WillHold
<1>2. CASE /\ \A k \in 1 .. n : ~Starts(evs[k], key)
           /\ key \in DOMAIN dict
           /\ dict[key] = [name |-> Agent!FuncName(args), input |-> args]
  <2>1. \A k \in 1 .. n + 1 : k \in 1 .. n \/ k = n + 1
    OBVIOUS
  <2> QED
    BY <1>2, <2>1 DEF WillHold
<1> QED
  BY <1>1, <1>2 DEF WillHold

\* The event at the head of the queue is handled.
LEMMA HeadHandled ==
  ASSUME AgentInv, events # << >>, NEW dict2, NEW n \in 1 .. Len(events), NEW key, NEW args,
         WillHold(events, tool_inputs, n, key, args),
         Starts(Head(events), key) =>
           /\ key \in DOMAIN dict2
           /\ dict2[key] = [name |-> Head(events).func_name, input |-> Head(events).arguments],
         ~Starts(Head(events), key) /\ key \in DOMAIN tool_inputs =>
           key \in DOMAIN dict2 /\ dict2[key] = tool_inputs[key]
  PROVE  WillHold(Tail(events), dict2, n - 1, key, args)
<1> DEFINE rest == Tail(events)
<1>0. /\ events \in Seq(CallEvents) /\ Len(events) \in Nat \ {0} /\ Head(events) = events[1]
      /\ \A k \in 1 .. Len(events) - 1 : rest[k] = events[k + 1]
  BY HeadTailProperties DEF AgentInv
<1>1. \A k \in 1 .. n - 1 : k + 1 \in 1 .. n /\ rest[k] = events[k + 1]
  BY <1>0
<1> HIDE DEF rest
<1>2. ASSUME NEW j \in 1 .. n,
             /\ Starts(events[j], key)
             /\ events[j].func_name = Agent!FuncName(args) /\ events[j].arguments = args
             /\ \A k \in j + 1 .. n : ~Starts(events[k], key)
      PROVE  WillHold(rest, dict2, n - 1, key, args)
  <2>1. CASE j = 1
    <3>1. \A k \in 1 .. n - 1 : ~Starts(rest[k], key)
      <4> TAKE k \in 1 .. n - 1
      <4>1. k + 1 \in j + 1 .. n
        BY <2>1
      <4> QED
        BY <1>1, <1>2, <4>1
    <3> QED
      BY <1>0, <1>2, <2>1, <3>1 DEF WillHold
  <2>2. CASE j # 1
    <3>1. j - 1 \in 1 .. n - 1 /\ rest[j - 1] = events[j]
      <4>1. j - 1 \in 1 .. n - 1 /\ (j - 1) + 1 = j
        BY <2>2
      <4> QED
        BY <1>1, <4>1
    <3>2. \A k \in (j - 1) + 1 .. n - 1 : ~Starts(rest[k], key)
      <4> TAKE k \in (j - 1) + 1 .. n - 1
      <4>1. k + 1 \in j + 1 .. n /\ k \in 1 .. n - 1
        BY <2>2
      <4> QED
        BY <1>1, <1>2, <4>1
    <3> QED
      BY <1>2, <3>1, <3>2 DEF WillHold
  <2> QED
    BY <2>1, <2>2
<1>3. CASE /\ \A k \in 1 .. n : ~Starts(events[k], key)
           /\ key \in DOMAIN tool_inputs
           /\ tool_inputs[key] = [name |-> Agent!FuncName(args), input |-> args]
  <2>1. ~Starts(Head(events), key)
    BY <1>0, <1>3
  <2>2. \A k \in 1 .. n - 1 : ~Starts(rest[k], key)
    BY <1>1, <1>3
  <2> QED
    BY <1>3, <2>1, <2>2 DEF WillHold
<1> QED
  BY <1>2, <1>3 DEF WillHold, rest

\* A reply starts calls under keys of their own.
LEMMA ReplyInv == AgentInv /\ Agent!Reply => AgentInv'
<1> SUFFICES ASSUME AgentInv, Agent!Reply PROVE AgentInv'
  OBVIOUS
<1>0. Agent!NoId = "None" /\ "None" \notin Ids
  BY IdsAssumption DEF Agent!NoId
<1>1. /\ calls' \subseteq Call
      /\ \A c, d \in calls' : CallKey(c) = CallKey(d) => c = d
      /\ \A c \in calls' : ~c.started
  <2>1. CASE \E ids \in (SUBSET Ids) \ {{}} : \E args \in [ids -> Arguments] :
               calls' = {[id |-> i, args |-> args[i], started |-> FALSE] : i \in ids}
    <3>0. PICK ids \in (SUBSET Ids) \ {{}} : \E args \in [ids -> Arguments] :
                 calls' = {[id |-> i, args |-> args[i], started |-> FALSE] : i \in ids}
      BY <2>1
    <3>1. PICK args \in [ids -> Arguments] :
                 calls' = {[id |-> i, args |-> args[i], started |-> FALSE] : i \in ids}
      BY <3>0
    <3>2. ASSUME NEW c \in calls'
          PROVE  /\ CallKey(c) \in ids /\ c \in Call /\ ~c.started
                 /\ c = [id |-> CallKey(c), args |-> args[CallKey(c)], started |-> FALSE]
      <4>1. PICK i \in ids : c = [id |-> i, args |-> args[i], started |-> FALSE]
        BY <3>1
      <4>2. i \in Ids /\ i # "None" /\ args[i] \in Arguments
        BY <1>0
      <4>3. CallKey(c) = i
        BY <4>1, <4>2 DEF CallKey
      <4>4. c \in Call /\ ~c.started
        BY <4>1, <4>2 DEF Call
      <4> QED
        BY <4>1, <4>3, <4>4
    <3> QED
      BY <3>2
  <2>2. CASE \E a \in Arguments : calls' = {[id |-> Agent!NoId, args |-> a, started |-> FALSE]}
    BY <1>0, <2>2 DEF Call
  <2> QED
    BY <2>1, <2>2 DEF Agent!Reply
<1>2. UNCHANGED <<events, tool_inputs, step>>
  BY DEF Agent!Reply
<1> QED
  BY <1>1, <1>2 DEF AgentInv, StepShowsItsInput, Agent!StepShowsItsInput

\* An event is appended: those before it are as they were.
LEMMA AppendedEvent ==
  ASSUME AgentInv, NEW e \in CallEvents, events' = Append(events, e)
  PROVE  /\ Len(events) \in Nat
         /\ events' \in Seq(CallEvents) /\ Len(events') = Len(events) + 1
         /\ \A k \in 1 .. Len(events) : events'[k] = events[k]
         /\ events'[Len(events) + 1] = e
BY AppendProperties DEF AgentInv

\* The ends of calls that were queued before the event are still known.
LEMMA EndsKept ==
  ASSUME AgentInv, NEW e \in CallEvents, events' = Append(events, e),
         tool_inputs' = tool_inputs, NEW i \in 1 .. Len(events),
         events'[i].type = "ExecutedFunctionEvent"
  PROVE  \E args \in Arguments :
           /\ events'[i].content = Agent!Output(args)
           /\ WillHold(events', tool_inputs', i - 1, Agent!ToolKey(events'[i]), args)
<1>1. Len(events) \in Nat /\ \A k \in 1 .. Len(events) : events'[k] = events[k]
  BY AppendedEvent
<1>2. PICK args \in Arguments :
             /\ events[i].content = Agent!Output(args)
             /\ WillHold(events, tool_inputs, i - 1, Agent!ToolKey(events[i]), args)
  BY <1>1 DEF AgentInv
<1>3. i - 1 \in Nat /\ \A k \in 1 .. i - 1 : k \in 1 .. Len(events)
  BY <1>1
<1>4. WillHold(events', tool_inputs, i - 1, Agent!ToolKey(events[i]), args)
  BY <1>1, <1>2, <1>3, LaterEvents
<1> QED
  BY <1>1, <1>2, <1>4

\* A call announces itself with its arguments.
LEMMA ExecuteInv == AgentInv /\ (\E c \in calls : Agent!Execute(c)) => AgentInv'
<1> SUFFICES ASSUME AgentInv, NEW c \in calls, Agent!Execute(c) PROVE AgentInv'
  OBVIOUS
<1> DEFINE e == Agent!ExecuteFunctionEvent(c)
           started == [c EXCEPT !.started = TRUE]
           n == Len(events)
<1>0. /\ c \in Call /\ calls \subseteq Call /\ calls' = (calls \ {c}) \cup {started}
      /\ events' = Append(events, e) /\ tool_inputs' = tool_inputs /\ step' = step
  BY DEF Agent!Execute, AgentInv
<1>1. /\ e \in CallEvents /\ e.type = "ExecuteFunctionEvent"
      /\ e.func_name = Agent!FuncName(c.args) /\ e.arguments = c.args
      /\ Agent!ToolKey(e) = CallKey(c)
  BY <1>0, EventFacts
<1> HIDE DEF e
<1>2. /\ n \in Nat /\ events' \in Seq(CallEvents) /\ Len(events') = n + 1
      /\ \A k \in 1 .. n : events'[k] = events[k]
      /\ events'[n + 1] = e
  BY <1>0, <1>1, AppendedEvent
<1> HIDE DEF n
<1>3. started \in Call /\ started.id = c.id /\ started.args = c.args
  BY <1>0 DEF Call
<1>4. CallKey(started) = CallKey(c)
  BY <1>3 DEF CallKey
<1> HIDE DEF started
<1>5. \A a, b \in calls' : CallKey(a) = CallKey(b) => a = b
  BY <1>0, <1>4 DEF AgentInv
<1>6. ASSUME NEW d \in calls', d.started
      PROVE  WillHold(events', tool_inputs', n + 1, CallKey(d), d.args)
  <2>1. CASE d = started
    <3>1. Starts(events'[n + 1], CallKey(d))
      BY <1>1, <1>2, <1>4, <2>1 DEF Starts
    <3>2. n + 1 \in 1 .. n + 1 /\ \A k \in (n + 1) + 1 .. n + 1 : FALSE
      BY <1>2
    <3> QED
      BY <1>1, <1>2, <1>3, <2>1, <3>1, <3>2 DEF WillHold
  <2>2. CASE d # started
    <3>1. d \in calls /\ CallKey(d) # CallKey(c)
      BY <1>0, <2>2 DEF AgentInv
    <3>2. WillHold(events, tool_inputs, n, CallKey(d), d.args)
      BY <1>6, <3>1 DEF AgentInv, n
    <3>3. WillHold(events', tool_inputs, n, CallKey(d), d.args)
      BY <1>2, <3>2, LaterEvents
    <3>4. ~Starts(events'[n + 1], CallKey(d))
      BY <1>1, <1>2, <3>1 DEF Starts
    <3> QED
      BY <1>0, <1>2, <3>3, <3>4, OtherEvent
  <2> QED
    BY <2>1, <2>2
<1>7. ASSUME NEW i \in 1 .. n + 1, events'[i].type = "ExecutedFunctionEvent"
      PROVE  \E args \in Arguments :
               /\ events'[i].content = Agent!Output(args)
               /\ WillHold(events', tool_inputs', i - 1, Agent!ToolKey(events'[i]), args)
  <2>1. i # n + 1
    BY <1>1, <1>2, <1>7
  <2>2. i \in 1 .. Len(events)
    BY <1>2, <2>1 DEF n
  <2> QED
    BY <1>0, <1>1, <1>7, <2>2, EndsKept
<1> QED
  BY <1>0, <1>2, <1>3, <1>5, <1>6, <1>7 DEF AgentInv, StepShowsItsInput, Agent!StepShowsItsInput

\* A call announces its output.
LEMMA ExecutedInv == AgentInv /\ (\E c \in calls : Agent!Executed(c)) => AgentInv'
<1> SUFFICES ASSUME AgentInv, NEW c \in calls, Agent!Executed(c) PROVE AgentInv'
  OBVIOUS
<1> DEFINE e == Agent!ExecutedFunctionEvent(c)
           n == Len(events)
<1>0. /\ c \in Call /\ c.args \in Arguments /\ c.started /\ calls' = calls \ {c}
      /\ events' = Append(events, e) /\ tool_inputs' = tool_inputs /\ step' = step
  BY DEF Agent!Executed, AgentInv, Call
<1>1. /\ e \in CallEvents /\ e.type = "ExecutedFunctionEvent"
      /\ e.content = Agent!Output(c.args) /\ Agent!ToolKey(e) = CallKey(c)
  BY <1>0, EventFacts
<1> HIDE DEF e
<1>2. /\ n \in Nat /\ events' \in Seq(CallEvents) /\ Len(events') = n + 1
      /\ \A k \in 1 .. n : events'[k] = events[k]
      /\ events'[n + 1] = e
  BY <1>0, <1>1, AppendedEvent
<1>3. \A d \in calls : d.started => WillHold(events', tool_inputs, n, CallKey(d), d.args)
  <2> SUFFICES ASSUME NEW d \in calls, d.started
               PROVE  WillHold(events', tool_inputs, n, CallKey(d), d.args)
    OBVIOUS
  <2>1. WillHold(events, tool_inputs, n, CallKey(d), d.args)
    BY DEF AgentInv
  <2> QED
    BY <1>2, <2>1, LaterEvents
<1> HIDE DEF n
<1>4. ASSUME NEW d \in calls', d.started
      PROVE  WillHold(events', tool_inputs', n + 1, CallKey(d), d.args)
  <2>1. ~Starts(events'[n + 1], CallKey(d))
    BY <1>1, <1>2 DEF Starts
  <2> QED
    BY <1>0, <1>2, <1>3, <1>4, <2>1, OtherEvent
<1>5. ASSUME NEW i \in 1 .. n + 1, events'[i].type = "ExecutedFunctionEvent"
      PROVE  \E args \in Arguments :
               /\ events'[i].content = Agent!Output(args)
               /\ WillHold(events', tool_inputs', i - 1, Agent!ToolKey(events'[i]), args)
  <2>1. CASE i = n + 1
    <3>1. i - 1 = n
      BY <1>2, <2>1
    <3> QED
      BY <1>0, <1>1, <1>2, <1>3, <2>1, <3>1
  <2>2. CASE i # n + 1
    <3>1. i \in 1 .. Len(events)
      BY <1>2, <2>2 DEF n
    <3> QED
      BY <1>0, <1>1, <1>5, <3>1, EndsKept
  <2> QED
    BY <2>1, <2>2
<1>6. calls' \subseteq Call /\ \A a, b \in calls' : CallKey(a) = CallKey(b) => a = b
  BY <1>0 DEF AgentInv
<1> QED
  BY <1>0, <1>2, <1>4, <1>5, <1>6 DEF AgentInv, StepShowsItsInput, Agent!StepShowsItsInput

\* Handling the head of the queue keeps the invariant, but for the step that is
\* displayed, if the dictionary is updated as the head says.
LEMMA HandledInv ==
  ASSUME AgentInv, events # << >>, events' = Tail(events), calls' = calls, StepShowsItsInput',
         \A key : Starts(Head(events), key) =>
           /\ key \in DOMAIN tool_inputs'
           /\ tool_inputs'[key]
                = [name |-> Head(events).func_name, input |-> Head(events).arguments],
         \A key : ~Starts(Head(events), key) /\ key \in DOMAIN tool_inputs =>
           key \in DOMAIN tool_inputs' /\ tool_inputs'[key] = tool_inputs[key]
  PROVE  AgentInv'
<1>1. /\ events \in Seq(CallEvents) /\ Len(events) \in Nat \ {0}
      /\ events' \in Seq(CallEvents) /\ Len(events') = Len(events) - 1
      /\ \A k \in 1 .. Len(events) - 1 : events'[k] = events[k + 1]
  BY HeadTailProperties DEF AgentInv
<1>2. ASSUME NEW n \in 1 .. Len(events), NEW key, NEW args,
             WillHold(events, tool_inputs, n, key, args)
      PROVE  WillHold(events', tool_inputs', n - 1, key, args)
  <2> DEFINE dict2 == tool_inputs'
  <2>1. /\ Starts(Head(events), key) =>
             /\ key \in DOMAIN dict2
             /\ dict2[key] = [name |-> Head(events).func_name, input |-> Head(events).arguments]
        /\ ~Starts(Head(events), key) /\ key \in DOMAIN tool_inputs =>
             key \in DOMAIN dict2 /\ dict2[key] = tool_inputs[key]
    OBVIOUS
  <2> HIDE DEF dict2
  <2>2. WillHold(Tail(events), dict2, n - 1, key, args)
    BY <1>2, <2>1, HeadHandled
  <2> QED
    BY <2>2 DEF dict2
<1>3. ASSUME NEW c \in calls, c.started
      PROVE  WillHold(events', tool_inputs', Len(events'), CallKey(c), c.args)
  <2>1. WillHold(events, tool_inputs, Len(events), CallKey(c), c.args)
    BY <1>3 DEF AgentInv
  <2>2. Len(events) \in 1 .. Len(events)
    BY <1>1
  <2> QED
    BY <1>1, <1>2, <2>1, <2>2
<1>4. ASSUME NEW i \in 1 .. Len(events'), events'[i].type = "ExecutedFunctionEvent"
      PROVE  \E args \in Arguments :
               /\ events'[i].content = Agent!Output(args)
               /\ WillHold(events', tool_inputs', i - 1, Agent!ToolKey(events'[i]), args)
  <2>1. i \in 1 .. Len(events) /\ i + 1 \in 1 .. Len(events) /\ (i + 1) - 1 = i
        /\ events'[i] = events[i + 1]
    BY <1>1
  <2>2. PICK args \in Arguments :
               /\ events[i + 1].content = Agent!Output(args)
               /\ WillHold(events, tool_inputs, i, Agent!ToolKey(events[i + 1]), args)
    BY <1>4, <2>1 DEF AgentInv
  <2> QED
    BY <1>2, <2>1, <2>2
<1> QED
  BY <1>1, <1>3, <1>4 DEF AgentInv

\* The input of a call is stored under its key.
LEMMA HandleExecuteInv == AgentInv /\ Agent!HandleExecute => AgentInv'
<1> SUFFICES ASSUME AgentInv, Agent!HandleExecute PROVE AgentInv'
  OBVIOUS
<1> DEFINE e == Head(events)
           value == [name |-> e.func_name, input |-> e.arguments]
<1>1. /\ events # << >> /\ events' = Tail(events) /\ calls' = calls /\ step' = step
      /\ tool_inputs' = Agent!Updated(tool_inputs, Agent!ToolKey(e), value)
      /\ e.type = "ExecuteFunctionEvent"
  BY DEF Agent!HandleExecute
<1> HIDE DEF value
<1>2. /\ Agent!ToolKey(e) \in DOMAIN tool_inputs' /\ tool_inputs'[Agent!ToolKey(e)] = value
      /\ \A key \in DOMAIN tool_inputs : key # Agent!ToolKey(e) =>
           key \in DOMAIN tool_inputs' /\ tool_inputs'[key] = tool_inputs[key]
  BY <1>1 DEF Agent!Updated
<1>3. \A key : Starts(e, key) <=> key = Agent!ToolKey(e)
  BY <1>1 DEF Starts
<1>4. StepShowsItsInput'
  BY <1>1 DEF AgentInv, StepShowsItsInput, Agent!StepShowsItsInput
<1> QED
  BY <1>1, <1>2, <1>3, <1>4, HandledInv DEF value

\* The output of a call is paired with the input under its key.
LEMMA HandleExecutedInv == AgentInv /\ Agent!HandleExecuted => AgentInv'
<1> SUFFICES ASSUME AgentInv, Agent!HandleExecuted PROVE AgentInv'
  OBVIOUS
<1> DEFINE e == Head(events)
           key == Agent!ToolKey(e)
<1>1. /\ events # << >> /\ events' = Tail(events) /\ calls' = calls
      /\ tool_inputs' = tool_inputs /\ e.type = "ExecutedFunctionEvent"
  BY DEF Agent!HandleExecuted
<1>2. e = events[1] /\ 1 \in 1 .. Len(events) /\ 1 - 1 = 0
  BY <1>1, HeadTailProperties DEF AgentInv
<1>3. PICK args \in Arguments : /\ e.content = Agent!Output(args)
                               /\ WillHold(events, tool_inputs, 0, key, args)
  BY <1>1, <1>2 DEF AgentInv
<1>4. key \in DOMAIN tool_inputs
      /\ tool_inputs[key] = [name |-> Agent!FuncName(args), input |-> args]
  BY <1>3 DEF WillHold
<1>5. step' = [name |-> tool_inputs[key].name, input |-> tool_inputs[key].input,
               output |-> e.content]
  BY <1>4 DEF Agent!HandleExecuted
<1>6. step'.name = Agent!FuncName(args) /\ step'.input = args /\ step'.output = Agent!Output(args)
  BY <1>3, <1>4, <1>5
<1>7. StepShowsItsInput'
  BY <1>6 DEF StepShowsItsInput, Agent!StepShowsItsInput
<1>8. \A k : ~Starts(e, k)
  BY <1>1 DEF Starts
<1> QED
  BY <1>1, <1>7, <1>8, HandledInv

\* However the events of concurrent calls interleave, and though keys come again,
\* a step shows the tool and the arguments its output was made from.
THEOREM AgentShowsInputs == Agent!Spec => []StepShowsItsInput
<1>1. Agent!Init => AgentInv
  <2> SUFFICES ASSUME Agent!Init PROVE AgentInv
    OBVIOUS
  <2>1. calls = {} /\ events = << >> /\ Len(events) = 0 /\ events \in Seq(CallEvents)
    BY DEF Agent!Init
  <2>2. StepShowsItsInput
    BY DEF Agent!Init, StepShowsItsInput, Agent!StepShowsItsInput
  <2> QED
    BY <2>1, <2>2 DEF AgentInv
<1>2. AgentInv /\ [Agent!Next]_(Agent!vars) => AgentInv'
  <2> SUFFICES ASSUME AgentInv, [Agent!Next]_(Agent!vars) PROVE AgentInv'
    OBVIOUS
  <2>1. CASE Agent!Reply
    BY <2>1, ReplyInv
  <2>2. CASE \E c \in calls : Agent!Execute(c)
    BY <2>2, ExecuteInv
  <2>3. CASE \E c \in calls : Agent!Executed(c)
    BY <2>3, ExecutedInv
  <2>4. CASE Agent!HandleExecute
    BY <2>4, HandleExecuteInv
  <2>5. CASE Agent!HandleExecuted
    BY <2>5, HandleExecutedInv
  <2>6. CASE Agent!FinishMessage
    <3>1. calls = {} /\ events = << >> /\ calls' = {} /\ events' = << >> /\ Len(events') = 0
          /\ events' \in Seq(CallEvents) /\ step' = Agent!NoStep
      BY <2>6 DEF Agent!FinishMessage
    <3> QED
      BY <3>1 DEF AgentInv, StepShowsItsInput, Agent!StepShowsItsInput
  <2>7. CASE UNCHANGED Agent!vars
    BY <2>7 DEF Agent!vars, AgentInv, StepShowsItsInput, Agent!StepShowsItsInput
  <2> QED
    BY <2>1, <2>2, <2>3, <2>4, <2>5, <2>6, <2>7 DEF Agent!Next
<1>3. AgentInv => StepShowsItsInput
  BY DEF AgentInv
<1> QED
  BY <1>1, <1>2, <1>3, PTL DEF Agent!Spec

-----------------------------------------------------------------------------
(* Campaign: a burst that begins after the stop event is the injector's last. *)

Places == {"off", "query", "wait", "stagger", "wave", "enter", "burst", "quiet", "done"}

\* What a step relies on: an injector that has begun a burst after the event is
\* in that burst or beyond it, where nothing but the event leads on.
TrafficInv ==
  /\ stop \in BOOLEAN
  /\ pc \in [Threads -> Places]
  /\ begun \in [REGISTRY -> 0 .. 1]
  /\ \A t \in REGISTRY :
       begun[t] = 1 => stop /\ pc[t] \in {"burst", "wave", "quiet", "done"}

\* The invariant holds at the start of the generator, in any attack mode.
LEMMA TrafficInit == CampaignInit => TrafficInv
<1> SUFFICES ASSUME CampaignInit PROVE TrafficInv
  OBVIOUS
<1>1. pc \in [Threads -> Places]
  BY DEF CampaignInit, Places
<1>2. begun \in [REGISTRY -> 0 .. 1] /\ \A t \in REGISTRY : begun[t] # 1
  BY DEF CampaignInit
<1> QED
  BY <1>1, <1>2 DEF CampaignInit, TrafficInv

\* A step of one injector other than the start of a burst: it moves within the
\* places above, or comes from a place where no such burst was begun.
LEMMA MoveKeepsTraffic ==
  ASSUME TrafficInv, NEW t \in REGISTRY, NEW where \in Places,
         pc' = [pc EXCEPT ![t] = where], UNCHANGED <<stop, begun>>,
         begun[t] = 1 => where \in {"burst", "wave", "quiet", "done"}
  PROVE  TrafficInv'
<1>1. t \in Threads
  BY DEF Threads
<1>2. pc' \in [Threads -> Places]
  BY <1>1 DEF TrafficInv
<1>3. ASSUME NEW u \in REGISTRY, begun'[u] = 1
      PROVE  stop' /\ pc'[u] \in {"burst", "wave", "quiet", "done"}
  BY <1>1, <1>3 DEF TrafficInv, Threads
<1> QED
  BY <1>2, <1>3 DEF TrafficInv

\* Every step of main() and of its threads keeps the invariant.
LEMMA TrafficNext == TrafficInv /\ [CampaignNext]_campaignVars => TrafficInv'
<1> SUFFICES ASSUME TrafficInv, [CampaignNext]_campaignVars PROVE TrafficInv'
  OBVIOUS
<1>1. ASSUME QueryBenign \/ WaitBenign PROVE TrafficInv'
  <2>1. PICK where \in {"wait", "query", "done"} : pc' = [pc EXCEPT !["dns"] = where]
    BY <1>1 DEF QueryBenign, WaitBenign, Goto
  <2>2. UNCHANGED <<stop, begun>>
    BY <1>1 DEF QueryBenign, WaitBenign
  <2>3. \A t \in REGISTRY : pc'[t] = pc[t]
    BY <2>1 DEF TrafficInv, Threads, REGISTRY
  <2>4. pc' \in [Threads -> Places]
    BY <2>1 DEF TrafficInv, Places
  <2> QED
    BY <2>2, <2>3, <2>4 DEF TrafficInv
<1>2. ASSUME NEW t \in REGISTRY, EnterBurst(t) PROVE TrafficInv'
  BY <1>2, MoveKeepsTraffic DEF EnterBurst, Enter, Goto, TrafficInv, Places
<1>3. ASSUME NEW t \in REGISTRY, EndWave(t) PROVE TrafficInv'
  BY <1>3, MoveKeepsTraffic DEF EndWave, Goto, TrafficInv, Places
<1>4. ASSUME NEW t \in REGISTRY, Query(t) PROVE TrafficInv'
  BY <1>4 DEF Query, TrafficInv
<1>5. ASSUME NEW t \in REGISTRY, Gap(t) PROVE TrafficInv'
  BY <1>5, MoveKeepsTraffic DEF Gap, Goto, TrafficInv, Places
<1>6. ASSUME NEW t \in REGISTRY, NEW i \in {"loud", "slow"}, NextWave(t, i) PROVE TrafficInv'
  <2>1. CASE stop
    BY <1>6, <2>1, MoveKeepsTraffic DEF NextWave, Goto, TrafficInv, Places
  <2>2. CASE ~stop
    BY <1>6, <2>2, MoveKeepsTraffic DEF NextWave, Goto, TrafficInv, Places
  <2> QED
    BY <2>1, <2>2
<1>7. ASSUME NEW t \in REGISTRY, NEW n, DoBurst(t, n) PROVE TrafficInv'
  <2>1. begun[t] = 0
    BY <1>7 DEF DoBurst, TrafficInv
  <2>2. pc' \in [Threads -> Places] /\ t \in Threads
    BY <1>7 DEF DoBurst, Goto, TrafficInv, Places, Threads
  <2>3. begun' \in [REGISTRY -> 0 .. 1] /\ (begun'[t] = 1 => stop)
    BY <1>7, <2>1 DEF DoBurst, TrafficInv
  <2>4. ASSUME NEW u \in REGISTRY, begun'[u] = 1
        PROVE  stop' /\ pc'[u] \in {"burst", "wave", "quiet", "done"}
    <3>1. CASE u = t
      BY <1>7, <2>2, <2>3, <2>4, <3>1 DEF DoBurst, Goto, TrafficInv
    <3>2. CASE u # t
      BY <1>7, <2>4, <3>2 DEF DoBurst, Goto, TrafficInv, Threads
    <3> QED
      BY <3>1, <3>2
  <2> QED
    BY <1>7, <2>2, <2>3, <2>4 DEF DoBurst, TrafficInv
<1>8. CASE Interrupt
  BY <1>8 DEF Interrupt, TrafficInv
<1>9. CASE Exit
  BY <1>9 DEF Exit, TrafficInv, Places, Threads
<1>10. CASE UNCHANGED campaignVars
  BY <1>10 DEF campaignVars, TrafficInv
<1> QED
  BY <1>1, <1>2, <1>3, <1>4, <1>5, <1>6, <1>7, <1>8, <1>9, <1>10 DEF CampaignNext

\* Whatever the attack mode and the sizes of waves and bursts, an injector begins
\* at most one burst after the stop event.
THEOREM BurstsStop == CampaignSpec => []AtMostOneBurstAfterStop
<1>1. TrafficInv => AtMostOneBurstAfterStop
  BY DEF TrafficInv, AtMostOneBurstAfterStop
<1> QED
  BY TrafficInit, TrafficNext, <1>1, PTL DEF CampaignSpec

-----------------------------------------------------------------------------
(* LlmAccess: every call has a model, though its file can be read empty.   *)

Chosen == Models \cup {Default}
Percent == (0 .. 100) \cup {None}

\* The file may be empty, what is read from it never is; a sample's percentage
\* is within its bounds from the answer to the panel.
AccessInv ==
  /\ llm_model \in Models \cup {None, Empty}
  /\ posted \in Models \cup {None}
  /\ call # None => call.model \in Chosen
  /\ call # None /\ call.step = "answered" => call.sample.used_pct \in Percent
  /\ usage \notin {None, TornSample} => usage.used_pct \in Percent
  /\ chat \in Chosen \cup {None}
  /\ panel # None => panel.model \in Chosen /\ panel.used_pct \in Percent

\* Whatever the file holds, reading it gives a model.
LEMMA ReadGivesAModel ==
  ASSUME AccessInv
  PROVE  groq_model \in Chosen
BY DEF AccessInv, groq_model, Model, Chosen

\* The share of the budget is a percentage, or nothing without a limit.
LEMMA UsedPctIsPercent ==
  ASSUME NEW limit \in Nat, NEW remaining \in Nat
  PROVE  UsedPct(limit, remaining) \in Percent
<1>1. CASE limit > 0
  <2>1. ((limit - remaining) * 100) \div limit \in Int
    BY <1>1
  <2>2. \A pct \in Int : Clipped(pct) \in 0 .. 100
    BY DEF Clipped
  <2>3. Clipped(((limit - remaining) * 100) \div limit) \in 0 .. 100
    BY <2>1, <2>2
  <2> QED
    BY <1>1, <2>3 DEF UsedPct, Percent
<1>2. CASE ~(limit > 0)
  BY <1>2 DEF UsedPct, Percent
<1> QED
  BY <1>1, <1>2

\* Nothing is selected at first.
LEMMA AccessInit == LlmInit => AccessInv
BY DEF LlmInit, AccessInv

\* Every step of the dashboard, of its call and of the CTI worker's chat keeps
\* the invariant.
LEMMA AccessNext ==
  ASSUME AccessInv, [LlmNext]_llmVars
  PROVE  AccessInv'
<1>1. ASSUME NEW m \in Models, PostModel(m) PROVE AccessInv'
  BY <1>1 DEF PostModel, AccessInv
<1>2. CASE WriteModel
  BY <1>2 DEF WriteModel, AccessInv
<1>3. CASE BeginCall
  <2>1. call'.model \in Chosen /\ call'.step = "asked"
    BY <1>3, ReadGivesAModel DEF BeginCall
  <2> QED
    BY <1>3, <2>1 DEF BeginCall, AccessInv
<1>4. CASE Fail
  BY <1>4 DEF Fail, AccessInv
<1>5. CASE WriteUsage
  BY <1>5 DEF WriteUsage, AccessInv
<1>6. ASSUME NEW code \in {"200", "429"}, NEW limit \in Limits, NEW remaining \in Limits,
             Answer(code, limit, remaining)
      PROVE  AccessInv'
  <2>1. UsedPct(limit, remaining) \in Percent
    BY <1>6, UsedPctIsPercent, LimitsAssumption
  <2>2. call'.model \in Chosen /\ call'.sample.used_pct \in Percent
    BY <1>6, <2>1 DEF Answer, AccessInv
  <2> QED
    BY <1>6, <2>2 DEF Answer, AccessInv
<1>7. CASE BeginChat
  BY <1>7, ReadGivesAModel DEF BeginChat, AccessInv
<1>8. CASE EndChat
  BY <1>8 DEF EndChat, AccessInv
<1>9. CASE ShowOps
  <2>1. panel'.model \in Chosen
    BY <1>9, ReadGivesAModel DEF ShowOps
  <2>2. panel'.used_pct \in Percent
    BY <1>9 DEF ShowOps, AccessInv, Percent
  <2> QED
    BY <1>9, <2>1, <2>2 DEF ShowOps, AccessInv
<1>10. CASE UiDies
  BY <1>10 DEF UiDies, AccessInv
<1>11. CASE UNCHANGED llmVars
  BY <1>11 DEF llmVars, AccessInv
<1> QED
  BY <1>1, <1>2, <1>3, <1>4, <1>5, <1>6, <1>7, <1>8, <1>9, <1>10, <1>11 DEF LlmNext

\* For any models and limits, no call goes out without a model and the panel's
\* bar stays within its bounds.
THEOREM CallsHaveAModel == LlmSpec => []NoCallWithoutAModel
<1>1. AccessInv /\ [LlmNext]_llmVars => AccessInv'
  BY AccessNext
<1>2. AccessInv => NoCallWithoutAModel
  BY DEF AccessInv, NoCallWithoutAModel, Chosen, Percent
<1> QED
  BY AccessInit, <1>1, <1>2, PTL DEF LlmSpec
-----------------------------------------------------------------------------
(* Detection: the decision about a window.                                 *)

\* A set of natural numbers that is not empty has a least element.
LEMMA LeastOf ==
  ASSUME NEW S \in SUBSET Nat, S # {}
  PROVE  \E n \in S : \A m \in S : n <= m
<1> DEFINE less == {xy \in Nat \X Nat : xy[1] < xy[2]}
<1>1. IsWellFoundedOn(less, Nat)
  BY NatLessThanWellFounded DEF OpToRel
<1>2. \E n \in S : \A m \in S : ~ (<<m, n>> \in less)
  <2> HIDE DEF less
  <2> QED
    BY <1>1, WFMin
<1>3. PICK n \in S : \A m \in S : ~ (<<m, n>> \in less)
  BY <1>2
<1>4. ASSUME NEW m \in S PROVE n <= m
  <2>1. n \in Nat /\ m \in Nat /\ <<m, n>> \notin less
    BY <1>3
  <2>2. ~ (m < n)
    BY <2>1
  <2> QED
    BY <2>1, <2>2
<1> QED
  BY <1>4

\* Finitely many numbers have a greatest: of two counterexamples the one with
\* fewer positions would leave out the last position of the other.
LEMMA GreatestOf ==
  ASSUME NEW n \in Nat, NEW D \in SUBSET (1 .. n), D # {}, NEW f, \A i \in D : f[i] \in Int
  PROVE  \E i \in D : \A j \in D : f[i] >= f[j]
<1> DEFINE Top(E) == \E i \in E : \A j \in E : f[i] >= f[j]
           S == {m \in Nat : \E E \in SUBSET (1 .. m) : E \subseteq D /\ E # {} /\ ~Top(E)}
<1> SUFFICES ASSUME ~Top(D) PROVE FALSE
  OBVIOUS
<1>1. PICK m \in S : \A k \in S : m <= k
  <2>1. S # {} /\ S \in SUBSET Nat
    OBVIOUS
  <2> HIDE DEF S
  <2> QED
    BY <2>1, LeastOf
<1>2. PICK E \in SUBSET (1 .. m) : E \subseteq D /\ E # {} /\ ~Top(E)
  OBVIOUS
<1>3. m \in Nat \ {0} /\ m - 1 \in Nat /\ \A F \in SUBSET (1 .. m - 1) : F \subseteq D /\ F # {} => Top(F)
  <2>0. m \in Nat
    OBVIOUS
  <2> HIDE DEF S, Top
  <2>1. PICK e \in E : e \in 1 .. m
    BY <1>2
  <2>2. m \in Nat \ {0} /\ m - 1 \in Nat /\ ~ (m <= m - 1)
    BY <2>0, <2>1
  <2>3. m - 1 \notin S
    BY <1>1, <2>2
  <2>4. \A F \in SUBSET (1 .. m - 1) : F \subseteq D /\ F # {} => Top(F)
    BY <2>2, <2>3 DEF S
  <2> QED
    BY <2>2, <2>4
<1> HIDE DEF S
<1> DEFINE F == E \ {m}
<1>4. F \in SUBSET (1 .. m - 1) /\ F \subseteq D
  BY <1>2, <1>3
<1>5. F # {}
  <2> SUFFICES ASSUME F = {} PROVE FALSE
    OBVIOUS
  <2>1. E = {m} /\ m \in D
    BY <1>2
  <2> QED
    BY <1>2, <2>1
<1>6. PICK i \in F : \A j \in F : f[i] >= f[j]
  BY <1>3, <1>4, <1>5
<1>7. CASE m \in E
  <2>1. f[m] \in Int /\ f[i] \in Int /\ \A j \in F : f[j] \in Int
    BY <1>2, <1>4, <1>7
  <2>2. \A j \in E : j = m \/ j \in F
    OBVIOUS
  <2>3. CASE f[m] >= f[i]
    BY <1>2, <1>6, <1>7, <2>1, <2>2, <2>3
  <2>4. CASE f[i] >= f[m]
    BY <1>2, <1>6, <2>1, <2>2, <2>4
  <2> QED
    BY <2>1, <2>3, <2>4
<1>8. CASE m \notin E
  BY <1>2, <1>6, <1>8
<1> QED
  BY <1>7, <1>8

\* What a window of scored names is
ScoredWindow(w) ==
  /\ Len(w) \in Nat /\ DOMAIN w = 1 .. Len(w)
  /\ \A i \in Windows!Named(w) : w[i].qname.score \in Int

\* The worst name is one that is kept, and none that is kept is worse.
LEMMA WorstOfKept ==
  ASSUME NEW w, ScoredWindow(w), DOMAIN Windows!Kept(w) # {}
  PROVE  /\ \E i \in DOMAIN Windows!Kept(w) : Windows!Worst(w) = Windows!Kept(w)[i]
         /\ \A i \in DOMAIN Windows!Kept(w) : Windows!Worst(w).score >= Windows!Kept(w)[i].score
<1> DEFINE names == Windows!Kept(w)
           D == DOMAIN names
           score == [i \in D |-> names[i].score]
           scores == {names[i].score : i \in D}
           highest == CHOOSE x \in scores : \A y \in scores : x >= y
           worst == {i \in D : names[i].score = highest}
           first == CHOOSE i \in worst : \A j \in worst : i <= j
<1>1. D \in SUBSET (1 .. Len(w)) /\ \A i \in D : names[i].score \in Int
  BY DEF ScoredWindow, Windows!Kept, Windows!Named, Windows!Queries
<1>2. Windows!Worst(w) = names[first]
  BY DEF Windows!Worst, Windows!Max, Windows!Min
<1> HIDE DEF names, D
<1>3. PICK top \in D : \A j \in D : names[top].score >= names[j].score
  <2>1. PICK i \in D : \A j \in D : score[i] >= score[j]
    <3>1. \A i \in D : score[i] \in Int
      BY <1>1
    <3> HIDE DEF score
    <3>2. Len(w) \in Nat /\ D # {}
      BY DEF ScoredWindow, D, names
    <3> QED
      BY <1>1, <3>1, <3>2, GreatestOf
  <2> QED
    BY <2>1
<1>4. highest \in scores /\ \A y \in scores : highest >= y
  <2>1. \E x \in scores : \A y \in scores : x >= y
    BY <1>3
  <2> HIDE DEF scores
  <2> QED
    BY <2>1
<1>5. worst # {} /\ worst \in SUBSET Nat
  <2>1. PICK i \in D : names[i].score = highest
    BY <1>4
  <2>2. i \in worst
    BY <2>1
  <2>3. D \in SUBSET Nat
    BY <1>1
  <2> HIDE DEF highest
  <2> QED
    BY <2>2, <2>3
<1> HIDE DEF highest
<1>6. first \in worst
  <2>1. \E i \in worst : \A j \in worst : i <= j
    <3> HIDE DEF worst
    <3> QED
      BY <1>5, LeastOf
  <2> HIDE DEF worst
  <2> QED
    BY <2>1
<1>7. first \in D /\ names[first].score = highest
  BY <1>6
<1> HIDE DEF first
<1>8. \A i \in D : highest >= names[i].score
  BY <1>4
<1> QED
  BY <1>2, <1>7, <1>8 DEF D, names

\* The events of windows: a name of a packet, or one of a scenario
CodedNames == [id : Nat, label : Nat, length : Nat, entropy : Nat,
               domain : {"example.local"}, score : {Threshold + 1}]
WindowEvents == [is_response : BOOLEAN, qname : Names \cup {NoName} \cup CodedNames,
                 qtype : {"A", "TXT"}]

\* Windows of such events are scored.
LEMMA WindowsAreScored ==
  ASSUME NEW w \in Seq(WindowEvents)
  PROVE  ScoredWindow(w)
<1>1. \A q \in Names \cup CodedNames : q.score \in Int
  BY DetectionAssumption DEF CodedNames
<1>2. \A i \in 1 .. Len(w) : w[i].qname \in Names \cup {NoName} \cup CodedNames
  <2> SUFFICES ASSUME NEW i \in 1 .. Len(w) PROVE w[i].qname \in Names \cup {NoName} \cup CodedNames
    OBVIOUS
  <2>1. w[i] \in WindowEvents
    <3> HIDE DEF WindowEvents
    <3> QED
      OBVIOUS
  <2> QED
    BY <2>1 DEF WindowEvents
<1> HIDE DEF WindowEvents
<1>3. Len(w) \in Nat /\ DOMAIN w = 1 .. Len(w)
  OBVIOUS
<1> QED
  BY <1>1, <1>2, <1>3 DEF ScoredWindow, Windows!Named, Windows!Queries

\* The instance counts like this module.
LEMMA SameCardinality == \A S : Windows!Cardinality(S) = Cardinality(S)
BY DEF Windows!Cardinality, Cardinality

\* An alert is an anomaly of a window that is not mostly responses.
LEMMA AlertsWhen ==
  ASSUME NEW w
  PROVE  Windows!Alerts(w) <=> ~Windows!MostlyResponses(w) /\ Windows!IsAnomaly(w)
BY DEF Windows!Alerts, Windows!Verdict

\* A query more: the names kept stay kept, and the share of responses falls.
LEMMA OneQueryMore ==
  ASSUME NEW w \in Seq(WindowEvents), NEW e \in WindowEvents, ~e.is_response
  PROVE  LET v == Append(w, e) IN
         /\ v \in Seq(WindowEvents)
         /\ Windows!MostlyResponses(v) => w = << >> \/ Windows!MostlyResponses(w)
         /\ \A i \in DOMAIN Windows!Kept(w) :
              i \in DOMAIN Windows!Kept(v) /\ Windows!Kept(v)[i] = Windows!Kept(w)[i]
<1> DEFINE n == Len(w)
           v == Append(w, e)
<1>1. /\ n \in Nat /\ DOMAIN w = 1 .. n
      /\ v \in Seq(WindowEvents) /\ Len(v) = n + 1 /\ DOMAIN v = 1 .. n + 1
      /\ \A i \in 1 .. n : v[i] = w[i]
      /\ v[n + 1] = e /\ n + 1 \notin 1 .. n
  BY AppendProperties
<1> HIDE DEF v, n
<1>2. \A i : i \in 1 .. n + 1 <=> i \in 1 .. n \/ i = n + 1
  BY <1>1
<1>3. Windows!Queries(v) = Windows!Queries(w) \cup {n + 1} /\ n + 1 \notin Windows!Queries(w)
      /\ Windows!Queries(w) \subseteq 1 .. n
  BY <1>1, <1>2 DEF Windows!Queries
<1>4. /\ Cardinality(Windows!Queries(w)) \in Nat
      /\ Cardinality(Windows!Queries(v)) = Cardinality(Windows!Queries(w)) + 1
  <2>1. IsFiniteSet(1 .. n)
    BY <1>1, FS_Interval
  <2>2. IsFiniteSet(Windows!Queries(w))
    BY <1>3, <2>1, FS_Subset
  <2> QED
    BY <1>3, <2>2, FS_AddElement, FS_CardinalityType
<1>5. Windows!MostlyResponses(v) => w = << >> \/ Windows!MostlyResponses(w)
  <2>1. Len(w) = n
    BY DEF n
  <2> QED
    BY <1>1, <1>4, <2>1, SameCardinality DEF Windows!MostlyResponses
<1>6. ASSUME NEW i \in 1 .. n
      PROVE  /\ i \in Windows!Named(w) <=> i \in Windows!Named(v)
             /\ v[i].qname = w[i].qname
             /\ Windows!UniqueAmong(v, 1 .. i) = Windows!UniqueAmong(w, 1 .. i)
  <2>1. \A k \in 1 .. n : k \in Windows!Named(w) <=> k \in Windows!Named(v)
    BY <1>1, <1>3 DEF Windows!Named
  <2>2. 1 .. i \subseteq 1 .. n
    BY <1>1
  <2>3. Windows!Named(v) \cap (1 .. i) = Windows!Named(w) \cap (1 .. i)
    BY <2>1, <2>2
  <2>4. {v[k].qname : k \in Windows!Named(v) \cap (1 .. i)}
          = {w[k].qname : k \in Windows!Named(w) \cap (1 .. i)}
    BY <1>1, <2>2, <2>3
  <2> QED
    BY <1>1, <2>1, <2>4 DEF Windows!UniqueAmong
<1>7. Windows!Named(w) \subseteq 1 .. n
  BY <1>3 DEF Windows!Named
<1>8. \A i \in DOMAIN Windows!Kept(w) :
        i \in DOMAIN Windows!Kept(v) /\ Windows!Kept(v)[i] = Windows!Kept(w)[i]
  BY <1>6, <1>7 DEF Windows!Kept
<1> QED
  BY <1>1, <1>5, <1>8 DEF v

\* So an alert stays one: the worst name kept is as bad as before, or worse.
LEMMA AlertStays ==
  ASSUME NEW w \in Seq(WindowEvents), NEW e \in WindowEvents, ~e.is_response, Windows!Alerts(w)
  PROVE  Windows!Alerts(Append(w, e))
<1> DEFINE v == Append(w, e)
<1>1. /\ v \in Seq(WindowEvents)
      /\ Windows!MostlyResponses(v) => w = << >> \/ Windows!MostlyResponses(w)
      /\ \A i \in DOMAIN Windows!Kept(w) :
           i \in DOMAIN Windows!Kept(v) /\ Windows!Kept(v)[i] = Windows!Kept(w)[i]
  BY OneQueryMore
<1> HIDE DEF v
<1>2. ~Windows!MostlyResponses(w) /\ DOMAIN Windows!Kept(w) # {} /\ Windows!Worst(w).score > Threshold
  BY AlertsWhen DEF Windows!IsAnomaly
<1>3. ScoredWindow(w) /\ ScoredWindow(v)
  BY <1>1, WindowsAreScored
<1>4. PICK i \in DOMAIN Windows!Kept(w) : Windows!Worst(w) = Windows!Kept(w)[i]
  BY <1>2, <1>3, WorstOfKept
<1>5. i \in DOMAIN Windows!Kept(v) /\ Windows!Kept(v)[i] = Windows!Kept(w)[i]
  BY <1>1
<1>6. PICK j \in DOMAIN Windows!Kept(v) : Windows!Worst(v) = Windows!Kept(v)[j]
  BY <1>3, <1>5, WorstOfKept
<1>7. Windows!Worst(v).score >= Windows!Worst(w).score
  BY <1>3, <1>4, <1>5, WorstOfKept
<1>8. Windows!Worst(v).score \in Int /\ Windows!Worst(w).score \in Int
  BY <1>3, <1>4, <1>6 DEF ScoredWindow, Windows!Kept
<1>9. w # << >>
  <2> SUFFICES ASSUME w = << >> PROVE FALSE
    OBVIOUS
  <2>1. DOMAIN Windows!Kept(w) \subseteq DOMAIN w
    BY DEF Windows!Kept, Windows!Named, Windows!Queries
  <2> QED
    BY <1>2, <2>1
<1>10. ~Windows!MostlyResponses(v) /\ Windows!IsAnomaly(v)
  BY <1>1, <1>2, <1>5, <1>7, <1>8, <1>9, DetectionAssumption DEF Windows!IsAnomaly
<1> QED
  BY <1>10, AlertsWhen DEF v

\* The windows of the specification are made of those events.
WindowsInv == window \in Seq(WindowEvents)

\* They are so from the start.
LEMMA WindowsInit == Windows!Init => WindowsInv
BY DEF Windows!Init, WindowsInv

\* A scenario's window is one, like one of the packets that are observed.
LEMMA WindowsNext == WindowsInv /\ [Windows!Next]_(Windows!vars) => WindowsInv'
<1> SUFFICES ASSUME WindowsInv, [Windows!Next]_(Windows!vars) PROVE WindowsInv'
  OBVIOUS
<1>1. ASSUME NEW e \in WindowEvents, Windows!Observe(e) PROVE WindowsInv'
  <2> HIDE DEF WindowEvents
  <2> QED
    BY <1>1, AppendProperties DEF WindowsInv, Windows!Observe
<1>2. ASSUME NEW q \in Names \cup {NoName}, NEW t \in {"A", "TXT"} PROVE Windows!Query(q, t) \in WindowEvents
  BY DEF WindowEvents, Windows!Query
<1>3. Windows!Response \in WindowEvents
  BY DEF WindowEvents, Windows!Response
<1>4. ASSUME NEW class \in DOMAIN Windows!Loud,
             NEW n \in Windows!Loud[class].n, NEW label \in Windows!Loud[class].label,
             NEW entropy \in Entropies, Windows!Replay(class, n, label, entropy)
      PROVE  WindowsInv'
  <2> DEFINE suffix == Windows!Loud[class].suffix
             qtype == Windows!Loud[class].qtype
  <2>1. n \in Nat /\ label \in Nat /\ suffix \in Nat /\ qtype \in {"A", "TXT"}
    BY DEF Windows!Loud
  <2>2. entropy \in Nat
    BY DetectionAssumption
  <2>3. window' = Windows!Encoded(n, label, entropy, suffix, qtype)
    BY <1>4 DEF Windows!Replay
  <2> HIDE DEF suffix, qtype
  <2>4. \A i \in 1 .. n : [id |-> i, label |-> label, length |-> label + suffix, entropy |-> entropy,
                          domain |-> "example.local", score |-> Threshold + 1] \in CodedNames
    BY <2>1, <2>2 DEF CodedNames
  <2>5. \A name \in CodedNames : Windows!Query(name, qtype) \in WindowEvents
    BY <2>1 DEF WindowEvents, Windows!Query
  <2> HIDE DEF WindowEvents
  <2>6. window' \in [1 .. n -> WindowEvents]
    BY <2>3, <2>4, <2>5 DEF Windows!Encoded
  <2> QED
    BY <2>1, <2>6, SeqDef DEF WindowsInv
<1>5. CASE Windows!Close
  BY <1>5 DEF WindowsInv, Windows!Close
<1>6. CASE UNCHANGED Windows!vars
  BY <1>6 DEF WindowsInv, Windows!vars
<1> QED
  BY <1>1, <1>2, <1>3, <1>4, <1>5, <1>6 DEF Windows!Next

\* Detection: whatever the limit, the threshold and the names, an alert that a window
\* would raise now it would raise with any query more.
THEOREM QueriesKeepAlerts == Windows!Spec => MoreQueriesKeepTheAlert
<1>1. ASSUME WindowsInv
      PROVE  \A q \in Names \cup {NoName}, t \in {"A", "TXT"} :
               window' = Append(window, Windows!Query(q, t)) /\ Windows!Alerts(window) =>
                 Windows!Alerts(window')
  <2> SUFFICES ASSUME NEW q \in Names \cup {NoName}, NEW t \in {"A", "TXT"},
                      window' = Append(window, Windows!Query(q, t)), Windows!Alerts(window)
               PROVE  Windows!Alerts(window')
    OBVIOUS
  <2>1. Windows!Query(q, t) \in WindowEvents /\ ~Windows!Query(q, t).is_response
    BY DEF WindowEvents, Windows!Query
  <2> QED
    BY <1>1, <2>1, AlertStays DEF WindowsInv
<1>2. WindowsInv => [\A q \in Names \cup {NoName}, t \in {"A", "TXT"} :
               window' = Append(window, Windows!Query(q, t)) /\ Windows!Alerts(window) =>
                 Windows!Alerts(window')]_(Windows!vars)
  BY <1>1
<1> QED
  BY <1>2, WindowsInit, WindowsNext, PTL
     DEF Windows!Spec, MoreQueriesKeepTheAlert, Windows!MoreQueriesKeepTheAlert

\* A technique has some support, and more of it than any other.
Leads(p, a) ==
  /\ p \in Windows!Range(Windows!Techniques)
  /\ \A t \in Windows!Range(Windows!Techniques) : Windows!Support(t, a) \in Int
  /\ Windows!Support(p, a) > 0
  /\ \A t \in Windows!Range(Windows!Techniques) :
       t # p => Windows!Support(t, a) < Windows!Support(p, a)

\* The candidates begin with the technique that has the most support.
LEMMA BestIsFirst ==
  ASSUME NEW a, NEW p, Leads(p, a)
  PROVE  /\ Windows!CandidateTechniques(a) # << >>
         /\ Windows!CandidateTechniques(a)[1] = p
<1> DEFINE all == Windows!Range(Windows!Techniques)
           position(t) == CHOOSE i \in DOMAIN Windows!Techniques : Windows!Techniques[i] = t
           before(s, t) == \/ Windows!Support(s, a) > Windows!Support(t, a)
                           \/ /\ Windows!Support(s, a) = Windows!Support(t, a)
                              /\ position(s) < position(t)
           supported == {t \in all : Windows!Support(t, a) > 0}
           ahead(t) == {s \in supported : before(s, t)}
           first == CHOOSE t \in supported : Windows!Cardinality(ahead(t)) = 1 - 1
           list == [i \in 1 .. Windows!Cardinality(supported) |->
                      CHOOSE t \in supported : Windows!Cardinality(ahead(t)) = i - 1]
<1>0. p \in all
  BY DEF Leads
<1>1. Windows!CandidateTechniques(a) = list
  BY DEF Windows!CandidateTechniques
<1>2. IsFiniteSet(all)
  <2>1. all = {"T1071.004", "T1572"} \cup {"T1048.003"}
    BY DEF Windows!Range, Windows!Techniques
  <2>2. IsFiniteSet({"T1071.004"} \cup {"T1572"})
    BY FS_Singleton, FS_Union
  <2>3. {"T1071.004"} \cup {"T1572"} = {"T1071.004", "T1572"}
    OBVIOUS
  <2> HIDE DEF all
  <2> QED
    BY <2>1, <2>2, <2>3, FS_AddElement
<1> HIDE DEF all, position
<1>3. /\ p \in supported /\ IsFiniteSet(supported)
      /\ \A t \in supported : Windows!Support(t, a) \in Int
      /\ \A t \in supported : t # p => Windows!Support(t, a) < Windows!Support(p, a)
  BY <1>2, FS_Subset DEF all, Leads
<1>4. ahead(p) = {}
  <2> SUFFICES ASSUME NEW s \in supported, before(s, p) PROVE FALSE
    OBVIOUS
  <2>1. s # p \/ position(p) < position(p)
    BY <1>3
  <2>2. ~ (position(p) < position(p))
    <3>2. \E i \in DOMAIN Windows!Techniques : Windows!Techniques[i] = p
      BY <1>0 DEF all, Windows!Range
    <3>3. position(p) \in DOMAIN Windows!Techniques
      BY <3>2 DEF position
    <3>4. DOMAIN Windows!Techniques = 1 .. 3
      BY DEF Windows!Techniques
    <3> QED
      BY <3>3, <3>4
  <2> QED
    BY <1>3, <2>1, <2>2
<1>5. \A t \in supported : t # p => p \in ahead(t)
  BY <1>3
<1> HIDE DEF before
<1>6. \A t \in supported : IsFiniteSet(ahead(t))
  BY <1>3, FS_Subset
<1> HIDE DEF supported, ahead
<1>7. \A t \in supported : Windows!Cardinality(ahead(t)) = 0 <=> t = p
  BY <1>3, <1>4, <1>5, <1>6, FS_EmptySet, SameCardinality
<1>8. first = p
  <2>1. first \in supported /\ Windows!Cardinality(ahead(first)) = 1 - 1
    BY <1>3, <1>7
  <2> QED
    BY <1>7, <2>1
<1>9. Windows!Cardinality(supported) \in Nat /\ Windows!Cardinality(supported) # 0
  BY <1>3, FS_EmptySet, FS_CardinalityType, SameCardinality
<1>10. 1 \in 1 .. Windows!Cardinality(supported)
  BY <1>9
<1>11. 1 \in DOMAIN list /\ list[1] = first
  BY <1>10
<1>12. list # << >>
  BY <1>11
<1> HIDE DEF list
<1> QED
  BY <1>1, <1>8, <1>11, <1>12

\* An attribution of six features, with the values shown that _attribution() shows
IsAttribution(a, q, s, e, t, u, r) ==
  /\ q \in Nat /\ s \in Nat /\ e \in Nat /\ t \in Nat /\ u \in Nat /\ r \in Int
  /\ LET all == [query_name_length |-> q, subdomain_entropy |-> s, encoded_labels |-> e,
                 txt_record_count |-> t, unique_subdomains_per_domain |-> u,
                 qname_reconstruction_error |-> r]
         listed == {k \in DOMAIN all : all[k] > 0} \cup {"query_name_length", "qname_reconstruction_error"}
     IN  a = [k \in listed |-> all[k]]

\* What each technique's indicators weigh of the features.
LEMMA SupportOf ==
  ASSUME NEW a, NEW q, NEW s, NEW e, NEW t, NEW u, NEW r, IsAttribution(a, q, s, e, t, u, r)
  PROVE  /\ Windows!Support("T1071.004", a) = q + t
         /\ Windows!Support("T1572", a) = s + u
         /\ Windows!Support("T1048.003", a) = q + e
<1> DEFINE all == [query_name_length |-> q, subdomain_entropy |-> s, encoded_labels |-> e,
                   txt_record_count |-> t, unique_subdomains_per_domain |-> u,
                   qname_reconstruction_error |-> r]
           listed == {k \in DOMAIN all : all[k] > 0} \cup {"query_name_length", "qname_reconstruction_error"}
           value(tech, k) == IF k \in Windows!Supporting(tech, a) THEN a[k] ELSE 0
           meets(tech, k) == Windows!Tokens[k] \cap Windows!IndicatorTokens(tech) # {}
<1>a. /\ q \in Nat /\ s \in Nat /\ e \in Nat /\ t \in Nat /\ u \in Nat /\ r \in Int
      /\ a = [k \in listed |-> all[k]]
  BY DEF IsAttribution
<1>b. listed \subseteq DOMAIN all /\ \A k \in DOMAIN all : all[k] > 0 => k \in listed
  OBVIOUS
<1>0. /\ all["query_name_length"] = q /\ all["subdomain_entropy"] = s /\ all["encoded_labels"] = e
      /\ all["txt_record_count"] = t /\ all["unique_subdomains_per_domain"] = u
      /\ DOMAIN all = {"query_name_length", "subdomain_entropy", "encoded_labels", "txt_record_count",
                       "unique_subdomains_per_domain", "qname_reconstruction_error"}
  OBVIOUS
<1> HIDE DEF all, listed
<1>1. ASSUME NEW tech, NEW k \in DOMAIN all, meets(tech, k), all[k] \in Nat
      PROVE  value(tech, k) = all[k]
  <2>1. CASE all[k] > 0
    <3>1. k \in listed /\ a[k] = all[k]
      BY <1>a, <1>b, <1>1, <2>1
    <3> QED
      BY <1>a, <1>1, <2>1, <3>1 DEF Windows!Supporting
  <2>2. CASE all[k] = 0
    BY <1>a, <1>b, <1>1, <2>2 DEF Windows!Supporting
  <2> QED
    BY <1>1, <2>1, <2>2
<1>2. ASSUME NEW tech, NEW k, ~meets(tech, k) PROVE value(tech, k) = 0
  BY <1>2 DEF Windows!Supporting
<1>3. /\ meets("T1071.004", "query_name_length") /\ meets("T1071.004", "txt_record_count")
      /\ ~meets("T1071.004", "subdomain_entropy") /\ ~meets("T1071.004", "encoded_labels")
      /\ ~meets("T1071.004", "unique_subdomains_per_domain")
      /\ ~meets("T1071.004", "qname_reconstruction_error")
  BY DEF Windows!Tokens, Windows!IndicatorTokens
<1>4. /\ meets("T1572", "subdomain_entropy") /\ meets("T1572", "unique_subdomains_per_domain")
      /\ ~meets("T1572", "query_name_length") /\ ~meets("T1572", "encoded_labels")
      /\ ~meets("T1572", "txt_record_count") /\ ~meets("T1572", "qname_reconstruction_error")
  BY DEF Windows!Tokens, Windows!IndicatorTokens
<1>5. /\ meets("T1048.003", "query_name_length") /\ meets("T1048.003", "encoded_labels")
      /\ ~meets("T1048.003", "subdomain_entropy") /\ ~meets("T1048.003", "txt_record_count")
      /\ ~meets("T1048.003", "unique_subdomains_per_domain")
      /\ ~meets("T1048.003", "qname_reconstruction_error")
  BY DEF Windows!Tokens, Windows!IndicatorTokens
<1>6. \A tech : Windows!Support(tech, a) =
        value(tech, "query_name_length") + value(tech, "subdomain_entropy")
          + value(tech, "encoded_labels") + value(tech, "txt_record_count")
          + value(tech, "unique_subdomains_per_domain") + value(tech, "qname_reconstruction_error")
  BY DEF Windows!Support
<1> HIDE DEF value, meets
<1>7. /\ value("T1071.004", "query_name_length") = q /\ value("T1071.004", "subdomain_entropy") = 0
      /\ value("T1071.004", "encoded_labels") = 0 /\ value("T1071.004", "txt_record_count") = t
      /\ value("T1071.004", "unique_subdomains_per_domain") = 0
      /\ value("T1071.004", "qname_reconstruction_error") = 0
  BY <1>a, <1>0, <1>1, <1>2, <1>3
<1>8. /\ value("T1572", "query_name_length") = 0 /\ value("T1572", "subdomain_entropy") = s
      /\ value("T1572", "encoded_labels") = 0 /\ value("T1572", "txt_record_count") = 0
      /\ value("T1572", "unique_subdomains_per_domain") = u
      /\ value("T1572", "qname_reconstruction_error") = 0
  BY <1>a, <1>0, <1>1, <1>2, <1>4
<1>9. /\ value("T1048.003", "query_name_length") = q /\ value("T1048.003", "subdomain_entropy") = 0
      /\ value("T1048.003", "encoded_labels") = e /\ value("T1048.003", "txt_record_count") = 0
      /\ value("T1048.003", "unique_subdomains_per_domain") = 0
      /\ value("T1048.003", "qname_reconstruction_error") = 0
  BY <1>a, <1>0, <1>1, <1>2, <1>5
<1> QED
  BY <1>a, <1>6, <1>7, <1>8, <1>9

\* The least and the greatest of two numbers
LEMMA OfTwo ==
  ASSUME NEW x \in Int, NEW y \in Int
  PROVE  /\ Windows!Max({x, y}) = IF x >= y THEN x ELSE y
         /\ Windows!Min({x, y}) = IF x <= y THEN x ELSE y
<1>1. Windows!Max({x, y}) \in {x, y} /\ \A z \in {x, y} : Windows!Max({x, y}) >= z
  <2>1. \E m \in {x, y} : \A z \in {x, y} : m >= z
    OBVIOUS
  <2> QED
    BY <2>1 DEF Windows!Max
<1>2. Windows!Min({x, y}) \in {x, y} /\ \A z \in {x, y} : Windows!Min({x, y}) <= z
  <2>1. \E m \in {x, y} : \A z \in {x, y} : m <= z
    OBVIOUS
  <2> QED
    BY <2>1 DEF Windows!Min
<1> QED
  BY <1>1, <1>2

\* A prominence is capped, and kept up to the cap.
LEMMA ProminenceOf ==
  ASSUME NEW x \in Nat
  PROVE  Windows!Prominence(x) = IF x <= 24000 THEN x ELSE 24000
BY OfTwo DEF Windows!Prominence

\* The i-th encoded name of a scenario
NameOf(i, label, entropy, suffix) ==
  [id |-> i, label |-> label, length |-> label + suffix, entropy |-> entropy,
   domain |-> "example.local", score |-> Threshold + 1]

\* A window is that of n queries of one type with a label of a length and an entropy.
IsScenario(w, n, label, entropy, suffix, qtype) ==
  /\ n \in Nat \ {0} /\ label \in Nat /\ entropy \in 0 .. 60 /\ suffix \in Nat
  /\ qtype \in {"A", "TXT"}
  /\ w = Windows!Encoded(n, label, entropy, suffix, qtype)

\* What is seen of a scenario: queries only, each for a name of its own, all of one
\* shape and of one score.
LEMMA EncodedWindow ==
  ASSUME NEW n, NEW label, NEW entropy, NEW suffix, NEW qtype, NEW w,
         IsScenario(w, n, label, entropy, suffix, qtype)
  PROVE  /\ DOMAIN w = 1 .. n /\ Len(w) = n
         /\ \A i \in 1 .. n : w[i].qname = NameOf(i, label, entropy, suffix) /\ w[i].qtype = qtype
         /\ Windows!Queries(w) = 1 .. n /\ Windows!Named(w) = 1 .. n
         /\ Windows!QNames(w) = {NameOf(i, label, entropy, suffix) : i \in 1 .. n}
         /\ ScoredWindow(w)
<1> DEFINE name(i) == NameOf(i, label, entropy, suffix)
<1>0. n \in Nat \ {0} /\ label \in Nat /\ entropy \in 0 .. 60 /\ suffix \in Nat /\ qtype \in {"A", "TXT"}
  BY DEF IsScenario
<1>1. w = [i \in 1 .. n |-> Windows!Query(name(i), qtype)]
  BY <1>0 DEF Windows!Encoded, NameOf, IsScenario
<1>2. DOMAIN w = 1 .. n /\ Len(w) = n
  BY <1>0, <1>1
<1>3. \A i \in 1 .. n : w[i].qname = name(i) /\ w[i].qtype = qtype /\ ~w[i].is_response
  BY <1>0, <1>1 DEF Windows!Query
<1>4. \A i \in 1 .. n : name(i) # NoName /\ name(i).score \in Int
  BY <1>0, DetectionAssumption DEF NameOf
<1> HIDE DEF name
<1>5. Windows!Queries(w) = 1 .. n
  BY <1>0, <1>2, <1>3 DEF Windows!Queries
<1>6. Windows!Named(w) = 1 .. n
  BY <1>0, <1>3, <1>4, <1>5 DEF Windows!Named
<1>7. Windows!QNames(w) = {name(i) : i \in 1 .. n}
  BY <1>0, <1>3, <1>6 DEF Windows!QNames
<1>8. ScoredWindow(w)
  BY <1>0, <1>2, <1>3, <1>4, <1>6 DEF ScoredWindow
<1> QED
  BY <1>0, <1>2, <1>3, <1>5, <1>6, <1>7, <1>8 DEF name

\* The features of such a window.
LEMMA EncodedFeatures ==
  ASSUME NEW n, NEW label, NEW entropy, NEW suffix, NEW qtype, NEW w,
         IsScenario(w, n, label, entropy, suffix, qtype)
  PROVE  /\ Windows!TxtCount(w) = IF qtype = "TXT" THEN n ELSE 0
         /\ Windows!MaxEntropy(w) = entropy
         /\ Windows!SubdomainsPerDomain(w) = 1000 * n
         /\ ~Windows!MostlyResponses(w)
<1> DEFINE name(i) == NameOf(i, label, entropy, suffix)
           names == {name(i) : i \in 1 .. n}
<1>0. n \in Nat \ {0} /\ label \in Nat /\ entropy \in 0 .. 60 /\ suffix \in Nat /\ qtype \in {"A", "TXT"}
  BY DEF IsScenario
<1>1. /\ DOMAIN w = 1 .. n /\ Len(w) = n
      /\ \A i \in 1 .. n : w[i].qname = name(i) /\ w[i].qtype = qtype
      /\ Windows!Queries(w) = 1 .. n /\ Windows!QNames(w) = names
  BY EncodedWindow
<1>2. IsFiniteSet(1 .. n) /\ Cardinality(1 .. n) = n
  BY <1>0, FS_Interval
<1>3. 1 \in 1 .. n /\ name(1) \in names
  BY <1>0
<1>4. \A q \in names : q.entropy = entropy /\ q.domain = "example.local"
  BY <1>0 DEF NameOf
<1>5. \A i, j \in 1 .. n : name(i) = name(j) => i = j
  BY <1>0 DEF NameOf
<1>6. Cardinality(names) = n
  <2> DEFINE f == [i \in 1 .. n |-> name(i)]
  <2> HIDE DEF name
  <2>1. f \in Bijection(1 .. n, names)
    <3>1. f \in [1 .. n -> names] /\ \A y \in names : \E i \in 1 .. n : f[i] = y
      BY <1>0
    <3>2. \A i, j \in 1 .. n : f[i] = f[j] => i = j
      BY <1>0, <1>5
    <3> HIDE DEF f, names
    <3> QED
      BY <1>0, <3>1, <3>2 DEF Bijection, Injection, Surjection, IsInjective
  <2> HIDE DEF f, names
  <2>2. ExistsBijection(1 .. n, names)
    BY <1>0, <2>1 DEF ExistsBijection
  <2> QED
    BY <1>0, <1>2, <2>2, FS_Bijection
<1> HIDE DEF names, name
<1>7. Windows!TxtCount(w) = IF qtype = "TXT" THEN n ELSE 0
  <2>1. CASE qtype = "TXT"
    <3>1. {i \in Windows!Queries(w) : w[i].qtype = "TXT"} = 1 .. n
      BY <1>0, <1>1, <2>1
    <3> QED
      BY <1>0, <1>2, <2>1, <3>1, SameCardinality DEF Windows!TxtCount
  <2>2. CASE qtype # "TXT"
    <3>1. {i \in Windows!Queries(w) : w[i].qtype = "TXT"} = {}
      BY <1>0, <1>1, <2>2
    <3> QED
      BY <1>0, <2>2, <3>1, SameCardinality, FS_EmptySet DEF Windows!TxtCount
  <2> QED
    BY <1>0, <2>1, <2>2
<1>8. Windows!MaxEntropy(w) = entropy
  <2>1. {q.entropy : q \in Windows!QNames(w)} \cup {0} = {entropy, 0}
    BY <1>0, <1>1, <1>3, <1>4
  <2> QED
    BY <1>0, <2>1, OfTwo DEF Windows!MaxEntropy
<1>9. Windows!SubdomainsPerDomain(w) = 1000 * n
  <2> DEFINE domains == {q.domain : q \in Windows!QNames(w)}
  <2>1. domains = {"example.local"}
    BY <1>0, <1>1, <1>3, <1>4
  <2>2. Windows!Cardinality({"example.local"}) = 1 /\ Windows!Cardinality(names) = n
    BY <1>0, <1>6, FS_Singleton, SameCardinality
  <2>3. Windows!SubdomainsPerDomain(w) =
          IF domains = {} THEN 0
          ELSE (1000 * Windows!Cardinality(Windows!QNames(w))) \div Windows!Cardinality(domains)
    BY <1>0 DEF Windows!SubdomainsPerDomain
  <2> HIDE DEF domains
  <2>4. Windows!SubdomainsPerDomain(w) = (1000 * n) \div 1
    BY <1>0, <1>1, <2>1, <2>2, <2>3
  <2> QED
    BY <1>0, <2>4
<1>10. ~Windows!MostlyResponses(w)
  BY <1>0, <1>1, <1>2, SameCardinality DEF Windows!MostlyResponses
<1> QED
  BY <1>0, <1>7, <1>8, <1>9, <1>10

\* Such a window is an anomaly, and its worst name has their shape.
LEMMA EncodedWorst ==
  ASSUME NEW n, NEW label, NEW entropy, NEW suffix, NEW qtype, NEW w,
         IsScenario(w, n, label, entropy, suffix, qtype)
  PROVE  /\ Windows!Worst(w).label = label /\ Windows!Worst(w).length = label + suffix
         /\ Windows!Worst(w).entropy = entropy /\ Windows!Worst(w).score = Threshold + 1
         /\ Windows!IsAnomaly(w)
<1> DEFINE name(i) == NameOf(i, label, entropy, suffix)
<1>0. n \in Nat \ {0} /\ label \in Nat /\ entropy \in 0 .. 60 /\ suffix \in Nat /\ qtype \in {"A", "TXT"}
  BY DEF IsScenario
<1>1. /\ \A i \in 1 .. n : w[i].qname = name(i)
      /\ Windows!Named(w) = 1 .. n /\ ScoredWindow(w)
  BY EncodedWindow
<1>2. \A i \in 1 .. n : /\ name(i).label = label /\ name(i).length = label + suffix
                        /\ name(i).entropy = entropy /\ name(i).score = Threshold + 1
  BY <1>0 DEF NameOf
<1> HIDE DEF name
<1>3. 1 \in DOMAIN Windows!Kept(w)
  <2>1. {w[i].qname : i \in Windows!Named(w) \cap (1 .. 1)} = {w[1].qname}
    <3>1. Windows!Named(w) \cap (1 .. 1) = {1}
      BY <1>0, <1>1
    <3> QED
      BY <1>0, <3>1
  <2>2. Windows!UniqueAmong(w, 1 .. 1) = 1
    BY <1>0, <2>1, FS_Singleton, SameCardinality DEF Windows!UniqueAmong
  <2>3. 1 <= QNAMES_MAX
    BY <1>0, DetectionAssumption
  <2> QED
    BY <1>0, <1>1, <2>2, <2>3 DEF Windows!Kept
<1>4. PICK i \in DOMAIN Windows!Kept(w) : Windows!Worst(w) = Windows!Kept(w)[i]
  BY <1>0, <1>1, <1>3, WorstOfKept
<1>5. i \in 1 .. n /\ Windows!Worst(w) = name(i)
  BY <1>0, <1>1, <1>4 DEF Windows!Kept
<1>6. Windows!IsAnomaly(w)
  BY <1>0, <1>2, <1>3, <1>5, DetectionAssumption DEF Windows!IsAnomaly
<1> QED
  BY <1>0, <1>2, <1>5, <1>6

\* What one feature can weigh at most
Capped(x) == IF x <= 24000 THEN x ELSE 24000

\* What the features of such a window weigh for each technique.
LEMMA EncodedSupport ==
  ASSUME NEW n, NEW label, NEW entropy, NEW suffix, NEW qtype, NEW w,
         IsScenario(w, n, label, entropy, suffix, qtype),
         NEW a, a = Windows!Attribution(w)
  PROVE  /\ Windows!Support("T1071.004", a) =
              Capped((label + suffix) * 120) + Capped((IF qtype = "TXT" THEN n ELSE 0) * 1500)
         /\ Windows!Support("T1572", a) = Capped(entropy * 100) + Capped(1000 * n)
         /\ Windows!Support("T1048.003", a) =
              Capped((label + suffix) * 120) + Capped(label * 250)
<1>0. n \in Nat \ {0} /\ label \in Nat /\ entropy \in 0 .. 60 /\ suffix \in Nat /\ qtype \in {"A", "TXT"}
  BY DEF IsScenario
<1> DEFINE asked == IF qtype = "TXT" THEN n ELSE 0
           q == Capped((label + suffix) * 120)
           s == Capped(entropy * 100)
           e == Capped(label * 250)
           t == Capped(asked * 1500)
           u == Capped(1000 * n)
           r == Threshold + 1
           worst == Windows!Worst(w)
           all == Windows!AllKeys(worst, w)
           listed == {k \in DOMAIN all : all[k] > 0}
                      \cup {"query_name_length", "qname_reconstruction_error"}
<1>1. worst.label = label /\ worst.length = label + suffix /\ worst.entropy = entropy /\ worst.score = r
  BY EncodedWorst
<1>2. /\ Windows!TxtCount(w) = asked /\ Windows!MaxEntropy(w) = entropy
      /\ Windows!SubdomainsPerDomain(w) = 1000 * n
  BY EncodedFeatures
<1>3. \A x \in Nat : Windows!Prominence(x) = Capped(x) /\ Capped(x) \in Nat
  BY ProminenceOf DEF Capped
<1>4. /\ (label + suffix) * 120 \in Nat /\ entropy * 100 \in Nat /\ label * 250 \in Nat
      /\ asked * 1500 \in Nat /\ 1000 * n \in Nat
  BY <1>0
<1>5. Windows!Max({entropy, entropy}) = entropy
  BY <1>0, OfTwo
<1> HIDE DEF worst, asked
<1>6. /\ Windows!Prominence(worst.length * 120) = q
      /\ Windows!Prominence(Windows!Max({Windows!MaxEntropy(w), worst.entropy}) * 100) = s
      /\ Windows!Prominence(worst.label * 250) = e
      /\ Windows!Prominence(Windows!TxtCount(w) * 1500) = t
      /\ Windows!Prominence(Windows!SubdomainsPerDomain(w)) = u
  BY <1>1, <1>2, <1>3, <1>4, <1>5
<1>7. all = [query_name_length |-> q, subdomain_entropy |-> s, encoded_labels |-> e,
             txt_record_count |-> t, unique_subdomains_per_domain |-> u,
             qname_reconstruction_error |-> r]
  BY <1>1, <1>6 DEF Windows!AllKeys
<1>8. q \in Nat /\ s \in Nat /\ e \in Nat /\ t \in Nat /\ u \in Nat /\ r \in Int
  BY <1>3, <1>4, DetectionAssumption
<1>9. a = [k \in listed |-> all[k]]
  BY DEF Windows!Attribution, worst
<1> HIDE DEF all, q, s, e, t, u, r
<1>10. IsAttribution(a, q, s, e, t, u, r)
  BY <1>7, <1>8, <1>9 DEF IsAttribution
<1>12. /\ Windows!Support("T1071.004", a) = q + t
       /\ Windows!Support("T1572", a) = s + u
       /\ Windows!Support("T1048.003", a) = q + e
  BY <1>10, SupportOf
<1> QED
  BY <1>12 DEF q, s, e, t, u, asked

\* The scenarios' volumes and labels, in the units of the reference scales, put the
\* class's own technique strictly first.
LEMMA LoudSupport ==
  ASSUME NEW class \in DOMAIN Windows!Loud,
         NEW n \in Windows!Loud[class].n, NEW label \in Windows!Loud[class].label,
         NEW entropy \in Entropies, NEW w,
         w = Windows!Encoded(n, label, entropy, Windows!Loud[class].suffix, Windows!Loud[class].qtype)
  PROVE  /\ Leads(Windows!Primary[class], Windows!Attribution(w))
         /\ Windows!IsAnomaly(w) /\ ~Windows!MostlyResponses(w)
<1> DEFINE a == Windows!Attribution(w)
           p == Windows!Primary[class]
           all == Windows!Range(Windows!Techniques)
           suffix == Windows!Loud[class].suffix
           qtype == Windows!Loud[class].qtype
<1>1. all = {"T1071.004", "T1572", "T1048.003"}
  BY DEF Windows!Range, Windows!Techniques
<1>2. \/ /\ class = "dns_tunnel" /\ n \in 15 .. 30 /\ label \in 12 .. 18 /\ suffix = 23 /\ qtype = "A"
         /\ p = "T1572"
      \/ /\ class = "dns_exfil" /\ n \in 2 .. 5 /\ label \in 40 .. 52 /\ suffix = 20 /\ qtype = "A"
         /\ p = "T1048.003"
      \/ /\ class = "dns_c2" /\ n \in 5 .. 9 /\ label \in 18 .. 26 /\ suffix = 21 /\ qtype = "TXT"
         /\ p = "T1071.004"
  BY DEF Windows!Loud, Windows!Primary
<1>3. entropy \in 0 .. 60
  BY DetectionAssumption
<1> HIDE DEF all, p, suffix, qtype
<1>4. n \in Nat \ {0} /\ label \in Nat /\ suffix \in Nat /\ qtype \in {"A", "TXT"}
  BY <1>2
<1>5. IsScenario(w, n, label, entropy, suffix, qtype)
  BY <1>3, <1>4 DEF IsScenario, suffix, qtype
<1>6. /\ Windows!Support("T1071.004", a) =
           Capped((label + suffix) * 120) + Capped((IF qtype = "TXT" THEN n ELSE 0) * 1500)
      /\ Windows!Support("T1572", a) = Capped(entropy * 100) + Capped(1000 * n)
      /\ Windows!Support("T1048.003", a) = Capped((label + suffix) * 120) + Capped(label * 250)
  BY <1>5, EncodedSupport
<1>7. Windows!IsAnomaly(w) /\ ~Windows!MostlyResponses(w)
  BY <1>5, EncodedWorst, EncodedFeatures
<1> HIDE DEF a
<1>8. ASSUME class = "dns_tunnel" PROVE Leads(p, a)
  <2>1. n \in 15 .. 30 /\ label \in 12 .. 18 /\ suffix = 23 /\ qtype = "A" /\ p = "T1572"
    BY <1>2, <1>8
  <2>2. /\ Windows!Support("T1071.004", a) = (label + 23) * 120
        /\ Windows!Support("T1572", a) = entropy * 100 + (IF n <= 24 THEN 1000 * n ELSE 24000)
        /\ Windows!Support("T1048.003", a) = (label + 23) * 120 + label * 250
    BY <1>3, <1>6, <2>1 DEF Capped
  <2>3. /\ Windows!Support("T1572", a) \in Nat /\ Windows!Support("T1572", a) > 0
        /\ Windows!Support("T1071.004", a) \in Nat /\ Windows!Support("T1048.003", a) \in Nat
        /\ Windows!Support("T1071.004", a) < Windows!Support("T1572", a)
        /\ Windows!Support("T1048.003", a) < Windows!Support("T1572", a)
    BY <1>3, <2>1, <2>2
  <2> QED
    BY <1>1, <2>1, <2>3 DEF Leads, all
<1>9. ASSUME class = "dns_exfil" PROVE Leads(p, a)
  <2>1. n \in 2 .. 5 /\ label \in 40 .. 52 /\ suffix = 20 /\ qtype = "A" /\ p = "T1048.003"
    BY <1>2, <1>9
  <2>2. /\ Windows!Support("T1071.004", a) = (label + 20) * 120
        /\ Windows!Support("T1572", a) = entropy * 100 + 1000 * n
        /\ Windows!Support("T1048.003", a) = (label + 20) * 120 + label * 250
    BY <1>3, <1>6, <2>1 DEF Capped
  <2>3. /\ Windows!Support("T1048.003", a) \in Nat /\ Windows!Support("T1048.003", a) > 0
        /\ Windows!Support("T1071.004", a) \in Nat /\ Windows!Support("T1572", a) \in Nat
        /\ Windows!Support("T1071.004", a) < Windows!Support("T1048.003", a)
        /\ Windows!Support("T1572", a) < Windows!Support("T1048.003", a)
    BY <1>3, <2>1, <2>2
  <2> QED
    BY <1>1, <2>1, <2>3 DEF Leads, all
<1>10. ASSUME class = "dns_c2" PROVE Leads(p, a)
  <2>1. n \in 5 .. 9 /\ label \in 18 .. 26 /\ suffix = 21 /\ qtype = "TXT" /\ p = "T1071.004"
    BY <1>2, <1>10
  <2>2. /\ Windows!Support("T1071.004", a) = (label + 21) * 120 + n * 1500
        /\ Windows!Support("T1572", a) = entropy * 100 + 1000 * n
        /\ Windows!Support("T1048.003", a) = (label + 21) * 120 + label * 250
    BY <1>3, <1>6, <2>1 DEF Capped
  <2>3. /\ Windows!Support("T1071.004", a) \in Nat /\ Windows!Support("T1071.004", a) > 0
        /\ Windows!Support("T1572", a) \in Nat /\ Windows!Support("T1048.003", a) \in Nat
        /\ Windows!Support("T1572", a) < Windows!Support("T1071.004", a)
        /\ Windows!Support("T1048.003", a) < Windows!Support("T1071.004", a)
    BY <1>3, <2>1, <2>2
  <2> QED
    BY <1>1, <2>1, <2>3 DEF Leads, all
<1> QED
  BY <1>2, <1>7, <1>8, <1>9, <1>10 DEF a, p

\* A window decided on is that of the scenario, and its verdict is what was decided.
LoudInv ==
  /\ attack \in {"none"} \cup DOMAIN Windows!Loud
  /\ attack # "none" =>
       \E n \in Windows!Loud[attack].n, label \in Windows!Loud[attack].label, entropy \in Entropies :
         window = Windows!Encoded(n, label, entropy, Windows!Loud[attack].suffix,
                                  Windows!Loud[attack].qtype)
  /\ alert # << >> => alert = <<Windows!Verdict(window)>>

\* Detection: whatever the volume, the label and the entropy of a loud attack, and
\* whatever the threshold, its window is alerted on with the class's technique first.
THEOREM LoudAttackLeads == Windows!Spec => []LoudAttackIsNamedFirst
<1>1. Windows!Init => LoudInv
  BY DEF Windows!Init, LoudInv
<1>2. LoudInv /\ [Windows!Next]_(Windows!vars) => LoudInv'
  <2> SUFFICES ASSUME LoudInv, [Windows!Next]_(Windows!vars) PROVE LoudInv'
    OBVIOUS
  <2>1. ASSUME NEW e, Windows!Observe(e) PROVE LoudInv'
    BY <2>1 DEF LoudInv, Windows!Observe
  <2>2. ASSUME NEW class \in DOMAIN Windows!Loud,
               NEW n \in Windows!Loud[class].n, NEW label \in Windows!Loud[class].label,
               NEW entropy \in Entropies, Windows!Replay(class, n, label, entropy)
        PROVE  LoudInv'
    BY <2>2 DEF LoudInv, Windows!Replay
  <2>3. CASE Windows!Close
    BY <2>3 DEF LoudInv, Windows!Close
  <2>4. CASE UNCHANGED Windows!vars
    BY <2>4 DEF LoudInv, Windows!vars
  <2> QED
    BY <2>1, <2>2, <2>3, <2>4 DEF Windows!Next
<1>3. LoudInv => LoudAttackIsNamedFirst
  <2> SUFFICES ASSUME LoudInv, attack # "none", alert # << >>
               PROVE  alert[1].outcome = "alert" /\ Windows!TopOne(attack, alert[1])
    BY DEF LoudAttackIsNamedFirst, Windows!LoudAttackIsNamedFirst
  <2>1. attack \in DOMAIN Windows!Loud /\ alert[1] = Windows!Verdict(window)
    BY DEF LoudInv
  <2>2. PICK n \in Windows!Loud[attack].n, label \in Windows!Loud[attack].label, entropy \in Entropies :
          window = Windows!Encoded(n, label, entropy, Windows!Loud[attack].suffix,
                                   Windows!Loud[attack].qtype)
    BY DEF LoudInv
  <2>3. /\ Leads(Windows!Primary[attack], Windows!Attribution(window))
        /\ Windows!IsAnomaly(window) /\ ~Windows!MostlyResponses(window)
    BY <2>1, <2>2, LoudSupport
  <2>4. Windows!Verdict(window) =
          [outcome |-> "alert", score |-> Windows!Worst(window).score,
           candidate_techniques |-> Windows!CandidateTechniques(Windows!Attribution(window))]
    BY <2>3 DEF Windows!Verdict
  <2> QED
    BY <2>1, <2>3, <2>4, BestIsFirst DEF Windows!TopOne
<1> QED
  BY <1>1, <1>2, <1>3, PTL DEF Windows!Spec
-----------------------------------------------------------------------------
(* Sensor: what a blob says of the question it came from.                  *)

\* The bytes, and the positions of a buffer
Byte == 0 .. 255
Position == Nat \ {0}

\* A byte is a number.
LEMMA BytesAreNumbers == \A x : x \in Byte <=> x \in Nat /\ x <= 255
BY DEF Byte

\* One unit of the sensor's walk
WalkStep(buf, pointers, f, i) ==
  IF i > Len(buf) \/ buf[i] = 0 \/ (pointers /\ buf[i] >= 64)
  THEN [labels |-> << >>, at |-> i]
  ELSE LET rest == f[i + 1 + buf[i]]
       IN  [labels |-> <<Tap!Slice(buf, i + 1, i + 1 + buf[i])>> \o rest.labels, at |-> rest.at]

\* For every buffer there is a function that the recursive definition of the
\* walk describes: a label leads to a later position.
LEMMA WalkExists ==
  ASSUME NEW buf \in Seq(Byte), NEW pointers
  PROVE  \E f : f = [i \in Position |-> WalkStep(buf, pointers, f, i)]
<1> DEFINE N == Len(buf)
           Good(f, d) == /\ f = [i \in Position |-> f[i]]
                         /\ \A i \in Position : i > N - d => f[i] = WalkStep(buf, pointers, f, i)
           S == {d \in 0 .. N : ~ \E f : Good(f, d)}
<1>1. N \in Nat /\ \A i \in Position : i <= N => buf[i] \in Nat
  <2>1. N \in Nat /\ \A i \in 1 .. N : buf[i] \in Byte
    OBVIOUS
  <2>2. \A i \in Position : i <= N => i \in 1 .. N
    BY <2>1 DEF Position
  <2>3. ASSUME NEW i \in Position, i <= N PROVE buf[i] \in Nat
    <3>1. buf[i] \in Byte
      BY <2>1, <2>2, <2>3
    <3> QED
      BY <3>1, BytesAreNumbers
  <2> QED
    BY <2>1, <2>3
<1> HIDE DEF N
<1>2. S = {}
  <2> SUFFICES ASSUME S # {} PROVE FALSE
    OBVIOUS
  <2>1. PICK d \in S : \A e \in S : d <= e
    <3> HIDE DEF S
    <3>1. S \in SUBSET Nat
      BY <1>1 DEF S
    <3> QED
      BY <3>1, LeastOf
  <2>2. d \in 0 .. N /\ ~ \E f : Good(f, d)
    OBVIOUS
  <2>3. CASE d = 0
    <3> DEFINE f == [i \in Position |-> [labels |-> << >>, at |-> i]]
    <3>1. \A i \in Position : i > N - 0 => f[i] = WalkStep(buf, pointers, f, i)
      BY <1>1 DEF WalkStep, N
    <3>2. Good(f, 0)
      BY <3>1
    <3> QED
      BY <2>2, <2>3, <3>2
  <2>4. CASE d # 0
    <3> DEFINE k == N - (d - 1)
    <3>1. d - 1 \in 0 .. N /\ d - 1 \notin S /\ k \in Position /\ k <= N /\ N - d = k - 1
      BY <1>1, <2>1, <2>2, <2>4 DEF Position
    <3>2. PICK f : Good(f, d - 1)
      BY <3>1
    <3> DEFINE g == [i \in Position |-> IF i = k THEN WalkStep(buf, pointers, f, k) ELSE f[i]]
    <3>3. g = [i \in Position |-> g[i]]
      OBVIOUS
    <3>4. ASSUME NEW i \in Position, i >= k PROVE g[i] = WalkStep(buf, pointers, g, i)
      <4>1. WalkStep(buf, pointers, g, i) = WalkStep(buf, pointers, f, i)
        <5>1. CASE i > N
          BY <5>1 DEF WalkStep, N
        <5>2. CASE i <= N
          <6>0. buf[i] \in Nat /\ i \in Nat /\ k \in Nat /\ i >= k
            BY <1>1, <3>1, <3>4, <5>2 DEF Position
          <6>1. i + 1 + buf[i] \in Position /\ i + 1 + buf[i] # k
            BY <6>0 DEF Position
          <6>2. g[i + 1 + buf[i]] = f[i + 1 + buf[i]]
            BY <6>1
          <6> HIDE DEF g
          <6> QED
            BY <6>2 DEF WalkStep
        <5> QED
          BY <1>1, <5>1, <5>2 DEF Position
      <4>2. CASE i = k
        BY <4>1, <4>2
      <4>3. CASE i # k
        <5>1. g[i] = f[i] /\ i > k
          BY <3>1, <3>4, <4>3 DEF Position
        <5>2. f[i] = WalkStep(buf, pointers, f, i)
          BY <3>2, <5>1
        <5> QED
          BY <4>1, <5>1, <5>2
      <4> QED
        BY <4>2, <4>3
    <3> HIDE DEF g
    <3>5. \A i \in Position : i > N - d => i >= k
      BY <1>1, <3>1 DEF Position
    <3>6. Good(g, d)
      BY <3>3, <3>4, <3>5
    <3> QED
      BY <2>2, <3>6
  <2> QED
    BY <2>3, <2>4
<1>3. N \in 0 .. N
  BY <1>1
<1>4. PICK f : Good(f, N)
  BY <1>2, <1>3
<1>5. \A i \in Position : i > N - N
  BY <1>1 DEF Position
<1>6. \A i \in Position : f[i] = WalkStep(buf, pointers, f, i)
  BY <1>4, <1>5
<1> HIDE DEF S
<1>7. f = [i \in Position |-> f[i]]
  BY <1>4
<1>8. f = [i \in Position |-> WalkStep(buf, pointers, f, i)]
  BY <1>6, <1>7
<1> QED
  BY <1>8

\* So the sensor's walk is that function.
LEMMA WalkSteps ==
  ASSUME NEW buf \in Seq(Byte), NEW pointers
  PROVE  \A i \in Position :
           Tap!WalkFrom(buf, pointers)[i] = WalkStep(buf, pointers, Tap!WalkFrom(buf, pointers), i)
<1> DEFINE P(f) == f = [i \in Position |-> WalkStep(buf, pointers, f, i)]
<1>1. Tap!WalkFrom(buf, pointers) = CHOOSE f : P(f)
  BY DEF Tap!WalkFrom, WalkStep, Position
<1>2. \E f : P(f)
  BY WalkExists
<1>3. P(CHOOSE f : P(f))
  <2> HIDE DEF P
  <2> QED
    BY <1>2
<1>4. P(Tap!WalkFrom(buf, pointers))
  <2> HIDE DEF P
  <2> QED
    BY <1>1, <1>3
<1> DEFINE f == Tap!WalkFrom(buf, pointers)
<1>5. f = [i \in Position |-> WalkStep(buf, pointers, f, i)]
  BY <1>4
<1> HIDE DEF f, P
<1>6. \A i \in Position : f[i] = WalkStep(buf, pointers, f, i)
  BY <1>5
<1> QED
  BY <1>6 DEF f

\* One unit of the value of bytes
ValueStep(b, f, i) == IF i = 0 THEN 0 ELSE 256 * f[i - 1] + b[i]

\* The number two bytes stand for
LEMMA TwoBytesValue ==
  ASSUME NEW hi \in Nat, NEW lo \in Nat
  PROVE  Tap!BigEndian(<<hi, lo>>) = 256 * hi + lo
<1> SUFFICES ASSUME NEW b, b = <<hi, lo>> PROVE Tap!BigEndian(b) = 256 * hi + lo
  OBVIOUS
<1>0. Len(b) = 2 /\ b[1] = hi /\ b[2] = lo
  OBVIOUS
<1> DEFINE P(f) == f = [i \in 0 .. Len(b) |-> ValueStep(b, f, i)]
<1>1. Tap!BigEndian(b) = (CHOOSE f : P(f))[Len(b)]
  BY DEF Tap!BigEndian, ValueStep
<1>2. \E f : P(f)
  <2> DEFINE h == [i \in 0 .. 2 |-> IF i = 0 THEN 0 ELSE IF i = 1 THEN hi ELSE 256 * hi + lo]
  <2>1. h[0] = 0 /\ h[1] = hi /\ h[2] = 256 * hi + lo
    OBVIOUS
  <2>2. h = [i \in 0 .. 2 |-> h[i]]
    OBVIOUS
  <2> HIDE DEF h
  <2>3. ASSUME NEW i \in 0 .. 2 PROVE h[i] = ValueStep(b, h, i)
    <3>1. i = 0 \/ i = 1 \/ i = 2
      OBVIOUS
    <3>2. 256 * 0 + hi = hi
      OBVIOUS
    <3> QED
      BY <1>0, <2>1, <3>1, <3>2 DEF ValueStep
  <2>4. h = [i \in 0 .. 2 |-> ValueStep(b, h, i)]
    BY <1>0, <2>2, <2>3
  <2> QED
    BY <2>4
<1>3. P(CHOOSE f : P(f))
  <2> HIDE DEF P
  <2> QED
    BY <1>2
<1> DEFINE v == CHOOSE f : P(f)
<1>4. v = [i \in 0 .. 2 |-> ValueStep(b, v, i)]
  <2>1. P(v)
    BY <1>3
  <2> HIDE DEF v
  <2> QED
    BY <1>0, <2>1
<1>5. Tap!BigEndian(b) = v[2]
  BY <1>0, <1>1
<1> HIDE DEF v, P
<1>6. v[0] = ValueStep(b, v, 0) /\ v[1] = ValueStep(b, v, 1) /\ v[2] = ValueStep(b, v, 2)
  BY <1>4
<1>7. v[0] = 0 /\ v[1] = 256 * v[0] + hi /\ v[2] = 256 * v[1] + lo
  BY <1>0, <1>6 DEF ValueStep
<1>8. v[1] = hi
  BY <1>7
<1> QED
  BY <1>5, <1>7, <1>8

\* What fits in two bytes
IsType(n) == n \in Nat /\ n < 256 * 256

\* Two bytes, the higher first, are the number they were made from.
LEMMA TwoBytesBack ==
  ASSUME NEW n, IsType(n)
  PROVE  /\ Tap!TwoBytes(n) \in Seq(Byte) /\ Len(Tap!TwoBytes(n)) = 2
         /\ Tap!BigEndian(Tap!TwoBytes(n)) = n
<1>0. n \in Nat
  BY DEF IsType
<1>1. \E hi, lo \in Nat : /\ hi <= 255 /\ lo <= 255 /\ n = 256 * hi + lo
                          /\ Tap!TwoBytes(n) = <<hi, lo>>
  <2>1. /\ n \div 256 \in Nat /\ n \div 256 <= 255 /\ n % 256 \in Nat /\ n % 256 <= 255
        /\ n = 256 * (n \div 256) + (n % 256)
    BY DEF IsType
  <2> QED
    BY <1>0, <2>1 DEF Tap!TwoBytes
<1>2. PICK hi \in Nat, lo \in Nat : /\ hi <= 255 /\ lo <= 255 /\ n = 256 * hi + lo
                                    /\ Tap!TwoBytes(n) = <<hi, lo>>
  BY <1>1
<1>3. Tap!BigEndian(<<hi, lo>>) = 256 * hi + lo
  BY TwoBytesValue
<1>4. <<hi, lo>> \in Seq(Byte) /\ Len(<<hi, lo>>) = 2
  BY <1>2 DEF Byte
<1>5. Tap!BigEndian(<<hi, lo>>) = n
  BY <1>0, <1>2, <1>3
<1> DEFINE b == <<hi, lo>>
<1> HIDE DEF b
<1>6. b \in Seq(Byte) /\ Len(b) = 2 /\ Tap!BigEndian(b) = n /\ Tap!TwoBytes(n) = b
  BY <1>2, <1>4, <1>5 DEF b
<1> QED
  BY <1>6

\* A name that goes on the wire: labels of at most 63 bytes, none of them empty
IsName(name) ==
  /\ name \in Seq(Seq(Byte)) /\ Len(name) >= 1
  /\ \A i \in 1 .. Len(name) : Len(name[i]) \in Nat /\ Len(name[i]) >= 1 /\ Len(name[i]) <= 63

\* One unit of FlattenSeq
FlatStep(seqs, f, i) == IF i = 1 THEN seqs[i] ELSE f[i - 1] \o seqs[i]

\* For every sequence of sequences there is a function that the recursive
\* definition of its flattening describes.
LEMMA FlatExists ==
  ASSUME NEW seqs
  PROVE  \A m \in Nat : \E f : f = [i \in 1 .. m |-> FlatStep(seqs, f, i)]
<1> DEFINE UpToM(f, m) == f = [i \in 1 .. m |-> FlatStep(seqs, f, i)]
           S == {m \in Nat : ~ \E f : UpToM(f, m)}
<1> SUFFICES ASSUME S # {} PROVE FALSE
  OBVIOUS
<1>1. PICK m \in S : \A l \in S : m <= l
  <2> HIDE DEF S
  <2>1. S \in SUBSET Nat
    BY DEF S
  <2> QED
    BY <2>1, LeastOf
<1>2. m \in Nat /\ ~ \E f : UpToM(f, m)
  OBVIOUS
<1>3. CASE m = 0
  <2> DEFINE f == [i \in 1 .. 0 |-> FlatStep(seqs, << >>, i)]
  <2>1. 1 .. 0 = {}
    OBVIOUS
  <2>2. UpToM(f, 0)
    BY <2>1
  <2> QED
    BY <1>2, <1>3, <2>2
<1>4. CASE m # 0
  <2>1. m - 1 \in Nat /\ m - 1 \notin S
    BY <1>1, <1>2, <1>4
  <2>2. PICK f : UpToM(f, m - 1)
    BY <2>1
  <2> DEFINE g == [i \in 1 .. m |-> IF i = m THEN FlatStep(seqs, f, m) ELSE f[i]]
  <2>3. \A i \in 1 .. m - 1 : g[i] = f[i] /\ f[i] = FlatStep(seqs, f, i)
    <3>1. \A i \in 1 .. m - 1 : i \in 1 .. m /\ i # m
      BY <1>2
    <3>2. \A i \in 1 .. m - 1 : f[i] = FlatStep(seqs, f, i)
      BY <2>2
    <3> QED
      BY <3>1, <3>2
  <2>4. ASSUME NEW i \in 1 .. m PROVE g[i] = FlatStep(seqs, g, i)
    <3>1. i = 1 \/ (i - 1 \in 1 .. m - 1 /\ i # 1)
      BY <1>2
    <3>2. i = m \/ i \in 1 .. m - 1
      BY <1>2
    <3>3. i # 1 => g[i - 1] = f[i - 1]
      BY <2>3, <3>1
    <3>4. g[i] = FlatStep(seqs, f, i)
      BY <2>3, <3>2
    <3> HIDE DEF g
    <3>5. FlatStep(seqs, g, i) = FlatStep(seqs, f, i)
      BY <3>1, <3>3 DEF FlatStep
    <3> QED
      BY <3>4, <3>5
  <2>5. g = [i \in 1 .. m |-> g[i]]
    OBVIOUS
  <2> HIDE DEF g
  <2>6. UpToM(g, m)
    BY <2>4, <2>5
  <2> QED
    BY <1>2, <2>6
<1> QED
  BY <1>3, <1>4

\* A label with its length before it
Encoded(name) == [i \in DOMAIN name |-> <<Len(name[i])>> \o name[i]]

\* The wire format of a name grows label by label.
LEMMA WireGrows ==
  ASSUME NEW name, IsName(name)
  PROVE  \E f : /\ f[1] = <<Len(name[1])>> \o name[1] /\ f[Len(name)] = Tap!OnWire(name)
                /\ \A i \in 1 .. Len(name) : i # 1 => f[i] = f[i - 1] \o (<<Len(name[i])>> \o name[i])
<1> DEFINE seqs == Encoded(name)
           m == Len(name)
           P(f) == f = [i \in 1 .. Len(seqs) |-> FlatStep(seqs, f, i)]
<1>1. m \in Nat /\ m >= 1 /\ DOMAIN name = 1 .. m
  BY DEF IsName
<1>2. Len(seqs) = m /\ \A i \in 1 .. m : seqs[i] = <<Len(name[i])>> \o name[i]
  BY <1>1 DEF Encoded
<1>3. Tap!OnWire(name) = (CHOOSE f : P(f))[Len(seqs)]
  <2>1. Tap!OnWire(name) = Tap!FlattenSeq(seqs)
    BY DEF Tap!OnWire, Encoded
  <2>2. Len(seqs) # 0
    BY <1>1, <1>2
  <2> HIDE DEF seqs
  <2> QED
    BY <2>1, <2>2 DEF Tap!FlattenSeq, FlatStep
<1> HIDE DEF seqs, m
<1>4. \E f : P(f)
  BY <1>1, <1>2, FlatExists
<1>5. P(CHOOSE f : P(f))
  <2> HIDE DEF P
  <2> QED
    BY <1>4
<1>6. PICK f : P(f) /\ Tap!OnWire(name) = f[m]
  <2> HIDE DEF P
  <2> QED
    BY <1>2, <1>3, <1>5
<1>7. \A i \in 1 .. m : f[i] = FlatStep(seqs, f, i)
  BY <1>2, <1>6
<1>8. \A i \in 1 .. m : i # 1 => f[i] = f[i - 1] \o (<<Len(name[i])>> \o name[i])
  BY <1>2, <1>7 DEF FlatStep
<1>9. f[1] = <<Len(name[1])>> \o name[1]
  BY <1>1, <1>2, <1>7 DEF FlatStep
<1> QED
  BY <1>6, <1>8, <1>9 DEF m

\* A label and its length are in a buffer from a position.
LabelAt(w, l, p) == w[p] = Len(l) /\ \A j \in 1 .. Len(l) : w[p + j] = l[j]

\* A buffer is the first k labels of a name, label i from position P[i].
Laid(w, name, P, k) ==
  /\ w \in Seq(Byte) /\ P[1] = 1 /\ P[k + 1] = Len(w) + 1
  /\ \A i \in 1 .. k : /\ LabelAt(w, name[i], P[i])
                       /\ P[i] \in Nat /\ P[i] >= 1
                       /\ P[i + 1] = P[i] + 1 + Len(name[i]) /\ P[i + 1] <= P[k + 1]

\* A buffer with a label more
WithLabel(w, l) == w \o (<<Len(l)>> \o l)

\* What a buffer with a label more holds.
IsWithLabel(w2, w, l) ==
  /\ w2 \in Seq(Byte) /\ Len(w2) = Len(w) + 1 + Len(l)
  /\ \A x \in 1 .. Len(w) : w2[x] = w[x]
  /\ w2[Len(w) + 1] = Len(l) /\ \A j \in 1 .. Len(l) : w2[Len(w) + 1 + j] = l[j]

\* What a label more does to a buffer.
LEMMA LabelAppended ==
  ASSUME NEW w \in Seq(Byte), NEW l \in Seq(Byte), Len(l) <= 63
  PROVE  IsWithLabel(WithLabel(w, l), w, l)
<1> SUFFICES ASSUME NEW w2, w2 = WithLabel(w, l) PROVE IsWithLabel(w2, w, l)
  OBVIOUS
<1> DEFINE e == <<Len(l)>> \o l
           n == Len(l)
<1>1. n \in Nat /\ n <= 63 /\ n \in Byte /\ Len(w) \in Nat
  BY BytesAreNumbers
<1>2. /\ e \in Seq(Byte) /\ Len(e) = 1 + n /\ e[1] = n
      /\ \A j \in 1 .. n : e[1 + j] = l[j]
  <2>1. <<n>> \in Seq(Byte) /\ Len(<<n>>) = 1 /\ <<n>>[1] = n
    BY <1>1
  <2>2. e \in Seq(Byte) /\ Len(e) = 1 + n
    BY <1>1, <2>1, ConcatProperties
  <2>3. e[1] = n
    BY <1>1, <2>1, ConcatProperties
  <2>4. \A j \in 1 .. n : e[1 + j] = l[j]
    <3> TAKE j \in 1 .. n
    <3>1. 1 + j \in 1 .. 1 + n /\ ~(1 + j <= 1) /\ (1 + j) - 1 = j
      BY <1>1
    <3> QED
      BY <2>1, <3>1, ConcatProperties
  <2> QED
    BY <2>2, <2>3, <2>4
<1> HIDE DEF e, n
<1>3. w2 = w \o e
  BY DEF e, n, WithLabel
<1> HIDE DEF WithLabel
<1>4. /\ w2 \in Seq(Byte) /\ Len(w2) = Len(w) + (1 + n)
      /\ \A x \in 1 .. Len(w) + (1 + n) : w2[x] = IF x <= Len(w) THEN w[x] ELSE e[x - Len(w)]
  <2>1. /\ w \o e \in Seq(Byte) /\ Len(w \o e) = Len(w) + Len(e)
        /\ \A x \in 1 .. Len(w) + Len(e) : (w \o e)[x] = IF x <= Len(w) THEN w[x] ELSE e[x - Len(w)]
    BY <1>2, ConcatProperties
  <2> QED
    BY <1>2, <1>3, <2>1
<1>5. \A x \in 1 .. Len(w) : w2[x] = w[x]
  BY <1>1, <1>4
<1>6. w2[Len(w) + 1] = n
  <2>1. Len(w) + 1 \in 1 .. Len(w) + (1 + n) /\ ~(Len(w) + 1 <= Len(w)) /\ (Len(w) + 1) - Len(w) = 1
    BY <1>1
  <2> QED
    BY <1>2, <1>4, <2>1
<1>7. \A j \in 1 .. n : w2[Len(w) + 1 + j] = l[j]
  <2> TAKE j \in 1 .. n
  <2>1. /\ Len(w) + 1 + j \in 1 .. Len(w) + (1 + n) /\ ~(Len(w) + 1 + j <= Len(w))
        /\ (Len(w) + 1 + j) - Len(w) = 1 + j
    BY <1>1
  <2> QED
    BY <1>2, <1>4, <2>1
<1>8. Len(w2) = Len(w) + 1 + n
  BY <1>1, <1>4
<1> QED
  BY <1>4, <1>5, <1>6, <1>7, <1>8 DEF n, IsWithLabel

\* The layout of k labels and a label more is that of k + 1.
LEMMA LaidMore ==
  ASSUME NEW name, IsName(name), NEW P, NEW k \in Nat, k + 1 <= Len(name),
         NEW w, Laid(w, name, P, k),
         NEW w2, w2 = w \o (<<Len(name[k + 1])>> \o name[k + 1]), P[k + 2] = Len(w2) + 1
  PROVE  Laid(w2, name, P, k + 1)
<1> DEFINE l == name[k + 1]
<1>1. k + 1 \in 1 .. Len(name) /\ Len(name) \in Nat
  BY DEF IsName
<1>2. l \in Seq(Byte) /\ Len(l) \in Nat /\ Len(l) <= 63 /\ w \in Seq(Byte) /\ Len(w) \in Nat
  BY <1>1 DEF IsName, Laid
<1> HIDE DEF l
<1>3. /\ w2 \in Seq(Byte) /\ Len(w2) = Len(w) + 1 + Len(l)
      /\ \A x \in 1 .. Len(w) : w2[x] = w[x]
      /\ w2[Len(w) + 1] = Len(l) /\ \A j \in 1 .. Len(l) : w2[Len(w) + 1 + j] = l[j]
  <2>1. w2 = WithLabel(w, l)
    BY DEF l, WithLabel
  <2>2. IsWithLabel(WithLabel(w, l), w, l)
    BY <1>2, LabelAppended
  <2> QED
    BY <2>1, <2>2 DEF IsWithLabel
<1>4. P[k + 1] = Len(w) + 1 /\ P[1] = 1
  BY DEF Laid
<1>5. (k + 1) + 1 = k + 2
  OBVIOUS
<1>6. P[k + 2] = P[k + 1] + 1 + Len(l) /\ P[k + 1] \in Nat /\ P[k + 1] >= 1 /\ P[k + 2] \in Nat
  <2>1. P[k + 2] = Len(w) + 1 + Len(l) + 1
    BY <1>3
  <2> QED
    BY <1>2, <1>4, <2>1
<1>7. ASSUME NEW i \in 1 .. k + 1
      PROVE  /\ LabelAt(w2, name[i], P[i]) /\ P[i] \in Nat /\ P[i] >= 1
             /\ P[i + 1] = P[i] + 1 + Len(name[i]) /\ P[i + 1] <= P[k + 2]
  <2>1. CASE i = k + 1
    <3>1. LabelAt(w2, l, P[k + 1])
      BY <1>3, <1>4 DEF LabelAt
    <3>2. i + 1 = k + 2
      BY <2>1
    <3> QED
      BY <1>6, <2>1, <3>1, <3>2 DEF l
  <2>2. CASE i # k + 1
    <3>1. i \in 1 .. k /\ i \in 1 .. Len(name)
      BY <1>1, <2>2
    <3>2. /\ LabelAt(w, name[i], P[i]) /\ P[i] \in Nat /\ P[i] >= 1
          /\ P[i + 1] = P[i] + 1 + Len(name[i]) /\ P[i + 1] <= P[k + 1]
      BY <3>1 DEF Laid
    <3>3. Len(name[i]) \in Nat
      BY <3>1 DEF IsName
    <3> DEFINE p == P[i]
               n == Len(name[i])
    <3>4. p \in Nat /\ n \in Nat /\ p >= 1 /\ p + 1 + n <= Len(w) + 1 /\ P[i + 1] <= P[k + 2]
      <4>1. p \in Nat /\ n \in Nat /\ p >= 1
        BY <3>2, <3>3
      <4>2. P[i + 1] = p + 1 + n /\ P[i + 1] <= Len(w) + 1
        BY <1>4, <3>2
      <4>3. P[k + 2] = Len(w) + 1 + 1 + Len(l)
        BY <1>4, <1>6
      <4> HIDE DEF p, n
      <4>4. P[i + 1] <= P[k + 2]
        BY <1>2, <4>1, <4>2, <4>3
      <4> QED
        BY <4>1, <4>2, <4>4
    <3>5. p \in 1 .. Len(w) /\ \A j \in 1 .. n : p + j \in 1 .. Len(w)
      <4> HIDE DEF p, n
      <4> QED
        BY <1>2, <3>4
    <3>6. LabelAt(w2, name[i], P[i])
      BY <1>3, <3>2, <3>5 DEF LabelAt
    <3> QED
      BY <3>2, <3>4, <3>6
  <2> QED
    BY <2>1, <2>2
<1> QED
  BY <1>3, <1>4, <1>5, <1>7 DEF Laid

\* The wire format of a name is its labels, one after the other.
LEMMA WireLayout ==
  ASSUME NEW name, IsName(name)
  PROVE  \E P : Laid(Tap!OnWire(name), name, P, Len(name))
<1>1. PICK f : /\ f[1] = <<Len(name[1])>> \o name[1] /\ f[Len(name)] = Tap!OnWire(name)
               /\ \A i \in 1 .. Len(name) :
                    i # 1 => f[i] = f[i - 1] \o (<<Len(name[i])>> \o name[i])
  BY WireGrows
<1> DEFINE m == Len(name)
           P == [i \in 1 .. m + 1 |-> IF i = 1 THEN 1 ELSE Len(f[i - 1]) + 1]
           S == {k \in 1 .. m : ~Laid(f[k], name, P, k)}
<1>2. m \in Nat /\ m >= 1 /\ name[1] \in Seq(Byte)
  BY DEF IsName
<1>3. P[1] = 1 /\ \A i \in 1 .. m : P[i + 1] = Len(f[i]) + 1
  <2>1. 1 \in 1 .. m + 1 /\ \A i \in 1 .. m : i + 1 \in 1 .. m + 1 /\ i + 1 # 1 /\ (i + 1) - 1 = i
    BY <1>2
  <2> QED
    BY <2>1
<1> HIDE DEF m, P
<1>4. S = {}
  <2> SUFFICES ASSUME S # {} PROVE FALSE
    OBVIOUS
  <2>1. PICK k \in S : \A l \in S : k <= l
    <3> HIDE DEF S
    <3>1. S \in SUBSET Nat
      BY <1>2 DEF S
    <3> QED
      BY <3>1, LeastOf
  <2>2. k \in 1 .. m /\ ~Laid(f[k], name, P, k)
    OBVIOUS
  <2> DEFINE h == k - 1
             w == IF h = 0 THEN << >> ELSE f[h]
  <2>3. h \in Nat /\ h + 1 = k /\ h + 2 = k + 1 /\ h + 1 <= Len(name) /\ h \notin S
    BY <1>2, <2>1, <2>2 DEF m
  <2>4. Laid(w, name, P, h)
    <3>1. CASE h = 0
      <4>1. w = << >> /\ 1 .. 0 = {} /\ Len(<< >>) = 0 /\ << >> \in Seq(Byte)
        BY <3>1
      <4> QED
        BY <1>3, <3>1, <4>1 DEF Laid
    <3>2. CASE h # 0
      <4>1. h \in 1 .. m
        BY <1>2, <2>2, <2>3, <3>2
      <4> QED
        BY <2>3, <3>2, <4>1
    <3> QED
      BY <3>1, <3>2
  <2>5. f[h + 1] = w \o (<<Len(name[h + 1])>> \o name[h + 1])
    <3>1. CASE h = 0
      <4>1. Len(name[1]) \in Nat /\ <<Len(name[1])>> \o name[1] \in Seq(Nat)
        BY <1>2, BytesAreNumbers
      <4> QED
        BY <1>1, <3>1, <4>1
    <3>2. CASE h # 0
      <4>1. k # 1
        BY <2>2, <2>3, <3>2
      <4> QED
        BY <1>1, <2>2, <2>3, <3>2, <4>1 DEF m
    <3> QED
      BY <3>1, <3>2
  <2>6. P[h + 2] = Len(f[h + 1]) + 1
    BY <1>3, <2>2, <2>3
  <2> HIDE DEF h, w, S
  <2>7. Laid(f[h + 1], name, P, h + 1)
    BY <2>3, <2>4, <2>5, <2>6, LaidMore
  <2> QED
    BY <2>2, <2>3, <2>7
<1>5. m \in 1 .. m
  BY <1>2
<1>6. Laid(f[m], name, P, m)
  BY <1>4, <1>5
<1> QED
  BY <1>1, <1>6 DEF m

\* A sequence that agrees with another as far as it goes is a prefix of it, and
\* is that sequence when it goes as far.
LEMMA PrefixWhen ==
  ASSUME NEW s \in Seq(Byte), NEW l \in Seq(Byte), Len(s) <= Len(l),
         \A j \in 1 .. Len(s) : s[j] = l[j]
  PROVE  Tap!IsPrefix(s, l) /\ (Len(s) = Len(l) => s = l)
<1>1. Len(s) \in Nat /\ Len(l) \in Nat
  OBVIOUS
<1>2. SubSeq(s, 1, Len(s)) = s
  BY SubSeqFull
<1>3. SubSeq(l, 1, Len(s)) = s
  <2> DEFINE t == SubSeq(l, 1, Len(s))
  <2>1. /\ t \in Seq(Byte) /\ Len(t) = Len(s)
        /\ \A j \in 1 .. Len(s) : t[j] = l[j]
    BY <1>1
  <2> HIDE DEF t
  <2>2. t = s
    BY <1>1, <2>1, SeqEqual
  <2> QED
    BY <2>2 DEF t
<1>4. Len(s) = Len(l) => s = l
  BY SeqEqual
<1> QED
  BY <1>2, <1>3, <1>4 DEF Tap!IsPrefix

\* A label is in a buffer from a position, as far as the buffer goes.
LabelIn(b, l, p) ==
  /\ p <= Len(b) => b[p] = Len(l)
  /\ \A j \in 1 .. Len(l) : p + j <= Len(b) => b[p + j] = l[j]

\* What is cut out for a label
CutOut(b, l, p) == Tap!Slice(b, p + 1, p + 1 + Len(l))

\* What is cut out for a label is the label as far as the buffer goes.
LEMMA LabelCutOut ==
  ASSUME NEW b \in Seq(Byte), NEW l \in Seq(Byte), NEW p \in Nat, p >= 1, p <= Len(b),
         LabelIn(b, l, p)
  PROVE  /\ CutOut(b, l, p) \in Seq(Byte) /\ Tap!IsPrefix(CutOut(b, l, p), l)
         /\ p + Len(l) <= Len(b) => CutOut(b, l, p) = l
<1> DEFINE n == Len(l)
           N == Len(b)
           e == IF p + n < N THEN p + n ELSE N
           s == SubSeq(b, p + 1, e)
<1>1. n \in Nat /\ N \in Nat /\ e \in Nat /\ e >= p /\ e <= N /\ e <= p + n /\ (p + n <= N => e = p + n)
  OBVIOUS
<1>2. CutOut(b, l, p) = s
  <2>1. (p + 1 + n) - 1 = p + n
    BY <1>1
  <2> QED
    BY <2>1 DEF CutOut, Tap!Slice
<1> HIDE DEF n, N, e
<1>3. s \in Seq(Byte) /\ Len(s) = e - p /\ \A j \in 1 .. e - p : s[j] = b[p + j]
  <2>1. \A x \in p + 1 .. e : x \in 1 .. N /\ b[x] \in Byte
    BY <1>1 DEF N
  <2>2. s \in Seq(Byte) /\ Len(s) = e - p
    BY <1>1, <2>1, SubSeqProperties DEF N
  <2>3. ASSUME NEW j \in 1 .. e - p PROVE s[j] = b[p + j]
    <3>1. j \in 1 .. (e - (p + 1)) + 1 /\ (p + 1) + j - 1 = p + j
      BY <1>1
    <3> QED
      BY <1>1, <3>1
  <2> QED
    BY <2>2, <2>3
<1> HIDE DEF s
<1>4. \A j \in 1 .. Len(s) : s[j] = l[j]
  <2> TAKE j \in 1 .. Len(s)
  <2>1. j \in 1 .. e - p /\ j \in 1 .. n /\ p + j <= N
    BY <1>1, <1>3
  <2>2. b[p + j] = l[j]
    BY <2>1 DEF LabelIn, n, N
  <2> QED
    BY <1>3, <2>1, <2>2
<1>5. Len(s) \in Nat /\ Len(s) <= n /\ (p + n <= N => Len(s) = n)
  BY <1>1, <1>3
<1>6. Tap!IsPrefix(s, l) /\ (Len(s) = n => s = l)
  BY <1>3, <1>4, <1>5, PrefixWhen DEF n
<1> QED
  BY <1>2, <1>3, <1>5, <1>6 DEF n, N

\* A buffer is the start of a question for a name, label i from position P[i].
Carries(buf, name, P) ==
  LET m == Len(name)
  IN  /\ buf \in Seq(Byte) /\ P[1] = 1 /\ P[m + 1] \in Nat /\ P[m + 1] >= 1
      /\ \A i \in 1 .. m : /\ P[i] \in Nat /\ P[i] >= 1 /\ LabelIn(buf, name[i], P[i])
                           /\ P[i + 1] = P[i] + 1 + Len(name[i]) /\ P[i + 1] <= P[m + 1]

\* A walk ends at a position if it comes there.
Ends(buf, pointers, p) == p <= Len(buf) => buf[p] = 0 \/ (pointers /\ buf[p] >= 64)

\* What a walk from label i of a name reads: its labels, all of them but the
\* last one whole, and where the name ends if the buffer goes that far.
Reads(r, buf, name, P, i) ==
  LET n == Len(r.labels)
  IN  /\ r.labels \in Seq(Seq(Byte)) /\ n <= Len(name) + 1 - i
      /\ \A j \in 1 .. n : /\ Tap!IsPrefix(r.labels[j], name[i + j - 1])
                           /\ j < n => r.labels[j] = name[i + j - 1]
      /\ P[Len(name) + 1] <= Len(buf) =>
           /\ n = Len(name) + 1 - i /\ r.at = P[Len(name) + 1]
           /\ \A j \in 1 .. n : r.labels[j] = name[i + j - 1]
      /\ P[Len(name) + 1] > Len(buf) => r.at \in Nat /\ r.at > Len(buf)

\* A walk goes no further from a position.
Stops(buf, pointers, i) == i > Len(buf) \/ buf[i] = 0 \/ (pointers /\ buf[i] >= 64)

\* A walk that stops where it begins has read nothing.
LEMMA NothingToRead ==
  ASSUME NEW buf \in Seq(Byte), NEW pointers, NEW i \in Position, Stops(buf, pointers, i)
  PROVE  Tap!WalkFrom(buf, pointers)[i] = [labels |-> << >>, at |-> i]
<1>1. WalkStep(buf, pointers, Tap!WalkFrom(buf, pointers), i) = [labels |-> << >>, at |-> i]
  BY DEF WalkStep, Stops
<1> QED
  BY <1>1, WalkSteps

\* A label is in a buffer from position i, another one or the end from next.
IsLabel(buf, l, i, next) ==
  /\ i \in Nat /\ i >= 1 /\ i <= Len(buf) /\ buf[i] = Len(l) /\ next = i + 1 + Len(l)
  /\ Len(l) \in Nat /\ Len(l) >= 1 /\ Len(l) <= 63

\* A walk reads a label and goes on after it.
Continues(f, buf, l, i, next) ==
  f[i] = [labels |-> <<CutOut(buf, l, i)>> \o f[next].labels, at |-> f[next].at]

\* That is what it does.
LEMMA LabelRead ==
  ASSUME NEW buf \in Seq(Byte), NEW pointers, NEW l, NEW i, NEW next, IsLabel(buf, l, i, next)
  PROVE  Continues(Tap!WalkFrom(buf, pointers), buf, l, i, next)
<1> DEFINE f == Tap!WalkFrom(buf, pointers)
           rest == f[next]
           n == Len(l)
<1>0. /\ i \in Nat /\ i >= 1 /\ i <= Len(buf) /\ buf[i] = n /\ next = i + 1 + buf[i]
      /\ next = i + 1 + Len(l) /\ n \in Nat /\ n >= 1 /\ n <= 63
  BY DEF IsLabel
<1>1. i \in Position
  BY <1>0 DEF Position
<1>2. ~(i > Len(buf) \/ buf[i] = 0 \/ (pointers /\ buf[i] >= 64))
  <2>1. Len(buf) \in Nat
    OBVIOUS
  <2>2. n # 0 /\ ~(n >= 64) /\ ~(i > Len(buf))
    BY <1>0, <2>1
  <2> QED
    BY <1>0, <2>2
<1>3. f[i] = WalkStep(buf, pointers, f, i)
  BY <1>1, WalkSteps
<1> HIDE DEF f
<1>4. WalkStep(buf, pointers, f, i)
        = [labels |-> <<CutOut(buf, l, i)>> \o rest.labels, at |-> rest.at]
  BY <1>0, <1>2 DEF WalkStep, CutOut
<1> QED
  BY <1>3, <1>4 DEF f, Continues

\* At the end of the name there is nothing more to read.
LEMMA ReadsTheEnd ==
  ASSUME NEW buf, NEW name, NEW P, NEW pointers, IsName(name), Carries(buf, name, P),
         Ends(buf, pointers, P[Len(name) + 1])
  PROVE  Reads(Tap!WalkFrom(buf, pointers)[P[Len(name) + 1]], buf, name, P, Len(name) + 1)
<1> DEFINE m == Len(name)
           p == P[m + 1]
           r == Tap!WalkFrom(buf, pointers)[p]
<1>1. m \in Nat /\ p \in Nat /\ p >= 1 /\ buf \in Seq(Byte) /\ Len(buf) \in Nat
  BY DEF IsName, Carries
<1>2. p \in Position /\ Stops(buf, pointers, p)
  BY <1>1 DEF Ends, Stops, Position
<1> HIDE DEF p, m
<1>3. r = [labels |-> << >>, at |-> p]
  BY <1>1, <1>2, NothingToRead
<1> HIDE DEF r
<1>4. r.labels = << >> /\ Len(r.labels) = 0 /\ r.at = p /\ 1 .. 0 = {} /\ << >> \in Seq(Seq(Byte))
  BY <1>3
<1>5. m + 1 - (m + 1) = 0
  BY <1>1
<1>6. Reads(r, buf, name, P, m + 1)
  BY <1>1, <1>4, <1>5 DEF Reads, p, m
<1> QED
  BY <1>6 DEF r, p, m

\* A label and then the rest of the name is the name from that label on.
LEMMA ReadsOneMore ==
  ASSUME NEW buf, NEW name, NEW P, NEW pointers, IsName(name), Carries(buf, name, P),
         NEW i \in 1 .. Len(name),
         Reads(Tap!WalkFrom(buf, pointers)[P[i + 1]], buf, name, P, i + 1)
  PROVE  Reads(Tap!WalkFrom(buf, pointers)[P[i]], buf, name, P, i)
<1> DEFINE m == Len(name)
           p == P[i]
           l == name[i]
           f == Tap!WalkFrom(buf, pointers)
           r == f[p]
           rest == f[P[i + 1]]
           end == P[m + 1]
<1>1. /\ m \in Nat /\ i \in Nat /\ i >= 1 /\ i <= m
      /\ p \in Nat /\ p >= 1 /\ buf \in Seq(Byte) /\ Len(buf) \in Nat
      /\ l \in Seq(Byte) /\ Len(l) \in Nat /\ Len(l) >= 1 /\ Len(l) <= 63
      /\ P[i + 1] = p + 1 + Len(l) /\ P[i + 1] <= end /\ end \in Nat
  <2>1. m \in Nat /\ i \in Nat /\ i >= 1 /\ i <= m
    BY DEF IsName
  <2>2. l \in Seq(Byte) /\ Len(l) \in Nat /\ Len(l) >= 1 /\ Len(l) <= 63
    BY DEF IsName
  <2>3. p \in Nat /\ p >= 1 /\ buf \in Seq(Byte) /\ Len(buf) \in Nat
    BY DEF Carries
  <2>4. P[i + 1] = p + 1 + Len(l) /\ P[i + 1] <= end /\ end \in Nat
    BY DEF Carries
  <2> QED
    BY <2>1, <2>2, <2>3, <2>4
<1>2. LabelIn(buf, l, p)
  BY DEF Carries
<1>3. CASE p > Len(buf)
  <2>1. r = [labels |-> << >>, at |-> p]
    <3> HIDE DEF p
    <3>1. p \in Position /\ Stops(buf, pointers, p)
      BY <1>1, <1>3 DEF Position, Stops
    <3> QED
      BY <1>1, <3>1, NothingToRead
  <2> HIDE DEF r, p, l, end
  <2>2. r.labels = << >> /\ Len(r.labels) = 0 /\ r.at = p /\ 1 .. 0 = {} /\ << >> \in Seq(Seq(Byte))
    BY <2>1
  <2>3. ~(end <= Len(buf)) /\ 0 <= m + 1 - i
    BY <1>1, <1>3
  <2>4. Reads(r, buf, name, P, i)
    BY <1>1, <1>3, <2>2, <2>3 DEF Reads, end
  <2> QED
    BY <2>4 DEF r, p
<1>4. CASE p <= Len(buf)
  <2> DEFINE s == CutOut(buf, l, p)
             ls == rest.labels
             n == Len(ls)
  <2>1. r = [labels |-> <<s>> \o ls, at |-> rest.at]
    <3>1. buf[p] = Len(l)
      BY <1>2, <1>4 DEF LabelIn
    <3> DEFINE q == P[i + 1]
    <3>2. IsLabel(buf, l, p, q)
      <4> HIDE DEF p, l
      <4> QED
        BY <1>1, <1>4, <3>1 DEF IsLabel
    <3>3. buf \in Seq(Byte)
      BY <1>1
    <3> HIDE DEF p, l, q
    <3>4. Continues(f, buf, l, p, q)
      BY <3>2, <3>3, LabelRead
    <3> QED
      BY <3>4 DEF q, Continues
  <2>2. s \in Seq(Byte) /\ Tap!IsPrefix(s, l) /\ (p + Len(l) <= Len(buf) => s = l)
    <3> HIDE DEF p, l
    <3> QED
      BY <1>1, <1>2, <1>4, LabelCutOut
  <2>3. /\ ls \in Seq(Seq(Byte)) /\ n \in Nat /\ n <= m + 1 - (i + 1)
        /\ \A j \in 1 .. n : /\ Tap!IsPrefix(ls[j], name[i + 1 + j - 1])
                             /\ j < n => ls[j] = name[i + 1 + j - 1]
        /\ end <= Len(buf) => /\ n = m + 1 - (i + 1) /\ rest.at = end
                              /\ \A j \in 1 .. n : ls[j] = name[i + 1 + j - 1]
        /\ end > Len(buf) => rest.at \in Nat /\ rest.at > Len(buf)
    <3>1. Reads(rest, buf, name, P, i + 1)
      OBVIOUS
    <3> HIDE DEF rest
    <3>2. ls \in Seq(Seq(Byte)) => n \in Nat
      OBVIOUS
    <3> QED
      BY <3>1, <3>2 DEF Reads
  <2>4. n # 0 => p + Len(l) <= Len(buf)
    <3> SUFFICES ASSUME ~(p + Len(l) <= Len(buf)) PROVE n = 0
      OBVIOUS
    <3>1. p + 1 + Len(l) \in Position /\ Stops(buf, pointers, p + 1 + Len(l))
      <4> HIDE DEF p, l
      <4> QED
        BY <1>1 DEF Position, Stops
    <3>2. rest = [labels |-> << >>, at |-> p + 1 + Len(l)]
      <4>1. f[p + 1 + Len(l)] = [labels |-> << >>, at |-> p + 1 + Len(l)]
        <5> HIDE DEF p, l
        <5> QED
          BY <1>1, <3>1, NothingToRead
      <4> HIDE DEF f, p, l
      <4> QED
        BY <1>1, <4>1
    <3> HIDE DEF rest
    <3> QED
      BY <3>2
  <2> HIDE DEF s, ls, p, l, rest, r, end, m
  <2>5. /\ r.labels \in Seq(Seq(Byte)) /\ Len(r.labels) = n + 1 /\ r.labels[1] = s /\ r.at = rest.at
        /\ \A j \in 1 .. n : r.labels[j + 1] = ls[j]
    <3>1. <<s>> \in Seq(Seq(Byte)) /\ Len(<<s>>) = 1 /\ <<s>>[1] = s
      BY <2>2
    <3>2. /\ <<s>> \o ls \in Seq(Seq(Byte)) /\ Len(<<s>> \o ls) = 1 + n
          /\ \A x \in 1 .. 1 + n : (<<s>> \o ls)[x] = IF x <= 1 THEN <<s>>[x] ELSE ls[x - 1]
      BY <2>3, <3>1, ConcatProperties
    <3>3. 1 \in 1 .. 1 + n /\ \A j \in 1 .. n : j + 1 \in 1 .. 1 + n /\ ~(j + 1 <= 1) /\ (j + 1) - 1 = j
      BY <2>3
    <3> HIDE DEF n
    <3> QED
      BY <2>1, <2>3, <3>1, <3>2, <3>3
  <2> HIDE DEF n
  <2>6. ASSUME NEW j \in 1 .. n + 1
        PROVE  /\ Tap!IsPrefix(r.labels[j], name[i + j - 1])
               /\ j < n + 1 => r.labels[j] = name[i + j - 1]
               /\ end <= Len(buf) => r.labels[j] = name[i + j - 1]
    <3>1. CASE j = 1
      <4>1. i + j - 1 = i
        BY <1>1, <3>1
      <4>2. j < n + 1 => n # 0
        BY <2>3, <3>1
      <4>3. end <= Len(buf) => p + Len(l) <= Len(buf)
        BY <1>1
      <4> QED
        BY <2>2, <2>4, <2>5, <3>1, <4>1, <4>2, <4>3 DEF l
    <3>2. CASE j # 1
      <4> DEFINE k == j - 1
      <4>1. k \in 1 .. n /\ k + 1 = j /\ i + 1 + k - 1 = i + j - 1 /\ (j < n + 1 => k < n)
        BY <1>1, <2>3, <3>2
      <4>2. r.labels[j] = ls[k]
        BY <2>5, <4>1
      <4> HIDE DEF k
      <4> QED
        BY <2>3, <4>1, <4>2
    <3> QED
      BY <3>1, <3>2
  <2>7. /\ n + 1 <= m + 1 - i
        /\ end <= Len(buf) => n + 1 = m + 1 - i
    BY <1>1, <2>3
  <2>8. Reads(r, buf, name, P, i)
    BY <2>3, <2>5, <2>6, <2>7 DEF Reads, m, end
  <2> QED
    BY <2>8 DEF r, p
<1> QED
  BY <1>1, <1>3, <1>4

\* So a walk from the beginning reads the name as far as it is there.
LEMMA ReadsTheName ==
  ASSUME NEW buf, NEW name, NEW P, NEW pointers, IsName(name), Carries(buf, name, P),
         Ends(buf, pointers, P[Len(name) + 1])
  PROVE  Reads(Tap!Walk(buf, pointers), buf, name, P, 1)
<1> DEFINE m == Len(name)
           Read(i) == Reads(Tap!WalkFrom(buf, pointers)[P[i]], buf, name, P, i)
           S == {d \in 0 .. m : ~Read(m + 1 - d)}
<1>1. m \in Nat /\ m >= 1
  BY DEF IsName
<1>2. S = {}
  <2> SUFFICES ASSUME S # {} PROVE FALSE
    OBVIOUS
  <2>1. PICK d \in S : \A e \in S : d <= e
    <3> HIDE DEF S
    <3>1. S \in SUBSET Nat
      BY <1>1 DEF S
    <3> QED
      BY <3>1, LeastOf
  <2>2. d \in 0 .. m /\ ~Read(m + 1 - d)
    OBVIOUS
  <2>3. d # 0
    <3>1. Read(m + 1)
      BY ReadsTheEnd
    <3>2. m + 1 - 0 = m + 1
      BY <1>1
    <3> QED
      BY <2>2, <3>1, <3>2
  <2> DEFINE i == m + 1 - d
  <2>4. i \in 1 .. m /\ d - 1 \in 0 .. m /\ m + 1 - (d - 1) = i + 1 /\ ~(d <= d - 1)
    BY <1>1, <2>2, <2>3
  <2>5. Read(i + 1)
    <3> HIDE DEF i, Read
    <3>1. d - 1 \notin S
      <4> HIDE DEF S
      <4> QED
        BY <2>1, <2>4
    <3> QED
      BY <2>4, <3>1
  <2>6. Read(i)
    <3> HIDE DEF i
    <3> QED
      BY <2>4, <2>5, ReadsOneMore
  <2> QED
    BY <2>2, <2>6
<1>3. m \in 0 .. m /\ m + 1 - m = 1
  BY <1>1
<1>4. Read(1)
  <2> HIDE DEF Read
  <2>1. Read(m + 1 - m)
    BY <1>2, <1>3
  <2> QED
    BY <1>3, <2>1
<1>5. P[1] = 1
  BY DEF Carries
<1> QED
  BY <1>4, <1>5 DEF Tap!Walk

\* A buffer agrees with bytes as far as it goes.
Agrees(buf, w) == \A x \in 1 .. Len(w) : x <= Len(buf) => buf[x] = w[x]

\* A buffer that agrees with the wire format of a name carries the name.
LEMMA CarriesWhen ==
  ASSUME NEW name, IsName(name), NEW w, NEW P, Laid(w, name, P, Len(name)),
         NEW buf \in Seq(Byte), Agrees(buf, w)
  PROVE  Carries(buf, name, P) /\ P[Len(name) + 1] = Len(w) + 1
<1> DEFINE m == Len(name)
<1>1. m \in Nat /\ m >= 1 /\ w \in Seq(Byte) /\ Len(w) \in Nat /\ Len(buf) \in Nat
  BY DEF IsName, Laid
<1>2. P[1] = 1 /\ P[m + 1] = Len(w) + 1
  BY DEF Laid
<1>3. ASSUME NEW i \in 1 .. m
      PROVE  /\ P[i] \in Nat /\ P[i] >= 1 /\ LabelIn(buf, name[i], P[i])
             /\ P[i + 1] = P[i] + 1 + Len(name[i]) /\ P[i + 1] <= P[m + 1]
  <2>1. /\ LabelAt(w, name[i], P[i]) /\ P[i] \in Nat /\ P[i] >= 1
        /\ P[i + 1] = P[i] + 1 + Len(name[i]) /\ P[i + 1] <= P[m + 1]
    BY DEF Laid
  <2>2. Len(name[i]) \in Nat
    BY DEF IsName
  <2> DEFINE p == P[i]
             n == Len(name[i])
  <2>3. p \in 1 .. Len(w) /\ \A j \in 1 .. n : p + j \in 1 .. Len(w)
    <3>1. p \in Nat /\ p >= 1 /\ n \in Nat /\ p + 1 + n <= Len(w) + 1
      BY <1>2, <2>1, <2>2
    <3> HIDE DEF p, n
    <3> QED
      BY <1>1, <3>1
  <2>4. LabelIn(buf, name[i], P[i])
    BY <2>1, <2>3 DEF LabelAt, LabelIn, Agrees
  <2> QED
    BY <2>1, <2>4
<1> QED
  BY <1>1, <1>2, <1>3 DEF Carries

\* What two sequences of bytes, one after the other, are.
AreJoined(q, a, b) ==
  /\ q \in Seq(Byte) /\ Len(q) = Len(a) + Len(b)
  /\ \A x \in 1 .. Len(a) + Len(b) : q[x] = IF x <= Len(a) THEN a[x] ELSE b[x - Len(a)]

\* That is what \o makes.
LEMMA Joined ==
  ASSUME NEW a \in Seq(Byte), NEW b \in Seq(Byte)
  PROVE  AreJoined(a \o b, a, b)
BY ConcatProperties DEF AreJoined

\* What the bytes of a question are.
IsQuestion(q, w, t) ==
  /\ q \in Seq(Byte) /\ Len(q) = Len(w) + 5
  /\ \A x \in 1 .. Len(w) : q[x] = w[x]
  /\ q[Len(w) + 1] = 0 /\ q[Len(w) + 2] = t[1] /\ q[Len(w) + 3] = t[2]

\* The bytes of a question are a name's, a zero, two for its type and two more.
LEMMA QuestionBytes ==
  ASSUME NEW w \in Seq(Byte), NEW t \in Seq(Byte), Len(t) = 2, NEW u \in Seq(Byte), Len(u) = 2
  PROVE  IsQuestion(w \o <<0>> \o t \o u, w, t)
<1> DEFINE N == Len(w)
           z == <<0>>
           a == w \o z
           b == a \o t
           q == b \o u
<1>1. z \in Seq(Byte) /\ Len(z) = 1 /\ z[1] = 0 /\ N \in Nat
  BY DEF Byte
<1> HIDE DEF z
<1>2. /\ a \in Seq(Byte) /\ Len(a) = N + 1
      /\ \A x \in 1 .. N + 1 : a[x] = IF x <= N THEN w[x] ELSE z[x - N]
  <2>1. AreJoined(a, w, z)
    BY <1>1, Joined
  <2> HIDE DEF a
  <2> QED
    BY <1>1, <2>1 DEF AreJoined
<1> HIDE DEF a
<1>3. /\ b \in Seq(Byte) /\ Len(b) = N + 1 + 2
      /\ \A x \in 1 .. N + 1 + 2 : b[x] = IF x <= N + 1 THEN a[x] ELSE t[x - (N + 1)]
  <2>1. /\ b \in Seq(Byte) /\ Len(b) = Len(a) + Len(t)
        /\ \A x \in 1 .. Len(a) + Len(t) : b[x] = IF x <= Len(a) THEN a[x] ELSE t[x - Len(a)]
    <3>1. AreJoined(b, a, t)
      BY <1>2, Joined
    <3> QED
      BY <3>1 DEF AreJoined
  <2> HIDE DEF b, N
  <2> QED
    BY <1>2, <2>1
<1> HIDE DEF b
<1>4. /\ q \in Seq(Byte) /\ Len(q) = N + 1 + 2 + 2
      /\ \A x \in 1 .. N + 1 + 2 : q[x] = b[x]
  <2>1. /\ q \in Seq(Byte) /\ Len(q) = Len(b) + Len(u)
        /\ \A x \in 1 .. Len(b) + Len(u) : q[x] = IF x <= Len(b) THEN b[x] ELSE u[x - Len(b)]
    <3>1. AreJoined(q, b, u)
      BY <1>3, Joined
    <3> HIDE DEF q
    <3> QED
      BY <3>1 DEF AreJoined
  <2> HIDE DEF q, N
  <2>2. N \in Nat
    BY <1>1 DEF N
  <2>3. \A x \in 1 .. N + 1 + 2 : x \in 1 .. Len(b) + Len(u) /\ x <= Len(b)
    BY <1>3, <2>2
  <2> QED
    BY <1>3, <2>1, <2>2, <2>3
<1> HIDE DEF q
<1>5. N \in Nat
  BY <1>1
<1> HIDE DEF N
<1>6. \A x \in 1 .. N : q[x] = w[x]
  <2> TAKE x \in 1 .. N
  <2>1. x \in 1 .. N + 1 /\ x \in 1 .. N + 1 + 2 /\ x <= N + 1 /\ x <= N
    BY <1>5
  <2> QED
    BY <1>2, <1>3, <1>4, <2>1
<1>7. q[N + 1] = 0
  <2>1. N + 1 \in 1 .. N + 1 /\ N + 1 \in 1 .. N + 1 + 2 /\ ~(N + 1 <= N) /\ (N + 1) - N = 1
    BY <1>5
  <2> QED
    BY <1>1, <1>2, <1>3, <1>4, <2>1
<1>8. q[N + 2] = t[1] /\ q[N + 3] = t[2]
  <2>1. /\ N + 2 \in 1 .. N + 1 + 2 /\ ~(N + 2 <= N + 1) /\ (N + 2) - (N + 1) = 1
        /\ N + 3 \in 1 .. N + 1 + 2 /\ ~(N + 3 <= N + 1) /\ (N + 3) - (N + 1) = 2
    BY <1>5
  <2> QED
    BY <1>3, <1>4, <2>1
<1>9. Len(q) = N + 5
  BY <1>4, <1>5
<1> QED
  BY <1>4, <1>6, <1>7, <1>8, <1>9 DEF IsQuestion, q, b, a, z, N

\* A name that goes on the wire is none of those the sensor takes for no name.
LEMMA NamesAreNames ==
  ASSUME NEW name, IsName(name)
  PROVE  name \notin {<< >>, << << >> >>} /\ name # None /\ name \in Seq(Seq(Byte))
<1>1. name \in Seq(Seq(Byte)) /\ Len(name) >= 1 /\ 1 \in 1 .. Len(name)
  BY DEF IsName
<1>2. Len(name[1]) >= 1
  BY <1>1 DEF IsName
<1>3. Len(<< >>) = 0 /\ << << >> >>[1] = << >>
  OBVIOUS
<1>4. name # << >>
  BY <1>1, <1>3
<1>5. name # << << >> >>
  BY <1>2, <1>3
<1>6. name # None
  BY <1>1, NoneAssumption DEF Byte
<1> QED
  BY <1>1, <1>4, <1>5, <1>6

\* A walk of a buffer of n bytes has read a name whose bytes end before e.
WalkedName(r, name, n, e) ==
  /\ r.labels \in Seq(Seq(Byte)) /\ Tap!IsRestOf(r.labels, name)
  /\ e <= n => r.labels = name /\ r.at = e
  /\ e > n => r.at \in Nat /\ r.at > n

\* What a walk from the beginning says of the name.
LEMMA NameRead ==
  ASSUME NEW name, IsName(name), NEW r, NEW buf, NEW P, Reads(r, buf, name, P, 1)
  PROVE  WalkedName(r, name, Len(buf), P[Len(name) + 1])
<1> DEFINE m == Len(name)
           n == Len(r.labels)
<1>1. m \in Nat /\ name \in Seq(Seq(Byte)) /\ r.labels \in Seq(Seq(Byte)) /\ n \in Nat /\ m + 1 - 1 = m
  BY DEF IsName, Reads
<1>2. DOMAIN r.labels = 1 .. n
  BY <1>1
<1>3. n <= m
  BY <1>1 DEF Reads
<1>4. ASSUME NEW j \in 1 .. n
      PROVE  /\ Tap!IsPrefix(r.labels[j], name[j])
             /\ j < n => r.labels[j] = name[j]
             /\ P[m + 1] <= Len(buf) => r.labels[j] = name[j]
  <2>1. 1 + j - 1 = j
    BY <1>1
  <2> QED
    BY <2>1 DEF Reads
<1>5. P[m + 1] <= Len(buf) => n = m /\ r.at = P[m + 1]
  BY <1>1 DEF Reads
<1>6. P[m + 1] <= Len(buf) => r.labels = name
  BY <1>1, <1>4, <1>5, SeqEqual
<1>7. P[m + 1] > Len(buf) => r.at \in Nat /\ r.at > Len(buf)
  BY DEF Reads
<1>8. Tap!IsRestOf(r.labels, name)
  <2> DEFINE s == r.labels
  <2>1. DOMAIN s = 1 .. Len(s) /\ Len(s) <= Len(name)
    BY <1>2, <1>3
  <2>2. \A i \in 1 .. Len(s) : Tap!IsPrefix(s[i], name[i]) /\ (i < Len(s) => s[i] = name[i])
    BY <1>4
  <2> HIDE DEF s
  <2>3. Tap!IsRestOf(s, name)
    BY <2>1, <2>2 DEF Tap!IsRestOf
  <2> QED
    BY <2>3 DEF s
<1> QED
  BY <1>1, <1>5, <1>6, <1>7, <1>8 DEF WalkedName

\* A query type is in a buffer after position e.
HoldsType(buf, e, q) == buf[e + 1] = Tap!TwoBytes(q)[1] /\ buf[e + 2] = Tap!TwoBytes(q)[2]

\* It is what is read there.
LEMMA QTypeRead ==
  ASSUME NEW buf \in Seq(Byte), NEW e \in Nat, e >= 1, NEW q, IsType(q),
         e + 2 <= Len(buf), HoldsType(buf, e, q)
  PROVE  Tap!QTypeAt(buf, e + 1) = q
<1> DEFINE N == Len(buf)
           s == SubSeq(buf, e + 1, e + 2)
           t == Tap!TwoBytes(q)
<1>1. N \in Nat /\ e + 1 + 1 <= N /\ (e + 1 + 2) - 1 = e + 2
  OBVIOUS
<1>2. Tap!Slice(buf, e + 1, e + 1 + 2) = s
  <2>1. (IF e + 2 < N THEN e + 2 ELSE N) = e + 2
    BY <1>1
  <2> QED
    BY <1>1, <2>1 DEF Tap!Slice
<1>3. t \in Seq(Byte) /\ Len(t) = 2 /\ Tap!BigEndian(t) = q
  BY TwoBytesBack
<1>4. s \in Seq(Byte) /\ Len(s) = 2 /\ s[1] = buf[e + 1] /\ s[2] = buf[e + 2]
  <2>1. \A x \in e + 1 .. e + 2 : x \in 1 .. N
    BY <1>1
  <2>2. /\ s \in Seq(Byte) /\ Len(s) = (e + 2) - (e + 1) + 1
        /\ \A j \in 1 .. (e + 2) - (e + 1) + 1 : s[j] = buf[e + 1 + j - 1]
    BY <2>1, SubSeqProperties
  <2>3. (e + 2) - (e + 1) + 1 = 2 /\ 1 \in 1 .. 2 /\ 2 \in 1 .. 2 /\ e + 1 + 1 - 1 = e + 1 /\ e + 1 + 2 - 1 = e + 2
    OBVIOUS
  <2> QED
    BY <2>2, <2>3
<1> HIDE DEF s, t
<1>5. s = t
  <2>1. \A j \in 1 .. 2 : j = 1 \/ j = 2
    OBVIOUS
  <2>2. \A j \in 1 .. Len(s) : s[j] = t[j]
    BY <1>4, <2>1 DEF t, HoldsType
  <2> QED
    BY <1>3, <1>4, <2>2, SeqEqual
<1> QED
  BY <1>1, <1>2, <1>3, <1>5 DEF Tap!QTypeAt

\* The bytes of a question for a name, as the parser meets them.
LEMMA QuestionFacts ==
  ASSUME NEW name, IsName(name), NEW q, IsType(q)
  PROVE  \E w, P : /\ w = Tap!OnWire(name) /\ Laid(w, name, P, Len(name)) /\ w \in Seq(Byte)
                   /\ IsQuestion(Tap!Question(name, q), w, Tap!TwoBytes(q))
<1>1. PICK P : Laid(Tap!OnWire(name), name, P, Len(name))
  BY WireLayout
<1>2. Tap!OnWire(name) \in Seq(Byte)
  BY <1>1 DEF Laid
<1> DEFINE w == Tap!OnWire(name)
           t == Tap!TwoBytes(q)
           u == Tap!TwoBytes(1)
<1>3. t \in Seq(Byte) /\ Len(t) = 2 /\ u \in Seq(Byte) /\ Len(u) = 2
  <2>1. IsType(1)
    BY DEF IsType
  <2> QED
    BY <2>1, TwoBytesBack
<1>4. Tap!Question(name, q) = w \o <<0>> \o t \o u
  BY DEF Tap!Question
<1> HIDE DEF w, t, u
<1>5. IsQuestion(w \o <<0>> \o t \o u, w, t)
  BY <1>2, <1>3, QuestionBytes DEF w
<1>6. IsQuestion(Tap!Question(name, q), w, t)
  BY <1>4, <1>5
<1> QED
  BY <1>1, <1>2, <1>6 DEF w, t

\* The first bytes of a sequence
LEMMA FirstBytes ==
  ASSUME NEW q \in Seq(Byte), NEW k \in Nat, k <= Len(q)
  PROVE  /\ SubSeq(q, 1, k) \in Seq(Byte) /\ Len(SubSeq(q, 1, k)) = k
         /\ \A x \in 1 .. k : SubSeq(q, 1, k)[x] = q[x]
<1> DEFINE s == SubSeq(q, 1, k)
<1>1. \A x \in 1 .. k : x \in 1 .. Len(q) /\ q[x] \in Byte
  OBVIOUS
<1>2. /\ s \in Seq(Byte) /\ Len(s) = IF 1 <= k THEN k - 1 + 1 ELSE 0
      /\ \A x \in 1 .. k - 1 + 1 : s[x] = q[1 + x - 1]
  BY <1>1, SubSeqProperties
<1>3. k - 1 + 1 = k /\ (~(1 <= k) => k = 0) /\ \A x \in 1 .. k : 1 + x - 1 = x
  OBVIOUS
<1> HIDE DEF s
<1>4. Len(s) = k /\ \A x \in 1 .. k : s[x] = q[x]
  BY <1>2, <1>3
<1> QED
  BY <1>2, <1>4 DEF s

\* The name is there as a whole.
Whole(buf, question, e) == Tap!IsPrefix(SubSeq(question, 1, e), buf)

\* What the parser makes of a question for a name
Decoded(buf, name, qtype) ==
  LET d == Tap!DecodeRawQuestion(buf)
  IN  /\ d.qname \in Seq(Seq(Byte)) \cup {None} /\ Tap!IsRestOf(d.qname, name)
      /\ d.qtype = qtype

\* What both parsers make of one that has the name as a whole
BothRead(buf, name) == Tap!DecodeRawQuestion(buf).qname = name /\ Tap!ParseQname(buf) = name

\* The two walks: to a pointer, and past what looks like one
ToPointer(buf) == Tap!Walk(buf, TRUE)
PastPointers(buf) == Tap!Walk(buf, FALSE)

\* A question cut off after some bytes: whether the name is whole
LEMMA WholeWhen ==
  ASSUME NEW question \in Seq(Byte), NEW k \in Nat, k <= Len(question),
         NEW e \in Nat, e <= Len(question)
  PROVE  Whole(SubSeq(question, 1, k), question, e) <=> e <= k
<1> DEFINE b == SubSeq(question, 1, k)
           t == SubSeq(question, 1, e)
<1>1. /\ b \in Seq(Byte) /\ Len(b) = k /\ \A x \in 1 .. k : b[x] = question[x]
      /\ t \in Seq(Byte) /\ Len(t) = e /\ \A x \in 1 .. e : t[x] = question[x]
  BY FirstBytes
<1> HIDE DEF b, t
<1>2. Tap!IsPrefix(t, b) => e <= k
  BY <1>1 DEF Tap!IsPrefix
<1>3. ASSUME e <= k PROVE Tap!IsPrefix(t, b)
  <2>1. \A x \in 1 .. Len(t) : t[x] = b[x]
    BY <1>1, <1>3
  <2>2. Len(t) <= Len(b)
    BY <1>1, <1>3
  <2> QED
    BY <1>1, <2>1, <2>2, PrefixWhen
<1>4. Whole(b, question, e) <=> Tap!IsPrefix(t, b)
  BY DEF Whole, t
<1> QED
  BY <1>2, <1>3, <1>4 DEF b

\* A walk of a buffer that carries a name reads it as far as it is there.
LEMMA NameWalked ==
  ASSUME NEW name, IsName(name), NEW buf, NEW P, Carries(buf, name, P), NEW pointers,
         Ends(buf, pointers, P[Len(name) + 1])
  PROVE  WalkedName(Tap!Walk(buf, pointers), name, Len(buf), P[Len(name) + 1])
<1>1. Reads(Tap!Walk(buf, pointers), buf, name, P, 1)
  BY ReadsTheName
<1> QED
  BY <1>1, NameRead

\* A buffer has a name whose bytes end before position e, where a zero byte is
\* and then the type, as far as it goes.
Holds(buf, name, e, q) ==
  /\ buf \in Seq(Byte) /\ e \in Nat /\ e >= 1
  /\ e <= Len(buf) => buf[e] = 0
  /\ e + 2 <= Len(buf) => HoldsType(buf, e, q)
  /\ WalkedName(ToPointer(buf), name, Len(buf), e)
  /\ WalkedName(PastPointers(buf), name, Len(buf), e)

\* What the parser makes of such a buffer
LEMMA DecodedWhen ==
  ASSUME NEW name, IsName(name), NEW q, IsType(q), NEW buf, NEW e,
         Holds(buf, name, e, q)
  PROVE  /\ e + 2 <= Len(buf) => Decoded(buf, name, q)
         /\ ~(e + 2 <= Len(buf)) => Decoded(buf, name, None)
         /\ e <= Len(buf) => BothRead(buf, name)
<1>1. /\ buf \in Seq(Byte) /\ Len(buf) \in Nat /\ e \in Nat /\ e >= 1
      /\ e <= Len(buf) => buf[e] = 0
      /\ e + 2 <= Len(buf) => HoldsType(buf, e, q)
  BY DEF Holds
<1>2. e <= Len(buf) => Tap!ParseQname(buf) = name
  <2> DEFINE v == PastPointers(buf)
  <2>0. WalkedName(PastPointers(buf), name, Len(buf), e)
    BY DEF Holds
  <2>1. e <= Len(buf) => v.labels = name /\ v.at = e
    BY <2>0 DEF WalkedName
  <2>2. Tap!ParseQname(buf) = IF v.at <= Len(buf) THEN v.labels ELSE None
    BY DEF Tap!ParseQname, PastPointers
  <2> HIDE DEF v
  <2> QED
    BY <2>1, <2>2
<1> DEFINE r0 == ToPointer(buf)
           d0 == Tap!DecodeRawQuestion(buf)
<1>3. WalkedName(r0, name, Len(buf), e)
  BY DEF Holds
<1>4. /\ d0.qname = IF r0.labels \in {<< >>, << << >> >>} THEN None ELSE r0.labels
      /\ d0.qtype = IF (r0.at <= Len(buf) /\ buf[r0.at] # 0) \/ d0.qname = None
                    THEN None ELSE Tap!QTypeAt(buf, r0.at + 1)
  BY DEF Tap!DecodeRawQuestion, ToPointer
<1> HIDE DEF r0, d0
<1>5. PICK r : r = r0
  OBVIOUS
<1>6. PICK d : d = d0
  OBVIOUS
<1>7. /\ r.labels \in Seq(Seq(Byte)) /\ Tap!IsRestOf(r.labels, name)
      /\ e <= Len(buf) => r.labels = name /\ r.at = e
      /\ e > Len(buf) => r.at \in Nat /\ r.at > Len(buf)
  BY <1>3, <1>5 DEF WalkedName
<1>8. /\ d.qname = IF r.labels \in {<< >>, << << >> >>} THEN None ELSE r.labels
      /\ d.qtype = IF (r.at <= Len(buf) /\ buf[r.at] # 0) \/ d.qname = None
                   THEN None ELSE Tap!QTypeAt(buf, r.at + 1)
  BY <1>4, <1>5, <1>6
<1>9. d.qname \in Seq(Seq(Byte)) \cup {None} /\ Tap!IsRestOf(d.qname, name)
  <2>1. Tap!IsRestOf(None, name)
    BY DEF Tap!IsRestOf
  <2> QED
    BY <1>7, <1>8, <2>1
<1>10. name \notin {<< >>, << << >> >>} /\ name # None
  BY NamesAreNames
<1>11. ASSUME e <= Len(buf) PROVE d.qname = name /\ d.qtype = Tap!QTypeAt(buf, e + 1)
  <2>1. r.labels = name /\ r.at = e /\ buf[e] = 0
    BY <1>1, <1>7, <1>11
  <2>2. d.qname = name
    BY <1>8, <1>10, <2>1
  <2> QED
    BY <1>8, <1>10, <2>1, <2>2
<1>12. ASSUME e + 2 <= Len(buf) PROVE Decoded(buf, name, q)
  <2>1. Tap!QTypeAt(buf, e + 1) = q
    BY <1>1, <1>12, QTypeRead
  <2>2. e <= Len(buf)
    BY <1>1, <1>12
  <2> QED
    BY <1>6, <1>9, <1>11, <2>1, <2>2 DEF Decoded, d0
<1>13. ASSUME ~(e + 2 <= Len(buf)) PROVE Decoded(buf, name, None)
  <2>1. d.qtype = None
    <3>1. CASE e <= Len(buf)
      <4>1. ~((e + 1) + 1 <= Len(buf))
        BY <1>1, <1>13
      <4>2. Tap!QTypeAt(buf, e + 1) = None
        BY <4>1 DEF Tap!QTypeAt
      <4> QED
        BY <1>11, <3>1, <4>2
    <3>2. CASE ~(e <= Len(buf))
      <4>1. r.at \in Nat /\ r.at > Len(buf)
        BY <1>1, <1>7, <3>2
      <4>2. ~((r.at + 1) + 1 <= Len(buf)) /\ ~(r.at <= Len(buf))
        BY <1>1, <4>1
      <4>3. Tap!QTypeAt(buf, r.at + 1) = None
        BY <4>2 DEF Tap!QTypeAt
      <4> QED
        BY <1>8, <4>2, <4>3
    <3> QED
      BY <3>1, <3>2
  <2> QED
    BY <1>6, <1>9, <2>1 DEF Decoded, d0
<1>14. ASSUME e <= Len(buf) PROVE BothRead(buf, name)
  BY <1>2, <1>6, <1>11, <1>14 DEF BothRead, d0
<1> QED
  BY <1>12, <1>13, <1>14

\* A zero byte ends both walks.
LEMMA EndsAtZero ==
  ASSUME NEW buf, NEW p, p <= Len(buf) => buf[p] = 0
  PROVE  \A pointers : Ends(buf, pointers, p)
BY DEF Ends

\* A buffer starts with the wire format w of a name, and goes on like a question.
GoesOn(buf, w, e, q) ==
  /\ Agrees(buf, w) /\ e = Len(w) + 1
  /\ e <= Len(buf) => buf[e] = 0
  /\ e + 2 <= Len(buf) => HoldsType(buf, e, q)

\* Such a buffer holds the name.
LEMMA BufferHolds ==
  ASSUME NEW name, IsName(name), NEW w, NEW P, Laid(w, name, P, Len(name)),
         NEW buf \in Seq(Byte), NEW e, NEW q, GoesOn(buf, w, e, q)
  PROVE  Holds(buf, name, e, q)
<1>0. /\ Agrees(buf, w) /\ e = Len(w) + 1
      /\ e <= Len(buf) => buf[e] = 0
      /\ e + 2 <= Len(buf) => HoldsType(buf, e, q)
  BY DEF GoesOn
<1>1. Carries(buf, name, P) /\ P[Len(name) + 1] = e
  BY <1>0, CarriesWhen
<1>2. e \in Nat /\ e >= 1
  BY <1>0 DEF Laid
<1>3. \A pointers : Ends(buf, pointers, P[Len(name) + 1])
  BY <1>0, <1>1, EndsAtZero
<1>4. \A pointers : WalkedName(Tap!Walk(buf, pointers), name, Len(buf), P[Len(name) + 1])
  BY <1>1, <1>3, NameWalked
<1>5. \A pointers : WalkedName(Tap!Walk(buf, pointers), name, Len(buf), e)
  BY <1>1, <1>4
<1>6. WalkedName(ToPointer(buf), name, Len(buf), e)
  BY <1>5 DEF ToPointer
<1>7. WalkedName(PastPointers(buf), name, Len(buf), e)
  BY <1>5 DEF PastPointers
<1> QED
  BY <1>0, <1>2, <1>6, <1>7 DEF Holds

\* Where the name of a question ends
NameEnd(name, q) == Len(Tap!Question(name, q)) - 4

\* A question cut off after its first k bytes
CutOff(name, q, k) == SubSeq(Tap!Question(name, q), 1, k)

\* A buffer of k bytes holds the name of a question as far as it goes, and has the
\* whole of it if it goes that far.
HoldsCut(buf, name, q, k) ==
  /\ Holds(buf, name, NameEnd(name, q), q) /\ Len(buf) = k
  /\ Whole(buf, Tap!Question(name, q), NameEnd(name, q)) <=> NameEnd(name, q) <= k

\* That is what a question that is cut off does.
LEMMA CutHolds ==
  ASSUME NEW name, IsName(name), NEW q, IsType(q),
         NEW k \in Nat, k <= Len(Tap!Question(name, q))
  PROVE  HoldsCut(CutOff(name, q, k), name, q, k)
<1> SUFFICES ASSUME NEW buf, buf = SubSeq(Tap!Question(name, q), 1, k)
             PROVE  HoldsCut(buf, name, q, k)
  BY DEF CutOff
<1>1. PICK w, P : /\ Laid(w, name, P, Len(name)) /\ w \in Seq(Byte)
                  /\ IsQuestion(Tap!Question(name, q), w, Tap!TwoBytes(q))
  BY QuestionFacts
<1>2. PICK Q : Q = Tap!Question(name, q)
  OBVIOUS
<1>3. PICK e : e = Len(w) + 1
  OBVIOUS
<1>4. /\ Q \in Seq(Byte) /\ Len(w) \in Nat /\ Len(Q) = Len(w) + 5
      /\ \A x \in 1 .. Len(w) : Q[x] = w[x]
      /\ Q[Len(w) + 1] = 0 /\ Q[Len(w) + 2] = Tap!TwoBytes(q)[1]
      /\ Q[Len(w) + 3] = Tap!TwoBytes(q)[2]
  BY <1>1, <1>2 DEF IsQuestion
<1>5. /\ e \in Nat /\ e >= 1 /\ e <= Len(Q) /\ e = Len(Q) - 4 /\ e + 1 = Len(w) + 2
      /\ e + 2 = Len(w) + 3 /\ e + 2 <= Len(Q)
  BY <1>3, <1>4
<1>6. e = NameEnd(name, q)
  BY <1>2, <1>5 DEF NameEnd
<1>7. buf \in Seq(Byte) /\ Len(buf) = k /\ \A x \in 1 .. k : buf[x] = Q[x]
  BY <1>2, <1>4, FirstBytes
<1>8. Agrees(buf, w)
  BY <1>4, <1>7 DEF Agrees
<1>9. e <= Len(buf) => buf[e] = 0
  BY <1>3, <1>4, <1>5, <1>7
<1>10. e + 2 <= Len(buf) => HoldsType(buf, e, q)
  <2> SUFFICES ASSUME e + 2 <= Len(buf) PROVE HoldsType(buf, e, q)
    OBVIOUS
  <2>1. e + 1 \in 1 .. k /\ e + 2 \in 1 .. k
    BY <1>5, <1>7
  <2> QED
    BY <1>4, <1>5, <1>7, <2>1 DEF HoldsType
<1>11. Holds(buf, name, e, q)
  <2>1. GoesOn(buf, w, e, q)
    BY <1>3, <1>8, <1>9, <1>10 DEF GoesOn
  <2>2. Laid(w, name, P, Len(name)) /\ buf \in Seq(Byte)
    BY <1>1, <1>7
  <2> QED
    BY <2>1, <2>2, BufferHolds, Zenon
<1>12. Whole(buf, Q, e) <=> e <= k
  <2>1. k <= Len(Q)
    BY <1>2
  <2> QED
    BY <1>2, <1>4, <1>5, <2>1, WholeWhen
<1> QED
  BY <1>2, <1>6, <1>7, <1>11, <1>12 DEF HoldsCut

\* A name that ends in a pointer
WithPointer(name) == Tap!OnWire(name) \o <<192, 12>>

\* A pointer ends the walk that knows them.
LEMMA EndsAtPointer ==
  ASSUME NEW buf, NEW p, buf[p] = 192
  PROVE  \A pointers : pointers => Ends(buf, pointers, p)
BY DEF Ends

\* A name that ends in a pointer is read up to it, and nothing after it.
LEMMA CompressedDecoded ==
  ASSUME NEW name, IsName(name), NEW q, IsType(q),
         NEW buf, buf = WithPointer(name)
  PROVE  Decoded(buf, name, None) /\ ~Whole(buf, Tap!Question(name, q), NameEnd(name, q))
<1>1. PICK w, P : /\ w = Tap!OnWire(name) /\ Laid(w, name, P, Len(name)) /\ w \in Seq(Byte)
                  /\ IsQuestion(Tap!Question(name, q), w, Tap!TwoBytes(q))
  BY QuestionFacts
<1>2. PICK Q : Q = Tap!Question(name, q)
  OBVIOUS
<1>3. PICK e : e = Len(w) + 1
  OBVIOUS
<1>4. /\ Q \in Seq(Byte) /\ Len(w) \in Nat /\ Len(Q) = Len(w) + 5 /\ Q[Len(w) + 1] = 0
  BY <1>1, <1>2 DEF IsQuestion
<1>5. e \in Nat /\ e >= 1 /\ e <= Len(Q) /\ e = Len(Q) - 4 /\ e = NameEnd(name, q) /\ Q[e] = 0
  <2>1. e \in Nat /\ e >= 1 /\ e <= Len(Q) /\ e = Len(Q) - 4 /\ Q[e] = 0
    BY <1>3, <1>4
  <2> QED
    BY <1>2, <2>1 DEF NameEnd
<1>6. buf \in Seq(Byte) /\ Len(buf) = Len(w) + 2 /\ Agrees(buf, w) /\ buf[e] = 192
  <2> DEFINE z == <<192, 12>>
  <2>1. z \in Seq(Byte) /\ Len(z) = 2 /\ z[1] = 192
    BY DEF Byte
  <2> HIDE DEF z
  <2>0. WithPointer(name) = w \o z
    BY <1>1 DEF WithPointer, z
  <2>2. AreJoined(buf, w, z)
    BY <1>1, <2>0, <2>1, Joined
  <2>3. /\ buf \in Seq(Byte) /\ Len(buf) = Len(w) + 2
        /\ \A x \in 1 .. Len(w) + 2 : buf[x] = IF x <= Len(w) THEN w[x] ELSE z[x - Len(w)]
    BY <2>1, <2>2 DEF AreJoined
  <2>4. \A x \in 1 .. Len(w) : x \in 1 .. Len(w) + 2 /\ x <= Len(w)
    BY <1>4
  <2>5. Agrees(buf, w)
    BY <2>3, <2>4 DEF Agrees
  <2>6. e \in 1 .. Len(w) + 2 /\ ~(e <= Len(w)) /\ e - Len(w) = 1
    BY <1>3, <1>4
  <2> QED
    BY <2>1, <2>3, <2>5, <2>6
<1>7. Carries(buf, name, P) /\ P[Len(name) + 1] = e
  BY <1>1, <1>3, <1>6, CarriesWhen
<1>8. PICK pointers : pointers /\ pointers = TRUE
  OBVIOUS
<1>9. Ends(buf, pointers, P[Len(name) + 1])
  <2>1. buf[e] = 192
    BY <1>6
  <2>2. Ends(buf, pointers, e)
    BY <1>8, <2>1, EndsAtPointer
  <2> QED
    BY <1>7, <2>2
<1>10. WalkedName(Tap!Walk(buf, pointers), name, Len(buf), e)
  <2>1. WalkedName(Tap!Walk(buf, pointers), name, Len(buf), P[Len(name) + 1])
    BY <1>7, <1>9, NameWalked
  <2> QED
    BY <1>7, <2>1
<1>11. PICK r : r = ToPointer(buf)
  OBVIOUS
<1>12. r = Tap!Walk(buf, pointers)
  BY <1>8, <1>11 DEF ToPointer
<1>13. r.labels = name /\ r.at = e /\ e <= Len(buf)
  <2>1. e <= Len(buf)
    BY <1>3, <1>4, <1>6
  <2> QED
    BY <1>10, <1>12, <2>1 DEF WalkedName
<1>14. /\ name \notin {<< >>, << << >> >>} /\ name # None /\ name \in Seq(Seq(Byte))
       /\ Tap!IsRestOf(name, name)
  <2>1. Tap!IsRestOf(r.labels, name)
    BY <1>10, <1>12 DEF WalkedName
  <2> QED
    BY <1>13, <2>1, NamesAreNames
<1>15. Decoded(buf, name, None)
  <2> DEFINE d == Tap!DecodeRawQuestion(buf)
  <2>1. /\ d.qname = IF r.labels \in {<< >>, << << >> >>} THEN None ELSE r.labels
        /\ d.qtype = IF (r.at <= Len(buf) /\ buf[r.at] # 0) \/ d.qname = None
                     THEN None ELSE Tap!QTypeAt(buf, r.at + 1)
    BY <1>11 DEF Tap!DecodeRawQuestion, ToPointer
  <2> HIDE DEF d
  <2>2. d.qname = name /\ d.qtype = None
    BY <1>6, <1>13, <1>14, <2>1
  <2> QED
    BY <1>14, <2>2 DEF Decoded, d
<1>16. ~Whole(buf, Q, e)
  <2> DEFINE t == SubSeq(Q, 1, e)
  <2>1. t \in Seq(Byte) /\ Len(t) = e /\ \A x \in 1 .. e : t[x] = Q[x]
    BY <1>4, <1>5, FirstBytes
  <2>2. e \in 1 .. e /\ e <= Len(buf)
    BY <1>5, <1>13
  <2>3. \A x \in 1 .. e : SubSeq(buf, 1, e)[x] = buf[x]
    BY <1>5, <1>6, <2>2, FirstBytes
  <2>4. SubSeq(t, 1, Len(t)) = t
    BY <2>1, SubSeqFull
  <2>5. t[e] = 0 /\ SubSeq(buf, 1, e)[e] = 192
    BY <1>5, <1>6, <2>1, <2>2, <2>3
  <2> HIDE DEF t
  <2>6. ~Tap!IsPrefix(t, buf)
    <3> SUFFICES ASSUME Tap!IsPrefix(t, buf) PROVE FALSE
      OBVIOUS
    <3>1. SubSeq(t, 1, Len(t)) = SubSeq(buf, 1, Len(t))
      BY DEF Tap!IsPrefix
    <3>2. t = SubSeq(buf, 1, e)
      BY <2>1, <2>4, <3>1
    <3>3. 0 # 192
      OBVIOUS
    <3> QED
      BY <2>5, <3>2, <3>3
  <2> QED
    BY <2>6 DEF Whole, t
<1> QED
  BY <1>2, <1>5, <1>15, <1>16

\* A type of the model fits in two bytes.
LEMMA QTypesAreTypes == \A q \in QTypes : IsType(q)
<1>1. QTypes \subseteq 0 .. 256 * 256 - 1
  BY LabelsAssumption, Zenon
<1>2. \A m \in Nat : \A q \in 0 .. m - 1 : q \in Nat /\ q < m
  OBVIOUS
<1>3. 256 * 256 \in Nat
  <2>1. \A a, b \in Nat : a * b \in Nat
    OBVIOUS
  <2>2. 256 \in Nat
    OBVIOUS
  <2> QED
    BY <2>1, <2>2, Zenon
<1>4. \A q \in 0 .. 256 * 256 - 1 : q \in Nat /\ q < 256 * 256
  BY <1>2, <1>3, Zenon
<1> QED
  BY <1>1, <1>4, Zenon DEF IsType

\* A name of the model goes on the wire.
LEMMA DnsNamesAreNames ==
  ASSUME NEW name \in Tap!DnsNames
  PROVE  IsName(name)
<1>1. PICK n \in 1 .. MaxLabels : name \in [1 .. n -> Labels]
  BY DEF Tap!DnsNames
<1>2. n \in Nat /\ n >= 1
  <2>1. MaxLabels \in Nat
    BY LabelsAssumption, Zenon
  <2> QED
    BY <1>1, <2>1
<1>3. \A l \in Labels : l \in Seq(Byte) /\ Len(l) \in Nat /\ Len(l) >= 1 /\ Len(l) <= 63
  <2>1. \A l \in Labels : l \in Seq(Byte) /\ 1 <= Len(l) /\ Len(l) <= 63
    BY LabelsAssumption DEF Byte
  <2> QED
    BY <2>1
<1>4. name \in Seq(Seq(Byte)) /\ Len(name) = n
  BY <1>1, <1>2, <1>3
<1>5. \A i \in 1 .. n : name[i] \in Labels
  BY <1>1
<1> QED
  BY <1>2, <1>3, <1>4, <1>5 DEF IsName

\* A packet on the wire asks for a name of the model, whole or cut.
Packets ==
  {[question |-> q, qr |-> qr, rcode |-> 0, dns53 |-> dns53, malformed |-> malformed] :
     q \in Tap!Questions, qr \in BOOLEAN, dns53 \in BOOLEAN, malformed \in BOOLEAN}

\* There is one of these packets, or none.
TapInv == packet \in Packets \cup {None}

\* It does so from the first step on.
LEMMA TapNext == TapInv /\ [Tap!Next]_(Tap!vars) => TapInv'
<1> SUFFICES ASSUME TapInv, [Tap!Next]_(Tap!vars) PROVE TapInv'
  OBVIOUS
<1>1. ASSUME NEW q \in Tap!Questions, NEW qr \in BOOLEAN, NEW dns53 \in BOOLEAN,
             NEW malformed \in BOOLEAN,
             Tap!Arrive([question |-> q, qr |-> qr, rcode |-> 0, dns53 |-> dns53,
                         malformed |-> malformed])
      PROVE  TapInv'
  BY <1>1 DEF Tap!Arrive, TapInv, Packets
<1>2. CASE Tap!Handle
  BY <1>2 DEF Tap!Handle, TapInv
<1>3. CASE UNCHANGED Tap!vars
  BY <1>3 DEF Tap!vars, TapInv
<1> QED
  BY <1>1, <1>2, <1>3 DEF Tap!Next

\* A question left as bytes has been cut, or ends its name in a pointer.
LEMMA RawQuestions ==
  ASSUME NEW x \in Tap!Questions, x.kind = "Raw"
  PROVE  \E name \in Tap!DnsNames :
           \/ \E q \in QTypes : \E k \in 0 .. Len(Tap!Question(name, q)) : x = Tap!Cut(name, q, k)
           \/ x = Tap!Compressed(name)
<1>1. CASE \E n \in Tap!DnsNames, t \in QTypes : x = [kind |-> "DNSQR", name |-> n, qtype |-> t]
  BY <1>1
<1>2. CASE x = [kind |-> "none"]
  BY <1>2
<1>3. CASE \E n \in Tap!DnsNames, t \in QTypes : \E k \in 0 .. Len(Tap!Question(n, t)) : x = Tap!Cut(n, t, k)
  BY <1>3
<1>4. CASE \E n \in Tap!DnsNames : x = Tap!Compressed(n)
  BY <1>4
<1> QED
  BY <1>1, <1>2, <1>3, <1>4 DEF Tap!Questions

\* What the property says of a question and of what is made of its bytes
Survives(x, ev) ==
  LET nameEnd == Len(Tap!Question(x.name, x.qtype)) - 4
      whole == Tap!IsPrefix(SubSeq(Tap!Question(x.name, x.qtype), 1, nameEnd), x.load)
  IN  /\ ev # None
      /\ Tap!IsRestOf(ev.qname, x.name)
      /\ whole => ev.qname = x.name /\ Tap!ParseQname(x.load) = x.name
      /\ ev.qtype = (IF whole /\ Len(x.load) >= nameEnd + 2 THEN x.qtype ELSE None)

\* An event that was made of a question's bytes
EventOf(ev, buf) ==
  LET d == Tap!DecodeRawQuestion(buf)
  IN  \E qr \in BOOLEAN : ev = [qname |-> d.qname, qtype |-> d.qtype, is_response |-> qr,
                                rcode |-> IF qr THEN 0 ELSE None]

\* An event says what is left of a name, and a type.
Says(ev, buf, name, qtype) ==
  /\ ev # None /\ Tap!IsRestOf(ev.qname, name) /\ ev.qtype = qtype
  /\ ev.qname = Tap!DecodeRawQuestion(buf).qname

\* It does so when they have been decoded.
LEMMA EventSays ==
  ASSUME NEW buf, NEW name, NEW qtype, qtype \in Nat \cup {None}, Decoded(buf, name, qtype),
         NEW ev, EventOf(ev, buf)
  PROVE  Says(ev, buf, name, qtype)
<1> DEFINE d == Tap!DecodeRawQuestion(buf)
<1>1. d.qname \in Seq(Seq(Byte)) \cup {None} /\ Tap!IsRestOf(d.qname, name) /\ d.qtype = qtype
  BY DEF Decoded
<1>2. PICK qr \in BOOLEAN : ev = [qname |-> d.qname, qtype |-> d.qtype, is_response |-> qr,
                                  rcode |-> IF qr THEN 0 ELSE None]
  BY DEF EventOf
<1> HIDE DEF d
<1>3. ev \in [qname : Seq(Seq(Byte)) \cup {None}, qtype : Nat \cup {None},
              is_response : BOOLEAN, rcode : {0, None}]
  BY <1>1, <1>2
<1>4. ev # None
  BY <1>3, NoneAssumption DEF Byte
<1>5. ev.qname = d.qname /\ ev.qtype = d.qtype
  BY <1>2
<1> QED
  BY <1>1, <1>4, <1>5 DEF d, Says

\* A question that has been cut survives.
LEMMA CutSurvives ==
  ASSUME NEW name \in Tap!DnsNames, NEW q \in QTypes, NEW k \in 0 .. Len(Tap!Question(name, q)),
         NEW ev, NEW x, x = Tap!Cut(name, q, k), EventOf(ev, x.load)
  PROVE  Survives(x, ev)
<1>1. IsName(name) /\ IsType(q)
  BY DnsNamesAreNames, QTypesAreTypes
<1>2. PICK Q : Q = Tap!Question(name, q)
  OBVIOUS
<1>3. PICK e : e = NameEnd(name, q)
  OBVIOUS
<1>4. PICK buf : buf = CutOff(name, q, k)
  OBVIOUS
<1>5. x.name = name /\ x.qtype = q /\ x.load = buf
  BY <1>4 DEF Tap!Cut, CutOff
<1>6. k \in Nat /\ k <= Len(Tap!Question(name, q))
  <2>1. PICK w : IsQuestion(Tap!Question(name, q), w, Tap!TwoBytes(q))
    BY <1>1, QuestionFacts
  <2>2. Tap!Question(name, q) \in Seq(Byte)
    BY <2>1 DEF IsQuestion
  <2>3. Len(Tap!Question(name, q)) \in Nat
    BY <2>2
  <2> QED
    BY <2>3
<1>7. Holds(buf, name, e, q) /\ Len(buf) = k /\ (Whole(buf, Q, e) <=> e <= k)
  <2>1. HoldsCut(CutOff(name, q, k), name, q, k)
    BY <1>1, <1>6, CutHolds
  <2> QED
    BY <1>2, <1>3, <1>4, <2>1 DEF HoldsCut
<1>8. /\ e + 2 <= Len(buf) => Decoded(buf, name, q)
      /\ ~(e + 2 <= Len(buf)) => Decoded(buf, name, None)
      /\ e <= Len(buf) => BothRead(buf, name)
  BY <1>1, <1>7, DecodedWhen
<1>9. e \in Nat /\ q \in Nat
  BY <1>1, <1>7 DEF Holds, IsType
<1>10. /\ ev # None /\ Tap!IsRestOf(ev.qname, name)
       /\ ev.qname = Tap!DecodeRawQuestion(buf).qname
       /\ ev.qtype = IF e + 2 <= Len(buf) THEN q ELSE None
  <2>1. EventOf(ev, buf)
    BY <1>5
  <2>2. CASE e + 2 <= Len(buf)
    <3>1. Decoded(buf, name, q) /\ q \in Nat \cup {None}
      BY <1>8, <1>9, <2>2
    <3>2. Says(ev, buf, name, q)
      BY <2>1, <3>1, EventSays
    <3> QED
      BY <2>2, <3>2 DEF Says
  <2>3. CASE ~(e + 2 <= Len(buf))
    <3>1. Decoded(buf, name, None) /\ None \in Nat \cup {None}
      BY <1>8, <2>3
    <3>2. Says(ev, buf, name, None)
      BY <2>1, <3>1, EventSays
    <3> QED
      BY <2>3, <3>2 DEF Says
  <2> QED
    BY <2>2, <2>3
<1>11. Whole(buf, Q, e) => ev.qname = name /\ Tap!ParseQname(buf) = name
  BY <1>7, <1>8, <1>10 DEF BothRead
<1>12. (Whole(buf, Q, e) /\ Len(buf) >= e + 2) <=> e + 2 <= Len(buf)
  BY <1>6, <1>7, <1>9
<1>13. ev.qtype = IF Whole(buf, Q, e) /\ Len(buf) >= e + 2 THEN q ELSE None
  BY <1>10, <1>12
<1> QED
  BY <1>2, <1>3, <1>5, <1>10, <1>11, <1>13 DEF Survives, Whole, NameEnd

\* A question whose name ends in a pointer survives.
LEMMA CompressedSurvives ==
  ASSUME NEW name \in Tap!DnsNames, NEW ev, NEW x, x = Tap!Compressed(name), EventOf(ev, x.load)
  PROVE  Survives(x, ev)
<1>1. IsName(name) /\ IsType(1)
  BY DnsNamesAreNames DEF IsType
<1>2. PICK Q : Q = Tap!Question(name, 1)
  OBVIOUS
<1>3. PICK e : e = NameEnd(name, 1)
  OBVIOUS
<1>4. PICK buf : buf = WithPointer(name)
  OBVIOUS
<1>5. x.name = name /\ x.qtype = 1 /\ x.load = buf
  BY <1>4 DEF Tap!Compressed, WithPointer
<1>6. Decoded(buf, name, None) /\ ~Whole(buf, Q, e)
  BY <1>1, <1>2, <1>3, <1>4, CompressedDecoded
<1>7. ev # None /\ Tap!IsRestOf(ev.qname, name) /\ ev.qtype = None
  <2>1. EventOf(ev, buf) /\ None \in Nat \cup {None}
    BY <1>5
  <2>2. Says(ev, buf, name, None)
    BY <1>6, <2>1, EventSays
  <2> QED
    BY <2>2 DEF Says
<1> QED
  BY <1>2, <1>3, <1>5, <1>6, <1>7 DEF Survives, Whole, NameEnd

\* A question that is handled survives.
LEMMA HandleSurvives ==
  ASSUME TapInv, Tap!Handle, packet.dns53, ~packet.malformed, packet.question.kind = "Raw"
  PROVE  Survives(packet.question, event')
<1>1. packet \in Packets /\ event' = Tap!ParseDns(packet)
  BY DEF Tap!Handle, TapInv, Tap!ParsePacket
<1>2. /\ packet.question \in Tap!Questions /\ packet.qr \in BOOLEAN /\ packet.rcode = 0
  BY <1>1 DEF Packets
<1>3. PICK x : x = packet.question
  OBVIOUS
<1>4. EventOf(event', x.load)
  <2>1. Tap!QuestionFields(x) = Tap!DecodeRawQuestion(x.load)
    BY <1>3 DEF Tap!QuestionFields
  <2> QED
    BY <1>1, <1>2, <1>3, <2>1 DEF EventOf, Tap!ParseDns
<1>5. PICK name \in Tap!DnsNames :
        \/ \E q \in QTypes : \E k \in 0 .. Len(Tap!Question(name, q)) : x = Tap!Cut(name, q, k)
        \/ x = Tap!Compressed(name)
  BY <1>2, <1>3, RawQuestions
<1>6. CASE \E q \in QTypes : \E k \in 0 .. Len(Tap!Question(name, q)) : x = Tap!Cut(name, q, k)
  BY <1>3, <1>4, <1>6, CutSurvives
<1>7. CASE x = Tap!Compressed(name)
  BY <1>3, <1>4, <1>7, CompressedSurvives
<1> QED
  BY <1>5, <1>6, <1>7

\* A question that scapy leaves as bytes is neither lost nor made up, whatever
\* its labels are and wherever it is cut off (_decode_raw_question,
\* parse_qname).
THEOREM RawQuestionsSurvive == Tap!Spec => RawQuestionSurvives
<1>1. Tap!Init => TapInv
  BY DEF Tap!Init, TapInv
<1> DEFINE A == packet # None /\ packet' = None /\ packet.dns53 /\ ~packet.malformed
                  /\ packet.question.kind = "Raw" => Survives(packet.question, event')
<1>2. TapInv /\ [Tap!Next]_(Tap!vars) => [A]_(Tap!vars)
  <2> SUFFICES ASSUME TapInv, [Tap!Next]_(Tap!vars), ~(UNCHANGED Tap!vars),
                      packet # None, packet' = None, packet.dns53, ~packet.malformed,
                      packet.question.kind = "Raw"
               PROVE  Survives(packet.question, event')
    OBVIOUS
  <2>1. Tap!Handle
    BY DEF Tap!Next, Tap!Arrive
  <2> QED
    BY <2>1, HandleSurvives
<1>3. [][A]_(Tap!vars) => RawQuestionSurvives
  BY PTL DEF RawQuestionSurvives, Tap!RawQuestionSurvives, Survives
<1> QED
  BY <1>1, <1>2, <1>3, TapNext, PTL DEF Tap!Spec
=============================================================================
