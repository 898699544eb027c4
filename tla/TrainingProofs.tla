--------------------------- MODULE TrainingProofs ---------------------------
(***************************************************************************)
(* The report reproduces the split of eval.charae for every corpus,        *)
(* whatever its size: the cuts of the two training scripts, both rounded   *)
(* down, meet those of the report.                                         *)
(***************************************************************************)
EXTENDS Training, FiniteSetTheorems, TLAPS

\* A corpus has a name at least, reverse names being added to the captured ones.
Sizes == \A c \in Corpora : c.size \in Nat \ {0}

\* What the report says of a detector d and the names it holds out of c
Reproduces(d, c) ==
  d.corpus = c =>
    IF d.by = "eval.charae"
    THEN /\ HeldOut(c) \cap (d.model.trained \cup d.model.tuned) = {}
         /\ HeldOut(c) = d.calibrated
    ELSE /\ Cardinality(HeldOut(c) \cap d.model.trained) <= 1
         /\ HeldOut(c) \ d.model.trained \subseteq d.model.tuned \cap d.calibrated

\* int(p / 100 * n) of the whole and of the parts
LEMMA Cuts ==
  ASSUME NEW c, c.size \in Nat \ {0}
  PROVE  /\ TrainNames(c) \in Nat /\ ValNames(c) \in Nat
         /\ TrainNames(c) + ValNames(c) <= c.size
         /\ Cut(c) \in Nat /\ Cut(c) <= TrainNames(c) + ValNames(c) + 1
BY DEF TrainNames, ValNames, Cut, Share

\* A model of eval.charae is trained on none of the names it holds out, and
\* calibrated on all of them.
LEMMA CharaeReproduces ==
  ASSUME NEW c, c.size \in Nat \ {0}
  PROVE  Reproduces(FitByCharae(c), c)
<1> DEFINE d == FitByCharae(c)
<1>1. /\ d.by = "eval.charae" /\ d.calibrated = HeldOut(c)
      /\ d.model.trained = 1 .. TrainNames(c)
      /\ d.model.tuned = (TrainNames(c) + 1) .. (TrainNames(c) + ValNames(c))
  BY DEF FitByCharae, Detector, TrainChars
<1>2. HeldOut(c) \cap (d.model.trained \cup d.model.tuned) = {}
  BY <1>1, Cuts DEF HeldOut
<1> HIDE DEF d
<1> QED
  BY <1>1, <1>2 DEF Reproduces, d

\* A model of eval.train is trained on at most one of them: the first name past
\* the parts of eval.charae.
LEMMA TrainReproduces ==
  ASSUME NEW c, c.size \in Nat \ {0}
  PROVE  Reproduces(FitByTrain(c), c)
<1> DEFINE d == FitByTrain(c)
           first == TrainNames(c) + ValNames(c) + 1
           common == HeldOut(c) \cap d.model.trained
<1>1. /\ d.by = "eval.train" /\ d.model.trained = 1 .. Cut(c)
      /\ d.model.tuned = d.calibrated
      /\ Cut(c) < c.size => d.calibrated = (Cut(c) + 1) .. c.size
  BY DEF FitByTrain, Detector, TrainChars
<1> HIDE DEF d
<1>2. common \subseteq {first}
  BY <1>1, Cuts DEF HeldOut
<1>3. common = {} \/ common = {first}
  BY <1>2
<1>4. HeldOut(c) \ d.model.trained \subseteq d.model.tuned \cap d.calibrated
  <2> SUFFICES ASSUME NEW x \in HeldOut(c), x \notin 1 .. Cut(c)
               PROVE  x \in d.calibrated
    BY <1>1
  <2>1. x \in Nat /\ x > 0 /\ x <= c.size /\ x > Cut(c)
    BY Cuts DEF HeldOut
  <2> QED
    BY <1>1, <2>1, Cuts
<1> HIDE DEF common, first
<1>5. Cardinality(common) <= 1
  BY <1>3, FS_EmptySet, FS_Singleton
<1> QED
  BY <1>1, <1>4, <1>5 DEF Reproduces, common, d

\* The models a script can have fit
Fits(m) == \E c \in Corpora : m \in {FitByTrain(c), FitByCharae(c)}

\* A character model, being fit or on disk, is a whole one of some corpus; what
\* the report says of it was so when it was made, and stays.
IInv ==
  /\ cache \in Corpora \cup {NoFile}
  /\ "charae" \in DOMAIN files /\ DOMAIN script = {"by", "todo", "model"}
  /\ script.model # NoFile => script.todo # << >>
  /\ script.todo # << >> /\ Head(script.todo) = "charae" /\ script.model # NoFile
       => Fits(script.model)
  /\ IsModel(files["charae"]) => Fits(files["charae"])
  /\ ReportReproducesSplit

\* A fit model is as the report says for any corpus: for its own by its cuts, and
\* for another one because the report says nothing of it.
LEMMA FitsReproduce ==
  ASSUME Sizes, NEW m, Fits(m), NEW c \in Corpora
  PROVE  Reproduces(m, c)
<1>1. PICK d \in Corpora : m \in {FitByTrain(d), FitByCharae(d)}
  BY DEF Fits
<1>2. m.corpus = d
  BY <1>1 DEF FitByTrain, FitByCharae, Detector
<1>3. CASE c = d
  BY <1>1, <1>3, CharaeReproduces, TrainReproduces DEF Sizes
<1>4. CASE c # d
  BY <1>2, <1>4 DEF Reproduces
<1> QED
  BY <1>3, <1>4

\* There are no models at first.
LEMMA InitInv == TrainingInit => IInv
BY DEF TrainingInit, IInv, Idle, IsModel, ReportReproducesSplit, Backends, NoSection

\* Only Report changes what the held-out property speaks of.
LEMMA NextInv ==
  ASSUME Sizes, IInv, [TrainingNext]_trainingVars
  PROVE  IInv'
<1> USE DEF IInv
<1>1. ASSUME NEW c \in Corpora, BuildCache(c) PROVE IInv'
  BY <1>1 DEF BuildCache, ReportReproducesSplit, IsModel, Fits
<1>2. ASSUME NEW m, NEW b, StartDefender(m, b) PROVE IInv'
  BY <1>2 DEF StartDefender, ReportReproducesSplit, IsModel, Fits
<1>3. CASE StopDefender
  BY <1>3 DEF StopDefender, ReportReproducesSplit, IsModel, Fits
<1>4. ASSUME NEW kind, RecordWindow(kind) PROVE IInv'
  BY <1>4 DEF RecordWindow, ReportReproducesSplit, IsModel, Fits
<1>5. ASSUME NEW by, StartScript(by) PROVE IInv'
  BY <1>5 DEF StartScript, ReportReproducesSplit, IsModel, Fits
<1>6. CASE Fit
  <2>1. ASSUME script'.todo # << >>, Head(script'.todo) = "charae", script'.model # NoFile
        PROVE  Fits(script'.model)
    <3>1. cache \in Corpora
      BY <1>6, <2>1 DEF Fit, Idle
    <3>2. script'.model \in {FitByTrain(cache), FitByCharae(cache)}
      BY <1>6, <2>1 DEF Fit, Idle
    <3> QED
      BY <3>1, <3>2 DEF Fits
  <2>2. /\ DOMAIN script' = {"by", "todo", "model"}
        /\ script'.model # NoFile => script'.todo # << >>
    BY <1>6 DEF Fit, Idle
  <2> QED
    BY <1>6, <2>1, <2>2 DEF Fit, ReportReproducesSplit, IsModel, Fits
<1>7. CASE OpenFile
  <2>1. IsModel(files'["charae"]) => files'["charae"] = files["charae"]
    BY <1>7 DEF OpenFile, IsModel
  <2> QED
    BY <1>7, <2>1 DEF OpenFile, ReportReproducesSplit, IsModel, Fits
<1>8. CASE CloseFile
  <2>1. IsModel(files'["charae"]) => Fits(files'["charae"])
    BY <1>8 DEF CloseFile
  <2>2. script'.model = NoFile
    BY <1>8 DEF CloseFile, Idle
  <2>3. "charae" \in DOMAIN files' /\ DOMAIN script' = {"by", "todo", "model"}
    BY <1>8 DEF CloseFile, Idle
  <2> QED
    BY <1>8, <2>1, <2>2, <2>3 DEF CloseFile, ReportReproducesSplit, IsModel, Fits
<1>9. CASE KillScript
  BY <1>9 DEF KillScript, Idle, ReportReproducesSplit, IsModel, Fits
<1>10. CASE Report
  <2> DEFINE r == report'
  <2>1. ASSUME r # NoSection, r.detector.corpus = r.corpus
        PROVE  Reproduces(r.detector, r.corpus) /\ r.heldOut = HeldOut(r.corpus)
    <3>1. /\ cache \in Corpora /\ r.corpus = cache
          /\ r.detector = files["charae"] /\ r.heldOut = HeldOut(cache)
      BY <1>10, <2>1 DEF Report, Section
    <3>2. Fits(r.detector)
      BY <1>10, <2>1, <3>1 DEF Report, Section, IsModel, NoSection
    <3> QED
      BY <3>1, <3>2, FitsReproduce
  <2>2. ReportReproducesSplit'
    BY <2>1 DEF ReportReproducesSplit, Reproduces
  <2> QED
    BY <1>10, <2>2 DEF Report, IsModel, Fits
<1>11. CASE UNCHANGED trainingVars
  BY <1>11 DEF trainingVars, ReportReproducesSplit, IsModel, Fits
<1> QED
  BY <1>1, <1>2, <1>3, <1>4, <1>5, <1>6, <1>7, <1>8, <1>9, <1>10, <1>11 DEF TrainingNext

\* However the scripts are run, killed and repeated, and for corpora of any size,
\* the names a report scores are those eval.charae held out of the weights of its
\* model, and set its thresholds from (charae.py, run_eval.py).
THEOREM SplitIsReproduced ==
  ASSUME Sizes
  PROVE  TrainingSpec => []ReportReproducesSplit
<1>1. IInv /\ [TrainingNext]_trainingVars => IInv'
  BY NextInv
<1>2. IInv => ReportReproducesSplit
  BY DEF IInv
<1> QED
  BY InitInv, <1>1, <1>2, PTL DEF TrainingSpec
=============================================================================
