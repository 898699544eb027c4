------------------------------ MODULE Training ------------------------------
(***************************************************************************)
(* The life of the data and of the models around the live system: the      *)
(* qname cache (eval/datasets/qname_cache.py), the baseline CSV the        *)
(* defender records, the scripts that train (eval/train.py, eval/          *)
(* charae.py), the model files and the evaluation (eval/run_eval.py).      *)
(*                                                                         *)
(* A corpus is the list of benign names a cache leads to, in the order the *)
(* seeded shuffle gives it in all three scripts; a name is its position.   *)
(* The weights and thresholds of a model are left out: a model is the      *)
(* names they were set from.                                               *)
(***************************************************************************)
EXTENDS Integers, FiniteSets, Sequences

CONSTANTS
  Corpora,  \* the corpora a cache can hold: [id, size]
  MinRows,  \* the fewest baseline rows load_frame() accepts
  MaxRows,  \* bound
  NoFile,
  Torn      \* a file opened for writing, and not written to the end

VARIABLES
  cache,     \* the qname cache
  baseline,  \* rows of the baseline CSV, by the traffic they describe
  files,     \* the models directory
  script,    \* the training script that runs, if any
  defender,  \* what the defender does with a window
  report     \* what the headline of the last evaluation report was made from

trainingVars == <<cache, baseline, files, script, defender, report>>

Backends == {"charae", "isolation_forest"}
Idle == [by |-> "none", todo |-> << >>, model |-> NoFile]
NoSection == [corpus |-> NoFile]

TrainingInit ==
  /\ cache = NoFile
  /\ baseline = [benign |-> 0, attack |-> 0]
  /\ files = [b \in Backends |-> NoFile]
  /\ script = Idle
  /\ defender = "down"
  /\ report = NoSection

\* build_cache(): the captures on disk may have changed since the last one.
BuildCache(corpus) ==
  /\ cache' = corpus
  /\ UNCHANGED <<baseline, files, script, defender, report>>

-----------------------------------------------------------------------------
(* The defender. *)

IsModel(f) == f \notin {NoFile, Torn}

\* _load_detectors() skips a file that is missing or does not load, and without
\* a detector the defender records; "local", of .env.example, has no file.
StartDefender(mode, backend) ==
  /\ defender = "down"
  /\ defender' = IF mode = "detect" /\ backend \in Backends /\ IsModel(files[backend])
                 THEN "detect" ELSE "record"
  /\ UNCHANGED <<cache, baseline, files, script, report>>

StopDefender ==
  /\ defender # "down"
  /\ defender' = "down"
  /\ UNCHANGED <<cache, baseline, files, script, report>>

\* RecordSink.handle() of a window of one kind of traffic
RecordWindow(kind) ==
  /\ defender = "record"
  /\ baseline[kind] < MaxRows
  /\ baseline' = [baseline EXCEPT ![kind] = @ + 1]
  /\ UNCHANGED <<cache, files, script, defender, report>>

-----------------------------------------------------------------------------
(* The training scripts. *)

\* int(percent / 100 * n)
Share(percent, n) == (percent * n) \div 100

TrainNames(c) == Share(70, c.size)
ValNames(c) == Share(15, c.size)

\* benign[n_tr + n_val:]
HeldOut(c) == (TrainNames(c) + ValNames(c) + 1) .. c.size

StartScript(by) ==
  /\ script = Idle
  /\ script' = [by |-> by, model |-> NoFile,
                todo |-> IF by = "eval.train" THEN <<"isolation_forest", "charae">>
                         ELSE <<"charae">>]
  /\ UNCHANGED <<cache, baseline, files, defender, report>>

\* load_frame(): too small a baseline is replaced by synthetic benign windows.
AttackRows ==
  IF baseline.benign + baseline.attack < MinRows THEN 0 ELSE baseline.attack

\* train_chars(): names move the weights, and the loss on val decides when to
\* stop and which weights to keep.
TrainChars(names, val) == [trained |-> names, tuned |-> val]

\* A detector: its thresholds are set from the scores of the names cal.
Detector(by, c, model, cal) == [by |-> by, corpus |-> c, model |-> model, calibrated |-> cal]

\* eval.train: CharAEDetector.fit(), whose thresholds are those of val
Cut(c) == LET n == Share(85, c.size) IN IF n > 1 THEN n ELSE 1
FitByTrain(c) ==
  LET val == IF Cut(c) < c.size THEN (Cut(c) + 1) .. c.size ELSE {1}
  IN  Detector("eval.train", c, TrainChars(1 .. Cut(c), val), val)

FitOnAll(c) ==
  Detector("eval.charae", c,
           TrainChars(1 .. TrainNames(c), (TrainNames(c) + 1) .. c.size), HeldOut(c))

\* eval.charae, whose thresholds are those of the names it holds out
FitByCharae(c) ==
  Detector("eval.charae", c,
           TrainChars(1 .. TrainNames(c), (TrainNames(c) + 1) .. (TrainNames(c) + ValNames(c))),
           HeldOut(c))

\* fit() of the next backend of the script.  Without a cache there is no
\* character autoencoder, and it comes last.
Fit ==
  /\ script.todo # << >>
  /\ script.model = NoFile
  /\ script' =
       IF Head(script.todo) = "isolation_forest"
       THEN [script EXCEPT !.model = [by |-> script.by, attackRows |-> AttackRows]]
       ELSE IF cache = NoFile THEN Idle
       ELSE [script EXCEPT !.model =
               IF script.by = "eval.train" THEN FitByTrain(cache) ELSE FitByCharae(cache)]
  /\ UNCHANGED <<cache, baseline, files, defender, report>>

\* save() writes the file in place.
OpenFile ==
  /\ script.model # NoFile
  /\ files[Head(script.todo)] # Torn
  /\ files' = [files EXCEPT ![Head(script.todo)] = Torn]
  /\ UNCHANGED <<cache, baseline, script, defender, report>>

CloseFile ==
  /\ script.model # NoFile
  /\ files[Head(script.todo)] = Torn
  /\ files' = [files EXCEPT ![Head(script.todo)] = script.model]
  /\ script' = IF Len(script.todo) = 1 THEN Idle
               ELSE [script EXCEPT !.todo = Tail(@), !.model = NoFile]
  /\ UNCHANGED <<cache, baseline, defender, report>>

KillScript ==
  /\ script # Idle
  /\ script' = Idle
  /\ UNCHANGED <<cache, baseline, files, defender, report>>

-----------------------------------------------------------------------------

(* The evaluation (eval/run_eval.py). *)

\* _charae_headline(): the split is made from the cache of now, the model is the
\* one on disk; the section is left out without either.
Section ==
  IF cache = NoFile \/ files["charae"] = NoFile THEN NoSection
  ELSE [corpus |-> cache, detector |-> files["charae"], heldOut |-> HeldOut(cache)]

\* main(): a torn model raises, and no report is written.
Report ==
  /\ cache # NoFile => files["charae"] # Torn
  /\ report' = Section
  /\ UNCHANGED <<cache, baseline, files, script, defender>>

TrainingNext ==
  \/ \E c \in Corpora : BuildCache(c)
  \/ \E mode \in {"record", "detect"}, b \in Backends \cup {"local"} : StartDefender(mode, b)
  \/ StopDefender
  \/ \E kind \in {"benign", "attack"} : RecordWindow(kind)
  \/ \E by \in {"eval.train", "eval.charae"} : StartScript(by)
  \/ Fit \/ OpenFile \/ CloseFile \/ KillScript \/ Report

TrainingSpec == TrainingInit /\ [][TrainingNext]_trainingVars

-----------------------------------------------------------------------------
(* Properties. *)

\* Types: only the models of a backend stand in its file.
TrainingTypeOK ==
  /\ cache \in Corpora \cup {NoFile}
  /\ baseline \in [{"benign", "attack"} -> 0 .. MaxRows]
  /\ DOMAIN files = Backends
  /\ defender \in {"down", "record", "detect"}
  /\ IsModel(files["charae"]) =>
       files["charae"] \in {FitByTrain(c) : c \in Corpora} \cup {FitByCharae(c) : c \in Corpora}

\* The report "reproduces eval.charae's held-out split" (run_eval.py), whatever
\* scripts were run, killed and repeated before it, as far as its cache is the one
\* its model was fit on.  With a model of eval.charae, the names it scores neither
\* moved the weights nor stopped the training; but they are the very names the
\* thresholds of that model were set from.  A model of eval.train, which cuts the
\* same order at int(0.85 n) and not at int(0.7 n) + int(0.15 n), was trained on
\* one of them at most, and stopped and calibrated on all the others.
ReportReproducesSplit ==
  report # NoSection /\ report.detector.corpus = report.corpus =>
    LET d == report.detector
        m == d.model
    IN  IF d.by = "eval.charae"
        THEN /\ report.heldOut \cap (m.trained \cup m.tuned) = {}
             /\ report.heldOut = d.calibrated
        ELSE /\ Cardinality(report.heldOut \cap m.trained) <= 1
             /\ report.heldOut \ m.trained \subseteq m.tuned \cap d.calibrated

\* "Trained on benign only" (isolation_forest.py): violated, because a defender
\* that finds no model records whatever traffic there is into the baseline.
TrainedOnBenignOnly ==
  IsModel(files["isolation_forest"]) => files["isolation_forest"].attackRows = 0
=============================================================================
