---------------------------- MODULE CharTraining ----------------------------
(***************************************************************************)
(* The loop that trains the character autoencoder (train_chars() of        *)
(* containers/defender/detect/char_ae.py) and the cutoffs computed from    *)
(* the scores the trained model gives benign names.                        *)
(*                                                                         *)
(* An epoch turns the weights into others: the weights are the number of   *)
(* the epoch they come from.  A loss or a score is in units of 1e-4, the   *)
(* least improvement that counts, and a loss may also be NaN, which no     *)
(* comparison holds of.                                                    *)
(***************************************************************************)
EXTENDS Integers, Sequences, FiniteSets

CONSTANTS
  Epochs,    \* epochs
  Patience,  \* patience
  Losses,    \* the losses an epoch may end with
  Scores,    \* the scores of benign names
  MaxNames,  \* bound: benign names, or windows, a cutoff is computed from
  Percents,  \* the false-positive rates asked for, in percent
  NaN

\* A cross-entropy is not negative; a rate is a share.
ASSUME LossesAssumption == Losses \subseteq Nat /\ NaN \notin Losses
ASSUME CutoffAssumption ==
  Scores \subseteq Nat /\ MaxNames \in Nat /\ Percents \subseteq 0 .. 100

VARIABLES
  weights,     \* the model's
  best,        \* NoBest (infinity) or the loss of best_state
  best_state,  \* NoState (None), or weights
  waited,
  losses,      \* history: the loss on val after each epoch
  phase,       \* "train", "fitted", "calibrated"
  benign_scores,  \* what a cutoff was computed from, sorted
  fpr, cutoff     \* the rate asked for, and the cutoff in hundredths

charVars == <<weights, best, best_state, waited, losses, phase, benign_scores, fpr, cutoff>>

NoBest == -1
NoState == -1

CharInit ==
  /\ weights = 0 /\ best = NoBest /\ best_state = NoState /\ waited = 0
  /\ losses = << >> /\ phase = "train"
  /\ benign_scores = << >> /\ fpr = 0 /\ cutoff = 0

\* vl < best - 1e-4
Improves(vl) == vl # NaN /\ (best = NoBest \/ vl < best - 1)

\* One epoch, and the loss it ends with.
Epoch(vl) ==
  /\ phase = "train" /\ Len(losses) < Epochs /\ waited < Patience
  /\ weights' = weights + 1
  /\ losses' = Append(losses, vl)
  /\ IF Improves(vl)
     THEN best' = vl /\ best_state' = weights' /\ waited' = 0
     ELSE waited' = waited + 1 /\ UNCHANGED <<best, best_state>>
  /\ UNCHANGED <<phase, benign_scores, fpr, cutoff>>

RestoreLast ==
  /\ phase = "train" /\ (Len(losses) = Epochs \/ waited >= Patience)
  /\ phase' = "fitted"
  /\ UNCHANGED <<weights, best, best_state, waited, losses, benign_scores, fpr, cutoff>>

\* The epochs are over, or patience is: load_state_dict(best_state), if any.
Restore ==
  /\ phase = "train" /\ (Len(losses) = Epochs \/ waited >= Patience)
  /\ weights' = IF best_state = NoState THEN weights ELSE best_state
  /\ phase' = "fitted"
  /\ UNCHANGED <<best, best_state, waited, losses, benign_scores, fpr, cutoff>>

-----------------------------------------------------------------------------

\* int((1 - fpr) * n)
Admitted(percent, n) == ((100 - percent) * n) \div 100

FprThresholdOfShare(b, percent) ==
  LET i == (percent * Len(b)) \div 100 IN IF i = 0 THEN b[Len(b)] ELSE b[i]

\* fpr_threshold(): b[int((1 - fpr) * len(b)) - 1]; index -1 is the last one.
FprThreshold(b, percent) ==
  LET i == Admitted(percent, Len(b)) IN IF i = 0 THEN b[Len(b)] ELSE b[i]

\* window_threshold() of the sorted maxima of the windows it draws, in
\* hundredths: np.quantile() interpolates between the two maxima nearest to the
\* share it is asked for.
WindowThreshold(m, percent) ==
  LET at == (100 - percent) * (Len(m) - 1)
      i == at \div 100 + 1
  IN  100 * m[i] + (at % 100) * (IF i < Len(m) THEN m[i + 1] - m[i] ELSE 0)

\* The two cutoffs fit() computes: of the names' scores, and of the maxima of
\* windows of such names, which are scores as well.
Calibrate(b, percent) ==
  /\ phase = "fitted"
  /\ benign_scores' = b /\ fpr' = percent
  /\ cutoff' \in {100 * FprThreshold(b, percent), WindowThreshold(b, percent)}
  /\ phase' = "calibrated"
  /\ UNCHANGED <<weights, best, best_state, waited, losses>>

\* np.sort(benign_scores), or the maxima in order
SortedScores ==
  {b \in UNION {[1 .. n -> Scores] : n \in 1 .. MaxNames} :
     \A i, j \in DOMAIN b : i < j => b[i] <= b[j]}

CharNext ==
  \/ \E vl \in Losses \cup {NaN} : Epoch(vl)
  \/ Restore
  \/ \E b \in SortedScores, percent \in Percents : Calibrate(b, percent)

CharSpec == CharInit /\ [][CharNext]_charVars

-----------------------------------------------------------------------------
(* Properties. *)

\* The weights that are kept are those of the best epoch there was, but for an
\* improvement too small to count: neither a slow drift of such improvements,
\* nor NaN, nor an early stop makes the model lose more than one of them.
KeepsTheBestEpoch ==
  phase # "train" =>
    \A e \in DOMAIN losses : losses[e] # NaN =>
      /\ weights \in DOMAIN losses /\ losses[weights] # NaN
      /\ losses[weights] <= losses[e] + 1

\* A cutoff lets through the share of the benign names, or windows, it was asked
\* for, and not more than the one by which a share that is no whole number is
\* rounded up.
CutoffAdmitsItsShare ==
  phase = "calibrated" =>
    LET above == {i \in DOMAIN benign_scores : 100 * benign_scores[i] > cutoff}
    IN  100 * (Cardinality(above) - 1) < fpr * Len(benign_scores)
=============================================================================
