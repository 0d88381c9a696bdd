------------------------------- MODULE Inference -------------------------------
(* From feature blocks to a decision: the feature builder                   *)
(* (XGBoostFeatureBuilder), the engines of models A and B, the rollback     *)
(* policies and the ensemble (core/ai_engine/xgboost).                      *)
(*                                                                          *)
(* Probabilities are integers, One standing for 1.0, and answers have three *)
(* decimals, so that four fifths of one are exact.  What a fitted           *)
(* classifier or meta-learner answers is any value of the sets given as     *)
(* constants.                                                               *)
EXTENDS Integers, Sequences, FiniteSets, SequencesExt, FiniteSetsExt

CONSTANTS
    RawA,       \* answers of a fitted model A or of the ensemble: [b, s, l]
    Evidence,   \* bear evidence in tenths
    Markets,    \* [momentum, volatility]: -1, 0, 1 and 0, 1 past their limits
    RawB,       \* hold probabilities, per cent
    Samples,    \* training samples of B: sequences of [p, y]
    Blocks,     \* the feature blocks, in order
    Dim,        \* Dim[k]: length of block k
    Given       \* what the builders of the blocks find: sequences of features
                \* and of Bad, a field that raises

One == 10000
Bad == -1

ASSUME InferenceAssumption ==
    /\ RawA \subseteq [b : Nat, s : Nat, l : Nat]
    /\ \A raw \in RawA : raw.b + raw.s + raw.l = One /\ raw.b % 10 = 0 /\ raw.s % 10 = 0
    /\ Evidence \subseteq 0..10
    /\ Markets \subseteq [momentum : Int, volatility : Int]
    /\ RawB \subseteq 0..100
    /\ Samples \subseteq Seq([p : Int, y : {0, 1}])
    /\ Blocks \in Seq(DOMAIN Dim) /\ Dim \in [DOMAIN Dim -> Nat]
    /\ Given \subseteq Seq(Int)

VARIABLES
    trained,    \* the models that are fitted: "A", "B", "ensemble"
    theta,      \* _optimal_threshold of B, per cent
    fitOn,      \* history: the sample B was fitted on
    out         \* the last result, and what it was computed from

inferenceVars == <<trained, theta, fitOn, out>>

None == <<>>
NoResult == [entry |-> "none"]
Regimes == 0..3            \* NORMAL, TRENDING_LV, TRENDING_HV, CHOPPY_HV
Labels == {"BSL", "SSL", "LATERAL"}
Policies == {"standard", "aggressive", "conservative"}

-----------------------------------------------------------------------------
(* Features.  A block builder fills its features in order and stops at the  *)
(* first that raises; the rest stay zero.  Every block is padded or cut to  *)
(* its length and the blocks are joined.                                    *)
Filled(found) ==
    [i \in DOMAIN found |->
        IF \E j \in 1..i : found[j] = Bad THEN 0 ELSE found[i]]

Cut(block, d) ==                        \* mutant: short blocks are not padded
    IF Len(block) > d THEN SubSeq(block, 1, d) ELSE block

Validated(block, d) ==
    [i \in 1..d |-> IF i <= Len(block) THEN block[i] ELSE 0]

Joined(found) ==
    LET upTo[k \in 0..Len(Blocks)] ==
          IF k = 0 THEN <<>>
          ELSE upTo[k - 1] \o Validated(Filled(found[Blocks[k]]), Dim[Blocks[k]])
    IN  upTo[Len(Blocks)]

Build ==
    /\ \E found \in [DOMAIN Dim -> Given] :
          out' = [entry |-> "build", found |-> found, x |-> Joined(found)]
    /\ UNCHANGED <<trained, theta, fitOn>>

-----------------------------------------------------------------------------
(* Model B.  The threshold is the first of the grid with the best F1, as    *)
(* computed, on the probabilities of the training sample; calibration comes *)
(* after and leaves it alone.                                               *)
Thresholds == {5 * k : k \in 1..19}

Count(sample, t, pred, y) ==
    Cardinality({i \in DOMAIN sample :
                    (sample[i].p >= t) = pred /\ sample[i].y = y})

F1(sample, t) ==
    LET tp == Count(sample, t, TRUE, 1)
    IN  [tp |-> tp, found |-> tp + Count(sample, t, TRUE, 0),
         real |-> tp + Count(sample, t, FALSE, 1)]

(* The code adds e = 1e-10 to the divisors of precision, recall and F1.     *)
(* 2/F1 is then (found + real)/tp + e (2 tp + found real)/tp^2, up to terms *)
(* below the precision of a float: e is too small to outweigh a difference  *)
(* of the first part, and decides where there is none.                      *)
Tiny(f) == 2 * f.tp + f.found * f.real

Better(f, g) ==
    /\ f.tp > 0
    /\ \/ g.tp = 0
       \/ (f.found + f.real) * g.tp < (g.found + g.real) * f.tp
       \/ /\ (f.found + f.real) * g.tp = (g.found + g.real) * f.tp
          /\ Tiny(f) * (g.tp * g.tp) < Tiny(g) * (f.tp * f.tp)

SearchCutShort(sample) ==               \* mutant: stops at the first decrease
    FoldLeft(LAMBDA best, k :
                IF best.on /\ Better(F1(sample, 5 * k), F1(sample, best.t))
                  THEN [best EXCEPT !.t = 5 * k]
                ELSE IF Better(F1(sample, best.t), F1(sample, 5 * k))
                  THEN [best EXCEPT !.on = FALSE] ELSE best,
             [t |-> 5, on |-> TRUE], [k \in 1..18 |-> k + 1]).t

OptimalThreshold(sample) ==
    LET best[k \in 1..19] ==
          IF k = 1 THEN 5
          ELSE LET t == best[k - 1] IN
               IF Better(F1(sample, 5 * k), F1(sample, t)) THEN 5 * k ELSE t
    IN  best[19]

FitA == /\ trained' = trained \cup {"A"}
        /\ UNCHANGED <<theta, fitOn, out>>

FitB == /\ trained' = trained \cup {"B"}
        /\ \E sample \in Samples :
              fitOn' = sample /\ theta' = OptimalThreshold(sample)
        /\ UNCHANGED <<out>>

FitEnsemble ==
    /\ trained' = trained \cup {"ensemble"}
    /\ UNCHANGED <<theta, fitOn, out>>

DefaultB == [p |-> 0, hold |-> FALSE]

PredictB(p) ==
    IF "B" \in trained THEN [p |-> p, hold |-> p >= theta] ELSE DefaultB

-----------------------------------------------------------------------------
(* Model A.                                                                 *)
Boost(raw, regime) ==
    IF regime \in {0, 1} /\ raw.b + raw.s > 0
      THEN [b |-> (raw.b * 8) \div 10, s |-> (raw.s * 8) \div 10,
            l |-> raw.l + ((raw.b + raw.s) * 2) \div 10]
      ELSE raw

BearShift(p, evidence) ==
    LET shift == IF evidence > 5 THEN (p.b * evidence) \div 100 ELSE 0
    IN  [p EXCEPT !.b = @ - shift, !.s = @ + shift]

SessionWeights(raw, regime, evidence) == BearShift(Boost(raw, regime), evidence)

Label(p) ==
    IF p.b >= p.s /\ p.b >= p.l THEN "BSL"
    ELSE IF p.s >= p.l THEN "SSL" ELSE "LATERAL"
Top(p) == Max({p.b, p.s, p.l})

Confidence(top) ==
    IF top >= 8500 THEN "HIGH" ELSE IF top >= 6500 THEN "MEDIUM" ELSE "LOW"

Qualifier(top, regime) ==
    IF regime \in {1, 2} /\ Confidence(top) = "MEDIUM" THEN "HIGH"
    ELSE Confidence(top)

DefaultA == [p |-> [b |-> 0, s |-> 0, l |-> 0], label |-> "LATERAL",
             confidence |-> "LOW", top |-> 0]

PredictA(raw, regime, evidence, weighted) ==
    LET p == IF weighted THEN SessionWeights(raw, regime, evidence) ELSE raw
    IN  IF "A" \in trained
          THEN [p |-> p, label |-> Label(p),
                confidence |-> Qualifier(Top(p), regime), top |-> Top(p)]
          ELSE DefaultA

(* The ensemble's answer as a model A output; its confidence is not raised  *)
(* in trending regimes.                                                     *)
EnsembleOutput(p) ==
    [p |-> p, label |-> Label(p), confidence |-> Confidence(Top(p)), top |-> Top(p)]

-----------------------------------------------------------------------------
(* Rollback to LATERAL.                                                     *)
Standard(a) == a.confidence = "LOW"

AggressiveOnlyLow(a, regime, market) == \* mutant: the momentum is not looked at
    a.confidence = "LOW" \/ (regime = 3 /\ a.confidence = "MEDIUM")

Aggressive(a, regime, market) ==
    \/ a.confidence = "LOW"
    \/ regime = 3 /\ a.confidence = "MEDIUM"
    \/ a.label = "BSL" /\ market.momentum < 0
    \/ a.label = "SSL" /\ market.momentum > 0

Conservative(a, b, regime, market) ==
    \/ a.confidence = "LOW" /\ a.top < 5000
    \/ b # None /\ ~b.hold /\ a.confidence = "LOW"
    \/ regime = 3 /\ market.volatility > 0 /\ a.confidence = "LOW"

ShouldRollback(policy, a, b, regime, market) ==
    \/ policy = "standard" /\ Standard(a)
    \/ policy = "aggressive" /\ Aggressive(a, regime, market)
    \/ policy = "conservative" /\ Conservative(a, b, regime, market)

RolledBack == [p |-> [b |-> 0, s |-> 0, l |-> One], label |-> "LATERAL",
               confidence |-> "LOW", top |-> One]

(* The result keeps, beside what the code returns, what was checked and     *)
(* what every policy would have said of it.                                 *)
Result(entry, policy, raw, weighted, market, regime, a, ens, tried, b) ==
    [entry |-> entry, policy |-> policy, raw |-> raw, weighted |-> weighted,
     momentum |-> market.momentum, a |-> a, ensemble |-> ens, checked |-> tried,
     verdicts |-> {q \in Policies : ShouldRollback(q, tried, b, regime, market)}]

(* run_inference_with_rollback.                                             *)
RunWithRollback(policy, raw, regime, evidence, weighted, market, p) ==
    LET a    == PredictA(raw, regime, evidence, weighted)
        b    == IF p = None THEN None ELSE PredictB(p[1])
        roll == ShouldRollback(policy, a, b, regime, market)
    IN  /\ out' = Result("rollback", policy, raw, a, market, regime,
                         IF roll THEN RolledBack ELSE a, None, a, b)
        /\ UNCHANGED <<trained, theta, fitOn>>

(* run_inference_with_ensemble: a rollback overwrites the ensemble's        *)
(* answer; without a trained ensemble it is computed and dropped.           *)
RunWithEnsemble(policy, raw, regime, evidence, weighted, market, p, answer) ==
    LET a       == PredictA(raw, regime, evidence, weighted)
        b       == IF p = None THEN None ELSE PredictB(p[1])
        meta    == "ensemble" \in trained
        tried == IF meta THEN EnsembleOutput(answer) ELSE a
        roll    == ShouldRollback(policy, tried, b, regime, market)
        ens     == IF ~meta THEN None
                   ELSE IF roll THEN [p |-> RolledBack.p, label |-> "LATERAL"]
                   ELSE [p |-> answer, label |-> Label(answer)]
    IN  /\ out' = Result("ensemble", policy, raw, a, market, regime,
                         a, ens, tried, b)
        /\ UNCHANGED <<trained, theta, fitOn>>

Take ==
    /\ out # NoResult
    /\ out' = NoResult
    /\ UNCHANGED <<trained, theta, fitOn>>

-----------------------------------------------------------------------------
InferenceInit ==
    /\ trained = {}
    /\ theta = 71
    /\ fitOn = None
    /\ out = NoResult

Run ==
    /\ out = NoResult
    /\ \E policy \in Policies, raw \in RawA, regime \in Regimes, evidence \in Evidence,
          weighted \in BOOLEAN, market \in Markets, p \in {None} \cup {<<q>> : q \in RawB} :
          \/ RunWithRollback(policy, raw, regime, evidence, weighted, market, p)
          \/ \E answer \in (IF "ensemble" \in trained THEN RawA ELSE {raw}) :
                RunWithEnsemble(policy, raw, regime, evidence, weighted, market, p, answer)

Fit == out = NoResult /\ (FitA \/ FitB \/ FitEnsemble \/ Build)

InferenceNext == Fit \/ Run \/ Take

InferenceSpec == InferenceInit /\ [][InferenceNext]_inferenceVars

-----------------------------------------------------------------------------
Done == out.entry \in {"rollback", "ensemble"}
Directional(label) == label # "LATERAL"
Decision == IF out.ensemble # None THEN out.ensemble ELSE out.a

(* Under the standard and the aggressive policy no decision for BSL or SSL  *)
(* is returned with low confidence, nor under the aggressive one against    *)
(* the momentum.  The ensemble entry point without a trained ensemble is    *)
(* the exception: there the rollback is computed and dropped.               *)
DirectionalIsConfident ==
    Done /\ out.policy # "conservative" /\ (out.entry = "ensemble" => out.ensemble # None) =>
        \/ ~Directional(Decision.label)
        \/ /\ out.checked.confidence # "LOW"
           /\ out.policy = "aggressive" =>
                 out.momentum = 0 \/ (out.momentum > 0) = (Decision.label = "BSL")

(* What the conservative policy rolls back the standard one does too, and   *)
(* what the standard one does the aggressive one does.                      *)
PoliciesOrdered ==
    Done => /\ "conservative" \in out.verdicts => "standard" \in out.verdicts
            /\ "standard" \in out.verdicts => "aggressive" \in out.verdicts

(* The session weights keep a distribution, never make the bullish side     *)
(* likelier or the lateral one less so, and so never turn another label     *)
(* into BSL (apply_session_weights).                                        *)
WeightingIsCautious ==
    Done /\ "A" \in trained =>
        LET p == out.weighted.p
        IN  /\ p.b + p.s + p.l = One
            /\ p.b <= out.raw.b /\ p.l >= out.raw.l
            /\ out.weighted.label = "BSL" => Label(out.raw) = "BSL"

(* Weights and rollback policies only ever make a decision more cautious.   *)
DecisionsCautious == DirectionalIsConfident /\ PoliciesOrdered /\ WeightingIsCautious

(* No threshold has a higher F1 on the training sample of a fitted B, the   *)
(* added 1e-10 notwithstanding, and none is better where they decide; every *)
(* lower one is worse, so of the thresholds that predict alike it is the    *)
(* lowest (compute_optimal_threshold).                                      *)
ThresholdIsBest ==
    fitOn # None =>
        LET best == F1(fitOn, theta) IN
        \A t \in Thresholds :
            LET f == F1(fitOn, t) IN
            /\ f.tp * (best.found + best.real) <= best.tp * (f.found + f.real)
            /\ ~Better(f, best)
            /\ t < theta => Better(best, f)

(* The features of the blocks up to k, counted by their lengths.            *)
Offset(k) ==
    LET sum[j \in 0..Len(Blocks)] == IF j = 0 THEN 0 ELSE sum[j - 1] + Dim[Blocks[j]]
    IN  sum[k]

(* Whatever the builders found, feature i of block k is at its own place in *)
(* the vector, and zero if it, or one before it in its block, was bad.      *)
BlocksAligned ==
    out.entry = "build" =>
        \A k \in DOMAIN Blocks :
            LET found == out.found[Blocks[k]]
                place(i) == Offset(k - 1) + i
            IN  \A i \in 1..Dim[Blocks[k]] :
                    /\ place(i) <= Len(out.x)
                    /\ out.x[place(i)] =
                         IF i <= Len(found) /\ (\A j \in 1..i : found[j] # Bad)
                           THEN found[i] ELSE 0
=============================================================================
