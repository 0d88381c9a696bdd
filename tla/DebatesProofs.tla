----------------------------- MODULE DebatesProofs -----------------------------
(***************************************************************************)
(* Proofs about Debates for every set of symbols, every number the models  *)
(* may answer, every rate limit, period and budget, and every interleaving   *)
(* of events, timeouts, failures, midnights and shutdowns.                 *)
(***************************************************************************)
EXTENDS Debates, FiniteSetTheorems, TLAPS

Stages == {"unused", "aborted", "raised", "cancelled", "rag", "agents", "bull", "bear",
           "critic", "persist", "told"}
Result == [ok : BOOLEAN, rating : Int, conf : Int]
BothSides == {"bull", "bear"}

(* Types of what the invariants look at.                                   *)
DebatesTypeOK ==
  /\ now \in Nat /\ spent \in Nat /\ peak \in Nat
  /\ stage \in [Debates -> Stages]
  /\ bull \in [Debates -> Result] /\ bear \in [Debates -> Result]
  /\ DOMAIN topic = Debates /\ \A d \in Debates : topic[d].guard \in BOOLEAN
  /\ DOMAIN verdict = Debates /\ \A d \in Debates : verdict[d].tokens \in {0, 1}
  /\ DOMAIN heard = Debates
  /\ DOMAIN lastTime = Symbols /\ DOMAIN begun = Symbols

(* The rate limit knows the last debate it let begin.                      *)
LastIsKnown ==
  \A s \in Symbols :
    /\ lastTime[s] = Never => begun[s] = {}
    /\ lastTime[s] # Never => lastTime[s] \in Nat /\ lastTime[s] <= now
    /\ \A x \in begun[s] : x[1] \in Nat /\ x[1] <= lastTime[s]

(* The debates under way that may still cost something.                    *)
Charged ==
  {d \in Debates : \/ stage[d] \in {"rag", "agents", "bull", "bear", "critic"}
                   \/ stage[d] = "persist" /\ verdict[d].by # "rules"}

(* What is spent and what may still be spent.                              *)
CostsCovered ==
  /\ Cardinality(Charged) <= peak
  /\ spent + Cardinality(Charged) < Budget + peak

DebatesInv ==
  DebatesTypeOK /\ LastIsKnown /\ SpacedApart /\ CostsCovered /\ VerdictIsTempered

-----------------------------------------------------------------------------
(* The larger and the smaller of two integers.                             *)
LEMMA MaxOfTwo ==
  ASSUME NEW a \in Int, NEW b \in Int
  PROVE  Max({a, b}) = IF a >= b THEN a ELSE b
<1> DEFINE m == IF a >= b THEN a ELSE b
<1>1. m \in {a, b} /\ \A y \in {a, b} : m >= y
  OBVIOUS
<1>2. \A x \in {a, b} : (\A y \in {a, b} : x >= y) => x = m
  OBVIOUS
<1> QED
  BY <1>1, <1>2 DEF Max

LEMMA MinOfTwo ==
  ASSUME NEW a \in Int, NEW b \in Int
  PROVE  Min({a, b}) = IF a <= b THEN a ELSE b
<1> DEFINE m == IF a <= b THEN a ELSE b
<1>1. m \in {a, b} /\ \A y \in {a, b} : m <= y
  OBVIOUS
<1>2. \A x \in {a, b} : (\A y \in {a, b} : x <= y) => x = m
  OBVIOUS
<1> QED
  BY <1>1, <1>2 DEF Min

(* The debates under way are finitely many, and so is each part of them.   *)
LEMMA SomeDebates ==
  ASSUME NEW S, S \subseteq Debates
  PROVE  IsFiniteSet(S) /\ Cardinality(S) \in Nat
<1>1. IsFiniteSet(Debates)
  BY DebateAssumption, FS_Interval DEF Debates
<1> QED
  BY <1>1, FS_Subset, FS_CardinalityType

-----------------------------------------------------------------------------
(* What VerdictIsTempered asks of a verdict.                               *)
InBounds(v, guarded) ==
  /\ v.rating \in -4..4
  /\ v.direction = "BULL" => v.rating >= 0
  /\ v.direction = "BEAR" => v.rating <= 0
  /\ v.direction = "NEUTRAL" => v.rating \in -1..1
  /\ guarded /\ AbsVal(v.rating) = 4 => v.by = "weights"

Tempered(v, h, guarded) ==
  /\ v.conf # "LOW" => Sides(h) = BothSides
  /\ v.fallback <=> v.by # "critic"
  /\ guarded => v.conf # "HIGH"
  /\ v.by = "critic" \/ OnScale(h) => InBounds(v, guarded)

LEMMA TemperedVerdicts ==
  VerdictIsTempered <=>
    \A d \in Debates : stage[d] = "persist" => Tempered(verdict[d], heard[d], topic[d].guard)
  BY DEF VerdictIsTempered, Tempered, InBounds, BothSides

(* _single_sided_result: never of high confidence; on the scale, in range, *)
(* of its direction, and softened under a guardrail.                       *)
LEMMA SingleInBounds ==
  ASSUME NEW r \in Result, NEW isBull \in BOOLEAN, NEW g \in BOOLEAN, r.rating \in 0..4
  PROVE  InBounds(SingleSided(r, isBull, g), g)
<1>1. CASE isBull
  <2>1. Max({1, r.rating - 1}) = IF 1 >= r.rating - 1 THEN 1 ELSE r.rating - 1
    BY MaxOfTwo
  <2> QED
    BY <1>1, <2>1 DEF SingleSided, InBounds, AbsVal
<1>2. CASE ~isBull
  <2>1. Min({-1, -r.rating + 1}) = IF -1 <= -r.rating + 1 THEN -1 ELSE -r.rating + 1
    BY MinOfTwo
  <2> QED
    BY <1>2, <2>1 DEF SingleSided, InBounds, AbsVal
<1> QED
  BY <1>1, <1>2

LEMMA SingleIsTempered ==
  ASSUME NEW r \in Result, NEW isBull \in BOOLEAN, NEW g \in BOOLEAN, NEW h,
         OnScale(h) => r.rating \in 0..4
  PROVE  Tempered(SingleSided(r, isBull, g), h, g)
<1> DEFINE v == SingleSided(r, isBull, g)
<1>1. v.conf = "LOW" /\ v.fallback = TRUE /\ v.by = "one side"
  BY DEF SingleSided
<1>2. OnScale(h) => InBounds(v, g)
  BY SingleInBounds
<1> HIDE DEF v
<1>3. Tempered(v, h, g)
  BY <1>1, <1>2 DEF Tempered
<1> QED
  BY <1>3 DEF v

(* _rule_based_fallback of the critic: only it may keep a rating of 4      *)
(* under a guardrail.                                                      *)
LEMMA HeavierInBounds ==
  ASSUME NEW b \in Result, NEW r \in Result, NEW g \in BOOLEAN,
         b.rating \in 0..4, r.rating \in 0..4
  PROVE  InBounds(HeavierSide(b, r, g), g)
<1> DEFINE wb == b.rating * b.conf
           wr == r.rating * r.conf
<1>1. Min({4, b.rating}) = b.rating /\ Max({-4, -r.rating}) = -r.rating
  BY MinOfTwo, MaxOfTwo
<1>2. /\ HeavierSide(b, r, g).rating =
           IF wb > wr THEN b.rating ELSE IF wr > wb THEN -r.rating ELSE 0
      /\ HeavierSide(b, r, g).direction =
           IF wb > wr THEN "BULL" ELSE IF wr > wb THEN "BEAR" ELSE "NEUTRAL"
      /\ HeavierSide(b, r, g).by = "weights"
  BY <1>1 DEF HeavierSide
<1> HIDE DEF wb, wr
<1> QED
  BY <1>2 DEF InBounds

LEMMA HeavierIsTempered ==
  ASSUME NEW b \in Result, NEW r \in Result, NEW g \in BOOLEAN, NEW h,
         Sides(h) = BothSides, OnScale(h) => b.rating \in 0..4 /\ r.rating \in 0..4
  PROVE  Tempered(HeavierSide(b, r, g), h, g)
<1> DEFINE v == HeavierSide(b, r, g)
<1>1. v.conf \in {"LOW", "MEDIUM"} /\ v.fallback = TRUE /\ v.by = "weights"
  BY DEF HeavierSide
<1>2. OnScale(h) => InBounds(v, g)
  BY HeavierInBounds
<1> HIDE DEF v
<1>3. Tempered(v, h, g)
  BY <1>1, <1>2 DEF Tempered
<1> QED
  BY <1>3 DEF v

(* evaluate: whatever the agents said, the rating is clamped, the          *)
(* direction is that of the rating before it is softened, and one step     *)
(* does not take it to the other side.                                     *)
LEMMA ModeratedIsTempered ==
  ASSUME NEW a \in CriticAnswers, NEW g \in BOOLEAN, NEW h, Sides(h) = BothSides
  PROVE  Tempered(Moderated(a, g), h, g)
<1> DEFINE rating == Clamp(a.rating, -4, 4)
<1>1. a.rating \in Int /\ a.conf \in {"HIGH", "MEDIUM", "LOW"}
  BY DebateAssumption
<1>2. rating \in -4..4
  BY <1>1 DEF Clamp
<1>3. Moderated(a, g) =
        [rating |-> IF g /\ AbsVal(rating) >= 2
                    THEN IF rating > 0 THEN rating - 1 ELSE rating + 1 ELSE rating,
         direction |-> IF rating > 1 THEN "BULL" ELSE IF rating < -1 THEN "BEAR" ELSE "NEUTRAL",
         conf |-> IF ~g THEN a.conf ELSE IF a.conf = "HIGH" THEN "MEDIUM" ELSE "LOW",
         fallback |-> FALSE, tokens |-> 1, by |-> "critic"]
  BY DEF Moderated
<1> HIDE DEF rating
<1>4. InBounds(Moderated(a, g), g)
  BY <1>2, <1>3 DEF InBounds, AbsVal
<1> QED
  BY <1>1, <1>3, <1>4 DEF Tempered

(* Nobody heard.                                                           *)
LEMMA NeitherIsTempered ==
  ASSUME NEW h, NEW g \in BOOLEAN
  PROVE  Tempered(NeitherSide, h, g)
  BY DEF Tempered, InBounds, NeitherSide, NoVerdict, AbsVal

(* The rules, with the features they are given, in whatever regime.        *)
LEMMA RulesAreTempered ==
  ASSUME NEW h, NEW regime
  PROVE  /\ Tempered(RuleVerdict(DefaultFeatures, regime), h, FALSE)
         /\ RuleVerdict(DefaultFeatures, regime).tokens = 0
         /\ RuleVerdict(DefaultFeatures, regime).by = "rules"
<1>1. EdgeScore(50, 30) = 1200
  BY DEF EdgeScore, Clamp
<1>2. PremiumScore(0, 0) = 0
  BY DEF PremiumScore
<1>3. ZoneScore(0, 0) = 0
  BY MinOfTwo DEF ZoneScore
<1>4. MacroScore(regime) \in -250..250
  BY DEF MacroScore
<1> DEFINE s == EdgeScore(50, 30) + PremiumScore(0, 0) + ZoneScore(0, 0) + MacroScore(regime)
<1>5. s \in 950..1450
  BY <1>1, <1>2, <1>3, <1>4
<1> HIDE DEF s
<1>6. Clamp(s, -10000, 10000) = s
  BY <1>5 DEF Clamp
<1>7. ScoreToRating(s) = 0
  BY <1>5 DEF ScoreToRating
<1>8. RatingToDirection(0) = "NEUTRAL" /\ ~(AbsVal(s) >= 5000)
  BY <1>5 DEF RatingToDirection, AbsVal
<1>9. /\ DefaultFeatures.pBsl = 50 /\ DefaultFeatures.pSsl = 30
      /\ DefaultFeatures.price = 0 /\ DefaultFeatures.equilibrium = 0
      /\ DefaultFeatures.bulls = 0 /\ DefaultFeatures.bears = 0
  BY DEF DefaultFeatures
<1>10. RuleVerdict(DefaultFeatures, regime) =
         [rating |-> ScoreToRating(Clamp(s, -10000, 10000)),
          direction |-> RatingToDirection(ScoreToRating(Clamp(s, -10000, 10000))),
          conf |-> IF AbsVal(Clamp(s, -10000, 10000)) >= 5000 THEN "MEDIUM" ELSE "LOW",
          fallback |-> TRUE, tokens |-> 0, by |-> "rules"]
  BY <1>9 DEF RuleVerdict, s
<1> DEFINE v == RuleVerdict(DefaultFeatures, regime)
<1>11. /\ v.rating = 0 /\ v.direction = "NEUTRAL" /\ v.conf = "LOW"
       /\ v.fallback = TRUE /\ v.tokens = 0 /\ v.by = "rules"
  <2>1. /\ v.rating = ScoreToRating(Clamp(s, -10000, 10000))
        /\ v.direction = RatingToDirection(ScoreToRating(Clamp(s, -10000, 10000)))
        /\ v.conf = IF AbsVal(Clamp(s, -10000, 10000)) >= 5000 THEN "MEDIUM" ELSE "LOW"
        /\ v.fallback = TRUE /\ v.tokens = 0 /\ v.by = "rules"
    BY <1>10
  <2> HIDE DEF v
  <2> QED
    BY <1>6, <1>7, <1>8, <2>1
<1> HIDE DEF v
<1>12. Tempered(v, h, FALSE)
  BY <1>11 DEF Tempered, InBounds
<1> QED
  BY <1>11, <1>12 DEF v

-----------------------------------------------------------------------------
(* What an agent returns is a result, whatever its model answers.          *)
LEMMA ResultsAreResults ==
  ASSUME NEW g \in BOOLEAN
  PROVE  Results(g) \subseteq Result /\ Failed \in Result
<1>1. Failed \in Result
  BY DEF Failed, Result
<1>2. ASSUME NEW a \in AgentAnswers PROVE Analyze(a, g) \in Result
  <2>1. a.rating \in Int /\ a.conf \in Int
    BY DebateAssumption
  <2> QED
    BY <2>1 DEF Analyze, Result
<1> QED
  BY <1>1, <1>2 DEF Results

(* The debate that the periodic loop awaits is one of the debates.         *)
LEMMA AwaitedIsDebate == ~Free => current \in Debates /\ stage[current] \notin Ended
  BY DEF Free, Underway

(* The steps that touch no debate.                                         *)
Quiet == UNCHANGED <<stage, topic, resultVars, costVars, peak>>

LEMMA QuietSteps ==
  ASSUME \/ UNCHANGED debateVars
         \/ Start \/ Wake \/ VisitNone \/ Sleep \/ Tick \/ Midnight
  PROVE  Quiet /\ UNCHANGED <<lastTime, begun>> /\ (now' = now \/ now' = now + 1)
  BY DEF Start, Wake, VisitNone, Sleep, Tick, Midnight, Quiet, debateVars, clockVars,
     resultVars, costVars

(* What the steps of a debate leave alone.                                 *)
LEMMA DebateSteps ==
  ASSUME NEW d \in Debates, Step(d)
  PROVE  UNCHANGED <<topic, lastTime, begun, now, peak>>
  BY DEF Step, RunRag, AgentsAnswer, AgentsTimeout, BullAgain, BearAgain, OneSided,
     CriticDecides, CriticFails, Raises, Tell, Advance, clockVars

-----------------------------------------------------------------------------
(* A step keeps the types.                                                 *)
LEMMA EnterType ==
  ASSUME DebatesTypeOK, NEW d \in Debates, NEW s, NEW g \in BOOLEAN, Enter(d, s, g),
         DOMAIN lastTime' = Symbols, DOMAIN begun' = Symbols
  PROVE  DebatesTypeOK'
<1>1. stage' \in [Debates -> Stages]
  BY DEF Enter, DebatesTypeOK, Stages
<1>2. DOMAIN topic' = Debates /\ \A e \in Debates : topic'[e].guard \in BOOLEAN
  BY DEF Enter, DebatesTypeOK
<1>3. peak' \in Nat
  <2>1. Cardinality(Underway(stage')) \in Nat
    BY SomeDebates DEF Underway
  <2>2. peak \in Nat
    BY DEF DebatesTypeOK
  <2>3. peak' = Max({peak, Cardinality(Underway(stage'))})
    BY DEF Enter
  <2> QED
    BY <2>1, <2>2, <2>3, MaxOfTwo
<1>4. UNCHANGED <<now, spent, bull, bear, verdict, heard>>
  BY DEF Enter, clockVars, resultVars, costVars
<1> QED
  BY <1>1, <1>2, <1>3, <1>4 DEF DebatesTypeOK

LEMMA RatePassesType ==
  ASSUME DebatesTypeOK, NEW s, RatePasses(s)
  PROVE  DOMAIN lastTime' = Symbols /\ DOMAIN begun' = Symbols
  BY DEF DebatesTypeOK, RatePasses

LEMMA AdvanceType ==
  ASSUME DebatesTypeOK, NEW d \in Debates, NEW from, NEW to \in Stages, Advance(d, from, to)
  PROVE  /\ stage' \in [Debates -> Stages]
         /\ UNCHANGED <<now, topic, lastTime, begun, peak>>
  BY DEF DebatesTypeOK, Advance, clockVars

LEMMA StepType ==
  ASSUME DebatesTypeOK, [DebatesNext]_debateVars
  PROVE  DebatesTypeOK'
<1>1. CASE UNCHANGED debateVars \/ Start \/ Wake \/ VisitNone \/ Sleep \/ Tick \/ Midnight
  BY <1>1, QuietSteps DEF Quiet, resultVars, costVars, DebatesTypeOK
<1>2. CASE Shutdown
  <2>1. stage' \in [Debates -> Stages]
    BY <1>2 DEF Shutdown, DebatesTypeOK, Stages
  <2> QED
    BY <1>2, <2>1 DEF Shutdown, DebatesTypeOK, resultVars, costVars, clockVars
<1>3. ASSUME NEW d \in Debates, NEW s \in Symbols, OnModelDegraded(d, s) PROVE DebatesTypeOK'
  <2>1. stage' \in [Debates -> Stages]
    BY <1>3 DEF OnModelDegraded, DebatesTypeOK, Stages
  <2>2. DOMAIN topic' = Debates /\ \A e \in Debates : topic'[e].guard \in BOOLEAN
    BY <1>3 DEF OnModelDegraded, DebatesTypeOK
  <2>3. DOMAIN verdict' = Debates /\ \A e \in Debates : verdict'[e].tokens \in {0, 1}
    BY <1>3, RulesAreTempered DEF OnModelDegraded, DebatesTypeOK
  <2> QED
    BY <1>3, <2>1, <2>2, <2>3 DEF OnModelDegraded, DebatesTypeOK, costVars, clockVars
<1>4. ASSUME NEW d \in Debates, NEW s \in Symbols, NEW g \in BOOLEAN,
             OnPredictionReady(d, s, g) \/ TriggerDebate(d, s, g)
      PROVE  DebatesTypeOK'
  <2>1. Enter(d, s, g)
    BY <1>4 DEF OnPredictionReady, TriggerDebate
  <2>2. DOMAIN lastTime' = Symbols /\ DOMAIN begun' = Symbols
    BY <1>4, RatePassesType DEF OnPredictionReady, TriggerDebate, DebatesTypeOK
  <2> QED
    BY <2>1, <2>2, EnterType
<1>5. ASSUME NEW d \in Debates, Visit(d) PROVE DebatesTypeOK'
  <2>1. RatePasses(Head(queue)) /\ Enter(d, Head(queue), FALSE)
    BY <1>5 DEF Visit
  <2> QED
    BY <2>1, RatePassesType, EnterType
<1>6. ASSUME NEW d \in Debates, Step(d) PROVE DebatesTypeOK'
  <2>1. topic[d].guard \in BOOLEAN /\ bull[d] \in Result /\ bear[d] \in Result
    BY DEF DebatesTypeOK
  <2>2. Results(topic[d].guard) \subseteq Result /\ Failed \in Result
    BY <2>1, ResultsAreResults
  <2>3. stage' \in [Debates -> Stages] /\ UNCHANGED <<now, topic, lastTime, begun, peak>>
    BY <1>6, AdvanceType DEF Step, RunRag, AgentsAnswer, AgentsTimeout, BullAgain, BearAgain,
       OneSided, CriticDecides, CriticFails, Raises, Tell, Stages
  <2>4. CASE RunRag(d) \/ AgentsAnswer(d) \/ AgentsTimeout(d) \/ BullAgain(d) \/ BearAgain(d)
    <3>1. /\ bull' \in [Debates -> Result] /\ bear' \in [Debates -> Result]
          /\ UNCHANGED <<verdict, heard, spent>>
      BY <2>2, <2>4 DEF RunRag, AgentsAnswer, AgentsTimeout, BullAgain, BearAgain, resultVars,
         costVars, DebatesTypeOK
    <3> QED
      BY <2>3, <3>1 DEF DebatesTypeOK
  <2>5. CASE OneSided(d) \/ CriticDecides(d) \/ CriticFails(d)
    <3>1. PICK v : verdict' = [verdict EXCEPT ![d] = v] /\ v.tokens \in {0, 1}
      <4>1. CASE OneSided(d)
        <5>1. /\ SingleSided(bull[d], TRUE, topic[d].guard).tokens = 1
              /\ SingleSided(bear[d], FALSE, topic[d].guard).tokens = 1
              /\ NeitherSide.tokens = 0
          BY DEF SingleSided, NeitherSide, NoVerdict
        <5> QED
          BY <4>1, <5>1 DEF OneSided
      <4>2. CASE CriticDecides(d)
        <5>1. PICK a : verdict' = [verdict EXCEPT ![d] = Moderated(a, topic[d].guard)]
          BY <4>2 DEF CriticDecides
        <5>2. Moderated(a, topic[d].guard).tokens = 1
          BY DEF Moderated
        <5> QED
          BY <5>1, <5>2
      <4>3. CASE CriticFails(d)
        <5>1. verdict' = [verdict EXCEPT ![d] = HeavierSide(bull[d], bear[d], topic[d].guard)]
          BY <4>3 DEF CriticFails
        <5>2. HeavierSide(bull[d], bear[d], topic[d].guard).tokens = 1
          BY DEF HeavierSide
        <5> QED
          BY <5>1, <5>2
      <4> QED
        BY <2>5, <4>1, <4>2, <4>3
    <3>2. Forget(d)
      BY <2>5 DEF OneSided, CriticDecides, CriticFails
    <3>3. /\ bull' \in [Debates -> Result] /\ bear' \in [Debates -> Result] /\ spent' = spent
          /\ DOMAIN heard' = Debates
      BY <2>2, <3>2 DEF Forget, DebatesTypeOK, costVars
    <3> QED
      BY <2>3, <3>1, <3>3 DEF DebatesTypeOK
  <2>6. CASE Tell(d)
    <3>1. /\ DOMAIN verdict' = Debates /\ \A e \in Debates : verdict'[e].tokens \in {0, 1}
          /\ DOMAIN heard' = Debates /\ UNCHANGED <<bull, bear>>
      BY <2>6 DEF Tell, DebatesTypeOK, NoVerdict
    <3>2. spent' \in Nat
      BY <2>6 DEF Tell, DebatesTypeOK, costVars
    <3> QED
      BY <2>3, <3>1, <3>2 DEF DebatesTypeOK
  <2>7. CASE Raises(d)
    <3>1. /\ bull' \in [Debates -> Result] /\ bear' \in [Debates -> Result]
          /\ UNCHANGED <<verdict, heard, spent>>
      BY <2>2, <2>7 DEF Raises, costVars, DebatesTypeOK
    <3> QED
      BY <2>3, <3>1 DEF DebatesTypeOK
  <2> QED
    BY <1>6, <2>4, <2>5, <2>6, <2>7 DEF Step
<1> QED
  BY <1>1, <1>2, <1>3, <1>4, <1>5, <1>6 DEF DebatesNext

-----------------------------------------------------------------------------
(* A debate that the rate limit lets begin is RateLimit after the last.    *)
LEMMA RatePassesSpaced ==
  ASSUME DebatesTypeOK, LastIsKnown, SpacedApart, NEW s, RatePasses(s), now' = now
  PROVE  LastIsKnown' /\ SpacedApart'
<1>1. /\ now \in Nat /\ RateLimit \in Nat \ {0} /\ Never \notin Nat
      /\ DOMAIN lastTime = Symbols /\ DOMAIN begun = Symbols
  BY DebateAssumption DEF DebatesTypeOK, Never
<1> DEFINE new == <<now, Cardinality(begun[s])>>
<1>2. new[1] = now
  OBVIOUS
<1>3. /\ lastTime' = [lastTime EXCEPT ![s] = now]
      /\ begun' = [begun EXCEPT ![s] = begun[s] \cup {new}]
      /\ lastTime[s] = Never \/ now - lastTime[s] >= RateLimit
  BY DEF RatePasses, RateAllows
<1> HIDE DEF new
<1>4. ASSUME NEW r \in Symbols, r # s
      PROVE  lastTime'[r] = lastTime[r] /\ begun'[r] = begun[r]
  BY <1>1, <1>3, <1>4
<1>5. ASSUME s \in Symbols
      PROVE  lastTime'[s] = now /\ begun'[s] = begun[s] \cup {new}
  BY <1>1, <1>3, <1>5
<1>6. ASSUME s \in Symbols, NEW x \in begun[s]
      PROVE  x[1] \in Nat /\ x[1] <= now /\ AbsVal(now - x[1]) >= RateLimit
             /\ AbsVal(x[1] - now) >= RateLimit
  <2>1. /\ x[1] \in Nat /\ x[1] <= lastTime[s] /\ lastTime[s] # Never
        /\ lastTime[s] \in Nat /\ lastTime[s] <= now
    BY <1>6 DEF LastIsKnown
  <2> QED
    BY <1>1, <1>3, <2>1 DEF AbsVal
<1>7. LastIsKnown'
  <2> SUFFICES ASSUME NEW r \in Symbols
               PROVE  /\ lastTime'[r] = Never => begun'[r] = {}
                      /\ lastTime'[r] # Never => lastTime'[r] \in Nat /\ lastTime'[r] <= now'
                      /\ \A x \in begun'[r] : x[1] \in Nat /\ x[1] <= lastTime'[r]
    BY DEF LastIsKnown, Never
  <2>1. CASE r = s
    <3>1. \A x \in begun'[s] : x[1] \in Nat /\ x[1] <= now
      BY <1>1, <1>2, <1>5, <1>6, <2>1
    <3> QED
      BY <1>1, <1>5, <2>1, <3>1
  <2>2. CASE r # s
    BY <1>4, <2>2 DEF LastIsKnown
  <2> QED
    BY <2>1, <2>2
<1>8. SpacedApart'
  <2> SUFFICES ASSUME NEW r \in Symbols, NEW x \in begun'[r], NEW y \in begun'[r], x # y
               PROVE  AbsVal(x[1] - y[1]) >= RateLimit
    BY DEF SpacedApart, AbsVal
  <2>1. CASE r # s \/ (x \in begun[r] /\ y \in begun[r])
    BY <1>4, <2>1 DEF SpacedApart
  <2>2. CASE r = s /\ x = new /\ y \in begun[s]
    BY <1>2, <1>6, <2>2
  <2>3. CASE r = s /\ y = new /\ x \in begun[s]
    BY <1>2, <1>6, <2>3
  <2> QED
    BY <1>5, <2>1, <2>2, <2>3
<1> QED
  BY <1>7, <1>8

(* Every other step lets time pass at most.                                *)
LEMMA StepSpaced ==
  ASSUME DebatesTypeOK, LastIsKnown, SpacedApart, [DebatesNext]_debateVars
  PROVE  LastIsKnown' /\ SpacedApart'
<1>1. ASSUME UNCHANGED <<lastTime, begun>>, now' = now \/ now' = now + 1
      PROVE  LastIsKnown' /\ SpacedApart'
  <2>1. now \in Nat
    BY DEF DebatesTypeOK
  <2>2. LastIsKnown'
    BY <1>1, <2>1 DEF LastIsKnown
  <2>3. SpacedApart'
    BY <1>1 DEF SpacedApart
  <2> QED
    BY <2>2, <2>3
<1>2. CASE UNCHANGED debateVars \/ Start \/ Wake \/ VisitNone \/ Sleep \/ Tick \/ Midnight
  BY <1>1, <1>2, QuietSteps
<1>3. CASE Shutdown
  BY <1>1, <1>3 DEF Shutdown, clockVars
<1>4. ASSUME NEW d \in Debates, NEW s \in Symbols, NEW g \in BOOLEAN,
             OnModelDegraded(d, s) \/ TriggerDebate(d, s, g)
      PROVE  LastIsKnown' /\ SpacedApart'
  BY <1>1, <1>4 DEF OnModelDegraded, TriggerDebate, Enter, clockVars
<1>5. ASSUME NEW d \in Debates, NEW s, NEW g \in BOOLEAN, RatePasses(s), Enter(d, s, g)
      PROVE  LastIsKnown' /\ SpacedApart'
  BY <1>5, RatePassesSpaced DEF Enter, clockVars
<1>6. ASSUME NEW d \in Debates, Step(d) PROVE LastIsKnown' /\ SpacedApart'
  BY <1>1, <1>6, DebateSteps
<1> QED
  BY <1>2, <1>3, <1>4, <1>5, <1>6 DEF DebatesNext, OnPredictionReady, Visit

-----------------------------------------------------------------------------
(* As long as no other debate is charged, a cost that is covered stays so. *)
LEMMA CoveredStays ==
  ASSUME DebatesTypeOK, DebatesTypeOK', CostsCovered, Charged' \subseteq Charged,
         spent' = spent, peak' = peak
  PROVE  CostsCovered'
<1>1. Charged \subseteq Debates /\ Charged' \subseteq Debates
  BY DEF Charged
<1>2. /\ IsFiniteSet(Charged) /\ Cardinality(Charged) \in Nat /\ Cardinality(Charged') \in Nat
      /\ Cardinality(Charged') <= Cardinality(Charged)
  BY <1>1, SomeDebates, FS_Subset
<1>3. spent \in Nat /\ peak \in Nat /\ Budget \in Nat
  BY DebateAssumption DEF DebatesTypeOK
<1> QED
  BY <1>2, <1>3 DEF CostsCovered

(* A debate begins only when the budget is not spent, and raises the peak  *)
(* if it has to.                                                           *)
LEMMA EnterCovered ==
  ASSUME DebatesTypeOK, DebatesTypeOK', CostsCovered,
         NEW d \in Debates, NEW s, NEW g \in BOOLEAN, Enter(d, s, g)
  PROVE  CostsCovered'
<1>1. /\ spent' = spent /\ verdict' = verdict /\ stage \in [Debates -> Stages]
      /\ stage' = [stage EXCEPT ![d] = IF OverBudget THEN "aborted" ELSE "rag"]
      /\ peak' = Max({peak, Cardinality(Underway(stage'))})
      /\ spent \in Nat /\ peak \in Nat /\ peak' \in Nat /\ Budget \in Nat
  BY DebateAssumption DEF Enter, costVars, resultVars, DebatesTypeOK
<1>2. Charged' \subseteq Underway(stage') /\ Underway(stage') \subseteq Debates
      /\ Charged' \subseteq Debates /\ Charged \subseteq Debates
  BY DEF Charged, Underway, Ended
<1>3. /\ Cardinality(Charged') \in Nat /\ Cardinality(Underway(stage')) \in Nat
      /\ Cardinality(Charged') <= Cardinality(Underway(stage'))
      /\ Cardinality(Charged) \in Nat
  BY <1>2, SomeDebates, FS_Subset
<1>4. peak' >= peak /\ peak' >= Cardinality(Underway(stage'))
  <2>1. peak \in Int /\ Cardinality(Underway(stage')) \in Int
    BY <1>1, <1>3
  <2>2. peak' = Max({peak, Cardinality(Underway(stage'))})
    BY <1>1
  <2> QED
    BY <2>1, <2>2, MaxOfTwo
<1>5. CASE OverBudget
  <2>1. Charged' \subseteq Charged
    BY <1>1, <1>5 DEF Charged
  <2>2. Cardinality(Charged') <= Cardinality(Charged)
    BY <1>2, <2>1, SomeDebates, FS_Subset
  <2> QED
    BY <1>1, <1>3, <1>4, <2>2 DEF CostsCovered
<1>6. CASE ~OverBudget
  BY <1>1, <1>3, <1>4, <1>6 DEF CostsCovered, OverBudget
<1> QED
  BY <1>5, <1>6

(* A debate that is told costs what was set aside for it.                  *)
LEMMA TellCovered ==
  ASSUME DebatesTypeOK, DebatesTypeOK', CostsCovered, NEW d \in Debates, Tell(d)
  PROVE  CostsCovered'
<1>1. /\ stage[d] = "persist" /\ stage' = [stage EXCEPT ![d] = "told"] /\ peak' = peak
      /\ verdict' = [verdict EXCEPT ![d] = NoVerdict]
      /\ stage \in [Debates -> Stages] /\ DOMAIN verdict = Debates
      /\ spent \in Nat /\ peak \in Nat /\ Budget \in Nat \ {0}
      /\ verdict[d].tokens \in {0, 1}
  BY DebateAssumption DEF Tell, Advance, DebatesTypeOK
<1>2. Charged' = Charged \ {d}
  BY <1>1 DEF Charged
<1>3. CASE verdict[d].by = "rules"
  <2>1. spent' = spent
    BY <1>3 DEF Tell, costVars
  <2> QED
    BY <1>1, <1>2, <2>1, CoveredStays
<1>4. CASE verdict[d].by # "rules"
  <2>1. spent' \in {verdict[d].tokens, spent + verdict[d].tokens}
    BY <1>1, <1>4 DEF Tell
  <2>2. d \in Charged /\ Charged \subseteq Debates
    BY <1>1, <1>4 DEF Charged
  <2>3. /\ Cardinality(Charged) \in Nat /\ Cardinality(Charged') = Cardinality(Charged) - 1
    BY <1>2, <2>2, SomeDebates, FS_RemoveElement
  <2> QED
    BY <1>1, <2>1, <2>3 DEF CostsCovered
<1> QED
  BY <1>3, <1>4

LEMMA StepCovered ==
  ASSUME DebatesTypeOK, DebatesTypeOK', CostsCovered, [DebatesNext]_debateVars
  PROVE  CostsCovered'
<1>1. CASE UNCHANGED debateVars \/ Start \/ Wake \/ VisitNone \/ Sleep \/ Tick \/ Midnight
  <2>1. UNCHANGED <<stage, verdict, spent, peak>>
    BY <1>1, QuietSteps DEF Quiet, resultVars, costVars
  <2> QED
    BY <2>1, CoveredStays DEF Charged
<1>2. CASE Shutdown
  <2>1. /\ stage' = stage \/ stage' = [stage EXCEPT ![current] = "cancelled"]
        /\ UNCHANGED <<verdict, spent, peak>> /\ stage \in [Debates -> Stages]
    BY <1>2 DEF Shutdown, resultVars, costVars, DebatesTypeOK
  <2>2. Charged' \subseteq Charged
    BY <2>1 DEF Charged
  <2> QED
    BY <2>1, <2>2, CoveredStays
<1>3. ASSUME NEW d \in Debates, NEW s \in Symbols, OnModelDegraded(d, s) PROVE CostsCovered'
  <2>1. /\ stage' = [stage EXCEPT ![d] = "persist"] /\ stage \in [Debates -> Stages]
        /\ verdict' = [verdict EXCEPT ![d] = RuleVerdict(DefaultFeatures, "")]
        /\ DOMAIN verdict = Debates /\ spent' = spent /\ peak' = peak
    BY <1>3 DEF OnModelDegraded, costVars, DebatesTypeOK
  <2>2. verdict'[d].by = "rules"
    BY <2>1, RulesAreTempered
  <2>3. Charged' \subseteq Charged
    BY <2>1, <2>2 DEF Charged
  <2> QED
    BY <2>1, <2>3, CoveredStays
<1>4. ASSUME NEW d \in Debates, NEW s, NEW g \in BOOLEAN, Enter(d, s, g) PROVE CostsCovered'
  BY <1>4, EnterCovered
<1>5. ASSUME NEW d \in Debates, Step(d) PROVE CostsCovered'
  <2>1. stage \in [Debates -> Stages] /\ DOMAIN verdict = Debates
        /\ topic[d].guard \in BOOLEAN /\ bull[d] \in Result /\ bear[d] \in Result
    BY DEF DebatesTypeOK
  <2>2. CASE RunRag(d) \/ AgentsAnswer(d) \/ AgentsTimeout(d) \/ BullAgain(d) \/ BearAgain(d)
    <3>1. /\ stage[d] \in {"rag", "agents", "bull", "bear"}
          /\ \E st : stage' = [stage EXCEPT ![d] = st]
          /\ UNCHANGED <<verdict, spent, peak>>
      BY <2>2 DEF RunRag, AgentsAnswer, AgentsTimeout, BullAgain, BearAgain, Advance,
         resultVars, costVars
    <3>2. Charged' \subseteq Charged
      BY <2>1, <3>1 DEF Charged
    <3> QED
      BY <3>1, <3>2, CoveredStays
  <2>3. CASE OneSided(d) \/ CriticDecides(d) \/ CriticFails(d)
    <3>1. /\ stage[d] = "critic" /\ stage' = [stage EXCEPT ![d] = "persist"]
          /\ \E v : verdict' = [verdict EXCEPT ![d] = v]
          /\ UNCHANGED <<spent, peak>>
      BY <2>3 DEF OneSided, CriticDecides, CriticFails, Advance, Forget, costVars
    <3>2. Charged' \subseteq Charged
      BY <2>1, <3>1 DEF Charged
    <3> QED
      BY <3>1, <3>2, CoveredStays
  <2>4. CASE Tell(d)
    BY <2>4, TellCovered
  <2>5. CASE Raises(d)
    <3>1. /\ stage' = [stage EXCEPT ![d] = "raised"] /\ UNCHANGED <<verdict, spent, peak>>
      BY <2>5 DEF Raises, Advance, costVars
    <3>2. Charged' \subseteq Charged
      BY <2>1, <3>1 DEF Charged
    <3> QED
      BY <3>1, <3>2, CoveredStays
  <2> QED
    BY <1>5, <2>2, <2>3, <2>4, <2>5 DEF Step
<1> QED
  BY <1>1, <1>2, <1>3, <1>4, <1>5
     DEF DebatesNext, OnPredictionReady, TriggerDebate, Visit

-----------------------------------------------------------------------------
(* A step keeps every verdict that is about to be told tempered.           *)
LEMMA StepTempered ==
  ASSUME DebatesTypeOK, VerdictIsTempered, [DebatesNext]_debateVars
  PROVE  VerdictIsTempered'
<1> DEFINE Good(d) == stage[d] = "persist" => Tempered(verdict[d], heard[d], topic[d].guard)
<1>1. (\A d \in Debates : Good(d)) /\ (VerdictIsTempered' <=> \A d \in Debates : Good(d)')
  <2>1. VerdictIsTempered <=> \A d \in Debates : Good(d)
    BY TemperedVerdicts
  <2>2. (VerdictIsTempered <=> \A d \in Debates : Good(d))'
    BY TemperedVerdicts, PTL
  <2> QED
    BY <2>1, <2>2
<1>2. /\ stage \in [Debates -> Stages] /\ DOMAIN verdict = Debates /\ DOMAIN topic = Debates
      /\ DOMAIN heard = Debates
      /\ \A d \in Debates : /\ topic[d].guard \in BOOLEAN
                            /\ bull[d] \in Result /\ bear[d] \in Result
  BY DEF DebatesTypeOK
<1>3. ASSUME NEW e \in Debates,
             stage'[e] = "persist" =>
               /\ stage[e] = "persist"
               /\ verdict'[e] = verdict[e] /\ heard'[e] = heard[e] /\ topic'[e] = topic[e]
      PROVE  Good(e)'
  BY <1>1, <1>3
<1>4. CASE UNCHANGED debateVars \/ Start \/ Wake \/ VisitNone \/ Sleep \/ Tick \/ Midnight
  BY <1>1, <1>3, <1>4, QuietSteps DEF Quiet, resultVars
<1>5. CASE Shutdown
  <2>1. /\ stage' = stage \/ stage' = [stage EXCEPT ![current] = "cancelled"]
        /\ UNCHANGED <<verdict, heard, topic>>
    BY <1>5 DEF Shutdown, resultVars
  <2> QED
    BY <1>1, <1>2, <1>3, <2>1
<1>6. ASSUME NEW d \in Debates, NEW s \in Symbols, OnModelDegraded(d, s) PROVE VerdictIsTempered'
  <2>1. /\ stage' = [stage EXCEPT ![d] = "persist"]
        /\ topic' = [topic EXCEPT ![d] = [symbol |-> s, guard |-> FALSE]]
        /\ verdict' = [verdict EXCEPT ![d] = RuleVerdict(DefaultFeatures, "")]
        /\ heard' = heard
    BY <1>6 DEF OnModelDegraded
  <2>2. \A e \in Debates \ {d} : Good(e)'
    BY <1>2, <1>3, <2>1
  <2>3. Good(d)'
    <3>1. verdict'[d] = RuleVerdict(DefaultFeatures, "") /\ topic'[d].guard = FALSE
      BY <1>2, <2>1
    <3> QED
      BY <3>1, RulesAreTempered
  <2> QED
    BY <1>1, <2>2, <2>3
<1>7. ASSUME NEW d \in Debates, NEW s, NEW g \in BOOLEAN, Enter(d, s, g) PROVE VerdictIsTempered'
  <2>1. /\ stage' = [stage EXCEPT ![d] = IF OverBudget THEN "aborted" ELSE "rag"]
        /\ topic' = [topic EXCEPT ![d] = [symbol |-> s, guard |-> g]]
        /\ UNCHANGED <<verdict, heard>>
    BY <1>7 DEF Enter, resultVars
  <2> QED
    BY <1>1, <1>2, <1>3, <2>1
<1>8. ASSUME NEW d \in Debates, Step(d) PROVE VerdictIsTempered'
  <2>1. topic' = topic
    BY <1>8, DebateSteps
  <2>2. CASE RunRag(d) \/ AgentsAnswer(d) \/ AgentsTimeout(d) \/ BullAgain(d) \/ BearAgain(d)
    <3>1. /\ \E st \in {"agents", "critic", "bull", "bear"} : stage' = [stage EXCEPT ![d] = st]
          /\ UNCHANGED <<verdict, heard>>
      BY <2>2 DEF RunRag, AgentsAnswer, AgentsTimeout, BullAgain, BearAgain, Advance, resultVars
    <3> QED
      BY <1>1, <1>2, <1>3, <2>1, <3>1
  <2>3. CASE OneSided(d) \/ CriticDecides(d) \/ CriticFails(d)
    <3>1. /\ stage' = [stage EXCEPT ![d] = "persist"]
          /\ heard' = [heard EXCEPT ![d] =
               (IF bull[d].ok THEN {<<"bull", bull[d].rating>>} ELSE {})
               \cup (IF bear[d].ok THEN {<<"bear", bear[d].rating>>} ELSE {})]
      BY <2>3 DEF OneSided, CriticDecides, CriticFails, Advance, Forget
    <3>2. PICK v : /\ verdict' = [verdict EXCEPT ![d] = v]
                   /\ Tempered(v, heard'[d], topic[d].guard)
      <4> DEFINE g == topic[d].guard
                 h == heard'[d]
      <4>1. /\ bull[d].ok => <<"bull", bull[d].rating>> \in h
            /\ bear[d].ok => <<"bear", bear[d].rating>> \in h
            /\ bull[d].ok /\ bear[d].ok =>
                 h = {<<"bull", bull[d].rating>>, <<"bear", bear[d].rating>>}
        BY <1>2, <3>1
      <4> HIDE DEF h
      <4>2. /\ OnScale(h) /\ bull[d].ok => bull[d].rating \in 0..4
            /\ OnScale(h) /\ bear[d].ok => bear[d].rating \in 0..4
        BY <4>1 DEF OnScale
      <4>3. bull[d].ok /\ bear[d].ok => Sides(h) = BothSides
        <5> SUFFICES ASSUME bull[d].ok, bear[d].ok PROVE Sides(h) = BothSides
          OBVIOUS
        <5>1. h = {<<"bull", bull[d].rating>>, <<"bear", bear[d].rating>>}
          BY <4>1
        <5> QED
          BY <5>1 DEF Sides, BothSides
      <4>4. CASE OneSided(d)
        <5> DEFINE v == IF ~bull[d].ok /\ ~bear[d].ok THEN NeitherSide
                        ELSE IF bull[d].ok THEN SingleSided(bull[d], TRUE, g)
                        ELSE SingleSided(bear[d], FALSE, g)
        <5>1. verdict' = [verdict EXCEPT ![d] = v]
          BY <4>4 DEF OneSided
        <5>2. bull[d].ok => Tempered(SingleSided(bull[d], TRUE, g), h, g)
          BY <1>2, <4>2, SingleIsTempered
        <5>3. bear[d].ok => Tempered(SingleSided(bear[d], FALSE, g), h, g)
          BY <1>2, <4>2, SingleIsTempered
        <5>4. Tempered(NeitherSide, h, g)
          BY <1>2, NeitherIsTempered
        <5>5. Tempered(v, h, g)
          BY <5>2, <5>3, <5>4
        <5> QED
          BY <5>1, <5>5 DEF h
      <4>5. CASE CriticDecides(d)
        <5>1. PICK a \in CriticAnswers : verdict' = [verdict EXCEPT ![d] = Moderated(a, g)]
          BY <4>5 DEF CriticDecides
        <5>2. Sides(h) = BothSides
          BY <4>3, <4>5 DEF CriticDecides
        <5>3. Tempered(Moderated(a, g), h, g)
          BY <1>2, <5>2, ModeratedIsTempered
        <5> QED
          BY <5>1, <5>3 DEF h
      <4>6. CASE CriticFails(d)
        <5>1. /\ verdict' = [verdict EXCEPT ![d] = HeavierSide(bull[d], bear[d], g)]
              /\ bull[d].ok /\ bear[d].ok
          BY <4>6 DEF CriticFails
        <5>2. Sides(h) = BothSides
          BY <4>3, <5>1
        <5>3. Tempered(HeavierSide(bull[d], bear[d], g), h, g)
          BY <1>2, <4>2, <5>1, <5>2, HeavierIsTempered
        <5> QED
          BY <5>1, <5>3 DEF h
      <4> QED
        BY <2>3, <4>4, <4>5, <4>6
    <3>3. \A e \in Debates \ {d} : Good(e)'
      BY <1>2, <1>3, <2>1, <3>1, <3>2
    <3>4. Good(d)'
      BY <1>2, <2>1, <3>2
    <3> QED
      BY <1>1, <3>3, <3>4
  <2>4. CASE Tell(d)
    <3>1. /\ stage' = [stage EXCEPT ![d] = "told"]
          /\ verdict' = [verdict EXCEPT ![d] = NoVerdict]
          /\ heard' = [heard EXCEPT ![d] = {}]
      BY <2>4 DEF Tell, Advance
    <3> QED
      BY <1>1, <1>2, <1>3, <2>1, <3>1
  <2>5. CASE Raises(d)
    <3>1. stage' = [stage EXCEPT ![d] = "raised"] /\ UNCHANGED <<verdict, heard>>
      BY <2>5 DEF Raises, Advance
    <3> QED
      BY <1>1, <1>2, <1>3, <2>1, <3>1
  <2> QED
    BY <1>8, <2>2, <2>3, <2>4, <2>5 DEF Step
<1> QED
  BY <1>4, <1>5, <1>6, <1>7, <1>8
     DEF DebatesNext, OnPredictionReady, TriggerDebate, Visit

-----------------------------------------------------------------------------
LEMMA InitHolds == DebatesInit => DebatesInv
<1> SUFFICES ASSUME DebatesInit PROVE DebatesInv
  OBVIOUS
<1>1. Failed \in Result /\ NoVerdict.tokens = 0
  BY DEF Failed, Result, NoVerdict
<1>2. DebatesTypeOK
  BY <1>1 DEF DebatesInit, DebatesTypeOK, Stages
<1>3. LastIsKnown /\ SpacedApart
  BY DEF DebatesInit, LastIsKnown, SpacedApart, Never
<1>4. CostsCovered
  <2>1. Charged = {}
    BY DEF DebatesInit, Charged
  <2>2. spent = 0 /\ peak = 0 /\ Budget \in Nat \ {0}
    BY DebateAssumption DEF DebatesInit
  <2> QED
    BY <2>1, <2>2, FS_EmptySet DEF CostsCovered
<1>5. VerdictIsTempered
  BY DEF DebatesInit, VerdictIsTempered
<1> QED
  BY <1>2, <1>3, <1>4, <1>5 DEF DebatesInv

LEMMA StepHolds == DebatesInv /\ [DebatesNext]_debateVars => DebatesInv'
  BY StepType, StepSpaced, StepCovered, StepTempered DEF DebatesInv

(* Every reachable state of the orchestrator is well typed, and its cost   *)
(* covered.                                                                *)
THEOREM DebatesInvariant == DebatesSpec => []DebatesInv
  BY InitHolds, StepHolds, PTL DEF DebatesSpec

(* For every rate limit, budget and set of symbols, and whatever is        *)
(* triggered, cancelled, refused or restarted: two debates of a symbol     *)
(* that the rate limit lets begin are RateLimit apart, and the budget of a *)
(* day is overrun by less than the debates that were under way at once.    *)
THEOREM DebatesAlwaysLimited == DebatesSpec => []DebatesLimited
<1>1. DebatesInv => DebatesLimited
  <2> SUFFICES ASSUME DebatesInv PROVE spent < Budget + peak
    BY DEF DebatesInv, DebatesLimited, OverrunIsBounded
  <2>1. spent \in Nat /\ peak \in Nat /\ Budget \in Nat /\ Cardinality(Charged) \in Nat
    BY DebateAssumption, SomeDebates DEF DebatesInv, DebatesTypeOK, Charged
  <2> QED
    BY <2>1 DEF DebatesInv, CostsCovered
<1> QED
  BY <1>1, DebatesInvariant, PTL

(* For every number the agents and the critic may answer, on every path of *)
(* timeouts, failures and exceptions, what is about to be told is          *)
(* tempered.                                                               *)
THEOREM VerdictAlwaysTempered == DebatesSpec => []VerdictIsTempered
<1>1. DebatesInv => VerdictIsTempered
  BY DEF DebatesInv
<1> QED
  BY <1>1, DebatesInvariant, PTL
=============================================================================
