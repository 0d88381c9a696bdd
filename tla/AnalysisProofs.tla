---------------------------- MODULE AnalysisProofs ----------------------------
(***************************************************************************)
(* Proofs about the features and what is made of them and of the past: the *)
(* rollback policies and session weights (Inference), for every answer of  *)
(* the models; the precedents of a debate (Retrieval), for every           *)
(* collection of points and every k; the brief of a debate                 *)
(* (TechnicalBrief); and the pivots of the feature pipeline                *)
(* (StructurePipeline), for every sequence of bars and every buffer.       *)
(***************************************************************************)
EXTENDS Inference, Retrieval, TechnicalBrief, StructurePipeline, FiniteSetTheorems,
        SequenceTheorems, NaturalsInduction, WellFoundedInduction, TLAPS

-----------------------------------------------------------------------------
(* Induction over the elements of a set, and recursion along a function of *)
(* the number and the value before: the forms the provers can instantiate. *)
LEMMA LeastExists ==
  ASSUME NEW T \in SUBSET Nat, T # {}
  PROVE  \E x \in T : \A y \in T : x <= y
<1> DEFINE R == OpToRel(<, Nat)
<1>1. \E x \in T : \A y \in T : ~ (<<y, x>> \in R)
  BY NatLessThanWellFounded, WFMin
<1>2. \A x, y \in Nat : <<y, x>> \in R <=> y < x
  BY DEF OpToRel
<1> HIDE DEF R
<1>3. PICK x \in T : \A y \in T : ~ (<<y, x>> \in R)
  BY <1>1
<1>4. \A y \in T : ~(y < x)
  BY <1>2, <1>3, Zenon
<1>5. \A y \in T : x <= y
  BY <1>4
<1> QED
  BY <1>5

LEMMA SetInduction ==
  ASSUME NEW T \in SUBSET Nat, 0 \in T, \A n \in T : n + 1 \in T
  PROVE  \A n \in Nat : n \in T
<1> DEFINE U == Nat \ T
<1> SUFFICES ASSUME U # {} PROVE FALSE
  OBVIOUS
<1>1. PICK k \in U : \A j \in U : k <= j
  <2>1. U \in SUBSET Nat
    OBVIOUS
  <2> HIDE DEF U
  <2> QED
    BY <2>1, LeastExists
<1>2. k \in Nat /\ k # 0 /\ k - 1 \in Nat /\ (k - 1) + 1 = k
  OBVIOUS
<1>3. k - 1 \in T
  BY <1>1, <1>2
<1> QED
  BY <1>1, <1>2, <1>3

(* g holds the first values of a recursion, up to n.                       *)
Chain(g, n, V, init, step) ==
  g \in [0..n -> V] /\ g[0] = init /\ \A i \in 0..n - 1 : g[i + 1] = step[<<i, g[i]>>]

LEMMA ChainsAgree ==
  ASSUME NEW V, NEW init, NEW step, NEW g, NEW h, NEW m \in Nat, NEW n \in Nat,
         Chain(g, m, V, init, step), Chain(h, n, V, init, step)
  PROVE  \A i \in 0..m : i <= n => g[i] = h[i]
<1> DEFINE T == {i \in Nat : i <= m /\ i <= n => g[i] = h[i]}
<1>1. 0 \in T
  BY DEF Chain
<1>2. ASSUME NEW i \in T PROVE i + 1 \in T
  <2> SUFFICES ASSUME i + 1 <= m, i + 1 <= n PROVE g[i + 1] = h[i + 1]
    OBVIOUS
  <2>1. i \in 0..m - 1 /\ i \in 0..n - 1 /\ g[i] = h[i]
    OBVIOUS
  <2> QED
    BY <2>1 DEF Chain
<1>3. \A i \in Nat : i \in T
  <2>1. T \in SUBSET Nat
    OBVIOUS
  <2> HIDE DEF T
  <2> QED
    BY <1>1, <1>2, <2>1, SetInduction
<1> QED
  BY <1>3

LEMMA ChainExists ==
  ASSUME NEW V, NEW init \in V, NEW step \in [Nat \X V -> V], NEW n \in Nat
  PROVE  \E g : Chain(g, n, V, init, step)
<1> DEFINE T == {i \in Nat : \E g : Chain(g, i, V, init, step)}
<1>1. 0 \in T
  <2> DEFINE g == [i \in 0..0 |-> init]
  <2>1. Chain(g, 0, V, init, step)
    BY DEF Chain
  <2> QED
    BY <2>1
<1>2. ASSUME NEW k \in T PROVE k + 1 \in T
  <2>1. PICK g : Chain(g, k, V, init, step)
    OBVIOUS
  <2> DEFINE h == [i \in 0..k + 1 |-> IF i = k + 1 THEN step[<<k, g[k]>>] ELSE g[i]]
  <2>2. /\ g \in [0..k -> V] /\ g[0] = init
        /\ \A i \in 0..k - 1 : g[i + 1] = step[<<i, g[i]>>]
    BY <2>1 DEF Chain
  <2>3. step[<<k, g[k]>>] \in V
    BY <2>2
  <2>4. h \in [0..k + 1 -> V]
    BY <2>2, <2>3
  <2>5. h[0] = init
    BY <2>2
  <2>6. ASSUME NEW i \in 0..k PROVE h[i + 1] = step[<<i, h[i]>>]
    <3>1. CASE i = k
      <4>1. k \in 0..k + 1 /\ k # k + 1 /\ k + 1 \in 0..k + 1
        OBVIOUS
      <4>2. h[k] = g[k] /\ h[k + 1] = step[<<k, g[k]>>]
        BY <4>1
      <4> QED
        BY <3>1, <4>2
    <3>2. CASE i # k
      <4>1. i \in 0..k - 1 /\ i + 1 \in 0..k + 1 /\ i \in 0..k + 1 /\ i # k + 1
        BY <3>2
      <4>2. h[i + 1] = g[i + 1] /\ h[i] = g[i]
        BY <3>2, <4>1
      <4> QED
        BY <2>2, <4>1, <4>2
    <3> QED
      BY <3>1, <3>2
  <2>7. (k + 1) - 1 = k
    OBVIOUS
  <2> HIDE DEF h
  <2>8. Chain(h, k + 1, V, init, step)
    BY <2>4, <2>5, <2>6, <2>7 DEF Chain
  <2> QED
    BY <2>8
<1>3. \A i \in Nat : i \in T
  <2>1. T \in SUBSET Nat
    OBVIOUS
  <2> HIDE DEF T
  <2> QED
    BY <1>1, <1>2, <2>1, SetInduction
<1> QED
  BY <1>3

(* f is what the recursion defines.                                        *)
Solves(f, V, init, step) ==
  f \in [Nat -> V] /\ f[0] = init /\ \A n \in Nat : f[n + 1] = step[<<n, f[n]>>]

LEMMA Recursion ==
  ASSUME NEW V, NEW init \in V, NEW step \in [Nat \X V -> V]
  PROVE  \E f : Solves(f, V, init, step)
<1> DEFINE C(n) == CHOOSE g : Chain(g, n, V, init, step)
           f == [n \in Nat |-> C(n)[n]]
<1>1. \A n \in Nat : Chain(C(n), n, V, init, step)
  <2> SUFFICES ASSUME NEW n \in Nat PROVE Chain(C(n), n, V, init, step)
    OBVIOUS
  <2>1. \E g : Chain(g, n, V, init, step)
    BY ChainExists
  <2> QED
    BY <2>1, Zenon
<1> HIDE DEF C
<1>2. f \in [Nat -> V]
  BY <1>1 DEF Chain
<1>3. f[0] = init
  BY <1>1 DEF Chain
<1>4. ASSUME NEW n \in Nat PROVE f[n + 1] = step[<<n, f[n]>>]
  <2>1. Chain(C(n), n, V, init, step) /\ Chain(C(n + 1), n + 1, V, init, step)
    BY <1>1
  <2>2. C(n)[n] = C(n + 1)[n]
    <3>1. \A i \in 0..n : i <= n + 1 => C(n)[i] = C(n + 1)[i]
      BY <2>1, ChainsAgree
    <3> QED
      BY <3>1
  <2>3. C(n + 1)[n + 1] = step[<<n, C(n + 1)[n]>>]
    BY <2>1 DEF Chain
  <2> QED
    BY <2>2, <2>3
<1> HIDE DEF f
<1> QED
  BY <1>2, <1>3, <1>4 DEF Solves

(* The same up to N.                                                       *)
SolvesTo(g, N, V, init, step) ==
  g \in [0..N -> V] /\ g[0] = init /\ \A k \in 1..N : g[k] = step[<<k - 1, g[k - 1]>>]

LEMMA BoundedRecursion ==
  ASSUME NEW N \in Nat, NEW V, NEW init \in V, NEW step \in [Nat \X V -> V]
  PROVE  \E g : SolvesTo(g, N, V, init, step)
<1>1. PICK f : Solves(f, V, init, step)
  BY Recursion, Zenon
<1>2. f \in [Nat -> V] /\ f[0] = init /\ \A n \in Nat : f[n + 1] = step[<<n, f[n]>>]
  BY <1>1 DEF Solves
<1> DEFINE g == [k \in 0..N |-> f[k]]
<1>3. g \in [0..N -> V] /\ g[0] = init
  BY <1>2
<1>4. ASSUME NEW k \in 1..N PROVE g[k] = step[<<k - 1, g[k - 1]>>]
  <2>1. k - 1 \in Nat /\ (k - 1) + 1 = k /\ k - 1 \in 0..N /\ k \in 0..N
    OBVIOUS
  <2>2. f[k] = step[<<k - 1, f[k - 1]>>]
    BY <1>2, <2>1
  <2> QED
    BY <2>1, <2>2
<1> HIDE DEF g
<1> QED
  BY <1>3, <1>4 DEF SolvesTo

(* b[k] is the sum of the first k of the n numbers s.                      *)
Sums(b, s, n) ==
  /\ b \in [0..n -> Nat]
  /\ b[0] = 0
  /\ \A k \in 1..n : b[k] = b[k - 1] + s[k]

LEMMA SumsExist ==
  ASSUME NEW n \in Nat, NEW s \in [1..n -> Nat]
  PROVE  \E b : Sums(b, s, n)
<1> DEFINE Add(k, t) == IF k + 1 \in 1..n THEN t + s[k + 1] ELSE t
           step == [p \in Nat \X Nat |-> Add(p[1], p[2])]
<1>1. step \in [Nat \X Nat -> Nat]
  <2>1. \A k \in Nat, t \in Nat : Add(k, t) \in Nat
    OBVIOUS
  <2> HIDE DEF Add
  <2> QED
    BY <2>1
<1>2. PICK b : SolvesTo(b, n, Nat, 0, step)
  <2> HIDE DEF step
  <2>1. 0 \in Nat
    OBVIOUS
  <2> QED
    BY <1>1, <2>1, BoundedRecursion, Zenon
<1>3. ASSUME NEW k \in 1..n PROVE b[k] = b[k - 1] + s[k]
  <2>1. k - 1 \in Nat /\ (k - 1) + 1 = k /\ k - 1 \in 0..n /\ b[k - 1] \in Nat
    BY <1>2 DEF SolvesTo
  <2>2. b[k] = Add(k - 1, b[k - 1])
    <3> HIDE DEF Add
    <3> QED
      BY <1>2, <2>1 DEF SolvesTo
  <2> QED
    BY <2>1, <2>2
<1> QED
  BY <1>2, <1>3 DEF Sums, SolvesTo

(* A function that is defined by adding them is the one that exists.       *)
LEMMA SumsAre ==
  ASSUME NEW n \in Nat, NEW s \in [1..n -> Nat], NEW b,
         b = [k \in 0..n |-> IF k = 0 THEN 0 ELSE b[k - 1] + s[k]]
  PROVE  Sums(b, s, n)
<1>1. b[0] = 0 /\ \A k \in 1..n : b[k] = b[k - 1] + s[k]
  OBVIOUS
<1> DEFINE T == {k \in Nat : k <= n => b[k] \in Nat}
<1>2. 0 \in T
  BY <1>1
<1>3. ASSUME NEW k \in T PROVE k + 1 \in T
  <2> SUFFICES ASSUME k + 1 <= n PROVE b[k + 1] \in Nat
    OBVIOUS
  <2>1. k \in Nat /\ b[k] \in Nat /\ k + 1 \in 1..n /\ (k + 1) - 1 = k /\ s[k + 1] \in Nat
    OBVIOUS
  <2>2. b[k + 1] = b[k] + s[k + 1]
    BY <1>1, <2>1
  <2> QED
    BY <2>1, <2>2
<1>4. \A k \in Nat : k \in T
  <2>1. T \in SUBSET Nat
    OBVIOUS
  <2> HIDE DEF T
  <2> QED
    BY <1>2, <1>3, <2>1, SetInduction
<1>5. b \in [0..n -> Nat]
  <2>1. ASSUME NEW k \in 0..n PROVE b[k] \in Nat
    <3>1. k \in Nat /\ k <= n
      OBVIOUS
    <3> QED
      BY <1>4, <3>1
  <2>2. b = [k \in 0..n |-> b[k]]
    OBVIOUS
  <2> QED
    BY <2>1, <2>2
<1> QED
  BY <1>1, <1>5 DEF Sums

-----------------------------------------------------------------------------
(* The session weights.                                                    *)
LEMMA AnswersAreExact ==
  ASSUME NEW raw \in RawA
  PROVE  /\ raw \in [b : Nat, s : Nat, l : Nat] /\ raw.b + raw.s + raw.l = One
         /\ \E b, s \in Nat : raw.b = 10 * b /\ raw.s = 10 * s
<1>1. /\ raw \in [b : Nat, s : Nat, l : Nat] /\ raw.b + raw.s + raw.l = One
      /\ raw.b % 10 = 0 /\ raw.s % 10 = 0
  BY InferenceAssumption
<1>2. /\ raw.b \div 10 \in Nat /\ raw.b = 10 * (raw.b \div 10)
      /\ raw.s \div 10 \in Nat /\ raw.s = 10 * (raw.s \div 10)
  BY <1>1
<1> QED
  BY <1>1, <1>2

(* The boost moves a fifth of both directions to LATERAL, in full.         *)
LEMMA BoostKeeps ==
  ASSUME NEW raw \in RawA, NEW regime \in Regimes
  PROVE  LET p == Boost(raw, regime) IN
         /\ p \in [b : Nat, s : Nat, l : Nat] /\ p.b + p.s + p.l = One
         /\ p.b <= raw.b /\ p.l >= raw.l
         /\ p.b >= p.s => raw.b >= raw.s
<1>1. PICK b, s \in Nat : raw.b = 10 * b /\ raw.s = 10 * s
  BY AnswersAreExact
<1>2. raw \in [b : Nat, s : Nat, l : Nat] /\ raw.b + raw.s + raw.l = One
  BY AnswersAreExact
<1>3. /\ (raw.b * 8) \div 10 = 8 * b /\ (raw.s * 8) \div 10 = 8 * s
      /\ ((raw.b + raw.s) * 2) \div 10 = 2 * (b + s)
  BY <1>1
<1>4. CASE regime \in {0, 1} /\ raw.b + raw.s > 0
  <2>1. Boost(raw, regime) = [b |-> 8 * b, s |-> 8 * s, l |-> raw.l + 2 * (b + s)]
    BY <1>3, <1>4 DEF Boost
  <2> QED
    BY <1>1, <1>2, <2>1
<1>5. CASE ~(regime \in {0, 1} /\ raw.b + raw.s > 0)
  <2>1. Boost(raw, regime) = raw
    BY <1>5 DEF Boost
  <2> QED
    BY <1>2, <2>1
<1> QED
  BY <1>4, <1>5

LEMMA WeightsKeep ==
  ASSUME NEW raw \in RawA, NEW regime \in Regimes, NEW evidence \in Evidence
  PROVE  LET p == SessionWeights(raw, regime, evidence) IN
         /\ p.b \in Int /\ p.s \in Int /\ p.l \in Nat /\ p.b + p.s + p.l = One
         /\ p.b <= raw.b /\ p.l >= raw.l
         /\ p.b >= p.s => raw.b >= raw.s
<1> DEFINE q == Boost(raw, regime)
           shift == IF evidence > 5 THEN (q.b * evidence) \div 100 ELSE 0
           p == SessionWeights(raw, regime, evidence)
<1>1. /\ q \in [b : Nat, s : Nat, l : Nat] /\ q.b + q.s + q.l = One
      /\ q.b <= raw.b /\ q.l >= raw.l /\ (q.b >= q.s => raw.b >= raw.s)
  BY BoostKeeps
<1>2. evidence \in Nat
  <2>1. Evidence \subseteq 0..10
    BY InferenceAssumption
  <2> QED
    BY <2>1
<1>3. raw \in [b : Nat, s : Nat, l : Nat]
  BY AnswersAreExact
<1>4. p = [q EXCEPT !.b = @ - shift, !.s = @ + shift]
  BY DEF SessionWeights, BearShift
<1>5. shift \in Nat
  <2>1. q.b * evidence \in Nat
    BY <1>1, <1>2, Z3
  <2> HIDE DEF q
  <2> QED
    BY <2>1
<1> HIDE DEF q, shift, p
<1>6. p.b = q.b - shift /\ p.s = q.s + shift /\ p.l = q.l
  BY <1>1, <1>4
<1> QED
  BY <1>1, <1>3, <1>5, <1>6 DEF p

-----------------------------------------------------------------------------
(* The decisions.                                                          *)
LEMMA PoliciesNest ==
  ASSUME NEW a, NEW b, NEW regime, NEW market
  PROVE  /\ ShouldRollback("conservative", a, b, regime, market)
              => ShouldRollback("standard", a, b, regime, market)
         /\ ShouldRollback("standard", a, b, regime, market)
              => ShouldRollback("aggressive", a, b, regime, market)
BY DEF ShouldRollback, Conservative, Standard, Aggressive

LEMMA RollbackIsCautious ==
  ASSUME NEW policy \in Policies, NEW regime, NEW market \in Markets, NEW a, NEW b,
         policy # "conservative", ~ShouldRollback(policy, a, b, regime, market),
         a.label \in Labels
  PROVE  \/ ~Directional(a.label)
         \/ /\ a.confidence # "LOW"
            /\ policy = "aggressive" =>
                 market.momentum = 0 \/ (market.momentum > 0) = (a.label = "BSL")
<1>1. market.momentum \in Int
  BY InferenceAssumption
<1>2. a.confidence # "LOW"
  BY DEF Policies, ShouldRollback, Standard, Aggressive
<1>3. policy = "aggressive" =>
        /\ ~(a.label = "BSL" /\ market.momentum < 0)
        /\ ~(a.label = "SSL" /\ market.momentum > 0)
  BY DEF ShouldRollback, Aggressive
<1>4. a.label \in {"BSL", "SSL", "LATERAL"}
  BY DEF Labels
<1>5. CASE a.label = "LATERAL"
  BY <1>5 DEF Directional
<1>6. CASE a.label = "BSL"
  <2>1. policy = "aggressive" => market.momentum = 0 \/ market.momentum > 0
    BY <1>1, <1>3, <1>6
  <2> QED
    BY <1>2, <1>6, <2>1
<1>7. CASE a.label = "SSL"
  <2>1. policy = "aggressive" => market.momentum = 0 \/ ~(market.momentum > 0)
    BY <1>1, <1>3, <1>7
  <2> QED
    BY <1>2, <1>7, <2>1
<1> QED
  BY <1>4, <1>5, <1>6, <1>7

LEMMA LabelIsLabel == \A p : Label(p) \in Labels
BY DEF Label, Labels

LEMMA AnswerIsLabelled ==
  ASSUME NEW raw, NEW regime, NEW evidence, NEW weighted
  PROVE  PredictA(raw, regime, evidence, weighted).label \in Labels
<1>1. CASE "A" \in trained
  BY <1>1, LabelIsLabel DEF PredictA
<1>2. CASE "A" \notin trained
  BY <1>2 DEF PredictA, DefaultA, Labels
<1> QED
  BY <1>1, <1>2

(* What a fitted A answers with or without the session weights.            *)
LEMMA AnswerIsCautious ==
  ASSUME NEW raw \in RawA, NEW regime \in Regimes, NEW evidence \in Evidence,
         NEW weighted \in BOOLEAN, "A" \in trained
  PROVE  LET a == PredictA(raw, regime, evidence, weighted) IN
         /\ a.p.b + a.p.s + a.p.l = One
         /\ a.p.b <= raw.b /\ a.p.l >= raw.l
         /\ a.label = "BSL" => Label(raw) = "BSL"
<1> DEFINE p == IF weighted THEN SessionWeights(raw, regime, evidence) ELSE raw
           a == PredictA(raw, regime, evidence, weighted)
<1>1. raw \in [b : Nat, s : Nat, l : Nat] /\ raw.b + raw.s + raw.l = One
  BY AnswersAreExact
<1>2. /\ p.b \in Int /\ p.s \in Int /\ p.l \in Nat /\ p.b + p.s + p.l = One
      /\ p.b <= raw.b /\ p.l >= raw.l /\ (p.b >= p.s => raw.b >= raw.s)
  <2>1. CASE weighted
    BY <2>1, WeightsKeep
  <2>2. CASE ~weighted
    BY <1>1, <2>2
  <2> QED
    BY <2>1, <2>2
<1>3. a.p = p /\ a.label = Label(p)
  BY DEF PredictA
<1> HIDE DEF p, a
<1>4. Label(p) = "BSL" => p.b >= p.s /\ p.b >= p.l
  BY DEF Label
<1>5. Label(p) = "BSL" => raw.b >= raw.s /\ raw.b >= raw.l
  BY <1>1, <1>2, <1>4
<1>6. Label(p) = "BSL" => Label(raw) = "BSL"
  BY <1>5 DEF Label
<1> QED
  BY <1>2, <1>3, <1>6 DEF a

(* A result says what was decided, and on what.                            *)
LEMMA ResultSays ==
  ASSUME NEW entry, NEW policy, NEW raw, NEW weighted, NEW market, NEW regime, NEW a, NEW ens,
         NEW tried, NEW b
  PROVE  LET r == Result(entry, policy, raw, weighted, market, regime, a, ens, tried, b) IN
         /\ r.entry = entry /\ r.policy = policy /\ r.raw = raw /\ r.weighted = weighted
         /\ r.momentum = market.momentum /\ r.a = a /\ r.ensemble = ens /\ r.checked = tried
         /\ r.verdicts = {q \in Policies : ShouldRollback(q, tried, b, regime, market)}
BY DEF Result

LEMMA VerdictsNest ==
  ASSUME NEW a, NEW b, NEW regime, NEW market,
         out'.verdicts = {q \in Policies : ShouldRollback(q, a, b, regime, market)}
  PROVE  PoliciesOrdered'
BY PoliciesNest DEF PoliciesOrdered, Policies

LEMMA RollbackKeeps ==
  ASSUME NEW policy \in Policies, NEW raw \in RawA, NEW regime \in Regimes,
         NEW evidence \in Evidence, NEW weighted \in BOOLEAN, NEW market \in Markets, NEW p,
         RunWithRollback(policy, raw, regime, evidence, weighted, market, p)
  PROVE  DecisionsCautious'
<1> DEFINE a == PredictA(raw, regime, evidence, weighted)
           b == IF p = None THEN None ELSE PredictB(p[1])
           roll == ShouldRollback(policy, a, b, regime, market)
           final == IF roll THEN RolledBack ELSE a
<1>1. /\ out' = Result("rollback", policy, raw, a, market, regime, final, None, a, b)
      /\ trained' = trained
  BY DEF RunWithRollback
<1>2. a.label \in Labels
  BY AnswerIsLabelled
<1>3. "A" \in trained => /\ a.p.b + a.p.s + a.p.l = One
                         /\ a.p.b <= raw.b /\ a.p.l >= raw.l
                         /\ a.label = "BSL" => Label(raw) = "BSL"
  BY AnswerIsCautious
<1> HIDE DEF a, b
<1>4. /\ out'.entry = "rollback" /\ out'.policy = policy /\ out'.raw = raw /\ out'.weighted = a
      /\ out'.momentum = market.momentum /\ out'.a = final /\ out'.ensemble = None
      /\ out'.checked = a
      /\ out'.verdicts = {q \in Policies : ShouldRollback(q, a, b, regime, market)}
  BY <1>1, ResultSays
<1>5. policy # "conservative" /\ ~roll =>
        \/ ~Directional(a.label)
        \/ /\ a.confidence # "LOW"
           /\ policy = "aggressive" =>
                market.momentum = 0 \/ (market.momentum > 0) = (a.label = "BSL")
  BY <1>2, RollbackIsCautious
<1>6. DirectionalIsConfident'
  <2>1. Decision' = final
    BY <1>4 DEF Decision
  <2>2. CASE roll
    <3>1. final.label = "LATERAL"
      BY <2>2 DEF RolledBack
    <3> QED
      BY <2>1, <3>1 DEF DirectionalIsConfident, Directional
  <2>3. CASE ~roll
    <3>1. final = a
      BY <2>3
    <3> HIDE DEF roll, final
    <3> QED
      BY <1>4, <1>5, <2>1, <2>3, <3>1 DEF DirectionalIsConfident
  <2> QED
    BY <2>2, <2>3
<1>7. PoliciesOrdered'
  BY <1>4, VerdictsNest
<1>8. WeightingIsCautious'
  BY <1>1, <1>3, <1>4 DEF WeightingIsCautious
<1> QED
  BY <1>6, <1>7, <1>8 DEF DecisionsCautious

LEMMA EnsembleKeeps ==
  ASSUME NEW policy \in Policies, NEW raw \in RawA, NEW regime \in Regimes,
         NEW evidence \in Evidence, NEW weighted \in BOOLEAN, NEW market \in Markets, NEW p,
         NEW answer,
         RunWithEnsemble(policy, raw, regime, evidence, weighted, market, p, answer)
  PROVE  DecisionsCautious'
<1> DEFINE a == PredictA(raw, regime, evidence, weighted)
           b == IF p = None THEN None ELSE PredictB(p[1])
           meta == "ensemble" \in trained
           tried == IF meta THEN EnsembleOutput(answer) ELSE a
           roll == ShouldRollback(policy, tried, b, regime, market)
           ens == IF ~meta THEN None
                  ELSE IF roll THEN [p |-> RolledBack.p, label |-> "LATERAL"]
                  ELSE [p |-> answer, label |-> Label(answer)]
<1>1. /\ out' = Result("ensemble", policy, raw, a, market, regime, a, ens, tried, b)
      /\ trained' = trained
  BY DEF RunWithEnsemble
<1>2. tried.label \in Labels /\ (meta => tried.label = Label(answer))
  BY AnswerIsLabelled, LabelIsLabel DEF EnsembleOutput
<1>3. "A" \in trained => /\ a.p.b + a.p.s + a.p.l = One
                         /\ a.p.b <= raw.b /\ a.p.l >= raw.l
                         /\ a.label = "BSL" => Label(raw) = "BSL"
  BY AnswerIsCautious
<1>4. /\ ~meta => ens = None
      /\ meta /\ roll => ens.label = "LATERAL"
      /\ meta /\ ~roll => ens.label = Label(answer)
  OBVIOUS
<1> HIDE DEF a, b, tried, ens
<1>5. /\ out'.entry = "ensemble" /\ out'.policy = policy /\ out'.raw = raw /\ out'.weighted = a
      /\ out'.momentum = market.momentum /\ out'.ensemble = ens /\ out'.checked = tried
      /\ out'.verdicts = {q \in Policies : ShouldRollback(q, tried, b, regime, market)}
  BY <1>1, ResultSays
<1>6. policy # "conservative" /\ ~roll =>
        \/ ~Directional(tried.label)
        \/ /\ tried.confidence # "LOW"
           /\ policy = "aggressive" =>
                market.momentum = 0 \/ (market.momentum > 0) = (tried.label = "BSL")
  BY <1>2, RollbackIsCautious
<1> HIDE DEF roll, meta
<1>7. DirectionalIsConfident'
  <2> SUFFICES ASSUME policy # "conservative", ens # None
               PROVE  \/ ~Directional(ens.label)
                      \/ /\ tried.confidence # "LOW"
                         /\ policy = "aggressive" =>
                              market.momentum = 0 \/ (market.momentum > 0) = (ens.label = "BSL")
    BY <1>5 DEF DirectionalIsConfident, Decision
  <2>1. CASE roll
    BY <1>4, <2>1 DEF Directional
  <2>2. CASE ~roll
    <3>1. ens.label = tried.label
      BY <1>2, <1>4, <2>2
    <3> QED
      BY <1>6, <2>2, <3>1
  <2> QED
    BY <2>1, <2>2
<1>8. PoliciesOrdered'
  BY <1>5, VerdictsNest
<1>9. WeightingIsCautious'
  BY <1>1, <1>3, <1>5 DEF WeightingIsCautious
<1> QED
  BY <1>7, <1>8, <1>9 DEF DecisionsCautious

(* A result that is no decision.                                           *)
LEMMA NoDecision ==
  ASSUME out'.entry \notin {"rollback", "ensemble"}
  PROVE  DecisionsCautious'
BY DEF DecisionsCautious, DirectionalIsConfident, PoliciesOrdered, WeightingIsCautious, Done

LEMMA DecisionsKeep == DecisionsCautious /\ [InferenceNext]_inferenceVars => DecisionsCautious'
<1> SUFFICES ASSUME DecisionsCautious, [InferenceNext]_inferenceVars PROVE DecisionsCautious'
  OBVIOUS
<1>1. CASE Fit
  <2>1. (out' = out /\ out = NoResult) \/ out'.entry = "build"
    BY <1>1 DEF Fit, FitA, FitB, FitEnsemble, Build
  <2>2. out'.entry \notin {"rollback", "ensemble"}
    BY <2>1 DEF NoResult
  <2> QED
    BY <2>2, NoDecision
<1>2. CASE Run
  <2>1. PICK policy \in Policies, raw \in RawA, regime \in Regimes, evidence \in Evidence,
             weighted \in BOOLEAN, market \in Markets, p \in {None} \cup {<<q>> : q \in RawB} :
          \/ RunWithRollback(policy, raw, regime, evidence, weighted, market, p)
          \/ \E answer \in (IF "ensemble" \in trained THEN RawA ELSE {raw}) :
                RunWithEnsemble(policy, raw, regime, evidence, weighted, market, p, answer)
    BY <1>2 DEF Run
  <2> QED
    BY <2>1, RollbackKeeps, EnsembleKeeps
<1>3. CASE Take
  <2>1. out'.entry \notin {"rollback", "ensemble"}
    BY <1>3 DEF Take, NoResult
  <2> QED
    BY <2>1, NoDecision
<1>4. CASE UNCHANGED inferenceVars
  BY <1>4 DEF inferenceVars, DecisionsCautious, DirectionalIsConfident, PoliciesOrdered,
     WeightingIsCautious, Done, Decision
<1> QED
  BY <1>1, <1>2, <1>3, <1>4 DEF InferenceNext

(* For every answer of the models, fitted or not, every regime, evidence   *)
(* and market: what is decided for one side is confident and, under the    *)
(* aggressive policy, not against the momentum; the policies are ordered;  *)
(* and the session weights keep a distribution that leans no more to the   *)
(* bullish side than before.                                               *)
THEOREM DecisionsAlwaysCautious == InferenceSpec => []DecisionsCautious
<1>1. InferenceInit => DecisionsCautious
  BY DEF InferenceInit, NoResult, DecisionsCautious, DirectionalIsConfident, PoliciesOrdered,
     WeightingIsCautious, Done
<1> QED
  BY <1>1, DecisionsKeep, PTL DEF InferenceSpec

-----------------------------------------------------------------------------
(* The precedents.  Cardinalities are about finite collections, so the     *)
(* invariant adds that the collection is one.                              *)
RetrievalInv ==
  /\ IsFiniteSet(DOMAIN stored)
  /\ \A i \in DOMAIN stored : stored[i].sim \in Int
  /\ HitsAreNearest

(* The points of M that are nearer to the embedding than h.                *)
Nearer(M, h) == {j \in M : Sim(j) > Sim(h)}

LEMMA MatchingIsStored ==
  \A sym, label : Matching(sym, label) \subseteq DOMAIN stored
BY DEF Matching

(* Of the n nearest points no other point of the set is farther away.      *)
LEMMA NearestAreFew ==
  ASSUME provider = "chromadb", IsFiniteSet(DOMAIN stored),
         \A i \in DOMAIN stored : stored[i].sim \in Int,
         NEW S, S \subseteq DOMAIN stored, NEW T \in NearestPoints(S, K), NEW h \in T
  PROVE  /\ T \subseteq S
         /\ \A M \in SUBSET S : Cardinality(Nearer(M, h)) < K
<1> DEFINE k == IF Cardinality(S) < K THEN Cardinality(S) ELSE K
<1>1. {i \in S : provider = "qdrant" => Sim(i) >= 0} = S
  OBVIOUS
<1>2. T \in kSubset(k, S) /\ \A i \in T, j \in S \ T : Sim(i) >= Sim(j)
  BY <1>1 DEF NearestPoints
<1>3. T \subseteq S /\ Cardinality(T) = k
  BY <1>2 DEF kSubset
<1>4. IsFiniteSet(S) /\ IsFiniteSet(T)
  BY <1>3, FS_Subset
<1>5. Cardinality(S) \in Nat /\ Cardinality(T) \in Nat /\ Cardinality(T) <= K /\ K \in Nat
  BY <1>3, <1>4, FS_CardinalityType, RetrievalAssumption
<1>6. ASSUME NEW M \in SUBSET S
      PROVE  Cardinality(Nearer(M, h)) < K
  <2> DEFINE N == Nearer(M, h)
  <2>1. ASSUME NEW j \in N PROVE j \in T \ {h}
    <3>1. j \in S /\ h \in S /\ Sim(j) > Sim(h) /\ Sim(j) \in Int /\ Sim(h) \in Int
      BY <1>3, <1>6, <2>1 DEF Sim, Nearer
    <3>2. ~(Sim(h) >= Sim(j))
      BY <3>1
    <3>3. j \in T
      BY <1>2, <3>1, <3>2
    <3>4. j # h
      BY <3>1
    <3> QED
      BY <3>3, <3>4
  <2> HIDE DEF N
  <2>2. N \subseteq T \ {h} /\ IsFiniteSet(T \ {h})
    BY <1>4, <2>1, FS_Subset
  <2>3. Cardinality(T \ {h}) = Cardinality(T) - 1
    BY <1>4, FS_RemoveElement
  <2>4. Cardinality(N) <= Cardinality(T \ {h}) /\ Cardinality(N) \in Nat
    <3>1. IsFiniteSet(N) /\ Cardinality(N) <= Cardinality(T \ {h})
      BY <2>2, FS_Subset
    <3> QED
      BY <3>1, FS_CardinalityType
  <2>5. Cardinality(N) < K
    BY <1>5, <2>3, <2>4
  <2> QED
    BY <2>5 DEF N
<1> QED
  BY <1>3, <1>6

(* A ranking has only what was ranked.                                     *)
LEMMA RankedAreGiven ==
  ASSUME NEW T, IsFiniteSet(T), NEW s \in Ranked(T), NEW n \in 1..Len(s)
  PROVE  s[n] \in T
<1>1. PICK r \in SetToSeqs(T) : s = SubSeq(r, 1, IF Len(r) < K THEN Len(r) ELSE K)
  BY DEF Ranked
<1>2. Cardinality(T) \in Nat
  BY FS_CardinalityType
<1>3. r \in [1..Cardinality(T) -> T]
  BY <1>1 DEF SetToSeqs
<1>4. r \in Seq(T)
  BY <1>2, <1>3, SeqDef
<1> DEFINE m == IF Len(r) < K THEN Len(r) ELSE K
<1>5. Len(r) \in Nat /\ K \in Nat /\ K > 0
  BY <1>4, LenProperties, RetrievalAssumption
<1>6. m \in 0..Len(r)
  BY <1>5
<1>7. s = SubSeq(r, 1, m)
  BY <1>1
<1> HIDE DEF m
<1>8. SubSeq(r, 1, m) \in Seq(T)
  BY <1>4, <1>5, <1>6, SMT
<1> QED
  BY <1>7, <1>8, ElementOfSeq

(* What the adapter of Chroma gives for debates.                           *)
LEMMA AnswersAreNearest ==
  ASSUME RetrievalInv, provider = "chromadb", collection = "debates",
         NEW sym, NEW label, NEW filtered \in BOOLEAN,
         NEW s \in Answers(sym, label, filtered), NEW n \in 1..Len(s)
  PROVE  /\ s[n] \in Matching(sym, label)
         /\ Cardinality(Nearer(Matching(sym, label), s[n])) < K
<1> DEFINE M == Matching(sym, label)
<1>1. M \subseteq DOMAIN stored /\ IsFiniteSet(DOMAIN stored)
      /\ \A i \in DOMAIN stored : stored[i].sim \in Int
  BY MatchingIsStored DEF RetrievalInv
<1>2. connected
  <2> SUFFICES ASSUME ~connected PROVE FALSE
    OBVIOUS
  <2>1. s = <<>> /\ Len(s) = 0
    BY DEF Answers
  <2> QED
    BY <2>1
<1>3. PICK T \in ChromaDebates(sym, label, filtered) : s \in Ranked(T)
  BY <1>2 DEF Answers
<1> HIDE DEF M
<1>4. CASE filtered
  <2>1. T \in NearestPoints(M, K)
    BY <1>3, <1>4 DEF ChromaDebates, M
  <2>2. IsFiniteSet(T)
    <3>1. T \subseteq M
      BY <2>1 DEF NearestPoints, kSubset
    <3> QED
      BY <1>1, <3>1, FS_Subset
  <2>3. s[n] \in T
    BY <1>3, <2>2, RankedAreGiven
  <2>4. T \subseteq M /\ \A N \in SUBSET M : Cardinality(Nearer(N, s[n])) < K
    BY <1>1, <2>1, <2>3, NearestAreFew
  <2> QED
    BY <2>3, <2>4 DEF M
<1>5. CASE ~filtered
  <2>1. PICK U \in NearestPoints(DOMAIN stored, K) : T = U \cap M
    BY <1>3, <1>5 DEF ChromaDebates, M
  <2>2. IsFiniteSet(T)
    BY <1>1, <2>1, FS_Subset
  <2>3. s[n] \in U /\ s[n] \in M
    BY <1>3, <2>1, <2>2, RankedAreGiven
  <2>4. \A N \in SUBSET DOMAIN stored : Cardinality(Nearer(N, s[n])) < K
    BY <1>1, <2>1, <2>3, NearestAreFew
  <2> QED
    BY <1>1, <2>3, <2>4 DEF M
<1> QED
  BY <1>4, <1>5

(* Without hits, or with the same ones, there is nothing to show.          *)
LEMMA NoHits ==
  ASSUME hits' = <<>>
  PROVE  HitsAreNearest'
BY DEF HitsAreNearest

LEMMA AskKeeps ==
  ASSUME RetrievalInv, NEW sym, NEW label, Ask(sym, label), UNCHANGED storeVars
  PROVE  HitsAreNearest'
<1>1. PICK filtered \in BOOLEAN :
        /\ hits' \in Answers(sym, label, filtered)
        /\ question' = [symbol |-> sym, label |-> label, filtered |-> filtered]
  BY DEF Ask
<1>2. question'.symbol = sym /\ question'.label = label /\ stored' = stored
      /\ provider' = provider /\ collection' = collection
  BY <1>1 DEF storeVars
<1>3. ASSUME provider = "chromadb", collection = "debates", NEW n \in 1..Len(hits')
      PROVE  /\ hits'[n] \in Matching(sym, label)
             /\ Cardinality(Nearer(Matching(sym, label), hits'[n])) < K
  BY <1>1, <1>3, AnswersAreNearest
<1> QED
  BY <1>2, <1>3 DEF HitsAreNearest, Matching, Nearer, Sim

LEMMA InsertPointKeeps ==
  ASSUME RetrievalInv, NEW i \in Ids, NEW p \in [label : PointLabels, sim : Similarities],
         Insert(i, p)
  PROVE  RetrievalInv'
<1>1. hits' = <<>>
  BY DEF Insert, Forgotten
<1>2. p.sim \in Int
  BY RetrievalAssumption
<1>3. stored' = stored \/ stored' = Upserted(i, p)
  BY DEF Insert, Added
<1>4. CASE stored' = stored
  BY <1>1, <1>4, NoHits DEF RetrievalInv
<1>5. CASE stored' = Upserted(i, p)
  <2>1. /\ DOMAIN stored' = DOMAIN stored \cup {i}
        /\ \A j \in DOMAIN stored \cup {i} : stored'[j] = IF j = i THEN p ELSE stored[j]
    BY <1>5 DEF Upserted
  <2>2. IsFiniteSet(DOMAIN stored')
    BY <2>1, FS_AddElement DEF RetrievalInv
  <2>3. \A j \in DOMAIN stored' : stored'[j].sim \in Int
    BY <1>2, <2>1 DEF RetrievalInv
  <2> QED
    BY <1>1, <2>2, <2>3, NoHits DEF RetrievalInv
<1> QED
  BY <1>3, <1>4, <1>5

LEMMA RetrievalKeeps == RetrievalInv /\ [RetrievalNext]_retrievalVars => RetrievalInv'
<1> SUFFICES ASSUME RetrievalInv, [RetrievalNext]_retrievalVars PROVE RetrievalInv'
  OBVIOUS
<1>1. ASSUME stored' = stored, HitsAreNearest' PROVE RetrievalInv'
  BY <1>1 DEF RetrievalInv
<1>2. ASSUME stored' = stored, hits' = <<>> PROVE RetrievalInv'
  BY <1>1, <1>2, NoHits
<1>3. CASE Connect \/ Close \/ NextBucket \/ \E sym \in Symbols : InvalidateCache(sym)
  BY <1>2, <1>3 DEF Connect, Close, NextBucket, InvalidateCache, Forgotten, storeVars
<1>4. ASSUME NEW i \in Ids, NEW p \in [label : PointLabels, sim : Similarities], Insert(i, p)
      PROVE  RetrievalInv'
  BY <1>4, InsertPointKeeps
<1>5. ASSUME NEW sym, NEW label, Search(sym, label)
      PROVE  RetrievalInv'
  <2>1. Ask(sym, label) /\ UNCHANGED storeVars
    BY <1>5 DEF Search
  <2> QED
    BY <1>1, <2>1, AskKeeps DEF storeVars
<1>6. ASSUME NEW key \in RagKeys, NEW e, Retrieve(key, e)
      PROVE  RetrievalInv'
  <2>1. UNCHANGED storeVars /\ stored' = stored
    BY <1>6 DEF Retrieve, storeVars
  <2>2. Forgotten \/ Ask(key[1], key[2])
    BY <1>6 DEF Retrieve
  <2>3. CASE Forgotten
    BY <1>2, <2>1, <2>3 DEF Forgotten
  <2>4. CASE Ask(key[1], key[2])
    BY <1>1, <2>1, <2>4, AskKeeps
  <2> QED
    BY <2>2, <2>3, <2>4
<1>7. CASE UNCHANGED retrievalVars
  BY <1>7 DEF retrievalVars, RetrievalInv, HitsAreNearest, Matching, Sim
<1> QED
  BY <1>3, <1>4, <1>5, <1>6, <1>7 DEF RetrievalNext

(* A debate that search_similar_debates of Chroma's adapter gives is of    *)
(* the symbol and regime asked for, and fewer than k such debates are      *)
(* nearer, for every collection, k and similarity, and also when the query *)
(* with the filter is refused.                                             *)
THEOREM HitsAreAlwaysNearest == RetrievalSpec => []HitsAreNearest
<1>1. RetrievalInit => RetrievalInv
  <2> SUFFICES ASSUME RetrievalInit PROVE RetrievalInv
    OBVIOUS
  <2>1. DOMAIN stored = {} /\ hits = <<>>
    BY DEF RetrievalInit
  <2> QED
    BY <2>1, FS_EmptySet DEF RetrievalInv, HitsAreNearest
<1>2. RetrievalInv => HitsAreNearest
  BY DEF RetrievalInv
<1> QED
  BY <1>1, <1>2, RetrievalKeeps, PTL DEF RetrievalSpec

-----------------------------------------------------------------------------
(* The threshold of model B.                                               *)
ScoreSet == [tp : Nat, found : Nat, real : Nat]

LEMMA ScoreTyped ==
  ASSUME NEW sample \in Samples, NEW t
  PROVE  F1(sample, t) \in ScoreSet
<1>1. DOMAIN sample = 1..Len(sample) /\ Len(sample) \in Nat
  BY InferenceAssumption
<1>2. ASSUME NEW pred, NEW y PROVE Count(sample, t, pred, y) \in Nat
  <2> DEFINE S == {i \in DOMAIN sample : (sample[i].p >= t) = pred /\ sample[i].y = y}
  <2>1. IsFiniteSet(1..Len(sample)) /\ S \subseteq 1..Len(sample)
    BY <1>1, FS_Interval
  <2> HIDE DEF S
  <2>2. Cardinality(S) \in Nat
    BY <2>1, FS_Subset, FS_CardinalityType
  <2> QED
    BY <2>2 DEF Count, S
<1>3. /\ Count(sample, t, TRUE, 1) \in Nat /\ Count(sample, t, TRUE, 0) \in Nat
      /\ Count(sample, t, FALSE, 1) \in Nat
  BY <1>2
<1>4. \A m, n, k \in Nat : [tp |-> m, found |-> m + n, real |-> m + k] \in ScoreSet
  BY DEF ScoreSet
<1> QED
  BY <1>3, <1>4 DEF F1

LEMMA ProductsOrdered ==
  ASSUME NEW x \in Int, NEW y \in Int, NEW z \in Nat \ {0}
  PROVE  /\ x <= y => x * z <= y * z
         /\ x < y => x * z < y * z
  BY Z3

(* z/r is at most y/q and y/q at most x/p, so z/r is at most x/p; and less *)
(* if one of the two is less.                                              *)
LEMMA FractionsOrdered ==
  ASSUME NEW x \in Nat, NEW y \in Nat, NEW z \in Nat,
         NEW p \in Nat \ {0}, NEW q \in Nat \ {0}, NEW r \in Nat \ {0},
         y * p <= x * q, z * q <= y * r
  PROVE  /\ z * p <= x * r
         /\ y * p < x * q \/ z * q < y * r => z * p < x * r
<1>1. (y * p) * r <= (x * q) * r /\ (z * q) * p <= (y * r) * p
  BY ProductsOrdered
<1>2. ASSUME x * r < z * p PROVE FALSE
  <2>1. (x * r) * q < (z * p) * q
    BY <1>2, ProductsOrdered
  <2> QED
    BY <1>1, <2>1
<1>3. ASSUME y * p < x * q \/ z * q < y * r, x * r <= z * p PROVE FALSE
  <2>1. (x * r) * q <= (z * p) * q
    BY <1>3, ProductsOrdered
  <2>2. (y * p) * r < (x * q) * r \/ (z * q) * p < (y * r) * p
    BY <1>3, ProductsOrdered
  <2> QED
    BY <1>1, <2>1, <2>2
<1> QED
  BY <1>2, <1>3

(* A score that beats one that is not beaten by another beats that, too.   *)
LEMMA BetterCarries ==
  ASSUME NEW a \in ScoreSet, NEW b \in ScoreSet, NEW c \in ScoreSet, ~Better(a, b), Better(c, b)
  PROVE  Better(c, a)
<1> DEFINE Size(f) == f.found + f.real
           Square(f) == f.tp * f.tp
<1>1. /\ a.tp \in Nat /\ b.tp \in Nat /\ c.tp \in Nat
      /\ Size(a) \in Nat /\ Size(b) \in Nat /\ Size(c) \in Nat
      /\ c.tp # 0
  BY DEF ScoreSet, Better
<1>2. Tiny(a) \in Nat /\ Tiny(b) \in Nat /\ Tiny(c) \in Nat
  BY DEF ScoreSet, Tiny
<1>3. CASE a.tp = 0
  BY <1>1, <1>3 DEF Better
<1>4. CASE a.tp # 0
  <2>1. b.tp # 0
    BY <1>1, <1>4 DEF Better
  <2>2. Square(a) \in Nat \ {0} /\ Square(b) \in Nat \ {0} /\ Square(c) \in Nat \ {0}
    <3>1. \A n \in Nat \ {0} : n * n \in Nat \ {0}
      BY Z3
    <3> QED
      BY <1>1, <1>4, <2>1, <3>1
  <2>3. /\ ~(Size(a) * b.tp < Size(b) * a.tp)
        /\ Size(a) * b.tp = Size(b) * a.tp =>
             ~(Tiny(a) * Square(b) < Tiny(b) * Square(a))
    BY <1>1, <1>4 DEF Better
  <2>4. \/ Size(c) * b.tp < Size(b) * c.tp
        \/ /\ Size(c) * b.tp = Size(b) * c.tp
           /\ Tiny(c) * Square(b) < Tiny(b) * Square(c)
    BY <2>1 DEF Better
  <2> SUFFICES \/ Size(c) * a.tp < Size(a) * c.tp
               \/ /\ Size(c) * a.tp = Size(a) * c.tp
                  /\ Tiny(c) * Square(a) < Tiny(a) * Square(c)
    BY <1>1 DEF Better
  <2> HIDE DEF Size, Square
  <2>5. /\ Size(b) * a.tp <= Size(a) * b.tp /\ Size(c) * b.tp <= Size(b) * c.tp
    <3>1. /\ Size(b) * a.tp \in Int /\ Size(a) * b.tp \in Int
          /\ Size(c) * b.tp \in Int /\ Size(b) * c.tp \in Int
      BY <1>1
    <3> QED
      BY <2>3, <2>4, <3>1
  <2>6. /\ Size(c) * a.tp <= Size(a) * c.tp
        /\ Size(b) * a.tp < Size(a) * b.tp \/ Size(c) * b.tp < Size(b) * c.tp
             => Size(c) * a.tp < Size(a) * c.tp
    BY <1>1, <1>4, <2>1, <2>5, FractionsOrdered
  <2>7. CASE Size(b) * a.tp = Size(a) * b.tp /\ Size(c) * b.tp = Size(b) * c.tp
    <3>1. Tiny(b) * Square(a) <= Tiny(a) * Square(b) /\ Tiny(c) * Square(b) < Tiny(b) * Square(c)
      <4>1. /\ Tiny(b) * Square(a) \in Int /\ Tiny(a) * Square(b) \in Int
            /\ Size(c) * b.tp \in Int
        BY <1>1, <1>2, <2>2
      <4> QED
        BY <2>3, <2>4, <2>7, <4>1
    <3>2. Tiny(c) * Square(b) <= Tiny(b) * Square(c)
      BY <1>2, <2>2, <3>1
    <3>3. Tiny(c) * Square(a) < Tiny(a) * Square(c)
      BY <1>2, <2>2, <3>1, <3>2, FractionsOrdered
    <3>4. Size(c) * a.tp \in Int /\ Size(a) * c.tp \in Int
      BY <1>1
    <3> QED
      BY <2>6, <3>3, <3>4
  <2>8. CASE Size(b) * a.tp < Size(a) * b.tp \/ Size(c) * b.tp < Size(b) * c.tp
    BY <2>6, <2>8
  <2> QED
    <3>1. /\ Size(b) * a.tp \in Int /\ Size(a) * b.tp \in Int
          /\ Size(c) * b.tp \in Int /\ Size(b) * c.tp \in Int
      BY <1>1
    <3> QED
      BY <2>5, <2>7, <2>8, <3>1
<1> QED
  BY <1>3, <1>4

(* t is the lowest of the first k thresholds with the best score.          *)
Leads(sample, k, t) ==
  /\ \E j \in 1..k : t = 5 * j
  /\ \A j \in 1..k : /\ ~Better(F1(sample, 5 * j), F1(sample, t))
                     /\ 5 * j < t => Better(F1(sample, t), F1(sample, 5 * j))

LEMMA NotBetter ==
  ASSUME NEW f \in ScoreSet, NEW g \in ScoreSet, ~Better(f, g) \/ Better(g, f)
  PROVE  ~Better(f, g) /\ ~Better(f, f)
<1>1. /\ f.tp \in Nat /\ g.tp \in Nat
      /\ f.found \in Nat /\ f.real \in Nat /\ g.found \in Nat /\ g.real \in Nat
  BY DEF ScoreSet
<1>2. Tiny(f) \in Nat /\ Tiny(g) \in Nat
  BY <1>1 DEF Tiny
<1>3. /\ (f.found + f.real) * f.tp \in Int /\ Tiny(f) * (f.tp * f.tp) \in Int
      /\ (f.found + f.real) * g.tp \in Int /\ Tiny(f) * (g.tp * g.tp) \in Int
      /\ (g.found + g.real) * f.tp \in Int /\ Tiny(g) * (f.tp * f.tp) \in Int
  BY <1>1, <1>2
<1> QED
  BY <1>1, <1>3 DEF Better

(* What is not better has no higher F1.                                    *)
LEMMA NotHigher ==
  ASSUME NEW f \in ScoreSet, NEW g \in ScoreSet, ~Better(f, g)
  PROVE  f.tp * (g.found + g.real) <= g.tp * (f.found + f.real)
<1>1. /\ f.tp \in Nat /\ g.tp \in Nat
      /\ f.found + f.real \in Nat /\ g.found + g.real \in Nat
  BY DEF ScoreSet
<1>2. CASE f.tp = 0
  BY <1>1, <1>2
<1>3. CASE f.tp # 0
  <2>1. ~((f.found + f.real) * g.tp < (g.found + g.real) * f.tp)
    BY <1>1, <1>3 DEF Better
  <2> QED
    BY <1>1, <2>1
<1> QED
  BY <1>2, <1>3

(* One round of the search.                                                *)
LEMMA LeaderMoves ==
  ASSUME NEW sample \in Samples, NEW k \in Nat, NEW t, Leads(sample, k, t)
  PROVE  Leads(sample, k + 1,
               IF Better(F1(sample, 5 * (k + 1)), F1(sample, t)) THEN 5 * (k + 1) ELSE t)
<1> DEFINE u == 5 * (k + 1)
           F(j) == F1(sample, j)
<1>1. \A j : F(j) \in ScoreSet
  BY ScoreTyped
<1>2. PICK i \in 1..k : t = 5 * i
  BY DEF Leads
<1>3. t \in Nat /\ t < u /\ i \in 1..k + 1 /\ k + 1 \in 1..k + 1
  BY <1>2
<1>4. \A j \in 1..k + 1 : j \in 1..k \/ j = k + 1
  OBVIOUS
<1>5. \A j \in 1..k : /\ ~Better(F(5 * j), F(t))
                      /\ 5 * j < t => Better(F(t), F(5 * j))
  BY DEF Leads
<1> HIDE DEF F
<1>6. CASE Better(F(u), F(t))
  <2>1. \A j \in 1..k : Better(F(u), F(5 * j)) /\ ~Better(F(5 * j), F(u))
    BY <1>1, <1>5, <1>6, BetterCarries, NotBetter
  <2>2. ~Better(F(u), F(u)) /\ ~(u < u)
    BY <1>1, <1>3, NotBetter
  <2>3. Leads(sample, k + 1, u)
    BY <1>3, <1>4, <2>1, <2>2 DEF Leads, F
  <2> QED
    BY <1>6, <2>3 DEF F
<1>7. CASE ~Better(F(u), F(t))
  <2>1. ~(u < t)
    BY <1>3
  <2>2. Leads(sample, k + 1, t)
    BY <1>2, <1>3, <1>4, <1>5, <1>7, <2>1 DEF Leads, F
  <2> QED
    BY <1>7, <2>2 DEF F
<1> QED
  BY <1>6, <1>7

(* The search, round by round.                                             *)
LEMMA SearchIs ==
  ASSUME NEW sample \in Samples
  PROVE  \E best : /\ OptimalThreshold(sample) = best[19]
                   /\ best[1] = 5
                   /\ \A k \in 1..18 :
                        best[k + 1] = IF Better(F1(sample, 5 * (k + 1)), F1(sample, best[k]))
                                        THEN 5 * (k + 1) ELSE best[k]
<1> DEFINE Eq(best) ==
             best = [k \in 1..19 |->
                       IF k = 1 THEN 5
                       ELSE LET t == best[k - 1] IN
                            IF Better(F1(sample, 5 * k), F1(sample, t)) THEN 5 * k ELSE t]
           Round(n, t) == IF Better(F1(sample, 5 * (n + 2)), F1(sample, t)) THEN 5 * (n + 2) ELSE t
           step == [p \in Nat \X Int |-> Round(p[1], p[2])]
<1>1. step \in [Nat \X Int -> Int]
  <2>1. \A n \in Nat, t \in Int : Round(n, t) \in Int
    OBVIOUS
  <2> HIDE DEF Round
  <2> QED
    BY <2>1
<1>2. PICK f : Solves(f, Int, 5, step)
  <2> HIDE DEF step
  <2>1. 5 \in Int
    OBVIOUS
  <2> QED
    BY <1>1, <2>1, Recursion, Zenon
<1> HIDE DEF Round
<1>3. \A n \in Nat : f[n + 1] = Round(n, f[n]) /\ f[n] \in Int
  BY <1>2 DEF Solves
<1> DEFINE g == [k \in 1..19 |-> f[k - 1]]
<1>4. ASSUME NEW k \in 1..19
      PROVE  g[k] = IF k = 1 THEN 5
                    ELSE LET t == g[k - 1] IN
                         IF Better(F1(sample, 5 * k), F1(sample, t)) THEN 5 * k ELSE t
  <2>1. CASE k = 1
    BY <1>2, <2>1 DEF Solves
  <2>2. CASE k # 1
    <3>1. k - 2 \in Nat /\ (k - 2) + 1 = k - 1 /\ (k - 2) + 2 = k /\ k - 1 \in 1..19
      BY <2>2
    <3>2. g[k] = Round(k - 2, f[k - 2])
      BY <1>3, <3>1
    <3>3. g[k - 1] = f[k - 2]
      BY <3>1
    <3> HIDE DEF g
    <3> QED
      BY <2>2, <3>1, <3>2, <3>3 DEF Round
  <2> QED
    BY <2>1, <2>2
<1>5. Eq(g)
  <2>1. g = [k \in 1..19 |-> g[k]]
    OBVIOUS
  <2> HIDE DEF g
  <2> QED
    BY <1>4, <2>1
<1> DEFINE best == CHOOSE b : Eq(b)
<1>6. OptimalThreshold(sample) = best[19]
  BY DEF OptimalThreshold
<1> HIDE DEF Eq, g
<1>7. Eq(best)
  BY <1>5, Zenon
<1> HIDE DEF best
<1>8. \A k \in 1..19 : best[k] = IF k = 1 THEN 5
                    ELSE LET t == best[k - 1] IN
                         IF Better(F1(sample, 5 * k), F1(sample, t)) THEN 5 * k ELSE t
  BY <1>7 DEF Eq
<1>9. ASSUME NEW k \in 1..18
      PROVE  best[k + 1] = IF Better(F1(sample, 5 * (k + 1)), F1(sample, best[k]))
                             THEN 5 * (k + 1) ELSE best[k]
  <2>1. k + 1 \in 1..19 /\ k + 1 # 1 /\ (k + 1) - 1 = k
    OBVIOUS
  <2> QED
    BY <1>8, <2>1
<1> QED
  BY <1>6, <1>8, <1>9

LEMMA SearchFindsBest ==
  ASSUME NEW sample \in Samples
  PROVE  Leads(sample, 19, OptimalThreshold(sample))
<1>1. PICK best : /\ OptimalThreshold(sample) = best[19]
                  /\ best[1] = 5
                  /\ \A k \in 1..18 :
                       best[k + 1] = IF Better(F1(sample, 5 * (k + 1)), F1(sample, best[k]))
                                       THEN 5 * (k + 1) ELSE best[k]
  BY SearchIs
<1> DEFINE T == {n \in Nat : n <= 18 => Leads(sample, n + 1, best[n + 1])}
<1>2. 0 \in T
  <2>1. ~Better(F1(sample, 5), F1(sample, 5))
    BY ScoreTyped, NotBetter
  <2> QED
    BY <1>1, <2>1 DEF Leads
<1>3. ASSUME NEW n \in T PROVE n + 1 \in T
  <2> SUFFICES ASSUME n + 1 <= 18 PROVE Leads(sample, (n + 1) + 1, best[(n + 1) + 1])
    OBVIOUS
  <2>1. n + 1 \in 1..18 /\ n + 1 \in Nat /\ Leads(sample, n + 1, best[n + 1])
    OBVIOUS
  <2>2. best[(n + 1) + 1] = IF Better(F1(sample, 5 * ((n + 1) + 1)), F1(sample, best[n + 1]))
                              THEN 5 * ((n + 1) + 1) ELSE best[n + 1]
    BY <1>1, <2>1
  <2> QED
    BY <2>1, <2>2, LeaderMoves
<1>4. \A n \in Nat : n \in T
  <2>1. T \in SUBSET Nat
    OBVIOUS
  <2> HIDE DEF T
  <2> QED
    BY <1>2, <1>3, <2>1, SetInduction
<1>5. Leads(sample, 18 + 1, best[18 + 1])
  BY <1>4
<1> QED
  BY <1>1, <1>5

FittedInv ==
  \/ fitOn = None
  \/ fitOn \in Samples /\ theta = OptimalThreshold(fitOn)

(* For every training sample: no threshold has a higher F1 than that of a  *)
(* fitted B, the 1e-10 that the code adds to the divisors cost no F1 and   *)
(* decide among equals, and every lower threshold is worse                 *)
(* (compute_optimal_threshold).                                            *)
THEOREM ThresholdIsAlwaysBest == InferenceSpec => []ThresholdIsBest
<1>1. InferenceInit => FittedInv
  BY DEF InferenceInit, FittedInv
<1>2. FittedInv /\ [InferenceNext]_inferenceVars => FittedInv'
  <2> SUFFICES ASSUME FittedInv, [InferenceNext]_inferenceVars PROVE FittedInv'
    OBVIOUS
  <2>1. CASE FitB
    BY <2>1 DEF FitB, FittedInv
  <2>2. CASE UNCHANGED <<theta, fitOn>>
    BY <2>2 DEF FittedInv
  <2>3. CASE Fit
    BY <2>1, <2>2, <2>3 DEF Fit, FitA, FitEnsemble, Build
  <2>4. CASE Run
    <3>1. PICK policy \in Policies, raw \in RawA, regime \in Regimes, evidence \in Evidence,
               weighted \in BOOLEAN, market \in Markets, p \in {None} \cup {<<q>> : q \in RawB} :
            \/ RunWithRollback(policy, raw, regime, evidence, weighted, market, p)
            \/ \E answer \in (IF "ensemble" \in trained THEN RawA ELSE {raw}) :
                  RunWithEnsemble(policy, raw, regime, evidence, weighted, market, p, answer)
      BY <2>4 DEF Run
    <3> QED
      BY <2>2, <3>1 DEF RunWithRollback, RunWithEnsemble
  <2> QED
    BY <2>2, <2>3, <2>4 DEF InferenceNext, Take, inferenceVars
<1>3. FittedInv => ThresholdIsBest
  <2> SUFFICES ASSUME FittedInv, fitOn # None, NEW t \in Thresholds
               PROVE  LET best == F1(fitOn, theta)
                          f == F1(fitOn, t)
                      IN  /\ f.tp * (best.found + best.real) <= best.tp * (f.found + f.real)
                          /\ ~Better(f, best)
                          /\ t < theta => Better(best, f)
    BY DEF ThresholdIsBest
  <2>1. Leads(fitOn, 19, theta)
    BY SearchFindsBest DEF FittedInv
  <2>2. PICK j \in 1..19 : t = 5 * j
    BY DEF Thresholds
  <2>3. /\ ~Better(F1(fitOn, t), F1(fitOn, theta))
        /\ t < theta => Better(F1(fitOn, theta), F1(fitOn, t))
    BY <2>1, <2>2 DEF Leads
  <2>4. F1(fitOn, t) \in ScoreSet /\ F1(fitOn, theta) \in ScoreSet
    BY ScoreTyped DEF FittedInv
  <2> QED
    BY <2>3, <2>4, NotHigher
<1> QED
  BY <1>1, <1>2, <1>3, PTL DEF InferenceSpec

-----------------------------------------------------------------------------
(* The vector of features.                                                 *)
Piece(found, k) == Validated(Filled(found[Blocks[k]]), Dim[Blocks[k]])
Lengths == [k \in 1..Len(Blocks) |-> Dim[Blocks[k]]]
Feature(f, i) == IF i <= Len(f) /\ (\A j \in 1..i : f[j] # Bad) THEN f[i] ELSE 0

LEMMA JoinedParts ==
  ASSUME NEW s \in Seq(Int), NEW t \in Seq(Int)
  PROVE  /\ s \o t \in Seq(Int) /\ Len(s \o t) = Len(s) + Len(t)
         /\ \A i \in 1..Len(s) : (s \o t)[i] = s[i]
         /\ \A i \in 1..Len(t) : (s \o t)[Len(s) + i] = t[i]
  OBVIOUS

LEMMA BlocksAre ==
  /\ Len(Blocks) \in Nat
  /\ Lengths \in [1..Len(Blocks) -> Nat]
  /\ \A k \in 1..Len(Blocks) : Blocks[k] \in DOMAIN Dim /\ Dim[Blocks[k]] \in Nat
<1>1. Blocks \in Seq(DOMAIN Dim) /\ Dim \in [DOMAIN Dim -> Nat]
  BY InferenceAssumption
<1>2. \A k \in 1..Len(Blocks) : Blocks[k] \in DOMAIN Dim
  BY <1>1
<1>3. \A k \in 1..Len(Blocks) : Dim[Blocks[k]] \in Nat
  BY <1>1, <1>2
<1> QED
  BY <1>1, <1>2, <1>3 DEF Lengths

LEMMA OffsetIs ==
  \E b : Sums(b, Lengths, Len(Blocks)) /\ \A k : Offset(k) = b[k]
<1> DEFINE Eq(b) == b = [j \in 0..Len(Blocks) |->
                           IF j = 0 THEN 0 ELSE b[j - 1] + Dim[Blocks[j]]]
           sum == CHOOSE b : Eq(b)
<1>1. PICK b : Sums(b, Lengths, Len(Blocks))
  BY BlocksAre, SumsExist, Zenon
<1>2. Eq(b)
  BY <1>1, BlocksAre DEF Sums, Lengths
<1>3. \A k : Offset(k) = sum[k]
  BY DEF Offset
<1> HIDE DEF Eq
<1>4. Eq(sum)
  BY <1>2, Zenon
<1> HIDE DEF sum
<1>5. sum = [j \in 0..Len(Blocks) |-> IF j = 0 THEN 0 ELSE sum[j - 1] + Lengths[j]]
  BY <1>4 DEF Eq, Lengths
<1>6. Sums(sum, Lengths, Len(Blocks))
  BY <1>5, BlocksAre, SumsAre
<1> QED
  BY <1>3, <1>6

LEMMA PieceIs ==
  ASSUME NEW found \in [DOMAIN Dim -> Given], NEW k \in 1..Len(Blocks)
  PROVE  /\ Piece(found, k) \in Seq(Int) /\ Len(Piece(found, k)) = Lengths[k]
         /\ \A i \in 1..Lengths[k] : Piece(found, k)[i] = Feature(found[Blocks[k]], i)
<1> DEFINE f == found[Blocks[k]]
           d == Dim[Blocks[k]]
<1>1. f \in Seq(Int) /\ d \in Nat /\ Lengths[k] = d
  BY BlocksAre, InferenceAssumption DEF Lengths
<1>2. Piece(found, k) = Validated(Filled(f), d)
  BY DEF Piece
<1> HIDE DEF f, d
<1> DEFINE g == Filled(f)
<1>3. g = [i \in 1..Len(f) |-> IF \E j \in 1..i : f[j] = Bad THEN 0 ELSE f[i]]
  BY <1>1 DEF Filled
<1>4. Len(g) = Len(f) /\ Len(f) \in Nat
  BY <1>1, <1>3
<1>5. \A i \in 1..Len(f) : g[i] = (IF \E j \in 1..i : f[j] = Bad THEN 0 ELSE f[i]) /\ g[i] \in Int
  BY <1>1, <1>3
<1> HIDE DEF g
<1> DEFINE v == Validated(g, d)
<1>6. v = [i \in 1..d |-> IF i <= Len(f) THEN g[i] ELSE 0]
  BY <1>4 DEF Validated
<1>7. v \in Seq(Int) /\ Len(v) = d
  BY <1>1, <1>4, <1>5, <1>6
<1>8. ASSUME NEW i \in 1..d
      PROVE  v[i] = Feature(f, i)
  <2>1. v[i] = IF i <= Len(f) THEN g[i] ELSE 0
    BY <1>6
  <2>2. i <= Len(f) => i \in 1..Len(f)
    BY <1>1, <1>4
  <2> HIDE DEF v
  <2> QED
    BY <1>5, <2>1, <2>2 DEF Feature
<1> QED
  BY <1>1, <1>2, <1>7, <1>8 DEF f, g

(* u[k] is the first k pieces, joined.                                     *)
Joins(u, found, n) ==
  /\ u \in [0..n -> Seq(Int)]
  /\ u[0] = <<>>
  /\ \A k \in 1..n : u[k] = u[k - 1] \o Piece(found, k)

LEMMA VectorIs ==
  ASSUME NEW found \in [DOMAIN Dim -> Given]
  PROVE  \E u : Joins(u, found, Len(Blocks)) /\ Joined(found) = u[Len(Blocks)]
<1> DEFINE n == Len(Blocks)
           Eq(u) == u = [k \in 0..n |->
                           IF k = 0 THEN <<>>
                           ELSE u[k - 1] \o Validated(Filled(found[Blocks[k]]), Dim[Blocks[k]])]
           Add(k, x) == IF k + 1 \in 1..n THEN x \o Piece(found, k + 1) ELSE x
           step == [p \in Nat \X Seq(Int) |-> Add(p[1], p[2])]
           upTo == CHOOSE u : Eq(u)
<1>1. step \in [Nat \X Seq(Int) -> Seq(Int)]
  <2>1. \A k \in Nat, x \in Seq(Int) : Add(k, x) \in Seq(Int)
    <3> SUFFICES ASSUME NEW k \in Nat, NEW x \in Seq(Int) PROVE Add(k, x) \in Seq(Int)
      OBVIOUS
    <3>1. k + 1 \in 1..n => Piece(found, k + 1) \in Seq(Int)
      BY PieceIs
    <3> QED
      BY <3>1
  <2> HIDE DEF Add
  <2> QED
    BY <2>1
<1>2. PICK u : SolvesTo(u, n, Seq(Int), <<>>, step)
  <2> HIDE DEF step
  <2>1. <<>> \in Seq(Int) /\ n \in Nat
    BY BlocksAre
  <2> HIDE DEF n
  <2> QED
    BY <1>1, <2>1, BoundedRecursion, Zenon
<1>3. ASSUME NEW k \in 1..n PROVE u[k] = u[k - 1] \o Piece(found, k)
  <2>1. k - 1 \in Nat /\ (k - 1) + 1 = k /\ k - 1 \in 0..n /\ u[k - 1] \in Seq(Int)
    BY <1>2 DEF SolvesTo
  <2>2. u[k] = Add(k - 1, u[k - 1])
    <3> HIDE DEF Add
    <3> QED
      BY <1>2, <2>1 DEF SolvesTo
  <2> QED
    BY <2>1, <2>2
<1>4. Eq(u)
  <2>1. u = [k \in 0..n |-> u[k]] /\ u[0] = <<>>
    BY <1>2 DEF SolvesTo
  <2>2. ASSUME NEW k \in 0..n
        PROVE  u[k] = IF k = 0 THEN <<>>
                      ELSE u[k - 1] \o Validated(Filled(found[Blocks[k]]), Dim[Blocks[k]])
    <3>1. k # 0 => k \in 1..n
      BY BlocksAre
    <3> QED
      BY <1>3, <2>1, <3>1 DEF Piece
  <2> QED
    BY <2>1, <2>2
<1>5. Joined(found) = upTo[n]
  BY DEF Joined
<1> HIDE DEF Eq, step, Add
<1>6. Eq(upTo)
  BY <1>4, Zenon
<1> HIDE DEF upTo
<1>7. upTo[0] = <<>> /\ \A k \in 1..n : upTo[k] = upTo[k - 1] \o Piece(found, k)
  <2>1. n \in Nat
    BY BlocksAre
  <2>2. upTo = [k \in 0..n |->
                 IF k = 0 THEN <<>>
                 ELSE upTo[k - 1] \o Validated(Filled(found[Blocks[k]]), Dim[Blocks[k]])]
    BY <1>6 DEF Eq
  <2>3. upTo[0] = <<>>
    BY <2>1, <2>2
  <2>4. ASSUME NEW k \in 1..n PROVE upTo[k] = upTo[k - 1] \o Piece(found, k)
    <3>1. k \in 0..n /\ k # 0
      BY <2>1
    <3> QED
      BY <2>2, <3>1 DEF Piece
  <2> QED
    BY <2>3, <2>4
<1> DEFINE T == {k \in Nat : k <= n => upTo[k] \in Seq(Int)}
<1>8. 0 \in T
  <2>1. upTo[0] \in Seq(Int)
    BY <1>7
  <2> QED
    BY <2>1
<1>9. ASSUME NEW k \in T PROVE k + 1 \in T
  <2> SUFFICES ASSUME k + 1 <= n PROVE upTo[k + 1] \in Seq(Int)
    OBVIOUS
  <2>1. k \in Nat /\ k + 1 \in 1..n /\ (k + 1) - 1 = k /\ upTo[k] \in Seq(Int)
    BY BlocksAre
  <2>2. upTo[k + 1] = upTo[k] \o Piece(found, k + 1) /\ Piece(found, k + 1) \in Seq(Int)
    BY <1>7, <2>1, PieceIs
  <2> QED
    BY <2>1, <2>2
<1>10. \A k \in Nat : k \in T
  <2>1. T \in SUBSET Nat
    OBVIOUS
  <2> HIDE DEF T
  <2> QED
    BY <1>8, <1>9, <2>1, SetInduction
<1>11. \A k \in 0..n : upTo[k] \in Seq(Int)
  <2> SUFFICES ASSUME NEW k \in 0..n PROVE upTo[k] \in Seq(Int)
    OBVIOUS
  <2>1. k \in Nat /\ k <= n
    OBVIOUS
  <2> QED
    BY <1>10, <2>1
<1>12. upTo \in [0..n -> Seq(Int)]
  BY <1>6, <1>11 DEF Eq
<1> QED
  BY <1>5, <1>7, <1>12 DEF Joins

(* What is joined first stays where it is.                                 *)
LEMMA JoinsKeep ==
  ASSUME NEW found \in [DOMAIN Dim -> Given], NEW n \in Nat, n <= Len(Blocks),
         NEW u, Joins(u, found, n), NEW b, Sums(b, Lengths, n), NEW k \in 0..n
  PROVE  /\ Len(u[k]) = b[k]
         /\ b[k] <= b[n]
         /\ \A i \in 1..b[k] : u[n][i] = u[k][i]
<1>1. ASSUME NEW m \in 0..n PROVE u[m] \in Seq(Int) /\ b[m] \in Nat
  BY DEF Joins, Sums
<1>2. ASSUME NEW m \in Nat, m + 1 <= n
      PROVE  /\ m \in 0..n /\ m + 1 \in 1..n
             /\ u[m + 1] = u[m] \o Piece(found, m + 1) /\ b[m + 1] = b[m] + Lengths[m + 1]
             /\ Piece(found, m + 1) \in Seq(Int) /\ Len(Piece(found, m + 1)) = Lengths[m + 1]
             /\ Lengths[m + 1] \in Nat
  <2>1. m \in 0..n /\ m + 1 \in 1..n /\ m + 1 \in 1..Len(Blocks) /\ (m + 1) - 1 = m
    BY <1>2, BlocksAre
  <2> QED
    BY <2>1, PieceIs, BlocksAre DEF Joins, Sums
<1> DEFINE T == {m \in Nat : m <= n => Len(u[m]) = b[m]}
<1>3. \A m \in Nat : m \in T
  <2>1. 0 \in T
    BY DEF Joins, Sums
  <2>2. ASSUME NEW m \in T PROVE m + 1 \in T
    <3> SUFFICES ASSUME m + 1 <= n PROVE Len(u[m + 1]) = b[m + 1]
      OBVIOUS
    <3>1. m \in Nat /\ Len(u[m]) = b[m]
      OBVIOUS
    <3>2. u[m] \in Seq(Int) /\ b[m] \in Nat
      BY <1>1, <1>2, <3>1
    <3>3. /\ u[m + 1] = u[m] \o Piece(found, m + 1) /\ b[m + 1] = b[m] + Lengths[m + 1]
          /\ Piece(found, m + 1) \in Seq(Int) /\ Len(Piece(found, m + 1)) = Lengths[m + 1]
      BY <1>2, <3>1
    <3> DEFINE x == u[m]
               y == Piece(found, m + 1)
    <3>4. x \in Seq(Int) /\ y \in Seq(Int)
      BY <3>2, <3>3
    <3> HIDE DEF x, y
    <3>5. Len(x \o y) = Len(x) + Len(y)
      BY ONLY <3>4, JoinedParts
    <3> QED
      BY <3>1, <3>3, <3>5 DEF x, y
  <2>3. T \in SUBSET Nat
    OBVIOUS
  <2> HIDE DEF T
  <2> QED
    BY <2>1, <2>2, <2>3, SetInduction
<1>4. ASSUME NEW m \in 0..n PROVE Len(u[m]) = b[m]
  <2>1. m \in Nat /\ m <= n
    OBVIOUS
  <2> QED
    BY <1>3, <2>1
<1> DEFINE Kept(m) == b[k] <= b[m] /\ \A i \in 1..b[k] : u[m][i] = u[k][i]
           S == {m \in Nat : k + m <= n => Kept(k + m)}
<1>5. \A m \in Nat : m \in S
  <2>1. 0 \in S
    <3>1. b[k] \in Nat /\ k + 0 = k
      BY <1>1
    <3>2. Kept(k)
      BY <3>1
    <3> HIDE DEF Kept
    <3> QED
      BY <3>1, <3>2
  <2>2. ASSUME NEW m \in S PROVE m + 1 \in S
    <3> SUFFICES ASSUME k + (m + 1) <= n PROVE Kept(k + (m + 1))
      BY <2>2
    <3> DEFINE j == k + m
    <3>1. j \in Nat /\ k + (m + 1) = j + 1 /\ j + 1 <= n
      OBVIOUS
    <3>2. Kept(j)
      <4> HIDE DEF Kept
      <4> QED
        OBVIOUS
    <3> HIDE DEF j
    <3>3. /\ j \in 0..n /\ u[j + 1] = u[j] \o Piece(found, j + 1)
          /\ b[j + 1] = b[j] + Lengths[j + 1] /\ Lengths[j + 1] \in Nat
          /\ Piece(found, j + 1) \in Seq(Int)
      BY <1>2, <3>1
    <3>4. u[j] \in Seq(Int) /\ Len(u[j]) = b[j] /\ b[j] \in Nat /\ b[k] \in Nat
      BY <1>1, <1>4, <3>3
    <3>5. ASSUME NEW i \in 1..b[k] PROVE u[j + 1][i] = u[k][i]
      <4>1. i \in 1..Len(u[j])
        BY ONLY <3>2, <3>4, i \in 1..b[k]
      <4>2. (u[j] \o Piece(found, j + 1))[i] = u[j][i]
        BY <3>3, <3>4, <4>1, JoinedParts
      <4> QED
        BY <3>2, <3>3, <4>2
    <3>6. Kept(j + 1)
      <4>1. b[k] <= b[j + 1]
        BY ONLY <3>2, <3>3, <3>4
      <4>2. \A i \in 1..b[k] : u[j + 1][i] = u[k][i]
        BY <3>5
      <4> QED
        BY <4>1, <4>2
    <3> HIDE DEF Kept
    <3> QED
      BY <3>1, <3>6
  <2>3. S \in SUBSET Nat
    OBVIOUS
  <2> HIDE DEF S
  <2> QED
    BY <2>1, <2>2, <2>3, SetInduction
<1>6. Kept(n)
  <2>1. n - k \in Nat /\ k + (n - k) = n
    OBVIOUS
  <2> HIDE DEF Kept
  <2>2. n - k \in S
    BY <1>5, <2>1
  <2> QED
    BY <2>1, <2>2
<1> QED
  BY <1>4, <1>6

VectorInv ==
  out.entry = "build" => out.found \in [DOMAIN Dim -> Given] /\ out.x = Joined(out.found)

LEMMA VectorIsAligned ==
  ASSUME NEW found \in [DOMAIN Dim -> Given], NEW k \in 1..Len(Blocks), NEW i \in 1..Dim[Blocks[k]]
  PROVE  /\ Offset(k - 1) + i <= Len(Joined(found))
         /\ Joined(found)[Offset(k - 1) + i] = Feature(found[Blocks[k]], i)
<1> DEFINE n == Len(Blocks)
<1>1. PICK b : Sums(b, Lengths, n) /\ \A j : Offset(j) = b[j]
  BY OffsetIs
<1>2. PICK u : Joins(u, found, n) /\ Joined(found) = u[n]
  BY VectorIs
<1>3. n \in Nat /\ k - 1 \in 0..n /\ k \in 0..n /\ n \in 0..n /\ n <= n
  BY BlocksAre
<1>4. u[k] = u[k - 1] \o Piece(found, k) /\ u[k - 1] \in Seq(Int)
  BY <1>2, <1>3 DEF Joins
<1>5. b[k] = b[k - 1] + Lengths[k] /\ b[k - 1] \in Nat /\ b[n] \in Nat
  BY <1>1, <1>3 DEF Sums
<1>6. Lengths[k] = Dim[Blocks[k]] /\ Lengths[k] \in Nat
  BY BlocksAre DEF Lengths
<1>7. Len(u[k - 1]) = b[k - 1] /\ Len(u[n]) = b[n]
  BY <1>1, <1>2, <1>3, JoinsKeep
<1>8. b[k] <= b[n] /\ \A j \in 1..b[k] : u[n][j] = u[k][j]
  BY <1>1, <1>2, <1>3, JoinsKeep
<1>9. /\ Piece(found, k) \in Seq(Int) /\ Len(Piece(found, k)) = Lengths[k]
      /\ Piece(found, k)[i] = Feature(found[Blocks[k]], i)
  BY <1>6, PieceIs
<1>10. b[k - 1] + i \in 1..b[k] /\ b[k - 1] + i <= b[n] /\ i \in 1..Lengths[k]
  BY <1>5, <1>6, <1>8
<1>11. u[k][b[k - 1] + i] = Piece(found, k)[i]
  <2> DEFINE s == u[k - 1]
             t == Piece(found, k)
  <2>1. s \in Seq(Int) /\ t \in Seq(Int) /\ i \in 1..Len(t) /\ Len(s) = b[k - 1]
    BY <1>4, <1>7, <1>9, <1>10
  <2> HIDE DEF s, t
  <2>2. (s \o t)[Len(s) + i] = t[i]
    BY <2>1, JoinedParts
  <2> QED
    BY <1>4, <2>1, <2>2 DEF s, t
<1> QED
  BY <1>1, <1>2, <1>7, <1>8, <1>9, <1>10, <1>11

(* Whatever the builders of the blocks find and wherever one of them stops,*)
(* every feature is at the place its block and its position in it say      *)
(* (XGBoostFeatureBuilder.build).                                          *)
THEOREM BlocksAlwaysAligned == InferenceSpec => []BlocksAligned
<1>1. InferenceInit => VectorInv
  BY DEF InferenceInit, VectorInv, NoResult
<1>2. VectorInv /\ [InferenceNext]_inferenceVars => VectorInv'
  <2> SUFFICES ASSUME VectorInv, [InferenceNext]_inferenceVars PROVE VectorInv'
    OBVIOUS
  <2>1. CASE Build
    <3>1. PICK found \in [DOMAIN Dim -> Given] :
            out' = [entry |-> "build", found |-> found, x |-> Joined(found)]
      BY <2>1 DEF Build
    <3> QED
      BY <3>1 DEF VectorInv
  <2>2. CASE UNCHANGED out
    BY <2>2 DEF VectorInv
  <2>3. CASE Fit
    BY <2>1, <2>2, <2>3 DEF Fit, FitA, FitB, FitEnsemble
  <2>4. CASE Run
    <3>1. PICK policy \in Policies, raw \in RawA, regime \in Regimes, evidence \in Evidence,
               weighted \in BOOLEAN, market \in Markets, p \in {None} \cup {<<q>> : q \in RawB} :
            \/ RunWithRollback(policy, raw, regime, evidence, weighted, market, p)
            \/ \E answer \in (IF "ensemble" \in trained THEN RawA ELSE {raw}) :
                  RunWithEnsemble(policy, raw, regime, evidence, weighted, market, p, answer)
      BY <2>4 DEF Run
    <3>2. out'.entry \in {"rollback", "ensemble"}
      BY <3>1 DEF RunWithRollback, RunWithEnsemble, Result
    <3> QED
      BY <3>2 DEF VectorInv
  <2>5. CASE Take
    BY <2>5 DEF Take, NoResult, VectorInv
  <2> QED
    BY <2>2, <2>3, <2>4, <2>5 DEF InferenceNext, inferenceVars
<1>3. VectorInv => BlocksAligned
  <2> SUFFICES ASSUME VectorInv, out.entry = "build",
                      NEW k \in DOMAIN Blocks, NEW i \in 1..Dim[Blocks[k]]
               PROVE  /\ Offset(k - 1) + i <= Len(out.x)
                      /\ out.x[Offset(k - 1) + i] = Feature(out.found[Blocks[k]], i)
    BY DEF BlocksAligned, Feature
  <2>1. k \in 1..Len(Blocks)
    BY InferenceAssumption
  <2>2. out.found \in [DOMAIN Dim -> Given] /\ out.x = Joined(out.found)
    BY DEF VectorInv
  <2> QED
    BY <2>1, <2>2, VectorIsAligned
<1> QED
  BY <1>1, <1>2, <1>3, PTL DEF InferenceSpec

-----------------------------------------------------------------------------
(* The brief.                                                              *)
LEMMA JoinedIs ==
  ASSUME NEW s \in Seq(Nat)
  PROVE  \E b : Sums(b, s, Len(s)) /\ \A n : JoinedLength(s, n) = b[n] + Separator * (n - 1)
<1> DEFINE Eq(b) == b = [k \in 0..Len(s) |-> IF k = 0 THEN 0 ELSE b[k - 1] + s[k]]
           sum == CHOOSE b : Eq(b)
<1>1. Len(s) \in Nat /\ s \in [1..Len(s) -> Nat]
  OBVIOUS
<1>2. PICK b : Sums(b, s, Len(s))
  BY <1>1, SumsExist, Zenon
<1>3. Eq(b)
  BY <1>1, <1>2 DEF Sums
<1>4. \A n : JoinedLength(s, n) = sum[n] + Separator * (n - 1)
  BY DEF JoinedLength
<1> HIDE DEF Eq
<1>5. Eq(sum)
  BY <1>3, Zenon
<1> HIDE DEF sum
<1>6. Sums(sum, s, Len(s))
  BY <1>1, <1>5, SumsAre DEF Eq
<1> QED
  BY <1>4, <1>6

LEMMA JoinedIsSome ==
  ASSUME NEW s \in Seq(Nat \ {0}), NEW n \in 1..Len(s)
  PROVE  JoinedLength(s, n) \in Nat \ {0}
<1>1. s \in Seq(Nat)
  OBVIOUS
<1>2. PICK b : Sums(b, s, Len(s)) /\ \A k : JoinedLength(s, k) = b[k] + Separator * (k - 1)
  BY <1>1, JoinedIs
<1>3. n \in Nat /\ n - 1 \in Nat /\ n \in 0..Len(s) /\ n - 1 \in 0..Len(s) /\ s[n] \in Nat \ {0}
  OBVIOUS
<1>4. b[n] = b[n - 1] + s[n] /\ b[n - 1] \in Nat
  BY <1>2, <1>3 DEF Sums
<1>5. JoinedLength(s, n) = b[n - 1] + s[n] + 44 * (n - 1)
  BY <1>2, <1>4 DEF Separator
<1>6. 44 * (n - 1) \in Nat
  BY <1>3
<1> QED
  BY <1>3, <1>4, <1>5, <1>6

LEMMA SectionsAre ==
  ASSUME NEW f \in Features \cup {NoFeatures}, NEW m \in Macros \cup {NoMacro},
         NEW p \in PrecedentCounts, NEW a, a.features = f, a.macro = m, a.precedents = p,
         a.width \in Widths
  PROVE  BriefSections(a) \in Seq(Nat \ {0}) /\ Len(BriefSections(a)) = 6
<1> DEFINE Lines == Nat \ {0}
<1>0. \A c, n : n \in Nat => When(c, n) \in Nat
  BY DEF When
<1>1. \A i, n \in Nat : Least(i, n) \in Nat
  BY DEF Least
<1>2. \A i, n \in Nat : Listing(i, n) \in Nat
  BY DEF Listing, When, Least
<1>3. HTFStructure(f) \in Lines
  BY <1>0 DEF HTFStructure
<1>4. LiquidityTargets(f) \in Lines
  BY <1>0 DEF LiquidityTargets
<1>5. ActiveZones(f) \in Lines
  <2>1. f # NoFeatures => f.bull \in Nat /\ f.bear \in Nat
    BY BriefAssumption
  <2> QED
    BY <2>1 DEF ActiveZones, Listing, When, Least
<1>6. ModelOutputs(f) \in Lines
  <2>1. f # NoFeatures => f.modelB \in Nat \cup {-1}
    BY BriefAssumption
  <2>2. f # NoFeatures => When(f.modelB >= 0, 1 + Least(f.modelB, 3)) \in Nat
    BY <2>1 DEF When, Least
  <2> QED
    BY <1>0, <2>2 DEF ModelOutputs
<1>7. MacroContext(m) \in Lines
  <2>1. m # NoMacro => m.upcoming \in Nat
    BY BriefAssumption
  <2> QED
    BY <2>1 DEF MacroContext, Listing, When, Least
<1>8. PrecedentLines(p) \in Lines
  <2>1. p \in Nat
    BY BriefAssumption
  <2> QED
    BY <2>1 DEF PrecedentLines, Least
<1>9. a.width \in Nat \ {0}
  BY BriefAssumption
<1>10. \A n \in Lines : n * a.width + n - 1 \in Lines
  <2>1. \A w, n \in Nat \ {0} : n * w \in Nat \ {0}
    BY Z3
  <2>2. \A n \in Lines : n \in Nat /\ n * a.width \in Nat \ {0}
    BY <1>9, <2>1
  <2>3. \A n \in Nat, k \in Nat \ {0} : n + k - 1 \in Nat
    OBVIOUS
  <2> QED
    BY <2>2
<1> DEFINE lines == <<HTFStructure(f), LiquidityTargets(f), ActiveZones(f), ModelOutputs(f),
                      MacroContext(m), PrecedentLines(p)>>
<1>11. Len(lines) = 6 /\ \A i \in 1..6 : lines[i] \in Lines
  <2> HIDE DEF Lines
  <2> QED
    BY <1>3, <1>4, <1>5, <1>6, <1>7, <1>8
<1>12. BriefSections(a) = [i \in 1..Len(lines) |-> lines[i] * a.width + lines[i] - 1]
  BY DEF BriefSections
<1> HIDE DEF lines
<1> QED
  BY <1>10, <1>11, <1>12

BriefInv ==
  /\ given \in [features : Features \cup {NoFeatures}, macro : Macros \cup {NoMacro},
                precedents : PrecedentCounts, width : Widths, limit : Limits]
  /\ BriefFits

(* What BriefFits says of the brief r.                                     *)
Fits(r, s, limit) ==
  /\ r.length <= limit
  /\ r.whole < 6 => JoinedLength(s, r.whole + 1) > limit
  /\ r.truncated <=> r.whole < 6
  /\ r.length = 0 => limit <= 150

LEMMA CutFits ==
  ASSUME NEW s \in Seq(Nat \ {0}), Len(s) = 6, NEW limit \in Nat, JoinedLength(s, 1) > limit,
         NEW r, r = CutFirst(s, limit)
  PROVE  Fits(r, s, limit)
<1>1. s[1] \in Nat \ {0}
  OBVIOUS
<1>2. limit - 50 > 100 =>
        Least(limit - 50, s[1]) + 16 <= limit /\ Least(limit - 50, s[1]) + 16 > 0
  BY <1>1 DEF Least
<1>3. /\ r.length <= limit /\ r.whole = 0 /\ r.truncated = TRUE
      /\ r.length = 0 => limit <= 150
  BY <1>1, <1>2 DEF CutFirst, Mark
<1>4. JoinedLength(s, r.whole + 1) = JoinedLength(s, 1)
  BY <1>3
<1> QED
  BY <1>3, <1>4 DEF Fits

LEMMA MaxOfSix ==
  ASSUME NEW S \in SUBSET (1..6), S # {}
  PROVE  Max(S) \in S /\ \A n \in S : Max(S) >= n
<1> DEFINE Best(n) == n \in S /\ \A k \in S : n >= k
<1>1. \E n : Best(n)
  <2> SUFFICES ASSUME \A n \in S : \E k \in S : k > n PROVE FALSE
    OBVIOUS
  <2>1. 6 \notin S /\ \A k \in S : k \in 1..6
    OBVIOUS
  <2>2. 5 \notin S
    BY <2>1
  <2>3. 4 \notin S
    BY <2>1, <2>2
  <2>4. 3 \notin S
    BY <2>1, <2>2, <2>3
  <2>5. 2 \notin S
    BY <2>1, <2>2, <2>3, <2>4
  <2>6. 1 \notin S
    BY <2>1, <2>2, <2>3, <2>4, <2>5
  <2>7. \A k \in S : k = 1 \/ k = 2 \/ k = 3 \/ k = 4 \/ k = 5 \/ k = 6
    BY <2>1
  <2> QED
    BY <2>1, <2>2, <2>3, <2>4, <2>5, <2>6, <2>7, Zenon
<1>2. Max(S) = CHOOSE n \in S : \A k \in S : n >= k
  BY DEF Max
<1> QED
  BY <1>1, <1>2, Zenon

LEMMA AssembledFits ==
  ASSUME NEW s \in Seq(Nat \ {0}), Len(s) = 6, NEW limit \in Nat,
         NEW r, r = Assemble(s, limit)
  PROVE  Fits(r, s, limit)
<1> DEFINE fitting == {n \in 1..6 : JoinedLength(s, n) <= limit}
<1>1. \A n \in 1..6 : JoinedLength(s, n) \in Nat \ {0}
  BY JoinedIsSome
<1>2. r = IF fitting = {} THEN CutFirst(s, limit)
          ELSE [whole |-> Max(fitting), part |-> 0, length |-> JoinedLength(s, Max(fitting)),
                truncated |-> Max(fitting) < 6]
  BY DEF Assemble
<1>3. CASE fitting = {}
  <2>1. JoinedLength(s, 1) > limit
    BY <1>1, <1>3
  <2>2. r = CutFirst(s, limit)
    BY <1>2, <1>3
  <2> HIDE DEF fitting
  <2> QED
    BY <2>1, <2>2, CutFits
<1>4. CASE fitting # {}
  <2>1. Max(fitting) \in fitting /\ \A n \in fitting : Max(fitting) >= n
    <3>1. fitting \in SUBSET (1..6)
      OBVIOUS
    <3> HIDE DEF fitting
    <3> QED
      BY <1>4, <3>1, MaxOfSix, Zenon
  <2> DEFINE n == Max(fitting)
  <2>2. n \in 1..6 /\ JoinedLength(s, n) <= limit
    BY <2>1
  <2>3. n < 6 => JoinedLength(s, n + 1) > limit
    <3> SUFFICES ASSUME n < 6, ~(JoinedLength(s, n + 1) > limit) PROVE FALSE
      OBVIOUS
    <3>1. n + 1 \in 1..6 /\ ~(n >= n + 1)
      BY <2>2
    <3>2. n + 1 \in fitting
      BY <1>1, <3>1
    <3> QED
      BY <2>1, <3>1, <3>2
  <2>4. r = [whole |-> n, part |-> 0, length |-> JoinedLength(s, n), truncated |-> n < 6]
    BY <1>2, <1>4
  <2>5. JoinedLength(s, n) # 0
    BY <1>1, <2>2
  <2> HIDE DEF n
  <2>6. r.whole = n /\ r.length = JoinedLength(s, n) 
    BY <2>4
  <2>10. r.truncated = (n < 6)
    <3> DEFINE short == n < 6
    <3>1. r = [whole |-> n, part |-> 0, length |-> JoinedLength(s, n), truncated |-> short]
      BY <2>4
    <3> HIDE DEF short
    <3>2. r.truncated = short
      BY <3>1
    <3> QED
      BY <3>2 DEF short
  <2>7. r.length <= limit /\ r.length # 0
    BY <2>2, <2>5, <2>6
  <2>8. r.whole < 6 => JoinedLength(s, r.whole + 1) > limit
    BY <2>3, <2>6
  <2>9. r.truncated <=> r.whole < 6
    BY <2>6, <2>10, Zenon
  <2> QED
    BY <2>7, <2>8, <2>9 DEF Fits
<1> QED
  BY <1>3, <1>4

(* Whatever is known, the brief keeps to its limit, leaves out only what   *)
(* does not fit and says so (technical_brief.py, _assemble).               *)
THEOREM BriefAlwaysFits == BriefSpec => []BriefFits
<1>1. BriefInit => BriefInv
  BY DEF BriefInit, BriefInv, BriefFits
<1>2. BriefInv /\ [BriefNext]_briefVars => BriefInv'
  <2> SUFFICES ASSUME BriefInv, [BriefNext]_briefVars PROVE BriefInv'
    OBVIOUS
  <2>1. CASE BuildBrief
    <3> DEFINE s == BriefSections(given)
    <3>1. s \in Seq(Nat \ {0}) /\ Len(s) = 6
      BY SectionsAre DEF BriefInv
    <3>2. given.limit \in Nat
      BY BriefAssumption DEF BriefInv
    <3>3. brief' = Assemble(s, given.limit) /\ given' = given
      BY <2>1 DEF BuildBrief
    <3> HIDE DEF s
    <3>4. Fits(brief', s, given.limit)
      BY <3>1, <3>2, <3>3, AssembledFits
    <3>5. BriefFits'
      BY <3>1, <3>3, <3>4 DEF BriefFits, Fits, s
    <3> QED
      BY <3>3, <3>5 DEF BriefInv
  <2>2. CASE UNCHANGED briefVars
    BY <2>2 DEF BriefInv, BriefFits, briefVars
  <2> QED
    BY <2>1, <2>2 DEF BriefNext
<1>3. BriefInv => BriefFits
  BY DEF BriefInv
<1> QED
  BY <1>1, <1>2, <1>3, PTL DEF BriefSpec

-----------------------------------------------------------------------------
(* Pivots are ordered by their bar, of one bar the high comes first.  Lists *)
(* have the newest first.                                                   *)
PivotIds == Nat \X Sides
Key(p) == 2 * p[1] + (IF p[2] = "low" THEN 1 ELSE 0)
Falling(s) == \A i, j \in DOMAIN s : i < j => Key(s[i]) > Key(s[j])

LEMMA KeyTyped == \A p \in PivotIds : Key(p) \in Nat
BY DEF Key, PivotIds, Sides

LEMMA KeyOnly == \A p, q \in PivotIds : Key(p) = Key(q) => p = q
<1> SUFFICES ASSUME NEW p \in PivotIds, NEW q \in PivotIds, Key(p) = Key(q)
             PROVE  p = q
  OBVIOUS
<1>1. p[1] \in Nat /\ q[1] \in Nat /\ p[2] \in Sides /\ q[2] \in Sides
  BY DEF PivotIds
<1>2. p = <<p[1], p[2]>> /\ q = <<q[1], q[2]>>
  BY DEF PivotIds
<1>3. p[1] = q[1] /\ p[2] = q[2]
  BY <1>1 DEF Key, Sides
<1> QED
  BY <1>2, <1>3

(* Of one side, the key decides as the bar does.                           *)
LEMMA KeyOfSide ==
  \A p, q \in PivotIds : p[2] = q[2] => (Key(p) < Key(q) <=> p[1] < q[1])
BY DEF Key, PivotIds, Sides

(* u is s followed by t.                                                   *)
Glued(u, s, t) ==
  /\ Len(u) = Len(s) + Len(t)
  /\ \A i \in 1..Len(s) : u[i] = s[i]
  /\ \A i \in 1..Len(t) : u[Len(s) + i] = t[i]

LEMMA Concatenated ==
  ASSUME NEW S, NEW s \in Seq(S), NEW t \in Seq(S)
  PROVE  s \o t \in Seq(S) /\ Glued(s \o t, s, t)
BY DEF Glued

(* A pivot put in front of a list.                                         *)
LEMMA Pushed ==
  ASSUME NEW S, NEW s \in Seq(S), NEW x
  PROVE  /\ <<x>> \o s \in Seq(S \cup {x})
         /\ Len(<<x>> \o s) = Len(s) + 1
         /\ (<<x>> \o s)[1] = x
         /\ \A i \in 1..Len(s) : (<<x>> \o s)[i + 1] = s[i]
<1>1. <<x>> \in Seq(S \cup {x}) /\ s \in Seq(S \cup {x}) /\ Len(<<x>>) = 1
  <2>1. s \in Seq(S \cup {x})
    BY SeqMonotonic
  <2> QED
    BY <2>1
<1> DEFINE f == <<x>>
           R == S \cup {x}
<1>2. f \in Seq(R) /\ s \in Seq(R) /\ Len(f) = 1 /\ f[1] = x
  BY <1>1
<1> HIDE DEF f, R
<1>3. f \o s \in Seq(R) /\ Glued(f \o s, f, s)
  BY <1>2, Concatenated
<1>4. Len(s) \in Nat
  OBVIOUS
<1>5. ASSUME NEW i \in 1..Len(s) PROVE (f \o s)[i + 1] = s[i]
  <2>1. i + 1 = Len(f) + i
    BY <1>2
  <2> QED
    BY <1>3, <2>1 DEF Glued
<1>6. (f \o s)[1] = x
  <2>1. 1 \in 1..Len(f)
    BY <1>2
  <2> QED
    BY <1>2, <1>3, <2>1 DEF Glued
<1>7. f \o s \in Seq(R) /\ Len(f \o s) = Len(s) + 1
  BY <1>2, <1>3, <1>4 DEF Glued
<1> QED
  BY <1>5, <1>6, <1>7 DEF f, R

(* Membership, by position.                                                *)
LEMMA ToSetIs ==
  ASSUME NEW S, NEW s \in Seq(S)
  PROVE  /\ \A x : x \in ToSet(s) <=> \E i \in 1..Len(s) : s[i] = x
         /\ ToSet(s) \subseteq S
BY DEF ToSet

LEMMA PushedSet ==
  ASSUME NEW S, NEW s \in Seq(S), NEW x
  PROVE  \A y : y \in ToSet(<<x>> \o s) <=> y = x \/ y \in ToSet(s)
<1> DEFINE t == <<x>> \o s
<1>1. /\ t \in Seq(S \cup {x}) /\ Len(t) = Len(s) + 1 /\ t[1] = x
      /\ \A i \in 1..Len(s) : t[i + 1] = s[i]
  BY Pushed
<1> HIDE DEF t
<1>2. \A y : y \in ToSet(t) <=> \E i \in 1..Len(t) : t[i] = y
  BY <1>1, ToSetIs
<1>3. \A y : y \in ToSet(s) <=> \E i \in 1..Len(s) : s[i] = y
  BY ToSetIs
<1>4. Len(s) \in Nat
  OBVIOUS
<1>5. ASSUME NEW y, y \in ToSet(t) PROVE y = x \/ y \in ToSet(s)
  <2>1. PICK i \in 1..Len(t) : t[i] = y
    BY <1>2, <1>5
  <2>2. CASE i = 1
    BY <1>1, <2>1, <2>2
  <2>3. CASE i # 1
    <3>1. i - 1 \in 1..Len(s) /\ (i - 1) + 1 = i
      BY <1>1, <1>4, <2>3
    <3>2. t[i] = s[i - 1]
      BY <1>1, <3>1
    <3> QED
      BY <1>3, <2>1, <3>1, <3>2
  <2> QED
    BY <2>2, <2>3
<1>6. x \in ToSet(t)
  BY <1>1, <1>2, <1>4
<1>7. ASSUME NEW y, y \in ToSet(s) PROVE y \in ToSet(t)
  <2>1. PICK i \in 1..Len(s) : s[i] = y
    BY <1>3, <1>7
  <2>2. i + 1 \in 1..Len(t) /\ t[i + 1] = y
    BY <1>1, <1>4, <2>1
  <2> QED
    BY <1>2, <2>2
<1>8. \A y : y \in ToSet(t) <=> y = x \/ y \in ToSet(s)
  BY <1>5, <1>6, <1>7
<1> QED
  BY <1>8 DEF t

LEMMA PushedFalls ==
  ASSUME NEW s \in Seq(PivotIds), NEW x \in PivotIds, Falling(s),
         \A y \in ToSet(s) : Key(x) > Key(y)
  PROVE  Falling(<<x>> \o s)
<1> DEFINE t == <<x>> \o s
<1>1. /\ t \in Seq(PivotIds \cup {x}) /\ Len(t) = Len(s) + 1 /\ t[1] = x
      /\ \A i \in 1..Len(s) : t[i + 1] = s[i]
  BY Pushed
<1> HIDE DEF t
<1>2. Len(s) \in Nat
  OBVIOUS
<1>3. ASSUME NEW i \in DOMAIN t, NEW j \in DOMAIN t, i < j PROVE Key(t[i]) > Key(t[j])
  <2>1. i \in 1..Len(s) + 1 /\ j \in 1..Len(s) + 1
    BY <1>1
  <2>2. j - 1 \in 1..Len(s) /\ (j - 1) + 1 = j
    BY <1>2, <1>3, <2>1
  <2>3. t[j] = s[j - 1] /\ s[j - 1] \in ToSet(s)
    <3>1. s[j - 1] \in ToSet(s)
      BY <2>2, ToSetIs
    <3> QED
      BY <1>1, <2>2, <3>1
  <2>4. CASE i = 1
    BY <1>1, <2>3, <2>4
  <2>5. CASE i # 1
    <3>1. i - 1 \in 1..Len(s) /\ (i - 1) + 1 = i /\ i - 1 < j - 1
      BY <1>2, <1>3, <2>1, <2>5
    <3>2. t[i] = s[i - 1]
      BY <1>1, <3>1
    <3>3. i - 1 \in DOMAIN s /\ j - 1 \in DOMAIN s
      BY <2>2, <3>1
    <3> QED
      BY <2>3, <3>1, <3>2, <3>3 DEF Falling
  <2> QED
    BY <2>4, <2>5
<1>4. Falling(t)
  BY <1>3 DEF Falling
<1> QED
  BY <1>4 DEF t

(* Appending, by position and by member.                                   *)
LEMMA AppendedSet ==
  ASSUME NEW T, NEW s \in Seq(T), NEW x \in T
  PROVE  /\ Append(s, x) \in Seq(T)
         /\ \A y : y \in ToSet(Append(s, x)) <=> y \in ToSet(s) \/ y = x
<1> DEFINE t == Append(s, x)
<1>1. /\ t \in Seq(T) /\ Len(t) = Len(s) + 1 /\ t[Len(s) + 1] = x
      /\ \A i \in 1..Len(s) : t[i] = s[i]
  OBVIOUS
<1> HIDE DEF t
<1>2. \A y : y \in ToSet(t) <=> \E i \in 1..Len(t) : t[i] = y
  BY <1>1, ToSetIs
<1>3. \A y : y \in ToSet(s) <=> \E i \in 1..Len(s) : s[i] = y
  BY ToSetIs
<1>4. Len(s) \in Nat
  OBVIOUS
<1>5. \A y : y \in ToSet(t) => y \in ToSet(s) \/ y = x
  <2> SUFFICES ASSUME NEW y, NEW i \in 1..Len(t), t[i] = y
               PROVE  y \in ToSet(s) \/ y = x
    BY <1>2
  <2>1. i \in 1..Len(s) \/ i = Len(s) + 1
    BY <1>1, <1>4
  <2> QED
    BY <1>1, <1>3, <2>1
<1>6. \A y : y \in ToSet(s) \/ y = x => y \in ToSet(t)
  <2>1. x \in ToSet(t)
    BY <1>1, <1>2, <1>4
  <2>2. ASSUME NEW y, y \in ToSet(s) PROVE y \in ToSet(t)
    <3>1. PICK i \in 1..Len(s) : s[i] = y
      BY <1>3, <2>2
    <3>2. i \in 1..Len(t) /\ t[i] = y
      BY <1>1, <1>4, <3>1
    <3> QED
      BY <1>2, <3>2
  <2> QED
    BY <2>1, <2>2
<1>7. t \in Seq(T) /\ \A y : y \in ToSet(t) <=> y \in ToSet(s) \/ y = x
  BY <1>1, <1>5, <1>6
<1> QED
  BY <1>7 DEF t

LEMMA AppendedFalls ==
  ASSUME NEW s \in Seq(PivotIds), NEW x \in PivotIds, Falling(s),
         \A y \in ToSet(s) : Key(y) > Key(x)
  PROVE  Falling(Append(s, x))
<1> DEFINE t == Append(s, x)
<1>1. /\ t \in Seq(PivotIds) /\ Len(t) = Len(s) + 1 /\ t[Len(s) + 1] = x
      /\ \A i \in 1..Len(s) : t[i] = s[i]
  OBVIOUS
<1> HIDE DEF t
<1>2. Len(s) \in Nat
  OBVIOUS
<1>3. ASSUME NEW i \in DOMAIN t, NEW j \in DOMAIN t, i < j PROVE Key(t[i]) > Key(t[j])
  <2>1. i \in 1..Len(s) + 1 /\ j \in 1..Len(s) + 1
    BY <1>1
  <2>2. i \in 1..Len(s) /\ i \in DOMAIN s
    BY <1>2, <1>3, <2>1
  <2>3. t[i] = s[i] /\ s[i] \in ToSet(s)
    <3>1. s[i] \in ToSet(s)
      BY <2>2, ToSetIs
    <3> QED
      BY <1>1, <2>2, <3>1
  <2>4. CASE j = Len(s) + 1
    BY <1>1, <2>3, <2>4
  <2>5. CASE j # Len(s) + 1
    <3>1. j \in 1..Len(s) /\ j \in DOMAIN s
      BY <1>2, <2>1, <2>5
    <3>2. t[j] = s[j]
      BY <1>1, <3>1
    <3> QED
      BY <1>3, <2>2, <2>3, <3>1, <3>2 DEF Falling
  <2> QED
    BY <2>4, <2>5
<1>4. Falling(t)
  BY <1>3 DEF Falling
<1> QED
  BY <1>4 DEF t

(* g is what Picked builds up, g[i] from the first i members.              *)
PicksUp(g, s, S) ==
  /\ g[0] = <<>>
  /\ \A i \in 1..Len(s) : g[i] = IF s[i] \in S THEN Append(g[i - 1], s[i])
                                 ELSE g[i - 1]

LEMMA PickedSteps ==
  ASSUME NEW T, NEW s \in Seq(T), NEW S
  PROVE  \E g : PicksUp(g, s, S) /\ Picked(s, S) = g[Len(s)]
<1> DEFINE Eq(g) == g = [i \in 0..Len(s) |-> IF i = 0 THEN <<>>
                          ELSE IF s[i] \in S THEN Append(g[i - 1], s[i])
                          ELSE g[i - 1]]
           f == CHOOSE g : Eq(g)
<1>1. Picked(s, S) = f[Len(s)]
  BY DEF Picked
<1> DEFINE V == Seq(T)
           Add(n, a) == IF n + 1 \in 1..Len(s) /\ s[n + 1] \in S
                          THEN Append(a, s[n + 1]) ELSE a
           step == [p \in Nat \X V |-> Add(p[1], p[2])]
<1>2. Len(s) \in Nat /\ \A i \in 1..Len(s) : s[i] \in T
  OBVIOUS
<1>3. step \in [Nat \X V -> V]
  <2>1. \A n \in Nat, a \in V : Add(n, a) \in V
    BY <1>2
  <2> HIDE DEF Add, V
  <2> QED
    BY <2>1
<1>4. <<>> \in V
  OBVIOUS
<1>5. PICK g : SolvesTo(g, Len(s), V, <<>>, step)
  <2> HIDE DEF step, V
  <2> QED
    BY <1>2, <1>3, <1>4, BoundedRecursion, Zenon
<1>6. Eq(g)
  <2>1. g \in [0..Len(s) -> V] /\ g[0] = <<>>
    BY <1>5 DEF SolvesTo
  <2>2. ASSUME NEW i \in 1..Len(s)
        PROVE  g[i] = IF s[i] \in S THEN Append(g[i - 1], s[i]) ELSE g[i - 1]
    <3>1. i - 1 \in Nat /\ (i - 1) + 1 = i /\ i - 1 \in 0..Len(s)
      BY <1>2
    <3>2. g[i - 1] \in V
      BY <2>1, <3>1
    <3>3. g[i] = Add(i - 1, g[i - 1])
      <4> HIDE DEF Add, V
      <4>1. g[i] = step[<<i - 1, g[i - 1]>>]
        BY <1>5 DEF SolvesTo
      <4> QED
        BY <3>1, <3>2, <4>1
    <3> QED
      BY <3>1, <3>3
  <2>3. ASSUME NEW i \in 0..Len(s)
        PROVE  g[i] = IF i = 0 THEN <<>>
                      ELSE IF s[i] \in S THEN Append(g[i - 1], s[i]) ELSE g[i - 1]
    <3>1. i = 0 \/ i \in 1..Len(s)
      BY <1>2
    <3> QED
      BY <1>2, <2>1, <2>2, <3>1
  <2>4. g = [i \in 0..Len(s) |-> g[i]]
    BY <2>1
  <2> HIDE DEF V
  <2> QED
    BY <2>3, <2>4
<1> HIDE DEF Eq
<1>7. Eq(f)
  BY <1>6, Zenon
<1> HIDE DEF f
<1>8. PicksUp(f, s, S)
  <2>1. f = [i \in 0..Len(s) |-> IF i = 0 THEN <<>>
              ELSE IF s[i] \in S THEN Append(f[i - 1], s[i]) ELSE f[i - 1]]
    BY <1>7 DEF Eq
  <2>2. 0 \in 0..Len(s) /\ \A i \in 1..Len(s) : i \in 0..Len(s) /\ i # 0
    BY <1>2
  <2>3. f[0] = <<>>
    BY <2>1, <2>2
  <2>4. ASSUME NEW i \in 1..Len(s)
        PROVE  f[i] = IF s[i] \in S THEN Append(f[i - 1], s[i]) ELSE f[i - 1]
    BY <2>1, <2>2, Zenon
  <2> QED
    BY <2>3, <2>4 DEF PicksUp
<1> QED
  BY <1>1, <1>8

(* r is what is picked: the members of s in S.                             *)
Picks(r, s, S) == \A y : y \in ToSet(r) <=> y \in ToSet(s) /\ y \in S

LEMMA PickedIs ==
  ASSUME NEW T, NEW s \in Seq(T), NEW S
  PROVE  Picked(s, S) \in Seq(T) /\ Picks(Picked(s, S), s, S)
<1>1. PICK g : PicksUp(g, s, S) /\ Picked(s, S) = g[Len(s)]
  BY PickedSteps, Zenon
<1> DEFINE Known(k) == \A y : y \in ToSet(g[k]) <=> (\E i \in 1..k : s[i] = y) /\ y \in S
           I == {k \in Nat : k <= Len(s) => g[k] \in Seq(T) /\ Known(k)}
<1>2. Len(s) \in Nat /\ \A i \in 1..Len(s) : s[i] \in T
  OBVIOUS
<1>3. 0 \in I
  <2>1. g[0] = <<>> /\ g[0] \in Seq(T)
    BY <1>1 DEF PicksUp
  <2>2. Known(0)
    <3>1. \A y : y \notin ToSet(g[0])
      BY <2>1 DEF ToSet
    <3>2. \A i : i \notin 1..0
      OBVIOUS
    <3> QED
      BY <3>1, <3>2
  <2> HIDE DEF Known
  <2> QED
    BY <2>1, <2>2
<1>4. ASSUME NEW k \in I PROVE k + 1 \in I
  <2> SUFFICES ASSUME k + 1 <= Len(s) PROVE g[k + 1] \in Seq(T) /\ Known(k + 1)
    OBVIOUS
  <2>1. k \in Nat /\ k + 1 \in 1..Len(s) /\ (k + 1) - 1 = k
    BY <1>2
  <2>2. g[k] \in Seq(T) /\ Known(k)
    BY <1>2, <2>1
  <2>3. g[k + 1] = IF s[k + 1] \in S THEN Append(g[k], s[k + 1]) ELSE g[k]
    BY <1>1, <2>1 DEF PicksUp
  <2> DEFINE h == g[k]
             x == s[k + 1]
  <2>4. x \in T
    BY <1>2, <2>1
  <2>5. \A y : (\E i \in 1..k + 1 : s[i] = y) <=> (\E i \in 1..k : s[i] = y) \/ y = x
    <3>1. \A i \in 1..k + 1 : i \in 1..k \/ i = k + 1
      BY <2>1
    <3>2. k + 1 \in 1..k + 1 /\ \A i \in 1..k : i \in 1..k + 1
      BY <2>1
    <3> QED
      BY <3>1, <3>2
  <2>6. CASE x \in S
    <3>1. g[k + 1] = Append(h, x)
      BY <2>3, <2>6
    <3>2. h \in Seq(T)
      BY <2>2
    <3> HIDE DEF h, x
    <3>3. /\ Append(h, x) \in Seq(T)
          /\ \A y : y \in ToSet(Append(h, x)) <=> y \in ToSet(h) \/ y = x
      BY <2>4, <3>2, AppendedSet
    <3>4. \A y : y \in ToSet(h) <=> (\E i \in 1..k : s[i] = y) /\ y \in S
      BY <2>2 DEF h
    <3>5. Known(k + 1)
      BY <2>5, <2>6, <3>1, <3>3, <3>4
    <3> QED
      BY <3>1, <3>3, <3>5
  <2>7. CASE x \notin S
    <3>1. g[k + 1] = g[k]
      BY <2>3, <2>7
    <3> HIDE DEF x
    <3>2. Known(k + 1)
      BY <2>2, <2>5, <2>7, <3>1
    <3> QED
      BY <2>2, <3>1, <3>2
  <2> QED
    BY <2>6, <2>7
<1>5. \A k \in Nat : k \in I
  <2>1. I \in SUBSET Nat
    OBVIOUS
  <2> HIDE DEF I
  <2> QED
    BY <1>3, <1>4, <2>1, SetInduction
<1>6. g[Len(s)] \in Seq(T) /\ Known(Len(s))
  <2>1. Len(s) \in I
    BY <1>2, <1>5, Zenon
  <2> HIDE DEF Known
  <2> QED
    BY <1>2, <2>1
<1>7. \A y : y \in ToSet(s) <=> \E i \in 1..Len(s) : s[i] = y
  BY ToSetIs
<1>8. Picks(g[Len(s)], s, S)
  BY <1>6, <1>7 DEF Picks
<1> QED
  BY <1>1, <1>6, <1>8

LEMMA PickedFalls ==
  ASSUME NEW s \in Seq(PivotIds), NEW S, Falling(s)
  PROVE  Falling(Picked(s, S))
<1>1. PICK g : PicksUp(g, s, S) /\ Picked(s, S) = g[Len(s)]
  BY PickedSteps, Zenon
<1> DEFINE Known(k) == \A y \in ToSet(g[k]) : \E i \in 1..k : s[i] = y
           I == {k \in Nat : k <= Len(s) =>
                   g[k] \in Seq(PivotIds) /\ Known(k) /\ Falling(g[k])}
<1>2. Len(s) \in Nat /\ \A i \in 1..Len(s) : s[i] \in PivotIds
  OBVIOUS
<1>3. 0 \in I
  <2>1. g[0] = <<>> /\ g[0] \in Seq(PivotIds)
    BY <1>1 DEF PicksUp
  <2>2. Known(0) /\ Falling(g[0])
    BY <2>1 DEF ToSet, Falling
  <2> HIDE DEF Known
  <2> QED
    BY <2>1, <2>2
<1>4. ASSUME NEW k \in I PROVE k + 1 \in I
  <2> SUFFICES ASSUME k + 1 <= Len(s)
               PROVE g[k + 1] \in Seq(PivotIds) /\ Known(k + 1) /\ Falling(g[k + 1])
    OBVIOUS
  <2>1. k \in Nat /\ k + 1 \in 1..Len(s) /\ (k + 1) - 1 = k
    BY <1>2
  <2>2. g[k] \in Seq(PivotIds) /\ Known(k) /\ Falling(g[k])
    BY <1>2, <2>1
  <2>3. g[k + 1] = IF s[k + 1] \in S THEN Append(g[k], s[k + 1]) ELSE g[k]
    BY <1>1, <2>1 DEF PicksUp
  <2> DEFINE h == g[k]
             x == s[k + 1]
  <2>4. x \in PivotIds
    BY <1>2, <2>1
  <2>5. \A i \in 1..k : i \in 1..k + 1
    BY <2>1
  <2>6. CASE x \in S
    <3>1. g[k + 1] = Append(h, x)
      BY <2>3, <2>6
    <3>2. h \in Seq(PivotIds) /\ Falling(h)
      BY <2>2
    <3>3. \A y \in ToSet(h) : Key(y) > Key(x)
      <4> SUFFICES ASSUME NEW y \in ToSet(h) PROVE Key(y) > Key(x)
        OBVIOUS
      <4>1. PICK i \in 1..k : s[i] = y
        BY <2>2
      <4>2. i \in DOMAIN s /\ k + 1 \in DOMAIN s /\ i < k + 1
        BY <1>2, <2>1
      <4> QED
        BY <4>1, <4>2 DEF Falling
    <3>4. k + 1 \in 1..k + 1 /\ s[k + 1] = x
      BY <2>1
    <3>5. \A y \in ToSet(h) : \E i \in 1..k : s[i] = y
      BY <2>2
    <3> HIDE DEF h, x
    <3>6. /\ Append(h, x) \in Seq(PivotIds)
          /\ \A y : y \in ToSet(Append(h, x)) <=> y \in ToSet(h) \/ y = x
      BY <2>4, <3>2, AppendedSet
    <3>7. Falling(Append(h, x))
      BY <2>4, <3>2, <3>3, AppendedFalls
    <3>8. Known(k + 1)
      BY <2>5, <3>1, <3>4, <3>5, <3>6
    <3> QED
      BY <3>1, <3>6, <3>7, <3>8
  <2>7. CASE x \notin S
    <3>1. g[k + 1] = g[k]
      BY <2>3, <2>7
    <3>2. Known(k + 1)
      BY <2>2, <2>5, <3>1
    <3> QED
      BY <2>2, <3>1, <3>2
  <2> QED
    BY <2>6, <2>7
<1>5. \A k \in Nat : k \in I
  <2>1. I \in SUBSET Nat
    OBVIOUS
  <2> HIDE DEF I
  <2> QED
    BY <1>3, <1>4, <2>1, SetInduction
<1>6. Falling(g[Len(s)])
  BY <1>2, <1>5
<1> QED
  BY <1>1, <1>6

(* All but the oldest.                                                     *)
LEMMA FrontIs ==
  ASSUME NEW S \in SUBSET PivotIds, NEW s \in Seq(S), Falling(s), Len(s) >= 1
  PROVE  /\ Front(s) \in Seq(S) /\ Falling(Front(s)) /\ s[Len(s)] \in S
         /\ \A x : x \in ToSet(Front(s)) <=> x \in ToSet(s) /\ x # s[Len(s)]
         /\ \A x \in ToSet(Front(s)) : Key(x) > Key(s[Len(s)])
<1> DEFINE r == Front(s)
           m == Len(s)
<1>1. m \in Nat /\ m >= 1 /\ \A i \in 1..m : s[i] \in S /\ Key(s[i]) \in Nat
  <2>1. \A i \in 1..m : s[i] \in S /\ s[i] \in PivotIds
    OBVIOUS
  <2>2. m \in Nat
    OBVIOUS
  <2> QED
    BY <2>1, <2>2, KeyTyped
<1>2. r \in Seq(S) /\ Len(r) = m - 1 /\ \A i \in 1..m - 1 : r[i] = s[i]
  <2>1. r = SubSeq(s, 1, m - 1)
    BY DEF Front
  <2> HIDE DEF r, m
  <2>2. 1 \in Int /\ m - 1 \in Int /\ \A i \in 1..m - 1 : s[i] \in S
    BY <1>1
  <2>3. r \in Seq(S) /\ Len(r) = m - 1
    BY <1>1, <2>1, <2>2, SubSeqProperties
  <2>4. ASSUME NEW i \in 1..m - 1 PROVE r[i] = s[i]
    BY <1>1, <2>1
  <2> QED
    BY <2>3, <2>4
<1> HIDE DEF r, m
<1>3. \A i, j \in 1..m : i < j => Key(s[i]) > Key(s[j])
  BY DEF Falling, m
<1>4. Falling(r)
  <2> SUFFICES ASSUME NEW i \in DOMAIN r, NEW j \in DOMAIN r, i < j
               PROVE  Key(r[i]) > Key(r[j])
    BY DEF Falling
  <2>1. i \in 1..m - 1 /\ j \in 1..m - 1 /\ i \in 1..m /\ j \in 1..m
    BY <1>1, <1>2
  <2> QED
    BY <1>2, <1>3, <2>1
<1>5. \A x : x \in ToSet(r) <=> \E i \in 1..m - 1 : s[i] = x
  <2>1. \A x : x \in ToSet(r) <=> \E i \in 1..Len(r) : r[i] = x
    BY <1>2, ToSetIs
  <2> QED
    BY <1>2, <2>1
<1>6. \A x : x \in ToSet(s) <=> \E i \in 1..m : s[i] = x
  BY ToSetIs DEF m
<1>7. \A i \in 1..m - 1 : i \in 1..m /\ Key(s[i]) > Key(s[m]) /\ s[i] # s[m]
  <2> SUFFICES ASSUME NEW i \in 1..m - 1
               PROVE  i \in 1..m /\ Key(s[i]) > Key(s[m]) /\ s[i] # s[m]
    OBVIOUS
  <2>1. i \in 1..m /\ m \in 1..m /\ i < m
    BY <1>1
  <2>2. Key(s[i]) > Key(s[m]) /\ Key(s[i]) \in Nat
    BY <1>1, <1>3, <2>1
  <2>3. s[i] # s[m]
    BY <2>2
  <2> QED
    BY <2>1, <2>2, <2>3
<1>8. \A i \in 1..m : i \in 1..m - 1 \/ i = m
  BY <1>1
<1>9. \A x : x \in ToSet(r) <=> x \in ToSet(s) /\ x # s[m]
  <2>1. ASSUME NEW x, x \in ToSet(r) PROVE x \in ToSet(s) /\ x # s[m]
    BY <1>5, <1>6, <1>7, <2>1
  <2>2. ASSUME NEW x, x \in ToSet(s), x # s[m] PROVE x \in ToSet(r)
    <3>1. PICK i \in 1..m : s[i] = x
      BY <1>6, <2>2
    <3>2. i \in 1..m - 1
      BY <1>8, <2>2, <3>1
    <3> QED
      BY <1>5, <3>1, <3>2
  <2> QED
    BY <2>1, <2>2
<1>10. \A x \in ToSet(r) : Key(x) > Key(s[m])
  BY <1>5, <1>7
<1>11. s[m] \in S
  BY <1>1
<1>12. \A x : x \in ToSet(r) => Key(x) > Key(s[m])
  BY <1>10
<1> QED
  BY <1>2, <1>4, <1>9, <1>11, <1>12 DEF r, m

-----------------------------------------------------------------------------
(* What the detector's state is at every moment of a bar, when every pivot *)
(* it has made has a key below B.                                          *)
IsPivot(r, p) ==
  /\ {"price", "side", "term", "claimed", "last", "i", "l"} \subseteq DOMAIN r
  /\ r.price \in Int /\ r.side = p[2] /\ r.claimed \in BOOLEAN /\ r.term \in Terms

Shaped(d, B) ==
  /\ {"piv", "st", "level"} \subseteq DOMAIN d
  /\ DOMAIN d.piv \subseteq PivotIds
  /\ \A p \in DOMAIN d.piv : Key(p) < B /\ IsPivot(d.piv[p], p)
  /\ d.st \in Seq(DOMAIN d.piv)
  /\ d.level \in [Sides -> [Terms -> Seq(DOMAIN d.piv)]]
  /\ \A side \in Sides, term \in Terms :
        \A p \in ToSet(d.level[side][term]) : p[2] = side

(* The lists have the newest first.                                        *)
Sorted(d) ==
  /\ Falling(d.st)
  /\ \A side \in Sides, term \in Terms : Falling(d.level[side][term])

(* The buffer holds the newest pivots, and each is in the list of its side.*)
Recent(d) ==
  \A p \in ToSet(d.st) :
    /\ \A q \in DOMAIN d.piv : Key(q) > Key(p) => q \in ToSet(d.st)
    /\ p \in ToSet(d.level[p[2]]["ST"])

Barred == [o : Int, h : Int, l : Int, c : Int]

(* One pivot was added: kept is what is left of the buffer, list of the    *)
(* short-term pivots of its side.                                          *)
PivotAdded(d, e, side, id, kept, list) ==
  /\ {"piv", "st", "level"} \subseteq DOMAIN e
  /\ \A p : p \in DOMAIN e.piv <=> p \in DOMAIN d.piv \/ p = id
  /\ \A p \in DOMAIN d.piv : e.piv[p] = d.piv[p]
  /\ IsPivot(e.piv[id], id) /\ e.piv[id].term = "ST" /\ e.piv[id].claimed = FALSE
  /\ e.st = <<id>> \o kept
  /\ e.level = [d.level EXCEPT ![side]["ST"] = <<id>> \o list]
  /\ kept \in Seq(DOMAIN d.piv) /\ list \in Seq(DOMAIN d.piv)
  /\ Falling(kept) /\ Falling(list)
  /\ \A x \in ToSet(kept) :
        x \in ToSet(d.st) /\ \A y \in ToSet(d.st) : Key(y) > Key(x) => y \in ToSet(kept)
  /\ \A x \in ToSet(list) : x \in ToSet(d.level[side]["ST"])
  /\ \A x \in ToSet(d.level[side]["ST"]) :
        x \in ToSet(list) \/ (x \in ToSet(d.st) /\ x \notin ToSet(kept))
  /\ \A x, y \in ToSet(d.level[side]["ST"]) :
        x \notin ToSet(list) /\ y \notin ToSet(list) => x = y

LEMMA SwingAdds ==
  ASSUME NEW d, NEW B, Shaped(d, B), Sorted(d), NEW side \in Sides, NEW n \in Nat,
         n >= 1, B = Key(<<n - 1, side>>), NEW w \in Seq(Barred), IsSwing(side, w)
  PROVE  \E kept, list : PivotAdded(d, AddSwing(side, d, n, w), side, <<n - 1, side>>, kept, list)
<1> DEFINE full == Len(d.st) >= MaxBuffer
           old  == IF full THEN d.st[Len(d.st)] ELSE <<0, side>>
           kept == IF full THEN Front(d.st) ELSE d.st
           all  == d.level[side]["ST"]
           list == IF full THEN Picked(all, DOMAIN d.piv \ {old}) ELSE all
           id   == <<n - 1, side>>
           prev == {d.piv[list[k]].price : k \in {1} \cap DOMAIN list}
           new  == NewPivot(side, Extreme(side, w[2]), prev)
           e    == [piv   |-> [p \in DOMAIN d.piv \cup {id} |->
                                  IF p = id THEN new ELSE d.piv[p]],
                    st    |-> <<id>> \o kept,
                    level |-> [d.level EXCEPT ![side]["ST"] = <<id>> \o list]]
<1>1. AddSwing(side, d, n, w) = e
  BY DEF AddSwing
<1>2. /\ DOMAIN d.piv \subseteq PivotIds /\ d.st \in Seq(DOMAIN d.piv)
      /\ all \in Seq(DOMAIN d.piv) /\ Falling(d.st) /\ Falling(all)
  BY DEF Shaped, Sorted, Terms
<1>3. id \notin DOMAIN d.piv
  <2>1. \A p \in DOMAIN d.piv : Key(p) < B /\ Key(p) \in Nat
    BY <1>2, KeyTyped DEF Shaped
  <2> QED
    BY <2>1
<1>4. IsPivot(new, id) /\ new.term = "ST" /\ new.claimed = FALSE
  <2>1. Extreme(side, w[2]) \in Int
    <3>1. 2 \in 1..Len(w)
      BY DEF IsSwing
    <3>2. w[2] \in Barred
      BY <3>1
    <3> QED
      BY <3>2 DEF Extreme, Barred
  <2>2. id[2] = side
    OBVIOUS
  <2> HIDE DEF id, prev
  <2>3. /\ new.price = Extreme(side, w[2]) /\ new.side = side /\ new.claimed = FALSE
        /\ new.term = "ST"
        /\ {"price", "side", "term", "claimed", "last", "i", "l"} \subseteq DOMAIN new
    BY DEF NewPivot
  <2> HIDE DEF new
  <2> QED
    BY <2>1, <2>2, <2>3 DEF IsPivot, Terms
<1>5. /\ kept \in Seq(DOMAIN d.piv) /\ list \in Seq(DOMAIN d.piv)
      /\ Falling(kept) /\ Falling(list)
      /\ \A x \in ToSet(kept) :
            x \in ToSet(d.st) /\ \A y \in ToSet(d.st) : Key(y) > Key(x) => y \in ToSet(kept)
      /\ \A x \in ToSet(list) : x \in ToSet(all)
      /\ \A x \in ToSet(all) :
            x \in ToSet(list) \/ (x \in ToSet(d.st) /\ x \notin ToSet(kept))
      /\ \A x, y \in ToSet(all) : x \notin ToSet(list) /\ y \notin ToSet(list) => x = y
  <2>1. CASE ~full
    BY <1>2, <2>1
  <2>2. CASE full
    <3>1. Len(d.st) >= 1
      BY <1>2, <2>2, PipelineAssumption
    <3> DEFINE s == d.st
               S == DOMAIN d.piv
    <3>2. kept = Front(s) /\ old = s[Len(s)] /\ list = Picked(all, S \ {old})
      BY <2>2
    <3>3. S \in SUBSET PivotIds /\ s \in Seq(S) /\ Falling(s) /\ Len(s) >= 1
      BY <1>2, <3>1
    <3> HIDE DEF s, S
    <3>4. /\ Front(s) \in Seq(S) /\ Falling(Front(s)) /\ s[Len(s)] \in S
          /\ \A x : x \in ToSet(Front(s)) <=> x \in ToSet(s) /\ x # s[Len(s)]
          /\ \A x \in ToSet(Front(s)) : Key(x) > Key(s[Len(s)])
      BY <3>3, FrontIs
    <3>5. all \in Seq(S) /\ all \in Seq(PivotIds) /\ Falling(all)
      <4>1. all \in Seq(S) /\ Falling(all)
        BY <1>2 DEF S
      <4> HIDE DEF all
      <4> QED
        BY <3>3, <4>1
    <3>6. s[Len(s)] \in ToSet(s)
      BY <3>3 DEF ToSet
    <3> HIDE DEF all, full, old, kept, list
    <3>7. list \in Seq(S) /\ Picks(list, all, S \ {old})
      BY <3>2, <3>5, PickedIs
    <3>8. Falling(list)
      BY <3>2, <3>5, PickedFalls
    <3>9. \A x : x \in ToSet(kept) <=> x \in ToSet(s) /\ x # old
      BY <3>2, <3>4
    <3>10. ASSUME NEW x \in ToSet(kept), NEW y \in ToSet(s), Key(y) > Key(x)
           PROVE  y \in ToSet(kept)
      <4>1. Key(x) > Key(old)
        BY <3>2, <3>4, <3>10
      <4>2. Key(x) \in Nat /\ Key(old) \in Nat
        <5>1. x \in PivotIds /\ old \in PivotIds
          <6>1. ToSet(s) \subseteq S
            BY <3>3, ToSetIs
          <6> QED
            BY <3>2, <3>3, <3>4, <3>9, <6>1
        <5> QED
          BY <5>1, KeyTyped
      <4>3. y # old
        BY <3>10, <4>1, <4>2
      <4> QED
        BY <3>9, <4>3
    <3>11. \A x : x \in ToSet(all) => x \in S
      BY <3>5, ToSetIs
    <3>12. \A x : x \in ToSet(list) <=> x \in ToSet(all) /\ x # old
      BY <3>7, <3>11 DEF Picks
    <3>13. old \in ToSet(s) /\ old \notin ToSet(kept)
      BY <3>2, <3>6, <3>9
    <3>14. kept \in Seq(S) /\ Falling(kept)
      BY <3>2, <3>4
    <3> QED
      BY <3>7, <3>8, <3>9, <3>10, <3>12, <3>13, <3>14 DEF s, S
  <2> QED
    BY <2>1, <2>2
<1>6. /\ DOMAIN e.piv = DOMAIN d.piv \cup {id} /\ e.piv[id] = new
      /\ \A p \in DOMAIN d.piv : e.piv[p] = d.piv[p]
  <2> HIDE DEF new, id, kept, list
  <2> QED
    BY <1>3
<1>7. PivotAdded(d, e, side, id, kept, list)
  <2>1. e.st = <<id>> \o kept /\ e.level = [d.level EXCEPT ![side]["ST"] = <<id>> \o list]
    OBVIOUS
  <2>2. {"piv", "st", "level"} \subseteq DOMAIN e
    OBVIOUS
  <2> HIDE DEF e, new, id, kept, list
  <2> QED
    BY <1>4, <1>5, <1>6, <2>1, <2>2 DEF PivotAdded
<1> QED
  BY <1>1, <1>7, Zenon

(* The lists after an addition, by member.                                 *)
AddedSets(d, e, side, id, kept, list) ==
  /\ \A y : y \in ToSet(e.st) <=> y = id \/ y \in ToSet(kept)
  /\ \A y : y \in ToSet(e.level[side]["ST"]) <=> y = id \/ y \in ToSet(list)
  /\ e.level[side]["ST"] = <<id>> \o list
  /\ \A s \in Sides, t \in Terms :
        s # side \/ t # "ST" => e.level[s][t] = d.level[s][t]

LEMMA AddedSetsAre ==
  ASSUME NEW d, NEW e, NEW B, Shaped(d, B), NEW side \in Sides, NEW id, NEW kept, NEW list,
         PivotAdded(d, e, side, id, kept, list)
  PROVE  AddedSets(d, e, side, id, kept, list)
<1> DEFINE S == DOMAIN d.piv
<1>1. kept \in Seq(S) /\ list \in Seq(S) /\ e.st = <<id>> \o kept
  BY DEF PivotAdded
<1>2. d.level \in [Sides -> [Terms -> Seq(S)]] /\ "ST" \in Terms
  BY DEF Shaped, Terms
<1>3. e.level = [d.level EXCEPT ![side]["ST"] = <<id>> \o list]
  BY DEF PivotAdded
<1> HIDE DEF S
<1>4. \A y : y \in ToSet(<<id>> \o kept) <=> y = id \/ y \in ToSet(kept)
  BY <1>1, PushedSet
<1>5. \A y : y \in ToSet(<<id>> \o list) <=> y = id \/ y \in ToSet(list)
  BY <1>1, PushedSet
<1>6. e.level[side]["ST"] = <<id>> \o list
  BY <1>2, <1>3
<1>7. \A s \in Sides, t \in Terms : s # side \/ t # "ST" => e.level[s][t] = d.level[s][t]
  BY <1>2, <1>3
<1> QED
  BY <1>1, <1>4, <1>5, <1>6, <1>7 DEF AddedSets

LEMMA ListsTyped ==
  ASSUME NEW d, NEW B, Shaped(d, B), NEW side \in Sides, NEW term \in Terms
  PROVE  /\ d.level[side][term] \in Seq(DOMAIN d.piv)
         /\ d.level[side][term] \in Seq(PivotIds)
         /\ \A p \in ToSet(d.level[side][term]) :
               p \in DOMAIN d.piv /\ p \in PivotIds /\ p[2] = side
<1> DEFINE s == d.level[side][term]
           S == DOMAIN d.piv
<1>1. s \in Seq(S) /\ S \subseteq PivotIds /\ \A p \in ToSet(s) : p[2] = side
  BY DEF Shaped
<1> HIDE DEF s, S
<1>2. s \in Seq(PivotIds)
  BY <1>1
<1>3. ToSet(s) \subseteq S
  BY <1>1, ToSetIs
<1> QED
  BY <1>1, <1>2, <1>3 DEF s, S

LEMMA BufferTyped ==
  ASSUME NEW d, NEW B, Shaped(d, B)
  PROVE  /\ d.st \in Seq(PivotIds)
         /\ \A p \in ToSet(d.st) : p \in DOMAIN d.piv /\ p \in PivotIds
<1> DEFINE s == d.st
           S == DOMAIN d.piv
<1>1. s \in Seq(S) /\ S \subseteq PivotIds
  BY DEF Shaped
<1> HIDE DEF s, S
<1>2. s \in Seq(PivotIds)
  BY <1>1
<1>3. ToSet(s) \subseteq S
  BY <1>1, ToSetIs
<1> QED
  BY <1>1, <1>2, <1>3 DEF s, S

LEMMA AddedShaped ==
  ASSUME NEW d, NEW e, NEW B, Shaped(d, B), Sorted(d), B \in Nat,
         NEW side \in Sides, NEW id \in PivotIds, Key(id) = B, id[2] = side,
         NEW kept, NEW list, PivotAdded(d, e, side, id, kept, list)
  PROVE  Shaped(e, B + 1) /\ Sorted(e)
<1> DEFINE S == DOMAIN d.piv
           E == DOMAIN e.piv
<1>1. AddedSets(d, e, side, id, kept, list)
  BY AddedSetsAre
<1>2. S \subseteq PivotIds /\ E = S \cup {id} /\ S \subseteq E
  BY DEF PivotAdded, Shaped
<1>3. E \subseteq PivotIds
  BY <1>2
<1>4. ASSUME NEW p \in E PROVE Key(p) < B + 1 /\ IsPivot(e.piv[p], p)
  <2>1. CASE p = id
    BY <2>1 DEF PivotAdded
  <2>2. CASE p # id
    <3>1. p \in S /\ e.piv[p] = d.piv[p]
      BY <1>2, <2>2 DEF PivotAdded
    <3>2. Key(p) < B /\ IsPivot(d.piv[p], p) /\ Key(p) \in Nat
      BY <1>2, <3>1, KeyTyped DEF Shaped
    <3> QED
      BY <3>1, <3>2
  <2> QED
    BY <2>1, <2>2
<1>5. /\ kept \in Seq(S) /\ list \in Seq(S) /\ e.st = <<id>> \o kept
      /\ Falling(kept) /\ Falling(list)
  BY DEF PivotAdded
<1>6. \A q \in S : Key(id) > Key(q)
  <2>1. \A q \in S : Key(q) < B /\ Key(q) \in Nat
    BY <1>2, KeyTyped DEF Shaped
  <2> QED
    BY <2>1
<1>7. ASSUME NEW s \in Seq(S), Falling(s)
      PROVE  <<id>> \o s \in Seq(E) /\ Falling(<<id>> \o s)
  <2> HIDE DEF S, E
  <2>1. s \in Seq(PivotIds) /\ ToSet(s) \subseteq S
    BY <1>2, ToSetIs
  <2>2. Falling(<<id>> \o s)
    BY <1>6, <1>7, <2>1, PushedFalls
  <2>3. <<id>> \o s \in Seq(S \cup {id})
    BY Pushed
  <2> QED
    BY <1>2, <2>2, <2>3
<1>8. e.st \in Seq(E) /\ Falling(e.st)
  BY <1>5, <1>7
<1>9. ASSUME NEW t \in Sides, NEW term \in Terms
      PROVE  /\ e.level[t][term] \in Seq(E) /\ Falling(e.level[t][term])
             /\ \A p \in ToSet(e.level[t][term]) : p[2] = t
  <2>1. CASE t = side /\ term = "ST"
    <3>1. e.level[side]["ST"] = <<id>> \o list
      BY <1>1 DEF AddedSets
    <3>2. \A p \in ToSet(e.level[side]["ST"]) : p[2] = side
      <4> SUFFICES ASSUME NEW p \in ToSet(e.level[side]["ST"]) PROVE p[2] = side
        OBVIOUS
      <4>1. p = id \/ p \in ToSet(list)
        BY <1>1 DEF AddedSets
      <4>2. p \in ToSet(list) => p \in ToSet(d.level[side]["ST"])
        BY DEF PivotAdded
      <4>3. p \in ToSet(d.level[side]["ST"]) => p[2] = side
        BY DEF Shaped, Terms
      <4> QED
        BY <4>1, <4>2, <4>3
    <3>3. <<id>> \o list \in Seq(E) /\ Falling(<<id>> \o list)
      BY <1>5, <1>7
    <3> QED
      BY <2>1, <3>1, <3>2, <3>3
  <2>2. CASE ~(t = side /\ term = "ST")
    <3>1. e.level[t][term] = d.level[t][term]
      BY <1>1, <2>2 DEF AddedSets
    <3>2. /\ d.level[t][term] \in Seq(S) /\ Falling(d.level[t][term])
          /\ \A p \in ToSet(d.level[t][term]) : p[2] = t
      BY DEF Shaped, Sorted
    <3> DEFINE u == d.level[t][term]
    <3>3. u \in Seq(S)
      BY <3>2
    <3> HIDE DEF u, S, E
    <3>4. u \in Seq(E)
      BY <1>2, <3>3
    <3> QED
      BY <3>1, <3>2, <3>4 DEF u
  <2> QED
    BY <2>1, <2>2
<1>10. e.level \in [Sides -> [Terms -> Seq(E)]]
  <2>1. d.level \in [Sides -> [Terms -> Seq(S)]]
    BY DEF Shaped
  <2>2. e.level = [d.level EXCEPT ![side]["ST"] = <<id>> \o list]
    BY DEF PivotAdded
  <2>3. d.level \in [Sides -> [Terms -> Seq(E)]]
    <3>1. Seq(S) \subseteq Seq(E)
      <4> HIDE DEF S, E
      <4> QED
        BY <1>2, SeqMonotonic
    <3> DEFINE A == Seq(S)
               BB == Seq(E)
    <3> HIDE DEF S, E, A, BB
    <3>2. d.level \in [Sides -> [Terms -> A]] /\ A \subseteq BB
      BY <2>1, <3>1 DEF A, BB
    <3>3. d.level \in [Sides -> [Terms -> BB]]
      BY <3>2
    <3> QED
      BY <3>3 DEF BB
  <2> DEFINE x == <<id>> \o list
  <2>4. x \in Seq(E) /\ "ST" \in Terms
    BY <1>5, <1>7 DEF Terms
  <2> HIDE DEF x, E
  <2>5. [d.level EXCEPT ![side]["ST"] = x] \in [Sides -> [Terms -> Seq(E)]]
    BY <2>3, <2>4
  <2> QED
    BY <2>2, <2>5 DEF x
<1>11. Sorted(e)
  BY <1>8, <1>9 DEF Sorted
<1>12. Shaped(e, B + 1)
  <2>1. {"piv", "st", "level"} \subseteq DOMAIN e
    BY DEF PivotAdded
  <2> QED
    BY <1>3, <1>4, <1>8, <1>9, <1>10, <2>1 DEF Shaped
<1> QED
  BY <1>11, <1>12

LEMMA AddedRecent ==
  ASSUME NEW d, NEW e, NEW B, Shaped(d, B), Recent(d), B \in Nat,
         NEW side \in Sides, NEW id \in PivotIds, Key(id) = B, id[2] = side,
         NEW kept, NEW list, PivotAdded(d, e, side, id, kept, list)
  PROVE  Recent(e)
<1>1. AddedSets(d, e, side, id, kept, list)
  BY AddedSetsAre
<1>2. \A q \in DOMAIN d.piv : Key(q) < B /\ Key(q) \in Nat
  BY KeyTyped DEF Shaped
<1> SUFFICES ASSUME NEW p \in ToSet(e.st)
             PROVE  /\ \A q \in DOMAIN e.piv : Key(q) > Key(p) => q \in ToSet(e.st)
                    /\ p \in ToSet(e.level[p[2]]["ST"])
  BY DEF Recent
<1>3. \A q \in DOMAIN e.piv : q \in DOMAIN d.piv \/ q = id
  BY DEF PivotAdded
<1>4. CASE p = id
  <2>1. p \in ToSet(e.level[p[2]]["ST"])
    BY <1>1, <1>4 DEF AddedSets
  <2>2. \A q \in DOMAIN e.piv : ~(Key(q) > Key(p))
    BY <1>2, <1>3, <1>4
  <2> QED
    BY <2>1, <2>2
<1>5. CASE p # id
  <2>1. p \in ToSet(kept) /\ p \in ToSet(d.st)
    BY <1>1, <1>5 DEF AddedSets, PivotAdded
  <2>2. p \in ToSet(d.level[p[2]]["ST"]) /\ p[2] \in Sides
    <3>1. p \in PivotIds
      BY <2>1, BufferTyped
    <3> QED
      BY <2>1, <3>1 DEF Recent, PivotIds
  <2>3. p \in ToSet(e.level[p[2]]["ST"])
    <3>1. CASE p[2] = side
      <4>1. p \in ToSet(list)
        BY <2>1, <2>2, <3>1 DEF PivotAdded
      <4> QED
        BY <1>1, <3>1, <4>1 DEF AddedSets
    <3>2. CASE p[2] # side
      <4>1. e.level[p[2]]["ST"] = d.level[p[2]]["ST"]
        BY <1>1, <2>2, <3>2 DEF AddedSets, Terms
      <4> QED
        BY <2>2, <4>1
    <3> QED
      BY <3>1, <3>2
  <2>4. ASSUME NEW q \in DOMAIN e.piv, Key(q) > Key(p) PROVE q \in ToSet(e.st)
    <3>1. CASE q = id
      BY <1>1, <3>1 DEF AddedSets
    <3>2. CASE q # id
      <4>1. q \in ToSet(d.st)
        BY <1>3, <2>1, <2>4, <3>2 DEF Recent
      <4>2. q \in ToSet(kept)
        BY <2>1, <2>4, <4>1 DEF PivotAdded
      <4> QED
        BY <1>1, <4>2 DEF AddedSets
    <3> QED
      BY <3>1, <3>2
  <2> QED
    BY <2>3, <2>4
<1> QED
  BY <1>4, <1>5

-----------------------------------------------------------------------------
(* The promoted pivots of a side.  q is at most as new as the second of a  *)
(* list: where find_it and find_lt look for the next one.                  *)
Second(s, q) == Len(s) >= 2 /\ Key(q) <= Key(s[2])

Tiers(d, side) ==
  LET list == d.level[side]
  IN  /\ \A p : p \in ToSet(list["IT"]) <=> p \in Reached(d, side, "IT")
      /\ \A p \in ToSet(list["LT"]) : p \in ToSet(list["IT"])
      /\ \A q \in ToSet(list["IT"]) : Second(list["ST"], q)
      /\ \A q \in ToSet(list["LT"]) : Second(list["IT"], q)

Extremes(d, side) ==
  /\ Unbroken(d, side) => \A p \in ToSet(d.level[side]["IT"]) : SticksOut(d, side, "ST", p)
  /\ \A p \in ToSet(d.level[side]["LT"]) : SticksOut(d, side, "IT", p)

(* Nothing that has reached the term is lost or changes its price, and what *)
(* reaches it is newer than all before.                                    *)
Extends(d, e, side, term) ==
  /\ \A q \in Reached(d, side, term) :
        q \in Reached(e, side, term) /\ e.piv[q].price = d.piv[q].price
  /\ \A r \in Reached(e, side, term) :
        r \in Reached(d, side, term) \/ \A q \in Reached(d, side, term) : r[1] > q[1]

LEMMA SticksOutKept ==
  ASSUME NEW d, NEW e, NEW side, NEW term, NEW p, DOMAIN e.piv \subseteq PivotIds,
         Extends(d, e, side, term), SticksOut(d, side, term, p)
  PROVE  SticksOut(e, side, term, p)
<1> DEFINE D == Reached(d, side, term)
           E == Reached(e, side, term)
           old(q) == d.piv[q].price
           new(q) == e.piv[q].price
<1>1. /\ \A q \in D : q \in E /\ new(q) = old(q)
      /\ \A r \in E : r \in D \/ \A q \in D : r[1] > q[1]
  BY DEF Extends
<1>2. /\ p \in D
      /\ \E q \in D : /\ q[1] > p[1] /\ Beyond(side, old(p), old(q))
                      /\ ~ \E r \in D : p[1] < r[1] /\ r[1] < q[1]
      /\ \E q \in D : /\ q[1] < p[1] /\ Beyond(side, old(p), old(q))
                      /\ \A r \in D : q[1] < r[1] /\ r[1] < p[1] =>
                           term = "ST" /\ old(r) = old(p)
  BY DEF SticksOut
<1>3. \A q \in E : q[1] \in Nat
  BY DEF Reached, PivotIds
<1> HIDE DEF D, E, old, new
<1>4. \E q \in E : /\ q[1] > p[1] /\ Beyond(side, new(p), new(q))
                   /\ ~ \E r \in E : p[1] < r[1] /\ r[1] < q[1]
  <2>1. PICK q \in D : /\ q[1] > p[1] /\ Beyond(side, old(p), old(q))
                       /\ ~ \E r \in D : p[1] < r[1] /\ r[1] < q[1]
    BY <1>2
  <2>2. q \in E /\ new(q) = old(q) /\ new(p) = old(p)
    BY <1>1, <1>2, <2>1
  <2>3. ~ \E r \in E : p[1] < r[1] /\ r[1] < q[1]
    <3> SUFFICES ASSUME NEW r \in E, p[1] < r[1], r[1] < q[1] PROVE FALSE
      OBVIOUS
    <3>1. r \in D \/ r[1] > q[1]
      BY <1>1, <2>1
    <3>2. r[1] \in Nat /\ q[1] \in Nat
      BY <1>3, <2>2
    <3> QED
      BY <2>1, <3>1, <3>2
  <2> QED
    BY <2>1, <2>2, <2>3
<1>5. \E q \in E : /\ q[1] < p[1] /\ Beyond(side, new(p), new(q))
                   /\ \A r \in E : q[1] < r[1] /\ r[1] < p[1] =>
                        term = "ST" /\ new(r) = new(p)
  <2>1. PICK q \in D : /\ q[1] < p[1] /\ Beyond(side, old(p), old(q))
                       /\ \A r \in D : q[1] < r[1] /\ r[1] < p[1] =>
                            term = "ST" /\ old(r) = old(p)
    BY <1>2
  <2>2. q \in E /\ new(q) = old(q) /\ new(p) = old(p) /\ p \in E
    BY <1>1, <1>2, <2>1
  <2>3. ASSUME NEW r \in E, q[1] < r[1], r[1] < p[1]
        PROVE  term = "ST" /\ new(r) = new(p)
    <3>1. r \in D \/ r[1] > p[1]
      BY <1>1, <1>2
    <3>2. r[1] \in Nat /\ p[1] \in Nat
      BY <1>3, <2>2
    <3>3. r \in D
      BY <2>3, <3>1, <3>2
    <3> QED
      BY <1>1, <2>1, <2>2, <2>3, <3>3
  <2> QED
    BY <2>1, <2>2, <2>3
<1>6. p \in E
  BY <1>1, <1>2
<1> QED
  BY <1>4, <1>5, <1>6 DEF SticksOut, E, new

(* Another pivot in front, and at most one lost.                           *)
LEMMA SecondKept ==
  ASSUME NEW s \in Seq(PivotIds), NEW list \in Seq(PivotIds), Falling(s), Falling(list),
         \A x, y \in ToSet(s) : x \notin ToSet(list) /\ y \notin ToSet(list) => x = y,
         NEW id, NEW q \in PivotIds, Second(s, q)
  PROVE  Second(<<id>> \o list, q)
<1>1. Len(s) >= 2 /\ 1 \in DOMAIN s /\ 2 \in DOMAIN s /\ s[1] \in PivotIds /\ s[2] \in PivotIds
  BY DEF Second
<1>2. /\ Key(s[1]) \in Nat /\ Key(s[2]) \in Nat /\ Key(s[1]) > Key(s[2])
      /\ Key(q) \in Nat /\ Key(q) <= Key(s[2])
  BY <1>1, KeyTyped DEF Falling, Second
<1>3. s[1] # s[2] /\ s[1] \in ToSet(s) /\ s[2] \in ToSet(s)
  BY <1>1, <1>2 DEF ToSet
<1>4. PICK x \in {s[1], s[2]} : x \in ToSet(list)
  BY <1>3
<1>5. Key(x) >= Key(q) /\ Key(x) \in Nat
  BY <1>2, <1>4
<1>6. PICK k \in 1..Len(list) : list[k] = x
  BY <1>4, ToSetIs
<1>7. Len(list) >= 1 /\ Len(list) \in Nat /\ 1 \in DOMAIN list /\ k \in DOMAIN list
  BY <1>6
<1>8. Key(list[1]) >= Key(x)
  <2>1. CASE k = 1
    BY <1>5, <1>6, <2>1
  <2>2. CASE k # 1
    <3>1. Key(list[1]) > Key(list[k])
      BY <1>6, <1>7, <2>2 DEF Falling
    <3>2. Key(list[1]) \in Nat
      BY <1>7, KeyTyped
    <3> QED
      BY <1>5, <1>6, <3>1, <3>2
  <2> QED
    BY <2>1, <2>2
<1>9. Key(list[1]) \in Nat
  BY <1>7, KeyTyped
<1>10. Len(<<id>> \o list) = Len(list) + 1 /\ (<<id>> \o list)[1 + 1] = list[1]
  BY <1>7, Pushed
<1>11. 1 + 1 = 2
  OBVIOUS
<1>12. Key(q) <= Key(list[1]) /\ Len(list) + 1 >= 2
  BY <1>2, <1>5, <1>7, <1>8, <1>9
<1> QED
  BY <1>10, <1>11, <1>12 DEF Second

(* What has reached a term after the addition.                             *)
Reaches(d, e, side, id, s) ==
  /\ \A p : p \in Reached(e, s, "IT") <=> p \in Reached(d, s, "IT")
  /\ \A p : p \in Reached(e, s, "ST") <=>
              p \in Reached(d, s, "ST") \/ (p = id /\ s = side)
  /\ Extends(d, e, s, "ST") /\ Extends(d, e, s, "IT")

LEMMA AddedReaches ==
  ASSUME NEW d, NEW e, NEW B, Shaped(d, B), B \in Nat,
         NEW side \in Sides, NEW id \in PivotIds, Key(id) = B, id[2] = side,
         NEW kept, NEW list, PivotAdded(d, e, side, id, kept, list), NEW s \in Sides
  PROVE  Reaches(d, e, side, id, s)
<1>1. /\ \A p : p \in DOMAIN e.piv <=> p \in DOMAIN d.piv \/ p = id
      /\ \A p \in DOMAIN d.piv : e.piv[p] = d.piv[p]
      /\ e.piv[id].term = "ST"
  BY DEF PivotAdded
<1>2. \A p : p \in Reached(e, s, "ST") <=> p \in Reached(d, s, "ST") \/ (p = id /\ s = side)
  BY <1>1 DEF Reached
<1>3. id \notin DOMAIN d.piv
  <2>1. \A p \in DOMAIN d.piv : Key(p) < B /\ Key(p) \in Nat
    BY KeyTyped DEF Shaped
  <2> QED
    BY <2>1
<1>4. \A p : p \in Reached(e, s, "IT") <=> p \in Reached(d, s, "IT")
  <2>1. \A p : p \in DOMAIN d.piv => p # id /\ e.piv[p].term = d.piv[p].term
    BY <1>1, <1>3
  <2>2. \A p : p = id => e.piv[p].term = "ST"
    BY <1>1
  <2>3. \A p : p \in Reached(e, s, "IT") <=>
                 p \in DOMAIN e.piv /\ p[2] = s /\ e.piv[p].term # "ST"
    BY DEF Reached
  <2>4. \A p : p \in Reached(d, s, "IT") <=>
                 p \in DOMAIN d.piv /\ p[2] = s /\ d.piv[p].term # "ST"
    BY DEF Reached
  <2> HIDE <1>1
  <2>5. \A p : p \in DOMAIN e.piv <=> p \in DOMAIN d.piv \/ p = id
    BY <1>1
  <2>6. ASSUME NEW p PROVE p \in Reached(e, s, "IT") <=> p \in Reached(d, s, "IT")
    <3>1. CASE p = id
      <4>1. p \notin Reached(e, s, "IT")
        BY <2>2, <2>3, <3>1, Zenon
      <4>2. p \notin Reached(d, s, "IT")
        BY <2>1, <2>4, <3>1, Zenon
      <4> QED
        BY <4>1, <4>2
    <3>2. CASE p # id
      <4>1. p \in DOMAIN e.piv <=> p \in DOMAIN d.piv
        BY <2>5, <3>2, Zenon
      <4>2. p \in DOMAIN d.piv => e.piv[p].term = d.piv[p].term
        BY <2>1, Zenon
      <4>3. p \in Reached(e, s, "IT") <=> p \in DOMAIN e.piv /\ p[2] = s /\ e.piv[p].term # "ST"
        BY <2>3, Zenon
      <4>4. p \in Reached(d, s, "IT") <=> p \in DOMAIN d.piv /\ p[2] = s /\ d.piv[p].term # "ST"
        BY <2>4, Zenon
      <4> QED
        BY <4>1, <4>2, <4>3, <4>4, Zenon
    <3> QED
      BY <3>1, <3>2
  <2> QED
    BY <2>6
<1>5. \A p : p \in Reached(d, s, "ST") \/ p \in Reached(d, s, "IT") =>
               p \in DOMAIN d.piv /\ p[2] = s
  BY DEF Reached
<1>6. \A q \in DOMAIN d.piv : q[2] = side => id[1] > q[1]
  <2> SUFFICES ASSUME NEW q \in DOMAIN d.piv, q[2] = side PROVE id[1] > q[1]
    OBVIOUS
  <2>1. q \in PivotIds /\ Key(q) < Key(id)
    BY DEF Shaped
  <2>2. q[1] < id[1]
    BY <2>1, KeyOfSide
  <2>3. q[1] \in Nat /\ id[1] \in Nat
    BY <2>1 DEF PivotIds
  <2> QED
    BY <2>2, <2>3
<1>7. Extends(d, e, s, "ST")
  <2>1. \A q \in Reached(d, s, "ST") :
            q \in Reached(e, s, "ST") /\ e.piv[q].price = d.piv[q].price
    BY <1>1, <1>2, <1>5
  <2>2. \A r \in Reached(e, s, "ST") :
            r \in Reached(d, s, "ST") \/ \A q \in Reached(d, s, "ST") : r[1] > q[1]
    BY <1>2, <1>5, <1>6
  <2> QED
    BY <2>1, <2>2 DEF Extends
<1>8. Extends(d, e, s, "IT")
  <2>1. \A q \in Reached(d, s, "IT") :
            q \in Reached(e, s, "IT") /\ e.piv[q].price = d.piv[q].price
    BY <1>1, <1>4, <1>5
  <2> QED
    BY <1>4, <2>1 DEF Extends
<1> QED
  BY <1>2, <1>4, <1>7, <1>8 DEF Reaches

LEMMA AddedTiers ==
  ASSUME NEW d, NEW e, NEW B, Shaped(d, B), Sorted(d), B \in Nat,
         NEW side \in Sides, NEW id \in PivotIds, Key(id) = B, id[2] = side,
         NEW kept, NEW list, PivotAdded(d, e, side, id, kept, list),
         NEW s \in Sides, Tiers(d, s)
  PROVE  Tiers(e, s)
<1> DEFINE D == d.level[s]
           E == e.level[s]
<1>1. AddedSets(d, e, side, id, kept, list)
  BY AddedSetsAre
<1>2. E["IT"] = D["IT"] /\ E["LT"] = D["LT"]
  BY <1>1 DEF AddedSets, Terms
<1>3. \A p : p \in Reached(e, s, "IT") <=> p \in Reached(d, s, "IT")
  <2>1. Reaches(d, e, side, id, s)
    BY AddedReaches
  <2> QED
    BY <2>1 DEF Reaches
<1>4. /\ \A p : p \in ToSet(D["IT"]) <=> p \in Reached(d, s, "IT")
      /\ \A p \in ToSet(D["LT"]) : p \in ToSet(D["IT"])
      /\ \A q \in ToSet(D["IT"]) : Second(D["ST"], q)
      /\ \A q \in ToSet(D["LT"]) : Second(D["IT"], q)
  BY DEF Tiers
<1>5. ASSUME NEW q \in ToSet(D["IT"]) PROVE Second(E["ST"], q)
  <2>1. CASE s # side
    <3>1. E["ST"] = D["ST"]
      BY <1>1, <2>1 DEF AddedSets, Terms
    <3> QED
      BY <1>4, <3>1
  <2>2. CASE s = side
    <3> DEFINE u == D["ST"]
    <3>1. E["ST"] = <<id>> \o list
      BY <1>1, <2>2 DEF AddedSets
    <3>2. u \in Seq(PivotIds) /\ Falling(u) /\ Second(u, q) /\ q \in PivotIds
      BY <1>4, ListsTyped DEF Sorted, Terms
    <3>3. \A x, y \in ToSet(u) : x \notin ToSet(list) /\ y \notin ToSet(list) => x = y
      BY <2>2 DEF PivotAdded
    <3>4. list \in Seq(PivotIds) /\ Falling(list)
      <4>1. list \in Seq(DOMAIN d.piv) /\ DOMAIN d.piv \subseteq PivotIds /\ Falling(list)
        BY DEF PivotAdded, Shaped
      <4> QED
        BY <4>1
    <3> HIDE DEF u, D, E
    <3>5. Second(<<id>> \o list, q)
      BY <3>2, <3>3, <3>4, SecondKept
    <3> QED
      BY <3>1, <3>5
  <2> QED
    BY <2>1, <2>2
<1> HIDE DEF D, E
<1>6. /\ \A p : p \in ToSet(E["IT"]) <=> p \in Reached(e, s, "IT")
      /\ \A p \in ToSet(E["LT"]) : p \in ToSet(E["IT"])
      /\ \A q \in ToSet(E["IT"]) : Second(E["ST"], q)
      /\ \A q \in ToSet(E["LT"]) : Second(E["IT"], q)
  BY <1>2, <1>3, <1>4, <1>5
<1> QED
  BY <1>6 DEF Tiers, E

(* A hole in a list is never filled again: who is behind it has left the   *)
(* buffer, so that no eviction takes it from the list.                     *)
LEMMA HolesStay ==
  ASSUME NEW d, NEW e, NEW B, Shaped(d, B), Recent(d), B \in Nat,
         NEW side \in Sides, NEW id \in PivotIds, Key(id) = B, id[2] = side,
         NEW kept, NEW list, PivotAdded(d, e, side, id, kept, list),
         NEW s \in Sides, Unbroken(e, s)
  PROVE  Unbroken(d, s)
<1>1. AddedSets(d, e, side, id, kept, list)
  BY AddedSetsAre
<1>2. \A p : p \in Reached(e, s, "ST") <=>
               p \in Reached(d, s, "ST") \/ (p = id /\ s = side)
  <2>1. Reaches(d, e, side, id, s)
    BY AddedReaches
  <2> QED
    BY <2>1 DEF Reaches
<1> SUFFICES ASSUME NEW p \in ToSet(d.level[s]["ST"]), NEW q \in Reached(d, s, "ST"),
                    q[1] > p[1]
             PROVE  q \in ToSet(d.level[s]["ST"])
  BY DEF Unbroken
<1>3. q \in Reached(e, s, "ST") /\ q \in DOMAIN d.piv /\ q[2] = s /\ q # id
  <2>1. \A r \in DOMAIN d.piv : Key(r) < B /\ Key(r) \in Nat
    BY KeyTyped DEF Shaped
  <2> QED
    BY <1>2, <2>1 DEF Reached
<1>4. CASE s # side
  <2>1. e.level[s]["ST"] = d.level[s]["ST"]
    BY <1>1, <1>4 DEF AddedSets, Terms
  <2> QED
    BY <1>3, <2>1 DEF Unbroken
<1>5. CASE s = side
  <2>1. CASE p \in ToSet(list)
    <3>1. p \in ToSet(e.level[s]["ST"])
      BY <1>1, <1>5, <2>1 DEF AddedSets
    <3>2. q \in ToSet(e.level[s]["ST"])
      BY <1>3, <3>1 DEF Unbroken
    <3>3. q \in ToSet(list)
      BY <1>1, <1>3, <1>5, <3>2 DEF AddedSets
    <3> QED
      BY <1>5, <3>3 DEF PivotAdded
  <2>2. CASE p \notin ToSet(list)
    <3>1. p \in ToSet(d.st)
      BY <1>5, <2>2 DEF PivotAdded
    <3>2. p \in PivotIds /\ p[2] = s
      BY ListsTyped DEF Terms
    <3>3. q \in PivotIds
      BY <1>3 DEF Shaped
    <3>4. p[1] \in Nat /\ q[1] \in Nat
      BY <3>2, <3>3 DEF PivotIds
    <3>5. Key(p) < Key(q)
      BY <1>3, <3>2, <3>3, <3>4, KeyOfSide
    <3>6. Key(p) \in Nat /\ Key(q) \in Nat
      BY <3>2, <3>3, KeyTyped
    <3>7. q \in ToSet(d.st)
      BY <1>3, <3>1, <3>5, <3>6 DEF Recent
    <3> QED
      BY <1>3, <3>7 DEF Recent
  <2> QED
    BY <2>1, <2>2
<1> QED
  BY <1>4, <1>5

LEMMA AddedExtremes ==
  ASSUME NEW d, NEW e, NEW B, Shaped(d, B), Sorted(d), Recent(d), B \in Nat,
         NEW side \in Sides, NEW id \in PivotIds, Key(id) = B, id[2] = side,
         NEW kept, NEW list, PivotAdded(d, e, side, id, kept, list),
         NEW s \in Sides, Extremes(d, s)
  PROVE  Extremes(e, s)
<1>1. AddedSets(d, e, side, id, kept, list)
  BY AddedSetsAre
<1>2. e.level[s]["IT"] = d.level[s]["IT"] /\ e.level[s]["LT"] = d.level[s]["LT"]
  BY <1>1 DEF AddedSets, Terms
<1>3. Extends(d, e, s, "ST") /\ Extends(d, e, s, "IT")
  <2>1. Reaches(d, e, side, id, s)
    BY AddedReaches
  <2> QED
    BY <2>1 DEF Reaches
<1>4. DOMAIN e.piv \subseteq PivotIds
  BY DEF PivotAdded, Shaped
<1>5. ASSUME Unbroken(e, s), NEW p \in ToSet(e.level[s]["IT"])
      PROVE  SticksOut(e, s, "ST", p)
  <2>1. Unbroken(d, s)
    BY <1>5, HolesStay
  <2>2. SticksOut(d, s, "ST", p)
    BY <1>2, <2>1 DEF Extremes
  <2> QED
    BY <1>3, <1>4, <2>2, SticksOutKept
<1>6. ASSUME NEW p \in ToSet(e.level[s]["LT"]) PROVE SticksOut(e, s, "IT", p)
  <2>1. SticksOut(d, s, "IT", p)
    BY <1>2 DEF Extremes
  <2> QED
    BY <1>3, <1>4, <2>1, SticksOutKept
<1> QED
  BY <1>5, <1>6 DEF Extremes

-----------------------------------------------------------------------------
DetectorInv(d, B) ==
  /\ Shaped(d, B) /\ Sorted(d) /\ Recent(d)
  /\ \A s \in Sides : Tiers(d, s) /\ Extremes(d, s)

LEMMA LaterInv ==
  ASSUME NEW d, NEW B \in Nat, DetectorInv(d, B)
  PROVE  DetectorInv(d, B + 1)
<1>1. ASSUME NEW p \in DOMAIN d.piv PROVE Key(p) < B + 1
  <2>1. Key(p) < B /\ Key(p) \in Nat
    BY KeyTyped DEF DetectorInv, Shaped
  <2> QED
    BY <2>1
<1>2. Shaped(d, B + 1)
  BY <1>1 DEF DetectorInv, Shaped
<1> QED
  BY <1>2 DEF DetectorInv

LEMMA SwingKeeps ==
  ASSUME NEW d, NEW B \in Nat, DetectorInv(d, B), NEW side \in Sides, NEW n \in Nat,
         n >= 1, B = Key(<<n - 1, side>>), NEW w \in Seq(Barred)
  PROVE  DetectorInv(AddSwing(side, d, n, w), B + 1)
<1>1. CASE ~IsSwing(side, w)
  <2>1. AddSwing(side, d, n, w) = d
    BY <1>1 DEF AddSwing
  <2> QED
    BY <2>1, LaterInv
<1>2. CASE IsSwing(side, w)
  <2> DEFINE e == AddSwing(side, d, n, w)
             id == <<n - 1, side>>
  <2>1. Shaped(d, B) /\ Sorted(d) /\ Recent(d) /\ \A s \in Sides : Tiers(d, s) /\ Extremes(d, s)
    BY DEF DetectorInv
  <2>2. \E kept, list : PivotAdded(d, e, side, id, kept, list)
    BY <1>2, <2>1, SwingAdds
  <2>3. id \in PivotIds /\ id[2] = side /\ Key(id) = B
    BY DEF PivotIds
  <2> HIDE DEF e, id
  <2>4. PICK kept, list : PivotAdded(d, e, side, id, kept, list)
    BY <2>2
  <2>5. Shaped(e, B + 1) /\ Sorted(e)
    BY <2>1, <2>3, <2>4, AddedShaped
  <2>6. Recent(e)
    BY <2>1, <2>3, <2>4, AddedRecent
  <2>7. ASSUME NEW s \in Sides PROVE Tiers(e, s)
    BY <2>1, <2>3, <2>4, AddedTiers
  <2>8. ASSUME NEW s \in Sides PROVE Extremes(e, s)
    BY <2>1, <2>3, <2>4, AddedExtremes
  <2>9. DetectorInv(e, B + 1)
    BY <2>5, <2>6, <2>7, <2>8 DEF DetectorInv
  <2> QED
    BY <2>9 DEF e
<1> QED
  BY <1>1, <1>2

-----------------------------------------------------------------------------
(* SkipEqual stops at a member before which all are equal.                 *)
LEMMA SkipStops ==
  ASSUME NEW s \in Seq(Int), Len(s) >= 3
  PROVE  \E j \in 3..Len(s) : SkipEqual(3, s) = j /\ \A i \in 3..j - 1 : s[i] = s[2]
<1> DEFINE differ == {j \in 3..Len(s) : s[j] # s[j - 1]}
           m == SkipEqual(3, s)
<1>1. Len(s) \in Nat
  OBVIOUS
<1>2. m \in 3..Len(s) /\ \A i \in 3..m - 1 : s[i] = s[i - 1]
  <2>1. CASE differ = {}
    <3>1. m = Len(s)
      BY <2>1 DEF SkipEqual
    <3>2. \A i \in 3..Len(s) : s[i] = s[i - 1]
      BY <2>1
    <3> HIDE DEF m
    <3>3. \A i \in 3..m - 1 : i \in 3..Len(s)
      BY <1>1, <3>1
    <3> QED
      BY <1>1, <3>1, <3>2, <3>3
  <2>2. CASE differ # {}
    <3>1. m = Min(differ)
      BY <1>1, <2>2 DEF SkipEqual
    <3>2. differ \in SUBSET Nat
      OBVIOUS
    <3>3. differ \subseteq 3..Len(s) /\ \A i \in 3..Len(s) : s[i] # s[i - 1] => i \in differ
      OBVIOUS
    <3> HIDE DEF differ, m
    <3>4. \E x \in differ : \A y \in differ : x <= y
      BY <2>2, <3>2, LeastExists
    <3>5. m \in differ /\ \A y \in differ : m <= y
      BY <3>1, <3>4 DEF Min
    <3>6. ASSUME NEW i \in 3..m - 1 PROVE s[i] = s[i - 1]
      <4>1. i \in 3..Len(s) /\ i < m
        BY <1>1, <3>3, <3>5
      <4>2. i \notin differ
        BY <1>1, <3>3, <3>5, <4>1
      <4> QED
        BY <3>3, <4>1, <4>2
    <3> QED
      BY <3>3, <3>5, <3>6
  <2> QED
    BY <2>1, <2>2
<1> HIDE DEF m
<1> DEFINE T == {k \in Nat : k + 3 <= m - 1 => s[k + 3] = s[2]}
<1>3. 0 \in T
  <2> SUFFICES ASSUME 3 <= m - 1 PROVE s[3] = s[2]
    OBVIOUS
  <2>1. 3 \in 3..m - 1 /\ 3 - 1 = 2
    BY <1>2
  <2>2. s[3] = s[3 - 1]
    BY <1>2, <2>1
  <2> QED
    BY <2>1, <2>2
<1>4. ASSUME NEW k \in T PROVE k + 1 \in T
  <2> SUFFICES ASSUME (k + 1) + 3 <= m - 1 PROVE s[(k + 1) + 3] = s[2]
    OBVIOUS
  <2>1. k \in Nat /\ (k + 1) + 3 \in 3..m - 1 /\ ((k + 1) + 3) - 1 = k + 3 /\ k + 3 <= m - 1
    BY <1>2
  <2>2. s[k + 3] = s[2]
    BY <2>1
  <2>3. s[(k + 1) + 3] = s[((k + 1) + 3) - 1]
    BY <1>2, <2>1
  <2> QED
    BY <2>1, <2>2, <2>3
<1>5. \A k \in Nat : k \in T
  <2>1. T \in SUBSET Nat
    OBVIOUS
  <2> HIDE DEF T
  <2> QED
    BY <1>3, <1>4, <2>1, SetInduction
<1>6. ASSUME NEW i \in 3..m - 1 PROVE s[i] = s[2]
  <2>1. i - 3 \in Nat /\ (i - 3) + 3 = i /\ i <= m - 1
    BY <1>2
  <2>2. i - 3 \in T
    BY <1>5, <2>1
  <2> QED
    BY <2>1, <2>2
<1> QED
  BY <1>2, <1>6 DEF m

(* The second of a list was promoted.                                      *)
Lifted(d, e, side, from, to) ==
  LET s == d.level[side][from]
      upper == d.level[side][to]
      p == s[2]
  IN  /\ {"piv", "st", "level"} \subseteq DOMAIN e
      /\ Len(s) >= 3
      /\ \A q : q \in DOMAIN e.piv <=> q \in DOMAIN d.piv
      /\ \A q \in DOMAIN d.piv :
            /\ IsPivot(e.piv[q], q)
            /\ e.piv[q].price = d.piv[q].price
            /\ e.piv[q].claimed = d.piv[q].claimed
            /\ e.piv[q].last = d.piv[q].last
            /\ e.piv[q].term = IF q = p THEN to ELSE d.piv[q].term
      /\ e.st = d.st
      /\ e.level = [d.level EXCEPT ![side][to] =
                      IF p \in ToSet(upper) THEN upper ELSE <<p>> \o upper]
      /\ Beyond(side, d.piv[p].price, d.piv[s[1]].price)
      /\ \E j \in 3..Len(s) :
            /\ Beyond(side, d.piv[p].price, d.piv[s[j]].price)
            /\ \A i \in 3..j - 1 : from = "ST" /\ d.piv[s[i]].price = d.piv[p].price

Steps == {<<"ST", "IT">>, <<"IT", "LT">>}

LEMMA PromoteLifts ==
  ASSUME NEW d, NEW B, Shaped(d, B), NEW side \in Sides, NEW from, NEW to,
         <<from, to>> \in Steps, Promote(side, from, to, d) # d
  PROVE  Lifted(d, Promote(side, from, to, d), side, from, to)
<1> DEFINE s      == d.level[side][from]
           price  == [k \in DOMAIN s |-> d.piv[s[k]].price]
           needed == IF from = "ST" /\ side = "high" THEN 4 ELSE 3
           older  == IF from = "ST" THEN SkipEqual(3, price) ELSE 3
           p      == s[2]
           flag   == IF to = "IT" THEN d.piv[p].i ELSE d.piv[p].l
           upper  == d.level[side][to]
           grows  == upper = <<>> \/ ~Beyond(side, d.piv[upper[1]].price, price[2])
           x      == IF Contains(upper, p) THEN upper ELSE <<p>> \o upper
           e      == [d EXCEPT
                        !.piv[p] = IF to = "IT"
                                     THEN [@ EXCEPT !.term = to, !.i = grows]
                                     ELSE [@ EXCEPT !.term = to, !.l = grows],
                        !.level[side][to] = x]
<1>1. Promote(side, from, to, d) = IF Len(s) >= needed /\ Peaks(side, price, older) /\ ~flag
                                     THEN e ELSE d
  BY Zenon DEF Promote
<1>2. /\ Promote(side, from, to, d) = e /\ Len(s) >= 3 /\ Peaks(side, price, older)
  <2>1. Promote(side, from, to, d) = e /\ Len(s) >= needed /\ Peaks(side, price, older)
    <3> HIDE DEF e, s, price, needed, older, flag
    <3> QED
      BY <1>1
  <2>2. needed >= 3 /\ needed \in Nat
    OBVIOUS
  <2>3. from \in Terms /\ to \in Terms
    BY DEF Steps, Terms
  <2>4. Len(s) \in Nat
    BY <2>3, ListsTyped
  <2> HIDE DEF e, s, price, needed, older
  <2> QED
    BY <2>1, <2>2, <2>4
<1>3. from \in Terms /\ to \in Terms /\ to \in {"IT", "LT"}
  BY DEF Steps, Terms
<1>4. s \in Seq(DOMAIN d.piv) /\ upper \in Seq(DOMAIN d.piv)
  BY <1>3, ListsTyped
<1> DEFINE m == Len(s)
<1>20. m \in Nat /\ m >= 3 /\ DOMAIN s = 1..m /\ Peaks(side, price, older)
  <2>1. m >= 3 /\ Peaks(side, price, older)
    BY <1>2, Zenon
  <2> HIDE DEF s, price, older
  <2> QED
    BY <1>4, <2>1
<1>5. \A k \in DOMAIN s : d.piv[s[k]].price \in Int
  <2> HIDE DEF s
  <2>1. \A k \in DOMAIN s : s[k] \in DOMAIN d.piv
    BY <1>4
  <2> QED
    BY <2>1 DEF Shaped, IsPivot
<1>6. price \in Seq(Int) /\ Len(price) = Len(s) /\ \A k \in 1..Len(s) : price[k] = d.piv[s[k]].price
  <2>1. price = [k \in 1..m |-> d.piv[s[k]].price]
    BY <1>20
  <2> HIDE DEF s, price
  <2>2. price \in [1..m -> Int]
    BY <1>5, <1>20, <2>1
  <2>3. price \in Seq(Int) /\ Len(price) = m
    BY <1>20, <2>2
  <2> QED
    BY <1>20, <2>1, <2>3, SMTT(20)
<1>7. \E j \in 3..Len(s) :
            /\ Beyond(side, d.piv[p].price, d.piv[s[j]].price)
            /\ \A i \in 3..j - 1 : from = "ST" /\ d.piv[s[i]].price = d.piv[p].price
  <2>1. \E j \in 3..Len(s) : /\ older = j
                             /\ \A i \in 3..j - 1 : from = "ST" /\ price[i] = price[2]
    <3>1. CASE from = "ST"
      <4>1. older = SkipEqual(3, price)
        BY <3>1
      <4> HIDE DEF price, older, s
      <4>2. \E j \in 3..Len(price) : /\ SkipEqual(3, price) = j
                                     /\ \A i \in 3..j - 1 : price[i] = price[2]
        BY <1>6, <1>20, SkipStops
      <4> QED
        BY <1>6, <3>1, <4>1, <4>2
    <3>2. CASE from # "ST"
      <4>1. older = 3
        BY <3>2
      <4> HIDE DEF price, older, s
      <4>2. 3 \in 3..m /\ \A i : i \notin 3..3 - 1
        BY <1>20
      <4> QED
        BY <4>1, <4>2
    <3> QED
      BY <3>1, <3>2, Zenon
  <2> HIDE DEF older, price, s
  <2>2. PICK j \in 3..Len(s) : /\ older = j
                             /\ \A i \in 3..j - 1 : from = "ST" /\ price[i] = price[2]
    BY <2>1
  <2>3. Beyond(side, price[2], price[j])
    BY <1>20, <2>2 DEF Peaks
  <2>4. /\ j \in 1..Len(s) /\ 2 \in 1..Len(s)
        /\ \A i \in 3..j - 1 : i \in 1..Len(s)
    BY <1>20, <2>2
  <2> QED
    BY <1>6, <2>2, <2>3, <2>4, Zenon
<1>8. Beyond(side, d.piv[p].price, d.piv[s[1]].price)
  <2> HIDE DEF older, price, s
  <2>1. 1 \in 1..Len(s) /\ 2 \in 1..Len(s)
    BY <1>20
  <2> QED
    BY <1>6, <1>20, <2>1 DEF Peaks
<1>9. p \in DOMAIN d.piv
  <2> HIDE DEF s
  <2>1. 2 \in DOMAIN s
    BY <1>20
  <2> QED
    BY <1>4, <2>1
<1>10. x = IF p \in ToSet(upper) THEN upper ELSE <<p>> \o upper
  <2>1. Contains(upper, p) <=> p \in ToSet(upper)
    <3> HIDE DEF upper, p
    <3> QED
      BY <1>4 DEF Contains, ToSet
  <2> HIDE DEF upper, p
  <2> QED
    BY <2>1
<1> DEFINE r == IF to = "IT" THEN [d.piv[p] EXCEPT !.term = to, !.i = grows]
                ELSE [d.piv[p] EXCEPT !.term = to, !.l = grows]
<1>11. /\ {"piv", "st", "level"} \subseteq DOMAIN e
       /\ e.piv = [d.piv EXCEPT ![p] = r]
       /\ e.st = d.st
       /\ e.level = [d.level EXCEPT ![side][to] = x]
  <2>1. {"piv", "st", "level"} \subseteq DOMAIN d
    BY DEF Shaped
  <2> HIDE DEF x, p, grows
  <2> QED
    BY <2>1
<1>12. /\ IsPivot(r, p) /\ r.price = d.piv[p].price /\ r.claimed = d.piv[p].claimed
       /\ r.last = d.piv[p].last /\ r.term = to
  <2> DEFINE v == d.piv[p]
  <2>1. IsPivot(v, p)
    BY <1>9 DEF Shaped
  <2>2. r = IF to = "IT" THEN [v EXCEPT !.term = to, !.i = grows]
            ELSE [v EXCEPT !.term = to, !.l = grows]
    OBVIOUS
  <2> HIDE DEF v, p, grows, r
  <2>3. /\ IsPivot(r, p) /\ r.price = v.price /\ r.claimed = v.claimed
        /\ r.last = v.last /\ r.term = to
    BY <1>3, <2>1, <2>2 DEF IsPivot
  <2> QED
    BY <2>3 DEF v
<1>13. /\ \A q : q \in DOMAIN e.piv <=> q \in DOMAIN d.piv
       /\ \A q \in DOMAIN d.piv : e.piv[q] = IF q = p THEN r ELSE d.piv[q]
  <2> HIDE DEF e, p, r
  <2> QED
    BY <1>9, <1>11
<1>14. \A q \in DOMAIN d.piv :
            /\ IsPivot(e.piv[q], q)
            /\ e.piv[q].price = d.piv[q].price
            /\ e.piv[q].claimed = d.piv[q].claimed
            /\ e.piv[q].last = d.piv[q].last
            /\ e.piv[q].term = IF q = p THEN to ELSE d.piv[q].term
  <2>1. \A q \in DOMAIN d.piv : IsPivot(d.piv[q], q)
    BY DEF Shaped
  <2> HIDE DEF e, p, r
  <2> QED
    BY <1>12, <1>13, <2>1
<1>15. Lifted(d, e, side, from, to)
  <2> HIDE DEF e, x
  <2> QED
    BY <1>7, <1>8, <1>10, <1>11, <1>13, <1>14, <1>20, Zenon DEF Lifted
<1> QED
  BY <1>2, <1>15, Zenon

(* The lists after a promotion.                                            *)
LiftedLists(d, e, side, from, to) ==
  LET p == d.level[side][from][2]
      upper == d.level[side][to]
  IN  /\ \A t \in Sides, term \in Terms :
            t # side \/ term # to => e.level[t][term] = d.level[t][term]
      /\ e.level[side][to] = IF p \in ToSet(upper) THEN upper ELSE <<p>> \o upper
      /\ \A y : y \in ToSet(e.level[side][to]) <=> y = p \/ y \in ToSet(upper)
      /\ p \in DOMAIN d.piv /\ p \in PivotIds /\ p[2] = side
      /\ p \in ToSet(d.level[side][from])
      /\ \A y \in ToSet(upper) : y # p => Key(p) > Key(y)

LEMMA LiftedListsAre ==
  ASSUME NEW d, NEW e, NEW B, Shaped(d, B), NEW side \in Sides, Tiers(d, side),
         NEW from, NEW to, <<from, to>> \in Steps, Lifted(d, e, side, from, to)
  PROVE  LiftedLists(d, e, side, from, to)
<1> DEFINE s == d.level[side][from]
           upper == d.level[side][to]
           p == s[2]
           x == IF p \in ToSet(upper) THEN upper ELSE <<p>> \o upper
           S == DOMAIN d.piv
<1>1. from \in Terms /\ to \in Terms
  BY DEF Steps, Terms
<1>2. /\ s \in Seq(S) /\ upper \in Seq(S) /\ S \subseteq PivotIds
      /\ \A y \in ToSet(s) : y[2] = side
      /\ \A y \in ToSet(upper) : y \in PivotIds
  BY <1>1, ListsTyped, Zenon DEF Shaped
<1>3. Len(s) >= 3 /\ e.level = [d.level EXCEPT ![side][to] = x]
  BY Zenon DEF Lifted
<1>4. d.level \in [Sides -> [Terms -> Seq(S)]]
  BY DEF Shaped
<1>5. p \in S /\ p \in PivotIds /\ p \in ToSet(s) /\ p[2] = side
  <2> HIDE DEF s, S
  <2>1. 2 \in 1..Len(s) /\ 2 \in DOMAIN s
    BY <1>2, <1>3
  <2>2. p \in ToSet(s)
    BY <2>1 DEF ToSet
  <2>3. p \in S
    BY <1>2, <2>1
  <2> QED
    BY <1>2, <2>2, <2>3
<1>6. /\ e.level[side][to] = x
      /\ \A t \in Sides, term \in Terms :
            t # side \/ term # to => e.level[t][term] = d.level[t][term]
  <2> HIDE DEF x, S
  <2> QED
    BY <1>1, <1>3, <1>4
<1>7. \A y : y \in ToSet(x) <=> y = p \/ y \in ToSet(upper)
  <2> HIDE DEF p, upper, S
  <2>1. CASE p \in ToSet(upper)
    BY <2>1
  <2>2. CASE p \notin ToSet(upper)
    <3>1. \A y : y \in ToSet(<<p>> \o upper) <=> y = p \/ y \in ToSet(upper)
      BY <1>2, PushedSet
    <3> QED
      BY <2>2, <3>1
  <2> QED
    BY <2>1, <2>2
<1>8. ASSUME NEW y \in ToSet(upper), y # p PROVE Key(p) > Key(y)
  <2>1. Second(s, y)
    BY <1>8 DEF Tiers, Steps
  <2>2. Key(y) <= Key(p) /\ Key(y) # Key(p) /\ Key(y) \in Nat /\ Key(p) \in Nat
    BY <1>2, <1>5, <1>8, <2>1, KeyOnly, KeyTyped DEF Second
  <2> QED
    BY <2>2
<1> QED
  BY <1>5, <1>6, <1>7, <1>8 DEF LiftedLists

LEMMA LiftedShaped ==
  ASSUME NEW d, NEW e, NEW B, Shaped(d, B), Sorted(d), NEW side \in Sides, Tiers(d, side),
         NEW from, NEW to, <<from, to>> \in Steps, Lifted(d, e, side, from, to)
  PROVE  Shaped(e, B) /\ Sorted(e)
<1> DEFINE s == d.level[side][from]
           upper == d.level[side][to]
           p == s[2]
           S == DOMAIN d.piv
<1>1. from \in Terms /\ to \in Terms
  BY DEF Steps, Terms
<1>2. LiftedLists(d, e, side, from, to)
  BY LiftedListsAre
<1>3. p \in S /\ p \in PivotIds /\ p[2] = side
  BY <1>2 DEF LiftedLists
<1>4. upper \in Seq(S) /\ upper \in Seq(PivotIds) /\ Falling(upper)
  BY <1>1, ListsTyped DEF Sorted
<1>5. \A y \in ToSet(upper) : y # p => Key(p) > Key(y)
  BY <1>2 DEF LiftedLists
<1>6. ASSUME p \notin ToSet(upper)
      PROVE  <<p>> \o upper \in Seq(S) /\ Falling(<<p>> \o upper)
  <2> HIDE DEF S, upper, p
  <2>1. \A y \in ToSet(upper) : Key(p) > Key(y)
    BY <1>5, <1>6
  <2>2. Falling(<<p>> \o upper)
    BY <1>3, <1>4, <2>1, PushedFalls
  <2>3. <<p>> \o upper \in Seq(S \cup {p})
    BY <1>4, Pushed
  <2>4. S \cup {p} = S
    BY <1>3
  <2> QED
    BY <2>2, <2>3, <2>4
<1>7. e.level[side][to] \in Seq(S) /\ Falling(e.level[side][to])
  <2>1. e.level[side][to] = IF p \in ToSet(upper) THEN upper ELSE <<p>> \o upper
    BY <1>2 DEF LiftedLists
  <2> HIDE DEF upper, p, S
  <2> QED
    BY <1>4, <1>6, <2>1
<1>8. DOMAIN e.piv = S
  BY Zenon DEF Lifted
<1>9. ASSUME NEW t \in Sides, NEW term \in Terms
      PROVE  /\ e.level[t][term] \in Seq(S) /\ Falling(e.level[t][term])
             /\ \A q \in ToSet(e.level[t][term]) : q[2] = t
  <2>1. CASE t = side /\ term = to
    <3>1. ASSUME NEW q \in ToSet(e.level[side][to]) PROVE q[2] = side
      <4>1. q = p \/ q \in ToSet(upper)
        BY <1>2 DEF LiftedLists
      <4>2. q \in ToSet(upper) => q[2] = side
        BY <1>1 DEF Shaped
      <4> QED
        BY <1>3, <4>1, <4>2
    <3> QED
      BY <1>7, <2>1, <3>1
  <2>2. CASE ~(t = side /\ term = to)
    <3>1. e.level[t][term] = d.level[t][term]
      BY <1>2, <2>2 DEF LiftedLists
    <3>2. /\ d.level[t][term] \in Seq(S) /\ Falling(d.level[t][term])
          /\ \A q \in ToSet(d.level[t][term]) : q[2] = t
      BY DEF Shaped, Sorted
    <3> HIDE DEF S
    <3> QED
      BY <3>1, <3>2
  <2> QED
    BY <2>1, <2>2
<1>10. e.level \in [Sides -> [Terms -> Seq(S)]]
  <2> DEFINE x == IF p \in ToSet(upper) THEN upper ELSE <<p>> \o upper
  <2>1. e.level = [d.level EXCEPT ![side][to] = x]
    BY Zenon DEF Lifted
  <2>2. d.level \in [Sides -> [Terms -> Seq(S)]]
    BY DEF Shaped
  <2>3. x \in Seq(S)
    <3> HIDE DEF upper, p, S
    <3> QED
      BY <1>4, <1>6
  <2> HIDE DEF x, S
  <2> QED
    BY <1>1, <2>1, <2>2, <2>3
<1>11. e.st = d.st /\ {"piv", "st", "level"} \subseteq DOMAIN e
  BY Zenon DEF Lifted
<1>12. Sorted(e)
  BY <1>9, <1>11 DEF Sorted
<1>13. Shaped(e, B)
  <2>1. S \subseteq PivotIds /\ d.st \in Seq(S)
    BY DEF Shaped
  <2>2. \A q \in S : Key(q) < B /\ IsPivot(e.piv[q], q)
    BY Zenon DEF Shaped, Lifted
  <2> QED
    BY <1>8, <1>9, <1>10, <1>11, <2>1, <2>2 DEF Shaped
<1> QED
  BY <1>12, <1>13

LEMMA LiftedRecent ==
  ASSUME NEW d, NEW e, NEW B, Shaped(d, B), Recent(d), NEW side \in Sides, Tiers(d, side),
         NEW from, NEW to, <<from, to>> \in Steps, Lifted(d, e, side, from, to)
  PROVE  Recent(e)
<1>1. LiftedLists(d, e, side, from, to)
  BY LiftedListsAre
<1>2. e.st = d.st /\ \A q : q \in DOMAIN e.piv <=> q \in DOMAIN d.piv
  BY Zenon DEF Lifted
<1>3. \A t \in Sides : e.level[t]["ST"] = d.level[t]["ST"]
  BY <1>1 DEF LiftedLists, Steps, Terms
<1>4. \A p \in ToSet(d.st) : p[2] \in Sides
  <2>1. \A p \in ToSet(d.st) : p \in PivotIds
    BY BufferTyped
  <2> QED
    BY <2>1 DEF PivotIds
<1> QED
  BY <1>2, <1>3, <1>4 DEF Recent

(* What has reached a term after the promotion.                            *)
ReachesUp(d, e, side, from, to, s) ==
  LET p == d.level[side][from][2]
  IN  /\ \A q : q \in Reached(e, s, "ST") <=> q \in Reached(d, s, "ST")
      /\ \A q : q \in Reached(e, s, "IT") <=>
                  q \in Reached(d, s, "IT") \/ (s = side /\ q = p)
      /\ Extends(d, e, s, "ST") /\ Extends(d, e, s, "IT")

LEMMA LiftedReaches ==
  ASSUME NEW d, NEW e, NEW B, Shaped(d, B), NEW side \in Sides, Tiers(d, side),
         NEW from, NEW to, <<from, to>> \in Steps, Lifted(d, e, side, from, to),
         NEW s \in Sides
  PROVE  ReachesUp(d, e, side, from, to, s)
<1> DEFINE p == d.level[side][from][2]
<1>1. LiftedLists(d, e, side, from, to)
  BY LiftedListsAre
<1>2. /\ \A q : q \in DOMAIN e.piv <=> q \in DOMAIN d.piv
      /\ \A q \in DOMAIN d.piv :
            /\ e.piv[q].price = d.piv[q].price
            /\ e.piv[q].term = IF q = p THEN to ELSE d.piv[q].term
  BY Zenon DEF Lifted
<1>3. p \in DOMAIN d.piv /\ p \in PivotIds /\ p[2] = side /\ to # "ST"
  BY <1>1 DEF LiftedLists, Steps
<1> HIDE DEF p
<1>4. \A q : q \in Reached(e, s, "ST") <=> q \in Reached(d, s, "ST")
  BY <1>2 DEF Reached
<1>5. \A q : q \in Reached(e, s, "IT") <=> q \in Reached(d, s, "IT") \/ (s = side /\ q = p)
  <2> SUFFICES ASSUME NEW q
               PROVE  q \in Reached(e, s, "IT") <=>
                        q \in Reached(d, s, "IT") \/ (s = side /\ q = p)
    OBVIOUS
  <2>1. q \in Reached(e, s, "IT") <=> q \in DOMAIN d.piv /\ q[2] = s /\ e.piv[q].term # "ST"
    BY <1>2 DEF Reached
  <2>2. q \in Reached(d, s, "IT") <=> q \in DOMAIN d.piv /\ q[2] = s /\ d.piv[q].term # "ST"
    BY DEF Reached
  <2>3. CASE q = p
    BY <1>2, <1>3, <2>1, <2>2, <2>3
  <2>4. CASE q # p
    BY <1>2, <2>1, <2>2, <2>4
  <2> QED
    BY <2>3, <2>4
<1>6. \A q : q \in Reached(d, s, "ST") \/ q \in Reached(d, s, "IT") =>
               q \in DOMAIN d.piv /\ q[2] = s
  BY DEF Reached
<1>7. Extends(d, e, s, "ST")
  BY <1>2, <1>4, <1>6 DEF Extends
<1>8. Extends(d, e, s, "IT")
  <2>1. \A q \in Reached(d, s, "IT") :
            q \in Reached(e, s, "IT") /\ e.piv[q].price = d.piv[q].price
    BY <1>2, <1>5, <1>6
  <2>2. ASSUME NEW r \in Reached(e, s, "IT"), r \notin Reached(d, s, "IT"),
               NEW q \in Reached(d, s, "IT")
        PROVE  r[1] > q[1]
    <3>1. s = side /\ r = p /\ q # p
      BY <1>5, <2>2
    <3>2. q \in ToSet(d.level[side]["IT"])
      BY <3>1 DEF Tiers
    <3>3. Key(p) > Key(q)
      <4>1. CASE to = "IT"
        BY <1>1, <3>1, <3>2, <4>1 DEF LiftedLists, p
      <4>2. CASE to = "LT"
        <5>1. p \in ToSet(d.level[side]["IT"])
          BY <1>1, <4>2 DEF LiftedLists, Steps, p
        <5>2. r \in Reached(d, s, "IT")
          BY <3>1, <5>1 DEF Tiers
        <5> QED
          BY <2>2, <5>2
      <4> QED
        BY <4>1, <4>2 DEF Steps
    <3>4. q \in PivotIds /\ q[2] = side
      BY <1>6, <3>1 DEF Shaped
    <3>5. Key(p) \in Nat /\ Key(q) \in Nat /\ q[1] \in Nat /\ p[1] \in Nat
      BY <1>3, <3>4, KeyTyped DEF PivotIds
    <3>6. q[1] < p[1]
      BY <1>3, <3>3, <3>4, <3>5, KeyOfSide
    <3> QED
      BY <3>1, <3>5, <3>6
  <2> QED
    BY <2>1, <2>2 DEF Extends
<1> QED
  BY <1>4, <1>5, <1>7, <1>8 DEF ReachesUp, p

LEMMA LiftedTiers ==
  ASSUME NEW d, NEW e, NEW B, Shaped(d, B), Sorted(d), NEW side \in Sides, Tiers(d, side),
         NEW from, NEW to, <<from, to>> \in Steps, Lifted(d, e, side, from, to),
         NEW s \in Sides, Tiers(d, s)
  PROVE  Tiers(e, s)
<1> DEFINE D == d.level[s]
           E == e.level[s]
           p == d.level[side][from][2]
<1>1. LiftedLists(d, e, side, from, to)
  BY LiftedListsAre
<1>2. ReachesUp(d, e, side, from, to, s)
  BY LiftedReaches
<1>3. \A q : q \in Reached(e, s, "IT") <=> q \in Reached(d, s, "IT") \/ (s = side /\ q = p)
  BY <1>2 DEF ReachesUp
<1>4. /\ \A q : q \in ToSet(D["IT"]) <=> q \in Reached(d, s, "IT")
      /\ \A q \in ToSet(D["LT"]) : q \in ToSet(D["IT"])
      /\ \A q \in ToSet(D["IT"]) : Second(D["ST"], q)
      /\ \A q \in ToSet(D["LT"]) : Second(D["IT"], q)
  BY DEF Tiers
<1>5. CASE s # side
  <2>1. E["ST"] = D["ST"] /\ E["IT"] = D["IT"] /\ E["LT"] = D["LT"]
    BY <1>1, <1>5 DEF LiftedLists, Terms
  <2> HIDE DEF D, E, p
  <2>2. /\ \A q : q \in ToSet(E["IT"]) <=> q \in Reached(e, s, "IT")
        /\ \A q \in ToSet(E["LT"]) : q \in ToSet(E["IT"])
        /\ \A q \in ToSet(E["IT"]) : Second(E["ST"], q)
        /\ \A q \in ToSet(E["LT"]) : Second(E["IT"], q)
    BY <1>3, <1>4, <1>5, <2>1
  <2> QED
    BY <2>2 DEF Tiers, E
<1>6. CASE s = side
  <2>1. p \in PivotIds /\ p \in ToSet(D[from]) /\ Second(D[from], p)
    <3>1. p \in PivotIds /\ p \in ToSet(D[from])
      BY <1>1, <1>6 DEF LiftedLists
    <3>2. Len(D[from]) >= 3 /\ p = D[from][2] /\ Len(D[from]) \in Nat
      <4>1. Len(D[from]) >= 3 /\ p = D[from][2]
        BY <1>6, Zenon DEF Lifted
      <4>2. from \in Terms
        BY DEF Steps, Terms
      <4>3. D[from] \in Seq(PivotIds)
        BY <4>2, ListsTyped
      <4> HIDE DEF D
      <4>4. Len(D[from]) \in Nat
        BY <4>3
      <4> QED
        BY <4>1, <4>4
    <3>3. Key(p) \in Nat
      BY <3>1, KeyTyped
    <3> HIDE DEF D, p
    <3> QED
      BY <3>1, <3>2, <3>3 DEF Second
  <2>2. \A y : y \in ToSet(E[to]) <=> y = p \/ y \in ToSet(D[to])
    BY <1>1, <1>6 DEF LiftedLists
  <2>3. CASE from = "ST" /\ to = "IT"
    <3>1. E["ST"] = D["ST"] /\ E["LT"] = D["LT"]
      BY <1>1, <2>3 DEF LiftedLists, Terms
    <3>2. E["IT"] = IF p \in ToSet(D["IT"]) THEN D["IT"] ELSE <<p>> \o D["IT"]
      BY <1>1, <1>6, <2>3 DEF LiftedLists
    <3>3. /\ D["IT"] \in Seq(PivotIds) /\ Falling(D["IT"])
          /\ \A q \in ToSet(D["LT"]) : q \in PivotIds
      BY ListsTyped DEF Sorted, Terms
    <3>4. ASSUME NEW q \in ToSet(D["LT"]) PROVE Second(E["IT"], q)
      <4> DEFINE u == D["IT"]
      <4>1. u \in Seq(PivotIds) /\ Falling(u) /\ Second(u, q) /\ q \in PivotIds
        BY <1>4, <3>3
      <4>2. E["IT"] = IF p \in ToSet(u) THEN u ELSE <<p>> \o u
        BY <3>2
      <4>3. Second(<<p>> \o u, q)
        <5> HIDE DEF u, p
        <5> QED
          BY <4>1, SecondKept
      <4> HIDE DEF u, p, E, D
      <4> QED
        BY <4>1, <4>2, <4>3
    <3> HIDE DEF D, E, p
    <3>5. /\ \A q : q \in ToSet(E["IT"]) <=> q \in Reached(e, s, "IT")
          /\ \A q \in ToSet(E["LT"]) : q \in ToSet(E["IT"])
          /\ \A q \in ToSet(E["IT"]) : Second(E["ST"], q)
          /\ \A q \in ToSet(E["LT"]) : Second(E["IT"], q)
      BY <1>3, <1>4, <1>6, <2>1, <2>2, <2>3, <3>1, <3>4
    <3> QED
      BY <3>5 DEF Tiers, E
  <2>4. CASE from = "IT" /\ to = "LT"
    <3>1. E["ST"] = D["ST"] /\ E["IT"] = D["IT"]
      BY <1>1, <2>4 DEF LiftedLists, Terms
    <3> HIDE DEF D, E, p
    <3>2. /\ \A q : q \in ToSet(E["IT"]) <=> q \in Reached(e, s, "IT")
          /\ \A q \in ToSet(E["LT"]) : q \in ToSet(E["IT"])
          /\ \A q \in ToSet(E["IT"]) : Second(E["ST"], q)
          /\ \A q \in ToSet(E["LT"]) : Second(E["IT"], q)
      BY <1>3, <1>4, <1>6, <2>1, <2>2, <2>4, <3>1
    <3> QED
      BY <3>2 DEF Tiers, E
  <2> QED
    BY <2>3, <2>4 DEF Steps
<1> QED
  BY <1>5, <1>6

(* The second of a list without a hole sticks out when it exceeds the first *)
(* and, past its equals, an older one.                                     *)
LEMMA MiddleSticksOut ==
  ASSUME NEW d, NEW side \in Sides, NEW term, NEW s \in Seq(PivotIds), Falling(s),
         Len(s) >= 3, \A y \in ToSet(s) : y \in Reached(d, side, term),
         \A q \in Reached(d, side, term) : q \in PivotIds,
         \A y \in ToSet(s) : \A q \in Reached(d, side, term) : q[1] > y[1] => q \in ToSet(s),
         Beyond(side, d.piv[s[2]].price, d.piv[s[1]].price),
         NEW j \in 3..Len(s), Beyond(side, d.piv[s[2]].price, d.piv[s[j]].price),
         \A i \in 3..j - 1 : term = "ST" /\ d.piv[s[i]].price = d.piv[s[2]].price
  PROVE  SticksOut(d, side, term, s[2])
<1> DEFINE R == Reached(d, side, term)
           m == Len(s)
<1>1. m \in Nat /\ 1 \in 1..m /\ 2 \in 1..m /\ j \in 1..m
  OBVIOUS
<1>2. \A i \in 1..m : s[i] \in R /\ s[i] \in PivotIds /\ s[i] \in ToSet(s)
  <2>1. \A i \in 1..m : s[i] \in ToSet(s)
    BY DEF ToSet
  <2> QED
    BY <2>1
<1>3. \A q \in R : q[2] = side /\ q[1] \in Nat
  BY DEF Reached, PivotIds
<1>4. \A i, k \in 1..m : i < k => s[k][1] < s[i][1]
  <2> SUFFICES ASSUME NEW i \in 1..m, NEW k \in 1..m, i < k PROVE s[k][1] < s[i][1]
    OBVIOUS
  <2>1. Key(s[i]) > Key(s[k])
    BY DEF Falling
  <2>2. s[i] \in PivotIds /\ s[k] \in PivotIds /\ s[i][2] = s[k][2]
    BY <1>2, <1>3
  <2>3. Key(s[i]) \in Nat /\ Key(s[k]) \in Nat
    BY <2>2, KeyTyped
  <2>4. Key(s[k]) < Key(s[i])
    BY <2>1, <2>3
  <2> QED
    BY <2>2, <2>4, KeyOfSide
<1>5. \A y \in ToSet(s) : \E i \in 1..m : s[i] = y
  BY ToSetIs
<1>6. \A r \in R, k \in 1..m : r[1] > s[k][1] => \E i \in 1..m : s[i] = r
  BY <1>2, <1>5
<1> HIDE DEF R, m
<1>7. ~ \E r \in R : s[2][1] < r[1] /\ r[1] < s[1][1]
  <2> SUFFICES ASSUME NEW r \in R, s[2][1] < r[1], r[1] < s[1][1] PROVE FALSE
    OBVIOUS
  <2>1. s[2][1] \in Nat /\ r[1] \in Nat /\ s[1][1] \in Nat
    BY <1>1, <1>2, <1>3
  <2>2. PICK i \in 1..m : s[i] = r
    BY <1>1, <1>6, <2>1
  <2>3. i = 1 \/ i = 2 \/ 2 < i
    BY <1>1
  <2>4. 2 < i => r[1] < s[2][1]
    BY <1>1, <1>4, <2>2
  <2> QED
    BY <2>1, <2>2, <2>3, <2>4
<1>8. \A r \in R : s[j][1] < r[1] /\ r[1] < s[2][1] =>
                     term = "ST" /\ d.piv[r].price = d.piv[s[2]].price
  <2> SUFFICES ASSUME NEW r \in R, s[j][1] < r[1], r[1] < s[2][1]
               PROVE  term = "ST" /\ d.piv[r].price = d.piv[s[2]].price
    OBVIOUS
  <2>1. s[2][1] \in Nat /\ r[1] \in Nat /\ s[j][1] \in Nat
    BY <1>1, <1>2, <1>3
  <2>2. PICK i \in 1..m : s[i] = r
    BY <1>1, <1>6, <2>1
  <2>3. ~(j < i) /\ i # j
    BY <1>1, <1>4, <2>1, <2>2
  <2>4. i # 2 /\ ~(i < 2)
    BY <1>1, <1>4, <2>1, <2>2
  <2>5. i \in 3..j - 1
    BY <1>1, <2>3, <2>4
  <2> QED
    BY <2>2, <2>5
<1>9. s[2] \in R /\ s[1] \in R /\ s[j] \in R /\ s[1][1] > s[2][1] /\ s[j][1] < s[2][1]
  <2>1. s[2][1] < s[1][1] /\ s[j][1] < s[2][1]
    BY <1>1, <1>4
  <2>2. s[1][1] \in Nat /\ s[2][1] \in Nat
    BY <1>1, <1>2, <1>3
  <2> QED
    BY <1>1, <1>2, <2>1, <2>2
<1>10. \E q \in R : /\ q[1] > s[2][1] /\ Beyond(side, d.piv[s[2]].price, d.piv[q].price)
                    /\ ~ \E r \in R : s[2][1] < r[1] /\ r[1] < q[1]
  BY <1>7, <1>9
<1>11. \E q \in R : /\ q[1] < s[2][1] /\ Beyond(side, d.piv[s[2]].price, d.piv[q].price)
                    /\ \A r \in R : q[1] < r[1] /\ r[1] < s[2][1] =>
                         term = "ST" /\ d.piv[r].price = d.piv[s[2]].price
  BY <1>8, <1>9
<1> QED
  BY <1>9, <1>10, <1>11 DEF SticksOut, R

LEMMA LiftedExtremes ==
  ASSUME NEW d, NEW e, NEW B, Shaped(d, B), Sorted(d), NEW side \in Sides, Tiers(d, side),
         NEW from, NEW to, <<from, to>> \in Steps, Lifted(d, e, side, from, to),
         NEW s \in Sides, Extremes(d, s)
  PROVE  Extremes(e, s)
<1> DEFINE u == d.level[side][from]
           p == u[2]
<1>1. LiftedLists(d, e, side, from, to)
  BY LiftedListsAre
<1>2. ReachesUp(d, e, side, from, to, s)
  BY LiftedReaches
<1>3. Extends(d, e, s, "ST") /\ Extends(d, e, s, "IT")
  BY <1>2 DEF ReachesUp
<1>4. DOMAIN e.piv \subseteq PivotIds
  BY Zenon DEF Lifted, Shaped
<1>5. Unbroken(e, s) => Unbroken(d, s)
  <2>1. e.level[s]["ST"] = d.level[s]["ST"]
    BY <1>1 DEF LiftedLists, Steps, Terms
  <2> QED
    BY <1>2, <2>1 DEF Unbroken, ReachesUp
<1>6. ASSUME s = side, from = "ST" => Unbroken(d, side)
      PROVE  SticksOut(e, s, from, p)
  <2>1. u \in Seq(PivotIds) /\ Falling(u) /\ Len(u) >= 3
    <3>1. from \in Terms
      BY DEF Steps, Terms
    <3>2. u \in Seq(PivotIds) /\ Falling(u)
      BY <3>1, ListsTyped DEF Sorted
    <3> QED
      BY <3>2, Zenon DEF Lifted
  <2>2. \A q \in Reached(d, side, from) : q \in PivotIds
    BY DEF Reached, Shaped
  <2>3. \A y \in ToSet(u) : y \in Reached(d, side, from)
    <3>1. CASE from = "ST"
      <4>1. \A y \in ToSet(u) : y \in DOMAIN d.piv /\ y[2] = side
        BY <3>1, ListsTyped DEF Terms
      <4> QED
        BY <3>1, <4>1 DEF Reached
    <3>2. CASE from = "IT"
      BY <3>2 DEF Tiers
    <3> QED
      BY <3>1, <3>2 DEF Steps
  <2>4. \A y \in ToSet(u) : \A q \in Reached(d, side, from) : q[1] > y[1] => q \in ToSet(u)
    <3>1. CASE from = "ST"
      BY <1>6, <3>1 DEF Unbroken
    <3>2. CASE from = "IT"
      BY <3>2 DEF Tiers
    <3> QED
      BY <3>1, <3>2 DEF Steps
  <2>5. Beyond(side, d.piv[u[2]].price, d.piv[u[1]].price)
    BY Zenon DEF Lifted
  <2>6. PICK j \in 3..Len(u) :
            /\ Beyond(side, d.piv[u[2]].price, d.piv[u[j]].price)
            /\ \A i \in 3..j - 1 : from = "ST" /\ d.piv[u[i]].price = d.piv[u[2]].price
    BY Zenon DEF Lifted
  <2>7. SticksOut(d, side, from, u[2])
    <3> HIDE DEF u
    <3> QED
      BY <2>1, <2>2, <2>3, <2>4, <2>5, <2>6, MiddleSticksOut
  <2>8. Extends(d, e, side, from)
    BY <1>3, <1>6 DEF Steps
  <2> QED
    BY <1>4, <1>6, <2>7, <2>8, SticksOutKept
<1>7. ASSUME Unbroken(e, s), NEW q \in ToSet(e.level[s]["IT"])
      PROVE  SticksOut(e, s, "ST", q)
  <2>1. CASE q \in ToSet(d.level[s]["IT"])
    <3>1. SticksOut(d, s, "ST", q)
      BY <1>5, <1>7, <2>1 DEF Extremes
    <3> QED
      BY <1>3, <1>4, <3>1, SticksOutKept
  <2>2. CASE q \notin ToSet(d.level[s]["IT"])
    <3>1. s = side /\ to = "IT"
      BY <1>1, <1>7, <2>2 DEF LiftedLists, Terms
    <3>2. q = p /\ from = "ST"
      BY <1>1, <1>7, <2>2, <3>1 DEF LiftedLists, Steps
    <3> QED
      BY <1>5, <1>6, <1>7, <3>1, <3>2
  <2> QED
    BY <2>1, <2>2
<1>8. ASSUME NEW q \in ToSet(e.level[s]["LT"])
      PROVE  SticksOut(e, s, "IT", q)
  <2>1. CASE q \in ToSet(d.level[s]["LT"])
    <3>1. SticksOut(d, s, "IT", q)
      BY <2>1 DEF Extremes
    <3> QED
      BY <1>3, <1>4, <3>1, SticksOutKept
  <2>2. CASE q \notin ToSet(d.level[s]["LT"])
    <3>1. s = side /\ to = "LT"
      BY <1>1, <1>8, <2>2 DEF LiftedLists, Terms
    <3>2. q = p /\ from = "IT"
      BY <1>1, <1>8, <2>2, <3>1 DEF LiftedLists, Steps
    <3> QED
      BY <1>6, <3>1, <3>2
  <2> QED
    BY <2>1, <2>2
<1> QED
  BY <1>7, <1>8 DEF Extremes

LEMMA PromoteKeeps ==
  ASSUME NEW d, NEW B, DetectorInv(d, B), NEW side \in Sides, NEW from, NEW to,
         <<from, to>> \in Steps
  PROVE  DetectorInv(Promote(side, from, to, d), B)
<1> DEFINE e == Promote(side, from, to, d)
<1>1. CASE e = d
  BY <1>1
<1>2. CASE e # d
  <2>1. Shaped(d, B) /\ Sorted(d) /\ Recent(d) /\ \A s \in Sides : Tiers(d, s) /\ Extremes(d, s)
    BY DEF DetectorInv
  <2>2. Lifted(d, e, side, from, to)
    BY <1>2, <2>1, PromoteLifts
  <2> HIDE DEF e
  <2>3. Tiers(d, side)
    BY <2>1
  <2>4. Shaped(e, B) /\ Sorted(e)
    BY <2>1, <2>2, <2>3, LiftedShaped
  <2>5. Recent(e)
    BY <2>1, <2>2, <2>3, LiftedRecent
  <2>6. ASSUME NEW s \in Sides PROVE Tiers(e, s)
    BY <2>1, <2>2, <2>3, LiftedTiers
  <2>7. ASSUME NEW s \in Sides PROVE Extremes(e, s)
    BY <2>1, <2>2, <2>3, LiftedExtremes
  <2>8. DetectorInv(e, B)
    BY <2>4, <2>5, <2>6, <2>7 DEF DetectorInv
  <2> QED
    BY <2>8 DEF e
<1> QED
  BY <1>1, <1>2

-----------------------------------------------------------------------------
(* The pivots of the buffer are claimed as the first n bars say.           *)
Rightly(d, p, n, bars) ==
  LET sweeps == Sweeps(d, p, n, bars)
  IN  /\ d.piv[p].claimed <=> sweeps # {}
      /\ d.piv[p].claimed => /\ d.piv[p].last \in sweeps
                             /\ \A m \in sweeps : d.piv[p].last <= m

Claims(d, n, bars) == \A p \in ToSet(d.st) : Rightly(d, p, n, bars)

LEMMA SwingClaims ==
  ASSUME NEW d, NEW B \in Nat, DetectorInv(d, B), NEW side \in Sides, NEW n \in Nat,
         n >= 1, B = Key(<<n - 1, side>>), NEW w \in Seq(Barred), NEW bars,
         Claims(d, n - 1, bars)
  PROVE  Claims(AddSwing(side, d, n, w), n - 1, bars)
<1>1. CASE ~IsSwing(side, w)
  <2>1. AddSwing(side, d, n, w) = d
    BY <1>1 DEF AddSwing
  <2> QED
    BY <2>1
<1>2. CASE IsSwing(side, w)
  <2> DEFINE e == AddSwing(side, d, n, w)
             id == <<n - 1, side>>
  <2>1. Shaped(d, B) /\ Sorted(d)
    BY DEF DetectorInv
  <2>2. \E kept, list : PivotAdded(d, e, side, id, kept, list)
    BY <1>2, <2>1, SwingAdds
  <2>3. id[1] + 1 = n
    OBVIOUS
  <2> HIDE DEF e, id
  <2>4. PICK kept, list : PivotAdded(d, e, side, id, kept, list)
    BY <2>2
  <2>5. AddedSets(d, e, side, id, kept, list)
    BY <2>1, <2>4, AddedSetsAre
  <2>6. ASSUME NEW p \in ToSet(e.st) PROVE Rightly(e, p, n - 1, bars)
    <3>1. CASE p = id
      <4>1. e.piv[p].claimed = FALSE
        BY <2>4, <3>1 DEF PivotAdded
      <4>2. Sweeps(e, p, n - 1, bars) = {}
        <5>1. \A m : m \notin n..n - 1
          OBVIOUS
        <5> QED
          BY <2>3, <3>1, <5>1 DEF Sweeps
      <4> QED
        BY <4>1, <4>2 DEF Rightly
    <3>2. CASE p # id
      <4>1. p \in ToSet(d.st)
        BY <2>4, <2>5, <3>2 DEF AddedSets, PivotAdded
      <4>2. e.piv[p] = d.piv[p]
        <5>1. p \in DOMAIN d.piv
          BY <2>1, <4>1, BufferTyped
        <5> QED
          BY <2>4, <5>1 DEF PivotAdded
      <4>3. Sweeps(e, p, n - 1, bars) = Sweeps(d, p, n - 1, bars)
        BY <4>2 DEF Sweeps
      <4>4. Rightly(d, p, n - 1, bars)
        BY <4>1 DEF Claims
      <4> QED
        BY <4>2, <4>3, <4>4 DEF Rightly
    <3> QED
      BY <3>1, <3>2
  <2>7. Claims(e, n - 1, bars)
    BY <2>6 DEF Claims
  <2> QED
    BY <2>7 DEF e
<1> QED
  BY <1>1, <1>2

LEMMA PromoteClaims ==
  ASSUME NEW d, NEW B, DetectorInv(d, B), NEW side \in Sides, NEW from, NEW to,
         <<from, to>> \in Steps, NEW n, NEW bars, Claims(d, n, bars)
  PROVE  Claims(Promote(side, from, to, d), n, bars)
<1> DEFINE e == Promote(side, from, to, d)
<1>1. CASE e = d
  BY <1>1
<1>2. CASE e # d
  <2>1. Shaped(d, B)
    BY DEF DetectorInv
  <2>2. Lifted(d, e, side, from, to)
    BY <1>2, <2>1, PromoteLifts
  <2> HIDE DEF e
  <2>3. ASSUME NEW p \in ToSet(e.st) PROVE Rightly(e, p, n, bars)
    <3>1. p \in ToSet(d.st)
      BY <2>2, Zenon DEF Lifted
    <3>2. p \in DOMAIN d.piv
      BY <2>1, <3>1, BufferTyped
    <3>3. /\ e.piv[p].price = d.piv[p].price /\ e.piv[p].claimed = d.piv[p].claimed
          /\ e.piv[p].last = d.piv[p].last
      BY <2>2, <3>2, Zenon DEF Lifted
    <3>4. Sweeps(e, p, n, bars) = Sweeps(d, p, n, bars)
      BY <3>3 DEF Sweeps
    <3>5. Rightly(d, p, n, bars)
      BY <3>1 DEF Claims
    <3> QED
      BY <3>3, <3>4, <3>5 DEF Rightly
  <2>4. Claims(e, n, bars)
    BY <2>3 DEF Claims
  <2> QED
    BY <2>4 DEF e
<1> QED
  BY <1>1, <1>2

(* Claiming a pivot changes neither the lists nor the prices.              *)
Alike(d, e) ==
  /\ {"piv", "st", "level"} \subseteq DOMAIN e
  /\ e.st = d.st /\ e.level = d.level
  /\ \A q : q \in DOMAIN e.piv <=> q \in DOMAIN d.piv
  /\ \A q \in DOMAIN d.piv : /\ IsPivot(e.piv[q], q)
                             /\ e.piv[q].price = d.piv[q].price
                             /\ e.piv[q].term = d.piv[q].term

LEMMA AlikeKeeps ==
  ASSUME NEW d, NEW e, NEW B, DetectorInv(d, B), Alike(d, e)
  PROVE  DetectorInv(e, B)
<1>1. Shaped(d, B) /\ Sorted(d) /\ Recent(d) /\ \A s \in Sides : Tiers(d, s) /\ Extremes(d, s)
  BY DEF DetectorInv
<1>2. DOMAIN e.piv = DOMAIN d.piv /\ e.st = d.st /\ e.level = d.level
  BY DEF Alike
<1>3. Shaped(e, B) /\ Sorted(e) /\ Recent(e)
  <2>1. Shaped(e, B)
    <3>1. /\ {"piv", "st", "level"} \subseteq DOMAIN e
          /\ \A q \in DOMAIN d.piv : IsPivot(e.piv[q], q)
      BY DEF Alike
    <3> QED
      BY <1>1, <1>2, <3>1 DEF Shaped
  <2>2. Sorted(e)
    BY <1>1, <1>2 DEF Sorted
  <2>3. Recent(e)
    BY <1>1, <1>2 DEF Recent
  <2> QED
    BY <2>1, <2>2, <2>3
<1>4. ASSUME NEW s \in Sides, NEW term \in {"ST", "IT"}
      PROVE  \A q : q \in Reached(e, s, term) <=> q \in Reached(d, s, term)
  BY DEF Reached, Alike
<1>5. ASSUME NEW s \in Sides, NEW term \in {"ST", "IT"} PROVE Extends(d, e, s, term)
  <2>1. \A q \in Reached(d, s, term) : q \in DOMAIN d.piv
    BY DEF Reached
  <2> QED
    BY <1>4, <2>1 DEF Extends, Alike
<1>6. ASSUME NEW s \in Sides PROVE Tiers(e, s)
  <2>1. \A q : q \in Reached(e, s, "IT") <=> q \in Reached(d, s, "IT")
    BY <1>4
  <2> QED
    BY <1>1, <1>2, <2>1 DEF Tiers
<1>7. ASSUME NEW s \in Sides PROVE Extremes(e, s)
  <2>1. \A q : q \in Reached(e, s, "ST") <=> q \in Reached(d, s, "ST")
    BY <1>4
  <2>2. Unbroken(e, s) => Unbroken(d, s)
    BY <1>2, <2>1 DEF Unbroken
  <2>3. Extends(d, e, s, "ST") /\ Extends(d, e, s, "IT")
    BY <1>5
  <2>4. DOMAIN e.piv \subseteq PivotIds
    BY <1>1, <1>2 DEF Shaped
  <2>5. \A p : SticksOut(d, s, "ST", p) => SticksOut(e, s, "ST", p)
    BY <2>3, <2>4, SticksOutKept
  <2>6. \A p : SticksOut(d, s, "IT", p) => SticksOut(e, s, "IT", p)
    BY <2>3, <2>4, SticksOutKept
  <2> QED
    BY <1>1, <1>2, <2>2, <2>5, <2>6 DEF Extremes
<1> QED
  BY <1>3, <1>6, <1>7 DEF DetectorInv

Claiming(d, e, hit, n) ==
  /\ Alike(d, e)
  /\ \A p \in DOMAIN d.piv :
        IF p \in hit THEN e.piv[p].claimed = TRUE /\ e.piv[p].last = n
        ELSE e.piv[p] = d.piv[p]

LEMMA ClaimingIs ==
  ASSUME NEW d, NEW B, Shaped(d, B), NEW n \in Nat, NEW w,
         NEW e, e = CheckClaimed(d, n, w)
  PROVE  Claiming(d, e, SweptNow(d, w[1]), n)
<1> DEFINE hit == SweptNow(d, w[1])
           F(p) == IF p \in hit THEN [d.piv[p] EXCEPT !.claimed = TRUE, !.last = n]
                   ELSE d.piv[p]
<1>1. /\ {"piv", "st", "level"} \subseteq DOMAIN d
      /\ \A p \in DOMAIN d.piv : IsPivot(d.piv[p], p)
  BY DEF Shaped
<1>2. e = [d EXCEPT !.piv = [p \in DOMAIN @ |->
                IF p \in hit THEN [@[p] EXCEPT !.claimed = TRUE, !.last = n] ELSE @[p]]]
  BY Zenon DEF CheckClaimed
<1> HIDE DEF hit
<1> DEFINE g == [p \in DOMAIN d.piv |-> F(p)]
<1>3. e = [d EXCEPT !.piv = g]
  BY <1>2, Zenon
<1>4. /\ {"piv", "st", "level"} \subseteq DOMAIN e /\ e.st = d.st /\ e.level = d.level
      /\ e.piv = g
  <2> HIDE DEF g
  <2> QED
    BY <1>1, <1>3
<1>5. ASSUME NEW p \in DOMAIN d.piv
      PROVE  /\ IsPivot(F(p), p) /\ F(p).price = d.piv[p].price /\ F(p).term = d.piv[p].term
             /\ p \in hit => F(p).claimed = TRUE /\ F(p).last = n
             /\ p \notin hit => F(p) = d.piv[p]
  <2> DEFINE v == d.piv[p]
             r == [v EXCEPT !.claimed = TRUE, !.last = n]
  <2>1. IsPivot(v, p)
    BY <1>1
  <2> HIDE DEF v
  <2>2. /\ IsPivot(r, p) /\ r.price = v.price /\ r.term = v.term
        /\ r.claimed = TRUE /\ r.last = n
    BY <2>1 DEF IsPivot
  <2>3. p \in hit => F(p) = r
    BY DEF v
  <2>4. p \notin hit => F(p) = v
    BY DEF v
  <2> HIDE DEF r, F
  <2> QED
    BY <2>1, <2>2, <2>3, <2>4 DEF v
<1>6. DOMAIN e.piv = DOMAIN d.piv /\ \A p \in DOMAIN d.piv : e.piv[p] = F(p)
  <2> HIDE DEF F
  <2> QED
    BY <1>4
<1> HIDE DEF F, g
<1>7. Alike(d, e)
  BY <1>4, <1>5, <1>6 DEF Alike
<1>8. \A p \in DOMAIN d.piv :
          IF p \in hit THEN e.piv[p].claimed = TRUE /\ e.piv[p].last = n
          ELSE e.piv[p] = d.piv[p]
  BY <1>5, <1>6
<1> QED
  BY <1>7, <1>8 DEF Claiming, hit

LEMMA ClaimingClaims ==
  ASSUME NEW n \in Nat, n >= 1, NEW d, DetectorInv(d, 2 * n), NEW bars \in Seq(Barred),
         n <= Len(bars), NEW w, w[1] = bars[n], Claims(d, n - 1, bars)
  PROVE  Claims(CheckClaimed(d, n, w), n, bars)
<1> DEFINE e == CheckClaimed(d, n, w)
<1>1. Shaped(d, 2 * n)
  BY DEF DetectorInv
<1>2. /\ Alike(d, e)
      /\ \A p \in DOMAIN d.piv :
            IF p \in SweptNow(d, w[1])
              THEN e.piv[p].claimed = TRUE /\ e.piv[p].last = n
              ELSE e.piv[p] = d.piv[p]
  <2>1. Claiming(d, e, SweptNow(d, w[1]), n)
    BY <1>1, ClaimingIs
  <2> QED
    BY <2>1 DEF Claiming
<1> HIDE DEF e
<1> SUFFICES ASSUME NEW p \in ToSet(d.st) PROVE Rightly(e, p, n, bars)
  BY <1>2 DEF Claims, Alike, e
<1> DEFINE S == Sweeps(d, p, n - 1, bars)
           T == Sweeps(e, p, n, bars)
           beyond == Beyond(p[2], Extreme(p[2], bars[n]), d.piv[p].price)
<1>3. p \in DOMAIN d.piv /\ p \in PivotIds /\ d.piv[p].side = p[2] /\ d.piv[p].claimed \in BOOLEAN
  BY <1>1, BufferTyped DEF Shaped, IsPivot
<1>4. p[1] \in Nat /\ p[1] + 1 <= n
  <2>1. p[1] \in Nat
    BY <1>3 DEF PivotIds
  <2>2. 2 * p[1] <= Key(p) /\ Key(p) < 2 * n
    BY <1>1, <1>3, <2>1 DEF Shaped, Key
  <2>3. Key(p) \in Nat
    BY <1>3, KeyTyped
  <2> QED
    BY <2>1, <2>2, <2>3
<1>5. e.piv[p].price = d.piv[p].price
  BY <1>2, <1>3 DEF Alike
<1>6. \A m : m \in T <=> m \in S \/ (m = n /\ beyond)
  <2>1. \A m : m \in (p[1] + 1)..n <=> m \in (p[1] + 1)..n - 1 \/ m = n
    BY <1>4
  <2> QED
    BY <1>5, <2>1 DEF Sweeps
<1>7. \A m \in S : m \in Nat /\ m < n
  BY <1>4 DEF Sweeps
<1>8. p \in SweptNow(d, w[1]) <=> d.piv[p].claimed = FALSE /\ beyond
  BY <1>3 DEF SweptNow
<1>9. /\ d.piv[p].claimed <=> S # {}
      /\ d.piv[p].claimed => d.piv[p].last \in S /\ \A m \in S : d.piv[p].last <= m
  BY DEF Claims, Rightly
<1> HIDE DEF S, T, beyond
<1>10. CASE p \in SweptNow(d, w[1])
  <2>1. e.piv[p].claimed = TRUE /\ e.piv[p].last = n
    BY <1>2, <1>3, <1>10
  <2>2. S = {} /\ beyond
    BY <1>8, <1>9, <1>10
  <2>3. n \in T /\ \A m \in T : m = n
    BY <1>6, <2>2
  <2> QED
    BY <2>1, <2>3 DEF Rightly, T
<1>11. CASE p \notin SweptNow(d, w[1])
  <2>1. e.piv[p] = d.piv[p]
    BY <1>2, <1>3, <1>11
  <2>2. CASE d.piv[p].claimed
    <3>1. d.piv[p].last \in T /\ T # {}
      BY <1>6, <1>9, <2>2
    <3>2. \A m \in T : d.piv[p].last <= m
      <4>1. d.piv[p].last \in S /\ d.piv[p].last < n /\ d.piv[p].last \in Nat
        BY <1>7, <1>9, <2>2
      <4> QED
        BY <1>6, <1>9, <2>2, <4>1
    <3> QED
      BY <2>1, <2>2, <3>1, <3>2 DEF Rightly, T
  <2>3. CASE ~d.piv[p].claimed
    <3>1. S = {} /\ ~beyond
      BY <1>3, <1>8, <1>9, <1>11, <2>3
    <3>2. T = {}
      BY <1>6, <3>1
    <3> QED
      BY <2>1, <2>3, <3>2 DEF Rightly, T
  <2> QED
    BY <2>2, <2>3
<1> QED
  BY <1>10, <1>11

(* A whole bar.                                                            *)
LEMMA DetectKeeps ==
  ASSUME NEW n \in Nat, n >= 1, NEW d, DetectorInv(d, 2 * (n - 1)),
         NEW bars \in Seq(Barred), n <= Len(bars), Claims(d, n - 1, bars),
         NEW w \in Seq(Barred), w[1] = bars[n]
  PROVE  DetectorInv(Detect(d, n, w), 2 * n) /\ Claims(Detect(d, n, w), n, bars)
<1> DEFINE B == 2 * (n - 1)
           d1 == AddSwing("high", d, n, w)
           d2 == AddSwing("low", d1, n, w)
           d3 == Promote("high", "ST", "IT", d2)
           d4 == Promote("low", "ST", "IT", d3)
           d5 == Promote("high", "IT", "LT", d4)
           d6 == Promote("low", "IT", "LT", d5)
<1>1. /\ Detect(d, n, w) = CheckClaimed(d6, n, w)
  BY DEF Detect, FindST, FindIT, FindLT
<1>2. /\ B \in Nat /\ B + 1 \in Nat /\ (B + 1) + 1 = 2 * n
      /\ B = Key(<<n - 1, "high">>) /\ B + 1 = Key(<<n - 1, "low">>)
  BY DEF Key
<1>3. "high" \in Sides /\ "low" \in Sides /\ <<"ST", "IT">> \in Steps /\ <<"IT", "LT">> \in Steps
  BY DEF Sides, Steps
<1>4. DetectorInv(d, B) /\ Claims(d, n - 1, bars)
  OBVIOUS
<1> HIDE DEF B, d1, d2, d3, d4, d5, d6
<1>5. DetectorInv(d1, B + 1) /\ Claims(d1, n - 1, bars)
  BY <1>2, <1>3, <1>4, SwingKeeps, SwingClaims DEF d1
<1>6. DetectorInv(d2, 2 * n) /\ Claims(d2, n - 1, bars)
  <2>1. DetectorInv(d2, (B + 1) + 1)
    BY <1>2, <1>3, <1>5, SwingKeeps DEF d2
  <2>2. Claims(d2, n - 1, bars)
    BY <1>2, <1>3, <1>5, SwingClaims DEF d2
  <2> QED
    BY <1>2, <2>1, <2>2
<1>7. DetectorInv(d3, 2 * n) /\ Claims(d3, n - 1, bars)
  BY <1>3, <1>6, PromoteKeeps, PromoteClaims DEF d3
<1>8. DetectorInv(d4, 2 * n) /\ Claims(d4, n - 1, bars)
  BY <1>3, <1>7, PromoteKeeps, PromoteClaims DEF d4
<1>9. DetectorInv(d5, 2 * n) /\ Claims(d5, n - 1, bars)
  BY <1>3, <1>8, PromoteKeeps, PromoteClaims DEF d5
<1>10. DetectorInv(d6, 2 * n) /\ Claims(d6, n - 1, bars)
  BY <1>3, <1>9, PromoteKeeps, PromoteClaims DEF d6
<1>11. Claims(CheckClaimed(d6, n, w), n, bars)
  BY <1>10, ClaimingClaims
<1>12. DetectorInv(CheckClaimed(d6, n, w), 2 * n)
  <2>1. Shaped(d6, 2 * n)
    BY <1>10 DEF DetectorInv
  <2>2. Alike(d6, CheckClaimed(d6, n, w))
    BY <2>1, ClaimingIs DEF Claiming
  <2> QED
    BY <1>10, <2>2, AlikeKeeps
<1> QED
  BY <1>1, <1>11, <1>12

-----------------------------------------------------------------------------
(* A bar that closes within its range.                                     *)
Closes(bar) == bar \in Barred /\ bar.l <= bar.c /\ bar.c <= bar.h

LEMMA DaysClose ==
  ASSUME NEW d \in Days
  PROVE  d \in Seq(Barred) /\ \A n \in 1..Len(d) : Closes(d[n])
<1>1. d \in Seq(Barred)
  BY PipelineAssumption DEF Barred
<1>2. ASSUME NEW n \in 1..Len(d) PROVE Closes(d[n])
  <2>1. n \in DOMAIN d /\ d[n] \in Barred
    BY <1>1
  <2>2. d[n].l <= d[n].c /\ d[n].c <= d[n].h
    BY <2>1, PipelineAssumption
  <2> QED
    BY <2>1, <2>2 DEF Closes
<1> QED
  BY <1>1, <1>2

(* The price of a bar reaches no further than its extreme.                 *)
LEMMA CloseReaches ==
  ASSUME NEW bar, Closes(bar), NEW side \in Sides, NEW x \in Int, Beyond(side, bar.c, x)
  PROVE  Beyond(side, Extreme(side, bar), x)
<1>1. bar.l \in Int /\ bar.c \in Int /\ bar.h \in Int /\ bar.l <= bar.c /\ bar.c <= bar.h
  BY DEF Closes, Barred
<1> QED
  BY <1>1 DEF Beyond, Extreme, Sides

LEMMA ArraysAre ==
  ASSUME day \in Days, NEW n \in 1..Len(day)
  PROVE  Arrays(n) \in Seq(Barred) /\ Arrays(n)[1] = day[n]
<1> DEFINE m == MinOf(n, Window)
<1>0. n \in Nat /\ n >= 1 /\ Window \in Nat /\ Window >= 3
  <2>1. Len(day) \in Nat
    BY DaysClose
  <2> QED
    BY <2>1, PipelineAssumption
<1>1. m \in 1..n
  BY <1>0 DEF MinOf
<1>2. Arrays(n) = [i \in 1..m |-> day[n - i + 1]]
  BY DEF Arrays
<1> HIDE DEF m
<1>3. day \in Seq(Barred) /\ Len(day) \in Nat
  BY DaysClose
<1>4. \A i \in 1..m : n - i + 1 \in 1..Len(day)
  BY <1>1, <1>3
<1>5. \A i \in 1..m : day[n - i + 1] \in Barred
  BY <1>3, <1>4
<1>6. Arrays(n) \in [1..m -> Barred] /\ m \in Nat
  BY <1>1, <1>2, <1>5
<1>7. Arrays(n) \in Seq(Barred)
  BY <1>6
<1>8. 1 \in 1..m /\ n - 1 + 1 = n
  BY <1>1
<1> QED
  BY <1>2, <1>7, <1>8

(* Whatever of the buffer a structure map names was traded beyond.         *)
Named(d, m, ids, price) ==
  \A side \in Sides :
    /\ \A p \in m.mss[side] :
          p \in ToSet(ids) /\ p[2] = side /\ Beyond(side, price, d.piv[p].price)
    /\ \A b \in m.bos[side] :
          /\ b.pivot \in ToSet(ids) /\ b.pivot[2] = side
          /\ Beyond(side, price, d.piv[b.pivot].price)

LEMMA SideIs ==
  ASSUME NEW d, NEW B, Shaped(d, B), NEW T, NEW ids \in Seq(T), NEW side
  PROVE  /\ OfSide(d, ids, side) \in Seq(T)
         /\ \A p \in ToSet(OfSide(d, ids, side)) :
               p \in ToSet(ids) /\ p \in DOMAIN d.piv /\ p[2] = side
<1> DEFINE S == {p \in DOMAIN d.piv : d.piv[p].side = side}
           r == OfSide(d, ids, side)
<1>1. r = Picked(ids, S)
  BY DEF OfSide
<1>2. \A p \in S : p \in DOMAIN d.piv /\ p[2] = side
  BY DEF Shaped, IsPivot
<1> HIDE DEF S, r
<1>3. r \in Seq(T) /\ Picks(r, ids, S)
  BY <1>1, PickedIs
<1>4. \A p \in ToSet(r) : p \in ToSet(ids) /\ p \in DOMAIN d.piv /\ p[2] = side
  BY <1>2, <1>3 DEF Picks
<1> QED
  BY <1>3, <1>4 DEF r

LEMMA MapNames ==
  ASSUME NEW d, NEW B, Shaped(d, B), NEW T, NEW ids \in Seq(T), NEW price, NEW old
  PROVE  Named(d, StructureMapOf(old, d, ids, price), ids, price)
<1> DEFINE m == StructureMapOf(old, d, ids, price)
<1>1. /\ m.mss = [side \in Sides |-> ShiftsOf(d, ids, side, price)]
      /\ m.bos = [side \in Sides |-> BreakOf(d, ids, side, price)]
  BY DEF StructureMapOf
<1>2. ASSUME NEW side \in Sides, NEW p \in ShiftsOf(d, ids, side, price)
      PROVE  p \in ToSet(ids) /\ p[2] = side /\ Beyond(side, price, d.piv[p].price)
  <2> DEFINE u == OfSide(d, ids, side)
             s == Picked(u, OfTerms(d, {"ST", "IT"}))
  <2>1. PICK k \in 1..(Len(s) - 1) : s[k] = p /\ Beyond(side, price, d.piv[s[k]].price)
    BY <1>2 DEF ShiftsOf
  <2>2. u \in Seq(T) /\ \A q \in ToSet(u) : q \in ToSet(ids) /\ q[2] = side
    BY SideIs
  <2>3. s \in Seq(T) /\ Picks(s, u, OfTerms(d, {"ST", "IT"}))
    <3> HIDE DEF u
    <3> QED
      BY <2>2, PickedIs
  <2> HIDE DEF s, u
  <2>4. p \in ToSet(s)
    <3>1. k \in 1..Len(s)
      BY <2>3
    <3> QED
      BY <2>1, <2>3, <3>1 DEF ToSet
  <2>5. p \in ToSet(u)
    BY <2>3, <2>4 DEF Picks
  <2> QED
    BY <2>1, <2>2, <2>5
<1>3. ASSUME NEW side \in Sides, NEW b \in BreakOf(d, ids, side, price)
      PROVE  /\ b.pivot \in ToSet(ids) /\ b.pivot[2] = side
             /\ Beyond(side, price, d.piv[b.pivot].price)
  <2> DEFINE u == OfSide(d, ids, side)
             S == {p \in OfTerms(d, {"ST", "IT"}) : Beyond(side, price, d.piv[p].price)}
             s == Picked(u, S)
  <2>1. Len(s) >= 2 /\ b = [pivot |-> s[Len(s)], broken |-> Len(s)]
    <3>1. BreakOf(d, ids, side, price) =
            IF Len(s) < 2 THEN {} ELSE {[pivot |-> s[Len(s)], broken |-> Len(s)]}
      BY DEF BreakOf
    <3>2. Len(s) \in Nat
      <4>1. u \in Seq(T)
        BY SideIs
      <4> HIDE DEF u, S
      <4>2. Picked(u, S) \in Seq(T)
        BY <4>1, PickedIs
      <4> QED
        BY <4>2
    <3> HIDE DEF s
    <3> QED
      BY <1>3, <3>1, <3>2
  <2>2. u \in Seq(T) /\ \A q \in ToSet(u) : q \in ToSet(ids) /\ q[2] = side
    BY SideIs
  <2>3. s \in Seq(T) /\ Picks(s, u, S)
    <3> HIDE DEF u, S
    <3> QED
      BY <2>2, PickedIs
  <2>4. \A p \in S : Beyond(side, price, d.piv[p].price)
    OBVIOUS
  <2> HIDE DEF s, u, S
  <2>5. b.pivot = s[Len(s)] /\ Len(s) \in 1..Len(s)
    BY <2>1, <2>3
  <2>6. b.pivot \in ToSet(s)
    BY <2>3, <2>5 DEF ToSet
  <2>7. b.pivot \in ToSet(u) /\ b.pivot \in S
    BY <2>3, <2>6 DEF Picks
  <2> QED
    BY <2>2, <2>4, <2>7
<1> HIDE DEF m
<1>4. Named(d, m, ids, price)
  BY <1>1, <1>2, <1>3 DEF Named
<1> QED
  BY <1>4 DEF m

(* What a price beyond a pivot says of it after the bar of that price.     *)
LEMMA PassedIsClaimed ==
  ASSUME NEW n \in Nat, NEW d, DetectorInv(d, 2 * n), NEW bars,
         Claims(d, n, bars), Closes(bars[n]), NEW p \in ToSet(d.st),
         Beyond(p[2], Extreme(p[2], bars[n]), d.piv[p].price)
  PROVE  d.piv[p].claimed
<1>1. Shaped(d, 2 * n)
  BY DEF DetectorInv
<1>2. p \in PivotIds /\ p \in DOMAIN d.piv
  BY <1>1, BufferTyped
<1>3. p[1] \in Nat /\ p[1] + 1 <= n
  <2>1. p[1] \in Nat
    BY <1>2 DEF PivotIds
  <2>2. 2 * p[1] <= Key(p) /\ Key(p) < 2 * n
    BY <1>1, <1>2, <2>1 DEF Shaped, Key
  <2>3. Key(p) \in Nat
    BY <1>2, KeyTyped
  <2> QED
    BY <2>1, <2>2, <2>3
<1>4. n \in Sweeps(d, p, n, bars)
  BY <1>3 DEF Sweeps
<1> QED
  BY <1>4 DEF Claims, Rightly

-----------------------------------------------------------------------------
(* The features of the liquidity.                                          *)
Starts(u, s) ==
  /\ \E S : u \in Seq(S)
  /\ Len(u) \in Nat /\ Len(s) \in Nat /\ Len(s) <= Len(u)
  /\ \A i \in 1..Len(s) : u[i] = s[i]

LEMMA StartKept ==
  ASSUME NEW u, NEW s, Starts(u, s), NEW T, NEW t \in Seq(T)
  PROVE  Starts(u \o t, s)
<1>1. PICK S : u \in Seq(S)
  BY DEF Starts
<1> DEFINE R == S \cup T
<1>2. u \in Seq(R) /\ t \in Seq(R)
  BY <1>1
<1> HIDE DEF R
<1>3. u \o t \in Seq(R) /\ Glued(u \o t, u, t)
  BY <1>2, Concatenated
<1>4. Len(u) \in Nat /\ Len(t) \in Nat
  BY <1>2
<1> QED
  BY <1>3, <1>4 DEF Starts, Glued

LEMMA ZerosListed ==
  ASSUME NEW n \in Nat
  PROVE  Zeros(n) \in Seq({Zero})
BY DEF Zeros

(* Three distances of a side each, those of the high side first.           *)
Away(d, price, side) ==
  [i \in 1..3 |-> Distance(d, Unclaimed(d, i - 1, side), side, price)]
First(d, price) == Away(d, price, "high") \o Away(d, price, "low")

LEMMA FirstIs ==
  ASSUME NEW d, NEW price
  PROVE  /\ Starts(First(d, price), First(d, price)) /\ Len(First(d, price)) = 6
         /\ \A i \in 1..3 :
              /\ First(d, price)[i] = Distance(d, Unclaimed(d, i - 1, "high"), "high", price)
              /\ First(d, price)[i + 3] = Distance(d, Unclaimed(d, i - 1, "low"), "low", price)
<1> DEFINE a == Away(d, price, "high")
           b == Away(d, price, "low")
           S == {a[i] : i \in 1..3} \cup {b[i] : i \in 1..3}
<1>1. /\ \A i \in 1..3 : a[i] = Distance(d, Unclaimed(d, i - 1, "high"), "high", price)
      /\ \A i \in 1..3 : b[i] = Distance(d, Unclaimed(d, i - 1, "low"), "low", price)
  BY DEF Away
<1>2. DOMAIN a = 1..3 /\ DOMAIN b = 1..3 /\ a = [i \in 1..3 |-> a[i]] /\ b = [i \in 1..3 |-> b[i]]
  BY DEF Away
<1>3. First(d, price) = a \o b
  BY DEF First
<1> HIDE DEF a, b
<1>4. (\A i \in 1..3 : a[i] \in S /\ b[i] \in S) /\ 3 \in Nat
  OBVIOUS
<1> HIDE DEF S
<1>5. a \in Seq(S) /\ b \in Seq(S) /\ Len(a) = 3 /\ Len(b) = 3
  BY <1>2, <1>4
<1>6. a \o b \in Seq(S) /\ Glued(a \o b, a, b)
  BY <1>5, Concatenated
<1>7. /\ a \o b \in Seq(S) /\ Len(a \o b) = 6
      /\ \A i \in 1..3 : (a \o b)[i] = a[i] /\ (a \o b)[3 + i] = b[i]
  BY <1>5, <1>6 DEF Glued
<1>8. \A i \in 1..3 : (a \o b)[i] = a[i] /\ (a \o b)[i + 3] = b[i]
  <2>1. \A i \in 1..3 : i + 3 = 3 + i
    OBVIOUS
  <2> QED
    BY <1>7, <2>1
<1> DEFINE u == a \o b
<1>9. Starts(u, u)
  <2>1. u \in Seq(S) /\ Len(u) = 6
    BY <1>7
  <2> HIDE DEF u
  <2> QED
    BY <2>1 DEF Starts
<1> HIDE DEF u
<1>10. First(d, price) = u /\ Len(u) = 6 /\ \A i \in 1..3 : u[i] = a[i] /\ u[i + 3] = b[i]
  BY <1>3, <1>7, <1>8 DEF u
<1> QED
  BY <1>1, <1>9, <1>10

LEMMA LiquidityStarts ==
  ASSUME NEW d, NEW price
  PROVE  Starts(FLiq(d, price), First(d, price))
<1> DEFINE open(side)  == [i \in 1..3 |-> Unclaimed(d, i - 1, side)]
           age(side)   == [i \in 1..3 |->
                             Whole(IF open(side)[i] = <<>> THEN 200 ELSE 100)]
           count(side) == [i \in 1..3 |-> <<Len(open(side)[i]), MaxCount[i]>>]
           r1 == ClaimedRatio(d, Tier(d, 1))
           r2 == ClaimedRatio(d, Tier(d, 2))
           ratios == <<r1, r2>>
           u1 == First(d, price) \o age("high")
           u2 == u1 \o age("low")
           u3 == u2 \o Zeros(4)
           u4 == u3 \o count("high")
           u5 == u4 \o count("low")
<1>1. FLiq(d, price) = u5 \o ratios
  BY DEF FLiq, First, Away
<1>2. ASSUME NEW side
      PROVE  /\ age(side) \in Seq({age(side)[i] : i \in 1..3})
             /\ count(side) \in Seq({count(side)[i] : i \in 1..3})
  OBVIOUS
<1>3. ratios \in Seq({r1, r2}) /\ Zeros(4) \in Seq({Zero})
  BY ZerosListed
<1>4. Starts(First(d, price), First(d, price))
  BY FirstIs
<1> HIDE DEF open, age, count, r1, r2, ratios
<1>5. Starts(u1, First(d, price))
  BY <1>2, <1>4, StartKept
<1> HIDE DEF u1
<1>6. Starts(u2, First(d, price))
  BY <1>2, <1>5, StartKept
<1> HIDE DEF u2
<1>7. Starts(u3, First(d, price))
  BY <1>3, <1>6, StartKept
<1> HIDE DEF u3
<1>8. Starts(u4, First(d, price))
  BY <1>2, <1>7, StartKept
<1> HIDE DEF u4
<1>9. Starts(u5, First(d, price))
  BY <1>2, <1>8, StartKept
<1> HIDE DEF u5
<1> QED
  BY <1>1, <1>3, <1>9, StartKept

LEMMA StructureStarts ==
  ASSUME NEW f, NEW s, Starts(f.f_liq, s)
  PROVE  Starts(FStruct(f), s)
<1> DEFINE dist == IF f.eq2 > 0 THEN <<f.price2 - f.eq2, f.eq2>> ELSE Zero
           mss  == f.mssBull + f.mssBear
           bos  == f.bosBull + f.bosBear
           half == <<1, 2>>
           a == <<Whole(f.mssBull), Whole(f.mssBear),
                  Whole(f.bosBull), Whole(f.bosBear), Whole(Score(f))>>
           b == <<dist, Whole(IF dist[1] > 0 THEN 1 ELSE 0),
                  Whole(IF dist[1] < 0 THEN 1 ELSE 0),
                  <<Score(f), MaxOf(mss, 1)>>, <<Score(f), MaxOf(bos, 1)>>, Zero>>
           c == <<Whole(f.fvgBull), Whole(f.fvgBear), Zero, Zero, Zero, half,
                  Zero, Zero, Zero, half, Whole(f.ifvg), Zero, f.strength,
                  ZoneWeight(f), ZoneWeight(f), Zero>>
           e == <<Whole(f.eq), Whole(f.eq)>>
           u1 == f.f_liq \o a
           u2 == u1 \o Zeros(5)
           u3 == u2 \o b
           u4 == u3 \o c
           u5 == u4 \o e
<1>1. FStruct(f) = u5 \o Zeros(6)
  BY DEF FStruct
<1>2. \E T : a \in Seq(T)
  <2>1. a \in Seq({Whole(f.mssBull), Whole(f.mssBear),
                  Whole(f.bosBull), Whole(f.bosBear), Whole(Score(f))})
    OBVIOUS
  <2> QED
    BY <2>1
<1>3. \E T : b \in Seq(T)
  <2>1. b \in Seq({dist, Whole(IF dist[1] > 0 THEN 1 ELSE 0),
                  Whole(IF dist[1] < 0 THEN 1 ELSE 0),
                  <<Score(f), MaxOf(mss, 1)>>, <<Score(f), MaxOf(bos, 1)>>, Zero})
    <3> HIDE DEF dist, mss, bos
    <3> QED OBVIOUS
  <2> QED
    BY <2>1
<1>4. \E T : c \in Seq(T)
  <2>1. c \in Seq({Whole(f.fvgBull), Whole(f.fvgBear), Zero, half,
                  Whole(f.ifvg), f.strength, ZoneWeight(f)})
    <3> HIDE DEF half
    <3> QED OBVIOUS
  <2> QED
    BY <2>1
<1>5. \E T : e \in Seq(T)
  <2>1. e \in Seq({Whole(f.eq)})
    OBVIOUS
  <2> QED
    BY <2>1
<1>6. Zeros(5) \in Seq({Zero}) /\ Zeros(6) \in Seq({Zero})
  BY ZerosListed
<1> HIDE DEF a, b, c, e
<1>7. Starts(u1, s)
  BY <1>2, StartKept
<1> HIDE DEF u1
<1>8. Starts(u2, s)
  BY <1>6, <1>7, StartKept
<1> HIDE DEF u2
<1>9. Starts(u3, s)
  BY <1>3, <1>8, StartKept
<1> HIDE DEF u3
<1>10. Starts(u4, s)
  BY <1>4, <1>9, StartKept
<1> HIDE DEF u4
<1>11. Starts(u5, s)
  BY <1>5, <1>10, StartKept
<1> HIDE DEF u5
<1> QED
  BY <1>1, <1>6, <1>11, StartKept

(* The nearest of some pivots is one of them.                              *)
LEMMA NearestIsOne ==
  ASSUME NEW d, NEW B, Shaped(d, B), NEW ids \in Seq(DOMAIN d.piv), ids # <<>>,
         NEW price \in Int
  PROVE  Nearest(d, ids, price) \in ToSet(ids)
<1> DEFINE dist  == [k \in DOMAIN ids |-> Abs(d.piv[ids[k]].price - price)]
           least == {k \in DOMAIN ids : \A j \in DOMAIN ids : dist[k] <= dist[j]}
           T == {dist[k] : k \in DOMAIN ids}
<1>1. Nearest(d, ids, price) = ids[Min(least)]
  BY DEF Nearest
<1>2. DOMAIN ids = 1..Len(ids) /\ Len(ids) \in Nat /\ 1 \in DOMAIN ids
  BY EmptySeq
<1>3. ASSUME NEW k \in DOMAIN ids PROVE dist[k] \in Nat
  <2>1. ids[k] \in DOMAIN d.piv
    BY <1>2
  <2>2. d.piv[ids[k]].price \in Int
    BY <2>1 DEF Shaped, IsPivot
  <2> DEFINE x == d.piv[ids[k]].price
  <2>3. dist[k] = Abs(x - price)
    OBVIOUS
  <2> HIDE DEF x, dist
  <2> QED
    BY <2>2, <2>3 DEF Abs, x
<1> HIDE DEF dist
<1>4. T \in SUBSET Nat /\ T # {}
  BY <1>2, <1>3
<1>5. PICK x \in T : \A y \in T : x <= y
  BY <1>4, LeastExists
<1>6. PICK k \in DOMAIN ids : x = dist[k]
  BY <1>5
<1>7. k \in least
  BY <1>5, <1>6
<1>8. least \in SUBSET Nat /\ least # {}
  <2>1. least \subseteq DOMAIN ids /\ DOMAIN ids \subseteq Nat
    BY <1>2
  <2> HIDE DEF least
  <2> QED
    BY <1>7, <2>1
<1>9. \E y \in least : \A z \in least : y <= z
  BY <1>8, LeastExists
<1>10. Min(least) \in DOMAIN ids
  <2>1. Min(least) \in least
    <3> HIDE DEF least
    <3> QED
      BY <1>9 DEF Min
  <2> QED
    BY <2>1
<1> QED
  BY <1>1, <1>2, <1>10 DEF ToSet

LEMMA DistanceAhead ==
  ASSUME NEW d, NEW B, Shaped(d, B), NEW ids \in Seq(DOMAIN d.piv), NEW side \in Sides,
         NEW price \in Int, \A p \in ToSet(ids) : ~Beyond(side, price, d.piv[p].price)
  PROVE  Distance(d, ids, side, price)[1] >= 0
<1> DEFINE p == Nearest(d, ids, price)
           at == d.piv[p].price
<1>1. Distance(d, ids, side, price) =
        IF ids = <<>> THEN Zero
        ELSE Whole(IF side = "high" THEN at - price ELSE price - at)
  BY DEF Distance
<1>2. CASE ids = <<>>
  BY <1>1, <1>2 DEF Zero
<1>3. CASE ids # <<>>
  <2>1. p \in ToSet(ids)
    BY <1>3, NearestIsOne
  <2>2. p \in DOMAIN d.piv
    <3> DEFINE S == DOMAIN d.piv
    <3> HIDE DEF S, p
    <3>1. ids \in Seq(S)
      BY DEF S
    <3>2. p \in S
      BY <2>1, <3>1, ToSetIs
    <3> QED
      BY <3>2 DEF S
  <2>3. at \in Int /\ ~Beyond(side, price, at)
    <3> HIDE DEF p
    <3> QED
      BY <2>1, <2>2 DEF Shaped, IsPivot
  <2>4. Distance(d, ids, side, price)[1] = IF side = "high" THEN at - price ELSE price - at
    BY <1>1, <1>3 DEF Whole
  <2> HIDE DEF at, p
  <2> QED
    BY <2>3, <2>4 DEF Beyond, Sides
<1> QED
  BY <1>2, <1>3

(* A tier is the buffer, or a list of the high side.                       *)
LEMMA TierTyped ==
  ASSUME NEW d, NEW B, Shaped(d, B), NEW i \in 0..2
  PROVE  Tier(d, i) \in Seq(DOMAIN d.piv)
<1>1. CASE i = 0
  BY <1>1 DEF Tier, Shaped
<1>2. CASE i # 0
  <2> DEFINE term == IF i = 1 THEN "IT" ELSE "LT"
  <2>1. Tier(d, i) = d.level["high"][term] /\ term \in Terms /\ "high" \in Sides
    BY <1>2 DEF Tier, Terms, Sides
  <2> HIDE DEF term
  <2> QED
    BY <2>1, ListsTyped
<1> QED
  BY <1>1, <1>2

LEMMA OpenIsAhead ==
  ASSUME NEW n \in Nat, NEW d, DetectorInv(d, 2 * n), NEW bars, Claims(d, n, bars),
         Closes(bars[n]), NEW i \in 0..2, ToSet(Tier(d, i)) \subseteq ToSet(d.st),
         NEW side \in Sides
  PROVE  Distance(d, Unclaimed(d, i, side), side, bars[n].c)[1] >= 0
<1> DEFINE S == {p \in DOMAIN d.piv : d.piv[p].side = side /\ ~d.piv[p].claimed}
           ids == Unclaimed(d, i, side)
           T == DOMAIN d.piv
           tier == Tier(d, i)
           B == 2 * n
<1>1. Shaped(d, B)
  BY DEF DetectorInv
<1>2. ids = Picked(tier, S)
  BY DEF Unclaimed
<1>3. tier \in Seq(T)
  BY <1>1, TierTyped
<1>4. ids \in Seq(T) /\ Picks(ids, tier, S)
  <2> HIDE DEF ids, tier, S, T
  <2> QED
    BY <1>2, <1>3, PickedIs
<1>5. ASSUME NEW p \in ToSet(ids), Beyond(side, bars[n].c, d.piv[p].price) PROVE FALSE
  <2>1. p \in S /\ p \in ToSet(d.st)
    <3> HIDE DEF ids, S
    <3> QED
      BY <1>4, <1>5 DEF Picks
  <2>2. p \in DOMAIN d.piv /\ d.piv[p].side = side /\ ~d.piv[p].claimed
    BY <2>1
  <2>3. d.piv[p].price \in Int /\ p[2] = side
    BY <1>1, <2>2 DEF Shaped, IsPivot
  <2>4. Beyond(side, Extreme(side, bars[n]), d.piv[p].price)
    BY <1>5, <2>3, CloseReaches
  <2>5. d.piv[p].claimed
    BY <2>1, <2>3, <2>4, PassedIsClaimed
  <2> QED
    BY <2>2, <2>5
<1>6. bars[n].c \in Int
  BY DEF Closes, Barred
<1> HIDE DEF ids, B
<1> QED
  BY <1>1, <1>4, <1>5, <1>6, DistanceAhead DEF ids

-----------------------------------------------------------------------------
(* The pipeline.                                                           *)
PipelineInv ==
  /\ day \in Days /\ pos \in 0..Len(day)
  /\ DetectorInv(Detector, 2 * pos)
  /\ Claims(Detector, pos, day)
  /\ BrokenIsClaimed
  /\ LiquidityAhead

LEMMA NoPivots ==
  ASSUME Init
  PROVE  PipelineInv
<1>1. Detector = [piv |-> <<>>, st |-> <<>>,
                  level |-> [side \in Sides |-> [term \in Terms |-> <<>>]]]
  BY DEF Init, Detector
<1> DEFINE d == Detector
<1>2. /\ {"piv", "st", "level"} \subseteq DOMAIN d
      /\ DOMAIN d.piv = {} /\ d.st = <<>>
      /\ \A side \in Sides, term \in Terms : d.level[side][term] = <<>>
      /\ d.level \in [Sides -> [Terms -> Seq(DOMAIN d.piv)]]
  BY <1>1
<1>3. "ST" \in Terms /\ "IT" \in Terms /\ "LT" \in Terms
  BY DEF Terms
<1> HIDE DEF d
<1>4. \A p : p \notin ToSet(<<>>)
  BY DEF ToSet
<1>5. Shaped(d, 0) /\ Sorted(d) /\ Recent(d)
  BY <1>2, <1>4 DEF Shaped, Sorted, Recent, Falling
<1>6. ASSUME NEW side \in Sides PROVE Tiers(d, side) /\ Extremes(d, side)
  BY <1>2, <1>3, <1>4 DEF Tiers, Extremes, Reached
<1>7. DetectorInv(d, 0)
  BY <1>5, <1>6 DEF DetectorInv
<1>8. Claims(d, 0, day)
  BY <1>2, <1>4 DEF Claims
<1>9. day \in Days /\ pos = 0 /\ pos \in 0..Len(day) /\ 2 * pos = 0
  <2>1. Len(day) \in Nat
    BY DaysClose DEF Init
  <2> QED
    BY <2>1 DEF Init
<1>10. BrokenIsClaimed /\ LiquidityAhead
  BY DEF Init, BrokenIsClaimed, LiquidityAhead, NoMap
<1> QED
  BY <1>7, <1>8, <1>9, <1>10 DEF PipelineInv, d

(* A bar leaves the detector as the next bar needs it.                     *)
Taken(d, n) ==
  /\ n \in 1..Len(day) /\ DetectorInv(d, 2 * n) /\ Claims(d, n, day)
  /\ Closes(day[n]) /\ Newest[1] = day[n] /\ n = pos + 1

LEMMA BarTaken ==
  ASSUME PipelineInv, pos < Len(day)
  PROVE  Taken(Detected, pos + 1)
<1> DEFINE n == pos + 1
<1>1. day \in Days /\ pos \in 0..Len(day) /\ DetectorInv(Detector, 2 * pos)
      /\ Claims(Detector, pos, day)
  BY DEF PipelineInv
<1>2. day \in Seq(Barred) /\ \A k \in 1..Len(day) : Closes(day[k])
  BY <1>1, DaysClose
<1>3. Len(day) \in Nat
  BY <1>2
<1>4. n \in Nat /\ n >= 1 /\ n <= Len(day) /\ n \in 1..Len(day) /\ n - 1 = pos
  BY <1>1, <1>3
<1>5. Newest \in Seq(Barred) /\ Newest[1] = day[n]
  BY <1>1, <1>4, ArraysAre DEF Newest
<1> DEFINE d == Detector
           w == Newest
<1>6. Detected = Detect(d, n, w)
  BY DEF Detected
<1> HIDE DEF n, d, w
<1>7. DetectorInv(d, 2 * (n - 1)) /\ Claims(d, n - 1, day)
  BY <1>1, <1>4 DEF d
<1>8. w \in Seq(Barred) /\ w[1] = day[n]
  BY <1>5 DEF w
<1>9. DetectorInv(Detect(d, n, w), 2 * n) /\ Claims(Detect(d, n, w), n, day)
  BY <1>2, <1>4, <1>7, <1>8, DetectKeeps
<1> QED
  BY <1>2, <1>4, <1>5, <1>6, <1>9 DEF Taken, n

LEMMA NamedIsClaimed ==
  ASSUME NEW d, NEW n, Taken(d, n), NEW T, NEW ids \in Seq(T),
         ToSet(ids) \subseteq ToSet(d.st), NEW m, Named(d, m, ids, Newest[1].c)
  PROVE  \A side \in Sides : /\ \A p \in m.mss[side] : d.piv[p].claimed
                             /\ \A b \in m.bos[side] : d.piv[b.pivot].claimed
<1>1. Shaped(d, 2 * n) /\ DetectorInv(d, 2 * n) /\ Claims(d, n, day) /\ Closes(day[n])
  BY DEF Taken, DetectorInv
<1>2. n \in Nat
  <2>1. n \in 1..Len(day)
    BY DEF Taken
  <2> QED
    BY <2>1
<1>3. ASSUME NEW side \in Sides, NEW p \in ToSet(ids), p[2] = side,
             Beyond(side, Newest[1].c, d.piv[p].price)
      PROVE  d.piv[p].claimed
  <2>1. p \in ToSet(d.st)
    OBVIOUS
  <2>2. p \in DOMAIN d.piv
    BY <1>1, <2>1, BufferTyped
  <2>3. d.piv[p].price \in Int
    BY <1>1, <2>2 DEF Shaped, IsPivot
  <2>4. Beyond(side, day[n].c, d.piv[p].price)
    BY <1>3 DEF Taken
  <2>5. Beyond(side, Extreme(side, day[n]), d.piv[p].price)
    BY <1>1, <2>3, <2>4, CloseReaches
  <2> QED
    BY <1>1, <1>2, <1>3, <2>1, <2>5, PassedIsClaimed
<1> QED
  BY <1>3 DEF Named

LEMMA BarKeeps ==
  ASSUME PipelineInv, pos < Len(day), NEW m, TakeBar(Detected, m), NEW T,
         NEW ids \in Seq(T), ToSet(ids) \subseteq ToSet(Detected.st),
         Named(Detected, m, ids, Newest[1].c), LiquidityAhead'
  PROVE  PipelineInv'
<1> DEFINE d == Detected
           n == pos + 1
<1>1. Taken(d, n)
  BY BarTaken
<1>2. /\ pos' = n /\ piv' = d.piv /\ st' = d.st /\ level' = d.level /\ smap' = m
      /\ day' = day
  BY DEF TakeBar
<1> HIDE DEF d, n
<1>3. \A side \in Sides : /\ \A p \in m.mss[side] : d.piv[p].claimed
                          /\ \A b \in m.bos[side] : d.piv[b.pivot].claimed
  BY <1>1, NamedIsClaimed DEF d
<1>4. BrokenIsClaimed'
  BY <1>2, <1>3 DEF BrokenIsClaimed
<1> DEFINE e == [piv |-> d.piv, st |-> d.st, level |-> d.level]
<1>5. Detector' = e
  BY <1>2 DEF Detector
<1>6. e.piv = d.piv /\ e.st = d.st /\ e.level = d.level /\ {"piv", "st", "level"} \subseteq DOMAIN e
  OBVIOUS
<1> HIDE DEF e
<1>7. DetectorInv(d, 2 * n) /\ Claims(d, n, day)
  BY <1>1 DEF Taken
<1>8. DetectorInv(e, 2 * n) /\ Claims(e, n, day)
  <2>1. Shaped(e, 2 * n) /\ Sorted(e) /\ Recent(e)
    BY <1>6, <1>7 DEF DetectorInv, Shaped, Sorted, Recent
  <2>2. ASSUME NEW side, NEW term PROVE Reached(e, side, term) = Reached(d, side, term)
    BY <1>6 DEF Reached
  <2>3. ASSUME NEW side \in Sides PROVE Tiers(e, side) /\ Extremes(e, side)
    <3>1. Tiers(d, side) /\ Extremes(d, side)
      BY <1>7 DEF DetectorInv
    <3>2. Tiers(e, side)
      BY <1>6, <2>2, <3>1 DEF Tiers
    <3>3. \A term, p : SticksOut(e, side, term, p) <=> SticksOut(d, side, term, p)
      BY <1>6, <2>2 DEF SticksOut
    <3>4. Unbroken(e, side) <=> Unbroken(d, side)
      BY <1>6, <2>2 DEF Unbroken
    <3> QED
      BY <1>6, <3>1, <3>2, <3>3, <3>4 DEF Extremes
  <2>4. Claims(e, n, day)
    BY <1>6, <1>7 DEF Claims, Rightly, Sweeps
  <2> QED
    BY <2>1, <2>3, <2>4 DEF DetectorInv
<1>9. n \in 0..Len(day) /\ day \in Days
  <2>1. n \in 1..Len(day)
    BY <1>1 DEF Taken
  <2> QED
    BY <2>1 DEF PipelineInv
<1> QED
  BY <1>2, <1>4, <1>5, <1>8, <1>9 DEF PipelineInv

(* Every kind of bar, and an alert.                                        *)
LEMMA ProcessBarKeeps ==
  ASSUME PipelineInv, ProcessBar
  PROVE  PipelineInv'
<1> DEFINE d == Detected
           n == pos + 1
           w == Newest
           price == w[1].c
           m == StructureMapOf(smap, d, d.st, price)
           g == DetectIFVG(ScanFVG(w), w[1])
           eqs == EqualLevels(d, d.level["high"]["ST"])
                  \cup EqualLevels(d, d.level["low"]["ST"])
           fmap == FeatureMap(d, m, g, eqs, w, FLiq(d, price))
           full == FStruct(fmap)
<1>1. /\ pos < Len(day) /\ TakeBar(d, m)
      /\ result'.f_struct = full
  BY DEF ProcessBar
<1>2. Taken(d, n)
  BY <1>1, BarTaken
<1>3. fmap.f_liq = FLiq(d, price)
  BY DEF FeatureMap
<1>4. /\ pos' = n /\ piv' = d.piv /\ st' = d.st /\ level' = d.level
  BY <1>1 DEF TakeBar
<1> HIDE DEF d, n, w, m, g, eqs, fmap
<1>5. Starts(full, First(d, price))
  BY <1>3, LiquidityStarts, StructureStarts
<1>6. /\ Shaped(d, 2 * n) /\ DetectorInv(d, 2 * n) /\ Claims(d, n, day)
      /\ Closes(day[n]) /\ price = day[n].c
  BY <1>2 DEF Taken, DetectorInv, w
<1>7. n \in Nat
  <2>1. n \in 1..Len(day)
    BY <1>2 DEF Taken
  <2> QED
    BY <2>1
<1> HIDE DEF full, price
<1>8. \A i \in 1..6 : full[i] = First(d, price)[i]
  BY <1>5, FirstIs DEF Starts
<1>9. ASSUME NEW i \in 0..2, ToSet(Tier(Detector, i)') \subseteq ToSet(st')
      PROVE  full[i + 1][1] >= 0 /\ full[i + 4][1] >= 0
  <2>1. Tier(Detector, i)' = Tier(d, i)
    BY <1>4 DEF Tier, Detector
  <2>2. ToSet(Tier(d, i)) \subseteq ToSet(d.st)
    BY <1>4, <1>9, <2>1
  <2> DEFINE k == i + 1
  <2>3. k \in 1..3 /\ k \in 1..6 /\ k + 3 \in 1..6 /\ k - 1 = i /\ i + 4 = k + 3
    OBVIOUS
  <2> HIDE DEF k
  <2>4. /\ full[k] = Distance(d, Unclaimed(d, i, "high"), "high", price)
        /\ full[k + 3] = Distance(d, Unclaimed(d, i, "low"), "low", price)
    <3>1. /\ First(d, price)[k] = Distance(d, Unclaimed(d, k - 1, "high"), "high", price)
          /\ First(d, price)[k + 3] = Distance(d, Unclaimed(d, k - 1, "low"), "low", price)
      BY <2>3, FirstIs
    <3> QED
      BY <1>8, <2>3, <3>1
  <2>5. "high" \in Sides /\ "low" \in Sides
    BY DEF Sides
  <2>6. /\ Distance(d, Unclaimed(d, i, "high"), "high", price)[1] >= 0
        /\ Distance(d, Unclaimed(d, i, "low"), "low", price)[1] >= 0
    BY <1>6, <1>7, <2>2, <2>5, OpenIsAhead
  <2>7. full[k][1] >= 0 /\ full[k + 3][1] >= 0
    BY <2>4, <2>6
  <2> QED
    BY <2>3, <2>7 DEF k
<1>10. LiquidityAhead'
  BY <1>1, <1>9 DEF LiquidityAhead
<1>11. d.st \in Seq(PivotIds)
  BY <1>6, BufferTyped
<1>12. Named(d, m, d.st, price)
  BY <1>6, <1>11, MapNames DEF m
<1> QED
  BY <1>1, <1>10, <1>11, <1>12, BarKeeps DEF d, w, price

LEMMA ProcessBarRaisesKeeps ==
  ASSUME PipelineInv, ProcessBarRaises
  PROVE  PipelineInv'
<1> DEFINE d == Detected
           n == pos + 1
           m == StructureMapOf(smap, d, d.st, Newest[1].c)
<1>1. pos < Len(day) /\ TakeBar(d, m) /\ result' = [kind |-> "raised"]
  BY DEF ProcessBarRaises
<1>2. Taken(d, n)
  BY <1>1, BarTaken
<1> HIDE DEF d, m
<1>3. Shaped(d, 2 * n)
  BY <1>2 DEF Taken, DetectorInv
<1>4. d.st \in Seq(PivotIds)
  BY <1>3, BufferTyped
<1>5. Named(d, m, d.st, Newest[1].c)
  BY <1>3, <1>4, MapNames DEF m
<1>6. LiquidityAhead'
  BY <1>1 DEF LiquidityAhead
<1> QED
  BY <1>1, <1>4, <1>5, <1>6, BarKeeps DEF d

LEMMA ProcessBarGuardedKeeps ==
  ASSUME PipelineInv, ProcessBarGuarded
  PROVE  PipelineInv'
<1> DEFINE d == Detected
           n == pos + 1
           S == OfTerms(d, {"IT", "LT"})
           higher == Picked(d.st, S)
           m == StructureMapOf(smap, d, higher, Newest[1].c)
<1>1. pos < Len(day) /\ TakeBar(d, m) /\ result' = [kind |-> "htf", zones |-> {}]
  BY DEF ProcessBarGuarded
<1>2. Taken(d, n)
  BY <1>1, BarTaken
<1> HIDE DEF d, m, S
<1>3. Shaped(d, 2 * n)
  BY <1>2 DEF Taken, DetectorInv
<1>4. d.st \in Seq(PivotIds)
  BY <1>3, BufferTyped
<1>5. higher \in Seq(PivotIds) /\ Picks(higher, d.st, S)
  BY <1>4, PickedIs
<1>6. ToSet(higher) \subseteq ToSet(d.st)
  BY <1>5 DEF Picks
<1> HIDE DEF higher
<1>7. Named(d, m, higher, Newest[1].c)
  BY <1>3, <1>5, MapNames DEF m
<1>8. LiquidityAhead'
  BY <1>1 DEF LiquidityAhead
<1> QED
  BY <1>1, <1>5, <1>6, <1>7, <1>8, BarKeeps DEF d

LEMMA PipelineKeeps == PipelineInv /\ [Next]_vars => PipelineInv'
<1> SUFFICES ASSUME PipelineInv, [Next]_vars PROVE PipelineInv'
  OBVIOUS
<1>1. CASE OnNewsAlert \/ UNCHANGED vars
  BY <1>1 DEF OnNewsAlert, vars, PipelineInv, Detector, BrokenIsClaimed, LiquidityAhead,
              Tier
<1>2. CASE ProcessBar
  BY <1>2, ProcessBarKeeps
<1>3. CASE ProcessBarRaises
  BY <1>3, ProcessBarRaisesKeeps
<1>4. CASE ProcessBarGuarded
  BY <1>4, ProcessBarGuardedKeeps
<1> QED
  BY <1>1, <1>2, <1>3, <1>4 DEF Next

(* The pivots the features are made of are sound, for every sequence of    *)
(* bars, every size of the window and of the buffer: a pivot of the buffer *)
(* is marked claimed exactly when a bar since has traded beyond it, with   *)
(* the time of the first; what the structure map reports as broken is      *)
(* claimed; a long-term pivot sticks out of its intermediate neighbours and*)
(* an intermediate one of its short-term ones while the list has no hole.  *)
(* Code: SwingPointDetector, ICTStructureMapper.get_structure_map.         *)
THEOREM PivotsAlwaysSound == Spec => []PivotsSound
<1>1. PipelineInv => PivotsSound
  <2> SUFFICES ASSUME PipelineInv PROVE PivotsSound
    OBVIOUS
  <2>1. ClaimedIffSwept
    BY DEF PipelineInv, Claims, Rightly, ClaimedIffSwept, Detector
  <2>2. PromotedIsExtreme
    BY DEF PipelineInv, DetectorInv, Extremes, PromotedIsExtreme, Detector
  <2>3. BrokenIsClaimed
    BY DEF PipelineInv
  <2> QED
    BY <2>1, <2>2, <2>3 DEF PivotsSound, PivotsClaimed
<1>2. Init => PipelineInv
  BY NoPivots
<1> QED
  BY <1>1, <1>2, PipelineKeeps, PTL DEF Spec

(* The nearest unclaimed liquidity of a tier that the features report is   *)
(* on its side of the close, as long as the tier holds no evicted pivot,   *)
(* whatever was processed under a guardrail before or raised.              *)
(* Code: BSLSSLRegistry.get_f_liq_vector against check_claimed.            *)
THEOREM LiquidityAlwaysAhead == Spec => []LiquidityAhead
<1>1. PipelineInv => LiquidityAhead
  BY DEF PipelineInv
<1>2. Init => PipelineInv
  BY NoPivots
<1> QED
  BY <1>1, <1>2, PipelineKeeps, PTL DEF Spec
=============================================================================
