-------------------------------- MODULE Debates --------------------------------
(***************************************************************************)
(* core/ai_engine/multi_agent: the DebateOrchestrator and its agents.      *)
(*                                                                         *)
(* Every trigger runs the pipeline in a task of its own, except the        *)
(* periodic loop, which awaits one debate after the other.  stage[d] is    *)
(* where debate d awaits.  Time is counted in minutes, the timeouts of the *)
(* stages (seconds) strike at any moment.  A language model answers,       *)
(* fails, stays silent, or answers what raises an exception further on;    *)
(* its answers are drawn from small sets.  The code reads the rating and   *)
(* the confidence of an agent as they come, so they may be any numbers.    *)
(* Confidences are in percent, scores in 1/10000; texts are left out.      *)
(***************************************************************************)
EXTENDS Integers, Sequences, FiniteSets, SequencesExt, FiniteSetsExt

CONSTANTS
  Symbols,
  AgentAnswers,   \* [rating, conf] an agent's model may give; 0..4 is asked for
  CriticAnswers,  \* [rating, conf] the critic's model may give
  RateLimit,      \* RATE_LIMIT_SECONDS (180 s)
  Period,         \* PERIODIC_INTERVAL_SECONDS (300 s)
  Budget,         \* DAILY_BUDGET_USD, in debates
  MaxDebates,     \* bound: pipelines in a behaviour
  MaxTime,        \* bound: minutes
  MaxDays,        \* bound: midnights
  MaxStarts       \* bound: starts of the orchestrator

ASSUME DebateAssumption ==
  /\ AgentAnswers \subseteq [rating : Int, conf : Int]
  /\ CriticAnswers \subseteq [rating : Int, conf : {"HIGH", "MEDIUM", "LOW"}]
  /\ {RateLimit, Period, Budget} \subseteq Nat \ {0} /\ MaxDebates \in Nat

VARIABLES
  now,       \* minutes
  lastTime,  \* _last_debate_time; Never if the symbol has none
  running,   \* _is_running
  loop,      \* periodic task: "off", "asleep", "awake"
  slept,     \* minutes it has slept
  queue,     \* symbols it has still to visit
  current,   \* the debate it awaits, or None
  stage,     \* of each debate
  topic,     \* [symbol, guard] of each debate
  bull, bear,   \* results of the agents
  verdict,   \* consensus of each debate
  heard,     \* history: <<side, rating>> of the results the critic had
  spent,     \* total_cost_usd
  today, spentOn,   \* the date, and the date of the cost tracker
  starts,
  begun,     \* history: times at which the rate limit let a debate begin
  peak       \* history: most debates ever under way at once

debateVars == <<now, lastTime, running, loop, slept, queue, current, stage, topic, bull,
          bear, verdict, heard, spent, today, spentOn, starts, begun, peak>>

Debates == 1..MaxDebates
None == 0
Never == -99
Ended == {"unused", "told", "aborted", "raised", "cancelled"}
Failed == [ok |-> FALSE, rating |-> 0, conf |-> 0]
NoVerdict == [rating |-> 0, direction |-> "NEUTRAL", conf |-> "LOW", fallback |-> TRUE,
              tokens |-> 0, by |-> "none"]
Underway(st) == {d \in Debates : st[d] \notin Ended}

AbsVal(x) == IF x < 0 THEN -x ELSE x
Clamp(x, lo, hi) == IF x < lo THEN lo ELSE IF x > hi THEN hi ELSE x

-----------------------------------------------------------------------------
(* BullAgent.analyze and BearAgent.analyze: under a guardrail the          *)
(* confidence is capped.  Too few pieces of evidence only add a warning.   *)
Analyze(a, guarded) ==
  [ok |-> TRUE, rating |-> a.rating,
   conf |-> IF guarded /\ a.conf > 65 THEN 65 ELSE a.conf]

(* CriticAgent.evaluate, both agents failed.                               *)
NeitherSide == [NoVerdict EXCEPT !.by = "nobody"]

(* _single_sided_result.                                                   *)
SingleSided(r, isBull, guarded) ==
  LET rating == IF isBull THEN r.rating ELSE -r.rating
      softened == IF isBull THEN Max({1, rating - 1}) ELSE Min({-1, rating + 1})
  IN [rating |-> IF guarded /\ AbsVal(rating) >= 2 THEN softened ELSE rating,
      direction |-> IF isBull THEN "BULL" ELSE "BEAR", conf |-> "LOW",
      fallback |-> TRUE, tokens |-> 1, by |-> "one side"]

(* _rule_based_fallback of the critic: the heavier side wins.              *)
HeavierSide(b, r, guarded) ==
  LET wb == b.rating * b.conf
      wr == r.rating * r.conf
      rating == IF wb > wr THEN Min({4, b.rating})
                ELSE IF wr > wb THEN Max({-4, -r.rating}) ELSE 0
  IN [rating |-> rating,
      direction |-> IF wb > wr THEN "BULL" ELSE IF wr > wb THEN "BEAR" ELSE "NEUTRAL",
      conf |-> IF guarded \/ AbsVal(rating) < 2 THEN "LOW" ELSE "MEDIUM",
      fallback |-> TRUE, tokens |-> 1, by |-> "weights"]

(* Mutant: the guardrail lowers the confidence, the rating stays.          *)
ModeratedHalf(a, guarded) ==
  LET rating == Clamp(a.rating, -4, 4)
  IN [rating |-> rating,
      direction |-> IF rating > 1 THEN "BULL" ELSE IF rating < -1 THEN "BEAR" ELSE "NEUTRAL",
      conf |-> IF ~guarded THEN a.conf ELSE IF a.conf = "HIGH" THEN "MEDIUM" ELSE "LOW",
      fallback |-> FALSE, tokens |-> 1, by |-> "critic"]

(* evaluate with the answer of the model: the direction is that of the     *)
(* rating before the guardrail takes one step off it.                      *)
Moderated(a, guarded) ==
  LET rating == Clamp(a.rating, -4, 4)
      softened == IF rating > 0 THEN rating - 1 ELSE rating + 1
  IN [rating |-> IF guarded /\ AbsVal(rating) >= 2 THEN softened ELSE rating,
      direction |-> IF rating > 1 THEN "BULL" ELSE IF rating < -1 THEN "BEAR" ELSE "NEUTRAL",
      conf |-> IF ~guarded THEN a.conf ELSE IF a.conf = "HIGH" THEN "MEDIUM" ELSE "LOW",
      fallback |-> FALSE, tokens |-> 1, by |-> "critic"]

(* RuleFallback: component scores, in 1/10000.                             *)
EdgeScore(pBsl, pSsl) == 30 * Clamp(2 * (pBsl - pSsl), -100, 100)
PremiumScore(price, eq) ==
  IF price <= 0 \/ eq <= 0 THEN 0
  ELSE IF price > eq THEN -Min({1500, ((price - eq) * 30000) \div eq})
       ELSE Min({1500, ((eq - price) * 30000) \div eq})
ZoneScore(bulls, bears) == Min({1000, 300 * bulls}) - Min({1000, 300 * bears})
MacroScore(regime) ==
  CASE regime \in {"BULLISH", "BULL"} -> 250 [] regime \in {"BEARISH", "BEAR"} -> -250
    [] regime = "TRENDING_UP" -> 150 [] regime = "TRENDING_DOWN" -> -150
    [] OTHER -> 0
ScoreToRating(s) ==
  IF s >= 8000 THEN 4 ELSE IF s >= 6000 THEN 3 ELSE IF s >= 4000 THEN 2
  ELSE IF s >= 1500 THEN 1 ELSE IF s > -1500 THEN 0 ELSE IF s >= -4000 THEN -1
  ELSE IF s >= -6000 THEN -2 ELSE IF s >= -8000 THEN -3 ELSE -4
RatingToDirection(r) == IF r >= 2 THEN "BULL" ELSE IF r <= -2 THEN "BEAR" ELSE "NEUTRAL"
RuleVerdict(f, regime) ==
  LET s == Clamp(EdgeScore(f.pBsl, f.pSsl) + PremiumScore(f.price, f.equilibrium)
                 + ZoneScore(f.bulls, f.bears) + MacroScore(regime), -10000, 10000)
  IN [rating |-> ScoreToRating(s), direction |-> RatingToDirection(ScoreToRating(s)),
      conf |-> IF AbsVal(s) >= 5000 THEN "MEDIUM" ELSE "LOW",
      fallback |-> TRUE, tokens |-> 0, by |-> "rules"]

(* evaluate is given the macro context where it expects the features, so   *)
(* every feature has its default and no regime is known.                   *)
DefaultFeatures == [pBsl |-> 50, pSsl |-> 30, price |-> 0, equilibrium |-> 0,
                    bulls |-> 0, bears |-> 0]

-----------------------------------------------------------------------------
DebatesInit ==
  /\ now = 0 /\ lastTime = [s \in Symbols |-> Never]
  /\ running = FALSE /\ loop = "off" /\ slept = 0 /\ queue = <<>> /\ current = None
  /\ stage = [d \in Debates |-> "unused"]
  /\ topic = [d \in Debates |-> [symbol |-> CHOOSE s \in Symbols : TRUE, guard |-> FALSE]]
  /\ bull = [d \in Debates |-> Failed] /\ bear = [d \in Debates |-> Failed]
  /\ verdict = [d \in Debates |-> NoVerdict] /\ heard = [d \in Debates |-> {}]
  /\ spent = 0 /\ today = 0 /\ spentOn = 0 /\ starts = 0
  /\ begun = [s \in Symbols |-> {}] /\ peak = 0

loopVars == <<running, loop, slept, starts>>
resultVars == <<bull, bear, verdict, heard>>
costVars == <<spent, spentOn>>
clockVars == <<now, today>>

(* DailyCostTracker.is_over_budget: the date is not looked at.             *)
OverBudget == spent >= Budget

(* Mutant: one minute too early.                                           *)
RateAllowsEarly(s) == lastTime[s] = Never \/ now - lastTime[s] >= RateLimit - 1

RateAllows(s) == lastTime[s] = Never \/ now - lastTime[s] >= RateLimit

(* _check_rate_limit: looks and records without an await between.          *)
RatePasses(s) ==
  /\ RateAllows(s)
  /\ lastTime' = [lastTime EXCEPT ![s] = now]
  /\ begun' = [begun EXCEPT ![s] = @ \cup {<<now, Cardinality(begun[s])>>}]

(* The pipeline starts, or ends at once because the budget is spent.       *)
Enter(d, s, guarded) ==
  /\ stage[d] = "unused" /\ \A e \in 1..(d - 1) : stage[e] # "unused"
  /\ stage' = [stage EXCEPT ![d] = IF OverBudget THEN "aborted" ELSE "rag"]
  /\ topic' = [topic EXCEPT ![d] = [symbol |-> s, guard |-> guarded]]
  /\ peak' = Max({peak, Cardinality(Underway(stage'))})
  /\ UNCHANGED <<clockVars, resultVars, costVars>>

(* _on_prediction_ready: a debate that the budget forbids has used the     *)
(* rate limit nevertheless.                                                *)
OnPredictionReady(d, s, guarded) ==
  /\ running /\ RatePasses(s) /\ Enter(d, s, guarded)
  /\ UNCHANGED <<loopVars, queue, current>>

(* trigger_debate: no rate limit, and none recorded.                       *)
TriggerDebate(d, s, guarded) ==
  /\ Enter(d, s, guarded)
  /\ UNCHANGED <<loopVars, queue, current, lastTime, begun>>

(* _on_model_degraded: the rules decide, at no cost and with no limit.     *)
OnModelDegraded(d, s) ==
  /\ running
  /\ stage[d] = "unused" /\ \A e \in 1..(d - 1) : stage[e] # "unused"
  /\ stage' = [stage EXCEPT ![d] = "persist"]
  /\ topic' = [topic EXCEPT ![d] = [symbol |-> s, guard |-> FALSE]]
  /\ verdict' = [verdict EXCEPT ![d] = RuleVerdict(DefaultFeatures, "")]
  /\ UNCHANGED <<loopVars, queue, current, lastTime, begun, clockVars, costVars, bull,
                 bear, heard, peak>>

-----------------------------------------------------------------------------
Advance(d, from, to) ==
  /\ stage[d] = from
  /\ stage' = [stage EXCEPT ![d] = to]
  /\ UNCHANGED <<loopVars, queue, current, topic, lastTime, begun, clockVars, peak>>

(* _run_rag (whatever happens within its second) and _run_brief.           *)
RunRag(d) == Advance(d, "rag", "agents") /\ UNCHANGED <<resultVars, costVars>>

Results(guarded) == {Failed} \cup {Analyze(a, guarded) : a \in AgentAnswers}

(* _run_agents: both answer, or fail, within 3 seconds ...                 *)
AgentsAnswer(d) ==
  /\ Advance(d, "agents", "critic")
  /\ \E b, r \in Results(topic[d].guard) :
       bull' = [bull EXCEPT ![d] = b] /\ bear' = [bear EXCEPT ![d] = r]
  /\ UNCHANGED <<verdict, heard, costVars>>

(* ... or both are cancelled and asked again in turn, without a timeout.   *)
AgentsTimeout(d) == Advance(d, "agents", "bull") /\ UNCHANGED <<resultVars, costVars>>
BullAgain(d) ==
  /\ Advance(d, "bull", "bear")
  /\ \E b \in Results(topic[d].guard) : bull' = [bull EXCEPT ![d] = b]
  /\ UNCHANGED <<bear, verdict, heard, costVars>>
(* Mutant: the second is asked again only if the first one answered.       *)
BearAgainIfBull(d) ==
  /\ bull[d].ok
  /\ Advance(d, "bear", "critic")
  /\ \E r \in Results(topic[d].guard) : bear' = [bear EXCEPT ![d] = r]
  /\ UNCHANGED <<bull, verdict, heard, costVars>>

BearAgain(d) ==
  /\ Advance(d, "bear", "critic")
  /\ \E r \in Results(topic[d].guard) : bear' = [bear EXCEPT ![d] = r]
  /\ UNCHANGED <<bull, verdict, heard, costVars>>

Forget(d) ==
  /\ heard' = [heard EXCEPT ![d] =
       (IF bull[d].ok THEN {<<"bull", bull[d].rating>>} ELSE {})
       \cup (IF bear[d].ok THEN {<<"bear", bear[d].rating>>} ELSE {})]
  /\ bull' = [bull EXCEPT ![d] = Failed] /\ bear' = [bear EXCEPT ![d] = Failed]
  /\ UNCHANGED costVars

(* CriticAgent.evaluate: with a side missing no model is asked.            *)
OneSided(d) ==
  /\ ~(bull[d].ok /\ bear[d].ok)
  /\ Advance(d, "critic", "persist")
  /\ verdict' = [verdict EXCEPT ![d] =
       IF ~bull[d].ok /\ ~bear[d].ok THEN NeitherSide
       ELSE IF bull[d].ok THEN SingleSided(bull[d], TRUE, topic[d].guard)
       ELSE SingleSided(bear[d], FALSE, topic[d].guard)]
  /\ Forget(d)
CriticDecides(d) ==
  /\ bull[d].ok /\ bear[d].ok
  /\ Advance(d, "critic", "persist")
  /\ \E a \in CriticAnswers : verdict' = [verdict EXCEPT ![d] = Moderated(a, topic[d].guard)]
  /\ Forget(d)

(* Its model fails, its answer is not JSON, or it is silent for 5 seconds. *)
CriticFails(d) ==
  /\ bull[d].ok /\ bear[d].ok
  /\ Advance(d, "critic", "persist")
  /\ verdict' = [verdict EXCEPT ![d] = HeavierSide(bull[d], bear[d], topic[d].guard)]
  /\ Forget(d)

(* What no try of the stage catches ends the pipeline in the except of     *)
(* _run_debate, which only logs it: a brief that cannot be built, an agent *)
(* that raises when it is asked again, and in the critic a rating, a       *)
(* confidence or an agreement that is no number.                           *)
Raises(d) ==
  /\ stage[d] = "critic" => bull[d].ok \/ bear[d].ok
  /\ \E from \in {"rag", "bull", "bear", "critic"} : Advance(d, from, "raised")
  /\ bull' = [bull EXCEPT ![d] = Failed] /\ bear' = [bear EXCEPT ![d] = Failed]
  /\ UNCHANGED <<verdict, heard, costVars>>

(* _persist_and_publish: HSET, EXPIRE, EXPIRE; Redis may fail in any.      *)
(* Then CONSENSUS_READY and, for a pipeline, the cost, in one step.        *)
Tell(d) ==
  /\ Advance(d, "persist", "told")
  /\ IF verdict[d].by = "rules" THEN UNCHANGED costVars
     ELSE /\ spent' = (IF today # spentOn THEN 0 ELSE spent) + verdict[d].tokens
          /\ spentOn' = today
  /\ verdict' = [verdict EXCEPT ![d] = NoVerdict] /\ heard' = [heard EXCEPT ![d] = {}]
  /\ UNCHANGED <<bull, bear>>

-----------------------------------------------------------------------------
(* The periodic loop awaits no debate.                                     *)
Free == current \notin Underway(stage)

(* start and shutdown.                                                     *)
Start ==
  /\ ~running /\ starts < MaxStarts
  /\ running' = TRUE /\ starts' = starts + 1
  /\ loop' = "asleep" /\ slept' = 0 /\ queue' = <<>> /\ current' = None
  /\ UNCHANGED <<lastTime, begun, stage, topic, resultVars, costVars, clockVars, peak>>

(* The periodic task is cancelled with the debate it awaits; debates of    *)
(* event handlers go on.                                                   *)
Shutdown ==
  /\ running
  /\ running' = FALSE /\ loop' = "off" /\ queue' = <<>> /\ current' = None /\ slept' = 0
  /\ stage' = IF Free THEN stage
              ELSE [stage EXCEPT ![current] = "cancelled"]
  /\ UNCHANGED <<lastTime, begun, topic, resultVars, costVars, clockVars, peak, starts>>

(* _periodic_debate_loop wakes: symbols that had a debate.                 *)
Wake ==
  /\ loop = "asleep" /\ slept = Period
  /\ loop' = "awake" /\ slept' = 0
  /\ queue' = SetToSeq({s \in Symbols : lastTime[s] # Never})
  /\ UNCHANGED <<running, starts, lastTime, begun, current, stage, topic, resultVars,
                 costVars, clockVars, peak>>
Visit(d) ==
  /\ loop = "awake" /\ Free /\ queue # <<>>
  /\ queue' = Tail(queue)
  /\ RatePasses(Head(queue)) /\ Enter(d, Head(queue), FALSE)
  /\ current' = d
  /\ UNCHANGED loopVars
VisitNone ==
  /\ loop = "awake" /\ Free /\ queue # <<>>
  /\ ~RateAllows(Head(queue))
  /\ queue' = Tail(queue)
  /\ UNCHANGED <<loopVars, lastTime, begun, current, stage, topic, resultVars, costVars,
                 clockVars, peak>>
Sleep ==
  /\ loop = "awake" /\ Free /\ queue = <<>>
  /\ loop' = "asleep" /\ current' = None
  /\ UNCHANGED <<running, slept, starts, queue, lastTime, begun, stage, topic, resultVars,
                 costVars, clockVars, peak>>

Tick ==
  /\ now < MaxTime /\ now' = now + 1
  /\ slept' = IF loop = "asleep" /\ slept < Period THEN slept + 1 ELSE slept
  /\ UNCHANGED <<running, loop, starts, queue, current, lastTime, begun, stage, topic,
                 resultVars, costVars, today, peak>>
Midnight ==
  /\ today < MaxDays /\ today' = today + 1
  /\ UNCHANGED <<now, loopVars, queue, current, lastTime, begun, stage, topic, resultVars,
                 costVars, peak>>

Step(d) ==
  \/ RunRag(d) \/ AgentsAnswer(d) \/ AgentsTimeout(d) \/ BullAgain(d) \/ BearAgain(d)
  \/ OneSided(d) \/ CriticDecides(d) \/ CriticFails(d) \/ Raises(d) \/ Tell(d)
DebatesNext ==
  \/ \E d \in Debates, s \in Symbols : OnModelDegraded(d, s)
  \/ \E d \in Debates, s \in Symbols, guarded \in BOOLEAN :
       OnPredictionReady(d, s, guarded) \/ TriggerDebate(d, s, guarded)
  \/ \E d \in Debates : Step(d) \/ Visit(d)
  \/ Start \/ Shutdown \/ Wake \/ VisitNone \/ Sleep \/ Tick \/ Midnight

(* wait_for bounds the retrieval, the first round of the agents and the    *)
(* critic.  That an agent asked again answers, fails or raises is an       *)
(* assumption about the model that is called.                              *)
DebatesFairness ==
  \A d \in Debates :
       /\ WF_debateVars(RunRag(d)) /\ WF_debateVars(AgentsTimeout(d)) /\ WF_debateVars(CriticFails(d))
       /\ WF_debateVars(OneSided(d)) /\ WF_debateVars(Tell(d))
       /\ WF_debateVars(BullAgain(d)) /\ WF_debateVars(BearAgain(d))

DebatesSpec == DebatesInit /\ [][DebatesNext]_debateVars /\ DebatesFairness

-----------------------------------------------------------------------------
(* Two debates of a symbol that events or the periodic loop begin are at   *)
(* least RateLimit apart, though the first may still be under way, was     *)
(* refused by the budget, or was cancelled.                                *)
SpacedApart ==
  \A s \in Symbols : \A x, y \in begun[s] : x # y => AbsVal(x[1] - y[1]) >= RateLimit

(* The budget of a day is overrun by less than what the debates cost that  *)
(* can be under way at once: none begins when it is spent.                 *)
OverrunIsBounded == spent < Budget + peak

(* The two limits on debates, their rate and their cost.                   *)
DebatesLimited == SpacedApart /\ OverrunIsBounded

(* The agents that the critic heard kept to the scale they are told.       *)
Sides(h) == {x[1] : x \in h}
OnScale(h) == \A x \in h : x[2] \in 0..4

(* What is about to be told, on every path of timeouts and failures and    *)
(* for whatever numbers the models answer: HIGH and MEDIUM need both       *)
(* sides; the flag is honest; under a guardrail it is never HIGH; and what *)
(* the critic's model decides is in range, of the direction of its rating, *)
(* and short of 4 under a guardrail.  The direction and the range of the   *)
(* other paths hold as long as the agents keep to their scale.             *)
VerdictIsTempered ==
  \A d \in Debates : stage[d] = "persist" =>
    LET v == verdict[d] IN
    /\ v.conf # "LOW" => Sides(heard[d]) = {"bull", "bear"}
    /\ v.fallback <=> v.by # "critic"
    /\ topic[d].guard => v.conf # "HIGH"
    /\ v.by = "critic" \/ OnScale(heard[d]) =>
         /\ v.rating \in -4..4
         /\ v.direction = "BULL" => v.rating >= 0
         /\ v.direction = "BEAR" => v.rating <= 0
         /\ v.direction = "NEUTRAL" => v.rating \in -1..1
         /\ topic[d].guard /\ AbsVal(v.rating) = 4 => v.by = "weights"

(* ConsensusResult: the rating told is between -4 and +4.  The paths that  *)
(* do without the critic's model pass on what an agent said; violated.     *)
VerdictInRange == \A d \in Debates : stage[d] = "persist" => verdict[d].rating \in -4..4

(* Every debate that begins comes to an end: no timeout or failure leaves  *)
(* it hanging, and it ends untold only by an exception that no one expects *)
(* or when the orchestrator is shut down.                                  *)
DebatesEnd ==
  \A d \in Debates : stage[d] = "rag" ~> stage[d] \in {"told", "raised", "cancelled"}

(* BullAgent: an exception leads to the fallback of the orchestrator, so   *)
(* every debate that is not cancelled is told.  It has none; violated.     *)
DebatesAreTold ==
  \A d \in Debates : stage[d] = "rag" ~> stage[d] \in {"told", "cancelled"}
=============================================================================
