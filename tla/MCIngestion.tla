------------------------------ MODULE MCIngestion ------------------------------
(* The path of a tick: the receivers of the MT5 terminal's feed and of the  *)
(* TradingView webhook, the incoming tick queue, the bars made of ticks,    *)
(* and what readers of the bars are told; one of them per behaviour, as     *)
(* none but the last reads the state of another.                            *)
EXTENDS TickQueue, MarketState, TickReceivers, TVWebhook

VARIABLE part    \* the component that runs in this behaviour

allVars == <<vars, marketVars, feedVars, webhookVars, part>>

(* The queue's proportions scaled down (threshold below capacity, K from 1  *)
(* to MaxK in between), K recomputed on every second enqueue, and enough    *)
(* ticks to overflow twice.                                                 *)
MCMaxSize == 4
MCThreshold == 2
MCMaxK == 4
MCKPeriod == 2
MCMaxTicks == 8

(* Two nested timeframes: a tick may close a bar of the first, of both or   *)
(* of neither, or skip a bucket.                                            *)
MCTimeframes == {"M1", "M5"}
MCSeconds == [tf \in MCTimeframes |-> IF tf = "M1" THEN 2 ELSE 4]
MCPrices == {1, 2}

(* Bars of up to MaxBarTicks ticks, late ones too, on a short stretch of    *)
(* time; or fewer ticks, in order and of one price, on a long one, before   *)
(* a report is asked for, and still fewer before a bar is locked and a      *)
(* snapshot taken.  A report is not asked for after another answer, which   *)
(* changes nothing that it reads.                                           *)
MCShort == 4
MCMarketTicks == 4
MCLockTicks == 2
BarsBound == Newest' <= MCShort
MarketBound ==
    /\ Len(ticks') <= MCMarketTicks /\ InOrder'
    /\ \A n \in DOMAIN ticks' : ticks'[n].price = 1
    /\ (\E tf \in MCTimeframes : lockOf'[tf] # -1) \/ usv' # NoAnswer
          => Len(ticks') <= MCLockTicks
    /\ report' # NoAnswer => report = NoAnswer /\ usv = NoAnswer

Body(a, b, c, d) == [signed |-> a, json |-> b, schema |-> c, event |-> d]
MCBodies == {Body(TRUE, TRUE, TRUE, TRUE), Body(FALSE, TRUE, TRUE, TRUE),
             Body(TRUE, FALSE, TRUE, TRUE), Body(TRUE, TRUE, TRUE, FALSE)}

MCInit ==
    /\ Init /\ MarketInit /\ TickReceiversInit /\ WebhookInit
    /\ part \in {"queue", "bars", "market", "feed", "webhook"}

MCNext ==
    /\ UNCHANGED part
    /\ \/ /\ part = "queue" /\ Next
          /\ UNCHANGED <<marketVars, feedVars, webhookVars>>
       \/ /\ part = "bars" /\ BarsNext /\ BarsBound
          /\ UNCHANGED <<lockOf, usv, report, vars, feedVars, webhookVars>>
       \/ /\ part = "market" /\ MarketNext /\ MarketBound
          /\ UNCHANGED <<vars, feedVars, webhookVars>>
       \/ /\ part = "feed" /\ TickReceiversNext
          /\ UNCHANGED <<vars, marketVars, webhookVars>>
       \/ /\ part = "webhook" /\ WebhookNext
          /\ UNCHANGED <<vars, marketVars, feedVars>>

(* The fairness of the feed, which owes no step in its initial state.       *)
MCSpec == MCInit /\ [][MCNext]_allVars /\ TickReceiversFairness
=============================================================================
