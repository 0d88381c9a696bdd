------------------------------ MODULE MCGuardrail ------------------------------
(* The guardrail, from the calendar to the screen: the macro engine, and    *)
(* the feed that shows it; one of the two per behaviour: of the engine the  *)
(* feed knows only that a guardrail begins or ends, which may be any time.  *)
EXTENDS MCMacroEngine, StateFeed

VARIABLE part    \* the component that runs in this behaviour

allVars == <<vars, feedVars, part>>

(* The snapshot has one part, or two of them read one after the other.      *)
MCSections == <<"consensus">>
MCTwoSections == <<"zones", "consensus">>

MCInit ==
    /\ FeedInit
    /\ part \in {"macro", "feed"} /\ Init
    /\ part = "feed" => calendar = {Event("FOMC", 12)} /\ events = {}

MCNext ==
    /\ UNCHANGED part
    /\ \/ part = "macro" /\ Next /\ UNCHANGED feedVars
       \/ part = "feed" /\ FeedNext /\ UNCHANGED vars

(* Time goes on where the macro engine runs, and so does the feed.          *)
MCSpec ==
    /\ MCInit /\ [][MCNext]_allVars
    /\ WF_vars(part = "macro" /\ Tick)
    /\ FeedFairness
=============================================================================
