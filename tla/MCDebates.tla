------------------------------- MODULE MCDebates -------------------------------
(* The debates, and the brief that their agents read; one of the two per    *)
(* behaviour, as neither reads the state of the other.  The debates are     *)
(* explored twice: with all their agents may answer while time stands still *)
(* and nothing is started, and with time, the periodic loop and shutdowns   *)
(* while the agents keep to their scale and no guardrail is on.             *)
EXTENDS Debates, TechnicalBrief

VARIABLE part    \* the component that runs in this behaviour

allVars == <<debateVars, briefVars, part>>

(* A strong and a weak answer of the agents, and one far off the scale; of  *)
(* the critic, one outside the range and one that a guardrail moves to      *)
(* another side of 1.                                                       *)
MCAgentAnswers ==
    {[rating |-> 4, conf |-> 75], [rating |-> 0, conf |-> 50], [rating |-> -6, conf |-> 75]}
MCCriticAnswers == {[rating |-> 5, conf |-> "HIGH"], [rating |-> -2, conf |-> "MEDIUM"]}

(* Features with nothing in them, with some of each, and with more of each  *)
(* than a list shows.                                                       *)
F(some, n) ==
    [eq |-> some, price |-> some, map |-> some, bsl |-> n, ssl |-> n, zones |-> some,
     bull |-> n, bear |-> n, modelA |-> some, modelB |-> n - 1, conf |-> some]
MCFeatures == {F(FALSE, 0), F(TRUE, 0), F(TRUE, 1), F(TRUE, 5)}
MCMacros == {[upcoming |-> n, surprise |-> n > 5] : n \in {0, 2, 6}}

MCInit ==
    /\ DebatesInit /\ BriefInit
    /\ part \in {"verdicts", "limits", "brief"}
    /\ part # "brief" =>
         given = [features |-> NoFeatures, macro |-> NoMacro, precedents |-> 0,
                  width |-> 20, limit |-> 100]

MCNext ==
    /\ UNCHANGED part
    /\ \/ part = "verdicts" /\ DebatesNext /\ UNCHANGED <<clockVars, starts, briefVars>>
       \/ /\ part = "limits" /\ DebatesNext /\ UNCHANGED briefVars
          /\ \A d \in Debates :
               bull'[d].rating >= 0 /\ bear'[d].rating >= 0 /\ ~topic'[d].guard
       \/ part = "brief" /\ BriefNext /\ UNCHANGED debateVars

MCSpec == MCInit /\ [][MCNext]_allVars /\ DebatesFairness
=============================================================================
