------------------------------ MODULE MCServices ------------------------------
(* The two services that every component shares on one event loop: the     *)
(* history store with a caller of flush(), and the event bus; one of the   *)
(* two per behaviour, as neither reads the state of the other.             *)
EXTENDS HistoryStore, EventBus

VARIABLE part    \* the service that runs in this behaviour

allVars == <<vars, busVars, part>>

MCBroken == {2}

(* Types have separate subscriber lists: one, with up to two entries, shows *)
(* every interleaving of two deliveries of one event and of two events.     *)
MCTypes == {"TICK_RECEIVED"}

MCInit == Init /\ BusInit /\ part \in {"store", "bus"}

MCNext ==
    /\ UNCHANGED part
    /\ \/ part = "store" /\ Next /\ UNCHANGED busVars
       \/ part = "bus" /\ BusNext /\ UNCHANGED vars

(* The fairness of both; in its initial state neither owes a step.  The     *)
(* handlers of the bus may stay suspended for ever.                         *)
MCSpec == MCInit /\ [][MCNext]_allVars /\ Fairness /\ BusFairness
=============================================================================
