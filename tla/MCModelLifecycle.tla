--------------------------- MODULE MCModelLifecycle ---------------------------
(* Four groups of processes that share no file, explored one at a time: the *)
(* XGBoost scripts and loader, the weight downloader, the LSTM training     *)
(* with its inference engine, and what became of the predictions.           *)
EXTENDS ModelArtifacts, WeightDownload, LatentModel, Outcomes

VARIABLE part    \* the group that runs in this behaviour

allVars == <<vars, downloadVars, latentVars, outcomeVars, part>>

(* A fit meets every target, or misses those that count for A and for B.    *)
MCGrades == {[ic |-> TRUE, brier |-> TRUE, ece |-> TRUE],
             [ic |-> FALSE, brier |-> TRUE, ece |-> FALSE]}

(* Bars that stay in the zone, or leave it and reach one level or both.     *)
MCKinds == {[bsl |-> b, ssl |-> s, inZone |-> ~b /\ ~s] : b \in BOOLEAN, s \in BOOLEAN}

MCInit ==
    /\ Init /\ DownloadInit /\ LatentInit /\ OutcomesInit
    /\ part \in {"xgboost", "download", "lstm", "outcomes"}

MCNext ==
    /\ UNCHANGED part
    /\ \/ /\ part = "xgboost" /\ Next
          /\ UNCHANGED <<downloadVars, latentVars, outcomeVars>>
       \/ /\ part = "download" /\ DownloadNext
          /\ UNCHANGED <<vars, latentVars, outcomeVars>>
       \/ /\ part = "lstm" /\ LatentNext
          /\ UNCHANGED <<vars, downloadVars, outcomeVars>>
       \/ /\ part = "outcomes" /\ OutcomesNext
          /\ UNCHANGED <<vars, downloadVars, latentVars>>

MCSpec == MCInit /\ [][MCNext]_allVars
=============================================================================
