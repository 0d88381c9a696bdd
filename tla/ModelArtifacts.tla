---------------------------- MODULE ModelArtifacts ----------------------------
(* The files of the XGBoost models and the processes that write and read    *)
(* them: the training scripts (train_model_a.py, train_model_b.py), the     *)
(* evaluation script that copies a passing model to production/             *)
(* (evaluate_models.py), and a process that loads model B                   *)
(* (XGBoostModelB.load).                                                    *)
(*                                                                          *)
(* A model is the number of the training run that fitted it; a file holds   *)
(* that number, Absent, or Torn while it is being written.  No file is      *)
(* written under another name and renamed, so a process that dies leaves    *)
(* the file it was writing torn.                                            *)
EXTENDS Integers, Sequences, FiniteSets, SequencesExt

CONSTANTS
    Grades,      \* the metrics a fit may get: records [ic, brier, ece], met or not
    MaxRuns,     \* bound: training runs
    MaxKills     \* bound: processes killed

ASSUME ArtifactsAssumption ==
    /\ Grades \subseteq [ic : BOOLEAN, brier : BOOLEAN, ece : BOOLEAN]
    /\ MaxRuns \in Nat \ {0} /\ MaxKills \in Nat

VARIABLES
    disk,       \* disk[m][kind]: models/xgboost
    prod,       \* prod[m]: the model file in production/
    approved,   \* history: the model whose metrics let prod[m] be copied
    grades,     \* grades[v]: the evaluation metrics of model v, fixed by its fit
    trainer,    \* the training run: its model, version and files still to write
    cut,        \* history: models whose last save died between model and metadata
    evaluator,  \* the evaluation run
    server,     \* the loaded B: model, theta, and the load in progress
    kills

vars == <<disk, prod, approved, grades, trainer, cut, evaluator, server, kills>>

Models == {"A", "B"}
FileKinds == {"json", "meta", "pkl", "metrics"}
Absent == 0
Torn == -1
Whole(content) == content > 0

-----------------------------------------------------------------------------
(* Training.  Fitting, fine-tuning and scoring touch no file; the files are *)
(* written at the end, the calibrator first when one could be fitted.       *)
NoTrainer == [m |-> "A", ver |-> 0, todo |-> <<>>, open |-> FALSE]
Training == trainer.todo # <<>>

MetricsFirst(m, calibrated) ==        \* mutant: metrics before the model
    (IF calibrated THEN <<"pkl">> ELSE <<>>)
    \o (IF m = "B" THEN <<"metrics", "json", "meta">> ELSE <<"metrics", "json">>)

FilesToWrite(m, calibrated) ==
    (IF calibrated THEN <<"pkl">> ELSE <<>>)
    \o (IF m = "B" THEN <<"json", "meta", "metrics">> ELSE <<"json", "metrics">>)

Fit(m) ==
    /\ ~Training
    /\ Len(grades) < MaxRuns
    /\ \E g \in Grades : grades' = Append(grades, g)
    /\ \E calibrated \in BOOLEAN :
          trainer' = [m |-> m, ver |-> Len(grades) + 1,
                      todo |-> FilesToWrite(m, calibrated), open |-> FALSE]
    /\ UNCHANGED <<disk, prod, approved, cut, evaluator, server, kills>>

OpenFile ==
    /\ Training /\ ~trainer.open
    /\ trainer' = [trainer EXCEPT !.open = TRUE]
    /\ disk' = [disk EXCEPT ![trainer.m][Head(trainer.todo)] = Torn]
    /\ UNCHANGED <<prod, approved, grades, cut, evaluator, server, kills>>

CloseFile ==
    LET kind == Head(trainer.todo)
    IN  /\ Training /\ trainer.open
        /\ trainer' = [trainer EXCEPT !.open = FALSE, !.todo = Tail(@)]
        /\ disk' = [disk EXCEPT ![trainer.m][kind] = trainer.ver]
        /\ cut' = IF kind = "meta" THEN cut \ {trainer.m} ELSE cut
        /\ UNCHANGED <<prod, approved, grades, evaluator, server, kills>>

(* The files of B disagree from the moment its model is replaced until its  *)
(* metadata is.                                                             *)
Saving(m) ==
    /\ Training /\ trainer.m = m
    /\ \/ Head(trainer.todo) = "json" /\ trainer.open
       \/ Head(trainer.todo) = "meta"

KillTrainer ==
    /\ Training /\ kills < MaxKills
    /\ kills' = kills + 1
    /\ trainer' = NoTrainer
    /\ cut' = IF Saving(trainer.m) /\ trainer.m = "B" THEN cut \cup {"B"} ELSE cut
    /\ UNCHANGED <<disk, prod, approved, grades, evaluator, server>>

-----------------------------------------------------------------------------
(* Evaluation and deployment.  Both models are loaded and scored, then the  *)
(* files that pass are copied, whatever they hold by then.  Model B is      *)
(* given the IC it needs.                                                   *)
NoReport == [ver |-> 0, pass |-> FALSE]
NoEvaluator == [report |-> [m \in Models |-> NoReport], todo |-> <<>>,
                open |-> FALSE]

ShouldDeploy(m, g) == (m = "A" => g.ic) /\ g.brier /\ g.ece

Evaluated(m) == evaluator.report[m] # NoReport

(* A missing or torn file ends the run with the exception it raises.        *)
Evaluate(m) ==
    LET v == disk[m]["json"]
    IN  /\ ~Evaluated(m)
        /\ m = "B" => Evaluated("A")
        /\ IF Whole(v)
             THEN evaluator' =
                    [evaluator EXCEPT !.report[m] =
                        [ver |-> v, pass |-> ShouldDeploy(m, grades[v])]]
             ELSE evaluator' = NoEvaluator /\ Evaluated("A")
        /\ UNCHANGED <<disk, prod, approved, grades, trainer, cut, server, kills>>

(* --deploy-if-pass, or the run ends with its report.                       *)
Decide ==
    LET Passed(m) == IF evaluator.report[m].pass THEN <<m>> ELSE <<>>
        passed    == Passed("A") \o Passed("B")
    IN  /\ Evaluated("B") /\ evaluator.todo = <<>>
        /\ evaluator' \in {NoEvaluator,
               IF passed = <<>> THEN NoEvaluator
               ELSE [evaluator EXCEPT !.todo = passed]}
        /\ UNCHANGED <<disk, prod, approved, grades, trainer, cut, server, kills>>

CopyBegin ==
    /\ evaluator.todo # <<>> /\ ~evaluator.open
    /\ evaluator' = [evaluator EXCEPT !.open = TRUE]
    /\ prod' = [prod EXCEPT ![Head(evaluator.todo)] = Torn]
    /\ UNCHANGED <<disk, approved, grades, trainer, cut, server, kills>>

CopyEnd ==
    LET m == Head(evaluator.todo)
    IN  /\ evaluator.todo # <<>> /\ evaluator.open
        /\ prod' = [prod EXCEPT ![m] = disk[m]["json"]]
        /\ approved' = [approved EXCEPT ![m] = evaluator.report[m].ver]
        /\ evaluator' = IF Len(evaluator.todo) = 1 THEN NoEvaluator
                        ELSE [evaluator EXCEPT !.todo = Tail(@), !.open = FALSE]
        /\ UNCHANGED <<disk, grades, trainer, cut, server, kills>>

KillEvaluator ==
    /\ Evaluated("A") /\ kills < MaxKills
    /\ kills' = kills + 1
    /\ evaluator' = NoEvaluator
    /\ UNCHANGED <<disk, prod, approved, grades, trainer, cut, server>>

-----------------------------------------------------------------------------
(* Loading.  The model is read first; B then takes theta_star from the      *)
(* metadata beside it and keeps the one it has when there is none, as in    *)
(* production/, where only the model file is copied.  A torn model leaves   *)
(* an unfitted classifier behind, torn metadata the theta of before.        *)
NoLoad == "none"

LoadModel(dir) ==
    LET v == IF dir = "models" THEN disk["B"]["json"] ELSE prod["B"]
    IN  /\ server.loading = NoLoad
        /\ v # Absent
        /\ server' = [server EXCEPT
                        !.ver = v,
                        !.loading = IF Whole(v) THEN dir ELSE NoLoad]
        /\ UNCHANGED <<disk, prod, approved, grades, trainer, cut, evaluator, kills>>

ThetaLoaded(theta, dir) ==
    IF dir = "models" /\ Whole(disk["B"]["meta"]) THEN disk["B"]["meta"]
    ELSE theta

LoadMeta ==
    /\ server.loading # NoLoad
    /\ server' = [server EXCEPT
                    !.theta = ThetaLoaded(@, server.loading),
                    !.loading = NoLoad]
    /\ UNCHANGED <<disk, prod, approved, grades, trainer, cut, evaluator, kills>>

-----------------------------------------------------------------------------
Init ==
    /\ disk = [m \in Models |-> [k \in FileKinds |-> Absent]]
    /\ prod = [m \in Models |-> Absent]
    /\ approved = [m \in Models |-> Absent]
    /\ grades = <<>>
    /\ trainer = NoTrainer
    /\ cut = {}
    /\ evaluator = NoEvaluator
    /\ server = [ver |-> 0, theta |-> 0, loading |-> NoLoad]
    /\ kills = 0

Next ==
    \/ \E m \in Models : Fit(m) \/ Evaluate(m)
    \/ OpenFile \/ CloseFile \/ KillTrainer
    \/ Decide \/ CopyBegin \/ CopyEnd \/ KillEvaluator
    \/ \E dir \in {"models", "production"} : LoadModel(dir)
    \/ LoadMeta

Spec == Init /\ [][Next]_vars

-----------------------------------------------------------------------------
(* The metrics file beside a model was written for that model or an earlier *)
(* one: a crash may leave old metrics beside a new model, never the metrics *)
(* of a model that was not saved (run_training of both scripts).            *)
MetricsNotAhead ==
    \A m \in Models :
        Whole(disk[m]["metrics"]) /\ Whole(disk[m]["json"]) =>
            disk[m]["metrics"] <= disk[m]["json"]

(* A whole model in production/ is the one that passed the gates, or a later*)
(* one that was saved in its place before the copy (deploy_models): no model*)
(* gets there unless one passed, and none older than the one that passed.   *)
ProductionApproved ==
    \A m \in Models :
        Whole(prod[m]) =>
            /\ Whole(approved[m])
            /\ (m = "A" => grades[approved[m]].ic)
            /\ grades[approved[m]].brier /\ grades[approved[m]].ece
            /\ prod[m] >= approved[m]

(* The model whose approval let production/ be replaced is never older than *)
(* the one before it, though evaluations are ended, killed and begun again  *)
(* while models are trained (evaluate_models.py: main, deploy_models).      *)
ProductionAdvances ==
    [][\A m \in Models : approved'[m] >= approved[m]]_vars

(* A process that has loaded B from the training directory decides with the *)
(* threshold of that very model, provided the save was not cut short and no *)
(* other save replaced the files during the load (XGBoostModelB.save and    *)
(* load keep them in two files).                                            *)
LoadedThetaFits ==
    [][LET finished == server.loading = "models" /\ server'.loading = NoLoad
       IN  finished /\ "B" \notin cut /\ ~Saving("B")
             /\ server.ver = disk["B"]["json"]
           => server'.theta = server'.ver]_vars

(* No metrics are ahead of their model, production/ holds a model that      *)
(* passed or a later one and does not go back to an older approval, and a   *)
(* load that no save disturbs takes the threshold of its own model.         *)
ArtifactsSound ==
    [](MetricsNotAhead /\ ProductionApproved) /\ ProductionAdvances /\ LoadedThetaFits

(* deploy_models copies a model "if evaluation passes"                      *)
(* (evaluate_models.py:509): what is in production/ has passed itself.      *)
ProductionPassed ==
    \A m \in Models : Whole(prod[m]) => ShouldDeploy(m, grades[prod[m]])

(* The threshold is saved "alongside model" (model_b.py:689): whoever loads *)
(* B from there decides with the threshold of the model loaded.             *)
LoadedThetaIsOwn ==
    [][server.loading = "models" /\ server'.loading = NoLoad
         => server'.theta = server'.ver]_vars
=============================================================================
