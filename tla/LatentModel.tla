------------------------------ MODULE LatentModel ------------------------------
(* The LSTM autoencoder from training to use: the epochs of train_lstm.py   *)
(* with their two checkpoint files, killed and resumed; the inference       *)
(* engine that loads the best checkpoint (lstm_inference.py) and keeps the  *)
(* latent vector of each bar in Redis.                                      *)
(*                                                                          *)
(* Weights are known by the number of epochs run when they came about; a    *)
(* loss is a small integer or NaN.  Files are written in place.             *)
EXTENDS Integers, Sequences, FiniteSets, FiniteSetsExt

CONSTANTS
    Losses,     \* validation losses
    MinDelta, Patience, NumEpochs,      \* as in the script
    ShortTTL,   \* REDIS_LATENT_TTL, set by a second call
    LongTTL,    \* RedisTTL.LATENT, set with the value
    Bars,       \* closed bars of the symbol
    MaxStarts,  \* bound: training runs
    MaxTime     \* bound: clock of the cache

ASSUME LatentAssumption ==
    /\ Losses \subseteq 0..50
    /\ MinDelta \in Nat
    /\ {Patience, NumEpochs, ShortTTL} \subseteq Nat \ {0}
    /\ LongTTL \in Nat /\ LongTTL >= ShortTTL
    /\ MaxStarts \in Nat /\ MaxTime \in Nat

VARIABLES
    files,    \* the checkpoints lstm_ae_last.pt and lstm_ae_best.pt
    run,      \* the training run
    epochs,   \* epochs run so far, by all runs
    starts,   \* runs started
    engine,   \* weights the inference engine has loaded, 0 for none
    cache,    \* cache[bar]: the latent vector's weights and times
    served,   \* the last latent vector encode returned
    now

latentVars == <<files, run, epochs, starts, engine, cache, served, now>>

NaN == 99
Inf == 98
Below(a, b) == a # NaN /\ a < b

NoFile == [epoch |-> -1, loss |-> Inf, weights |-> 0]
TornFile == [epoch |-> -2, loss |-> Inf, weights |-> 0]
IsWhole(checkpoint) == checkpoint.epoch >= 0

NoRun == [at |-> "idle", epoch |-> 0, best |-> Inf, score |-> Inf,
          counter |-> 0, losses |-> <<>>, todo |-> <<>>, open |-> FALSE]

trainingVars == <<files, run, epochs, starts>>
servingVars == <<engine, cache, served, now>>

-----------------------------------------------------------------------------
(* Training.  A resumed run goes on after the last checkpoint, but with no  *)
(* best loss and a fresh early stopping; a torn checkpoint raises.          *)
Start(resume) ==
    LET last == files["last"]
    IN  /\ run.at = "idle" /\ starts < MaxStarts
        /\ starts' = starts + 1
        /\ run' = IF resume /\ last = TornFile THEN NoRun
                  ELSE LET e == IF resume /\ IsWhole(last) THEN last.epoch + 1 ELSE 0
                       IN  [NoRun EXCEPT !.epoch = e,
                              !.at = IF e < NumEpochs THEN "epoch" ELSE "test"]
        /\ UNCHANGED <<files, epochs, servingVars>>

BestFirstLoss(loss, best) ==            \* mutant: ties and worse ones after NaN
    loss # NaN /\ (loss < best \/ best # Inf)

IsBest(loss, best) == Below(loss, best)

TrainEpoch ==
    /\ run.at = "epoch"
    /\ epochs' = epochs + 1
    /\ \E loss \in Losses \cup {NaN} :
          LET better == IsBest(loss, run.best)
          IN  run' = [run EXCEPT
                        !.at = "save",
                        !.losses = Append(@, loss),
                        !.best = IF better THEN loss ELSE @,
                        !.todo = IF better THEN <<"last", "best">> ELSE <<"last">>]
    /\ UNCHANGED <<files, starts, servingVars>>

(* save_checkpoint: last after every epoch, best when the epoch is better.  *)
OpenCheckpoint ==
    /\ run.at = "save" /\ run.todo # <<>> /\ ~run.open
    /\ files' = [files EXCEPT ![Head(run.todo)] = TornFile]
    /\ run' = [run EXCEPT !.open = TRUE]
    /\ UNCHANGED <<epochs, starts, servingVars>>

CloseCheckpoint ==
    /\ run.at = "save" /\ run.open
    /\ files' = [files EXCEPT ![Head(run.todo)] =
                    [epoch |-> run.epoch, loss |-> run.losses[Len(run.losses)],
                     weights |-> epochs]]
    /\ run' = [run EXCEPT !.open = FALSE, !.todo = Tail(@)]
    /\ UNCHANGED <<epochs, starts, servingVars>>

(* EarlyStopping: the counter of epochs that do not improve on the score by *)
(* more than MinDelta.                                                      *)
Counted(loss) ==
    IF Below(loss, run.score - MinDelta)
      THEN [score |-> loss, counter |-> 0]
      ELSE [score |-> run.score, counter |-> run.counter + 1]

EndEpoch ==
    LET c    == Counted(run.losses[Len(run.losses)])
        ends == c.counter >= Patience \/ run.epoch + 1 >= NumEpochs
    IN  /\ run.at = "save" /\ run.todo = <<>>
        /\ run' = [run EXCEPT !.score = c.score, !.counter = c.counter,
                     !.at = IF ends THEN "test" ELSE "epoch",
                     !.epoch = IF ends THEN @ ELSE @ + 1]
        /\ UNCHANGED <<files, epochs, starts, servingVars>>

(* The best checkpoint is loaded for the test; without one the run raises.  *)
Test ==
    /\ run.at = "test"
    /\ run' = NoRun
    /\ UNCHANGED <<files, epochs, starts, servingVars>>

Kill ==
    /\ run.at # "idle" /\ starts < MaxStarts
    /\ run' = NoRun
    /\ UNCHANGED <<files, epochs, starts, servingVars>>

-----------------------------------------------------------------------------
(* Inference.                                                               *)
NoLatent == [weights |-> 0, made |-> 0, till |-> 0]

LoadWeights ==
    /\ IsWhole(files["best"])
    /\ engine' = files["best"].weights
    /\ UNCHANGED <<trainingVars, cache, served, now>>

(* Redis calls may fail, each swallowed: a failed read is a miss, a failed  *)
(* SET stores nothing, a failed EXPIRE leaves the TTL of the SET.  The key  *)
(* does not name the weights.                                               *)
Answer(bar) == cache[bar].weights # 0 /\ now < cache[bar].till

Encode(bar) ==
    LET fresh == [weights |-> engine, made |-> now, till |-> 0]
    IN  /\ engine # 0
        /\ \/ Answer(bar) /\ served' = cache[bar] /\ UNCHANGED cache
           \/ /\ served' = fresh
              /\ \E till \in {now + ShortTTL, now + LongTTL} :
                    cache' \in {cache, [cache EXCEPT ![bar] =
                                          [fresh EXCEPT !.till = till]]}
        /\ UNCHANGED <<trainingVars, engine, now>>

Tick ==
    /\ now < MaxTime
    /\ now' = now + 1
    /\ served' = NoLatent
    /\ UNCHANGED <<trainingVars, engine, cache>>

-----------------------------------------------------------------------------
LatentInit ==
    /\ files = [f \in {"last", "best"} |-> NoFile]
    /\ run = NoRun
    /\ epochs = 0
    /\ starts = 0
    /\ engine = 0
    /\ cache = [b \in Bars |-> NoLatent]
    /\ served = NoLatent
    /\ now = 0

TrainingStep ==
    \/ TrainEpoch \/ OpenCheckpoint \/ CloseCheckpoint \/ EndEpoch \/ Test

LatentNext ==
    \/ \E resume \in BOOLEAN : Start(resume)
    \/ TrainingStep \/ Kill
    \/ LoadWeights \/ Tick
    \/ \E b \in Bars : Encode(b)

LatentSpec == LatentInit /\ [][LatentNext]_latentVars

-----------------------------------------------------------------------------
Finite == {run.losses[i] : i \in DOMAIN run.losses} \ {NaN}

(* Between two epochs, and when the run ends, the best checkpoint is whole  *)
(* and holds the lowest loss of this run (run_training).  Not of all runs:  *)
(* a resumed run starts from no best loss and replaces a better one.        *)
BestIsBest ==
    run.at \in {"epoch", "test"} /\ Finite # {} =>
        /\ IsWhole(files["best"])
        /\ files["best"].loss = Min(Finite)

(* A run that stops before its last epoch has gone Patience epochs without  *)
(* improving by more than MinDelta on the best loss before them.            *)
StoppedForAReason ==
    LET n == Len(run.losses)
        k == n - Patience
    IN  run.at = "test" /\ n > 0 /\ run.epoch + 1 < NumEpochs =>
            /\ k >= 0
            /\ \A i \in (k + 1)..n :
                  ~Below(run.losses[i],
                         Min({run.losses[j] : j \in 1..k} \cup {Inf}) - MinDelta)

(* Early stopping stops in time, and what it keeps is the best.             *)
TrainingSound == BestIsBest /\ StoppedForAReason

(* A latent vector that encode returns was computed less than LongTTL ago:  *)
(* the key does not name the weights, so that is how long a vector of       *)
(* replaced weights may be served, and a failed EXPIRE makes it LongTTL     *)
(* instead of ShortTTL (encode, _set_cached_z).                             *)
LatentIsRecent == served.weights # 0 => now - served.made < LongTTL

(* The script keeps the best model (train_lstm.py:14), also when it resumes:*)
(* a resumed run is about to replace the best checkpoint only by a better.  *)
ResumeKeepsBest ==
    LET resumed == run.epoch >= Len(run.losses)
    IN  run.at = "save" /\ run.todo = <<"best">> /\ ~run.open /\ resumed
          /\ IsWhole(files["best"])
        => Below(run.losses[Len(run.losses)], files["best"].loss)

(* The model from its training to its use.                                  *)
LatentSound == TrainingSound /\ LatentIsRecent
=============================================================================
