------------------------------ MODULE DurableLog ------------------------------
(***************************************************************************)
(* What the write-behind queue of SQLiteHistoryStore promises its callers, *)
(* without the queue, the batches or the transactions: accepted jobs wait, *)
(* and become durable oldest first, or are discarded oldest first when     *)
(* their statement cannot be executed or close() cancels the flush loop    *)
(* that holds them.  A crash forgets the waiting jobs and nothing else.    *)
(***************************************************************************)
EXTENDS Naturals, Sequences, SequencesExt

CONSTANT Jobs

VARIABLES
  waiting,  \* accepted jobs that are neither durable nor discarded
  log       \* durable jobs, in the order they took effect

vars == <<waiting, log>>

Init == waiting = <<>> /\ log = <<>>

Accept(j) ==
  /\ \A k \in ToSet(waiting) \cup ToSet(log) : k < j
  /\ waiting' = Append(waiting, j)
  /\ UNCHANGED log

Persist(n) ==
  /\ log' = log \o SubSeq(waiting, 1, n)
  /\ waiting' = SubSeq(waiting, n + 1, Len(waiting))

Discard(n) ==
  /\ waiting' = SubSeq(waiting, n + 1, Len(waiting))
  /\ UNCHANGED log

Crash ==
  /\ waiting' = <<>>
  /\ UNCHANGED log

Settle == \E n \in 1..Len(waiting) : Persist(n) \/ Discard(n)

Next ==
  \/ \E j \in Jobs : Accept(j)
  \/ Settle
  \/ Crash

Spec == Init /\ [][Next]_vars
FairSpec == Spec /\ WF_vars(Settle)
=============================================================================
