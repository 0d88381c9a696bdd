-------------------------- MODULE HistoryStoreProofs --------------------------
(***************************************************************************)
(* Proofs about HistoryStore for every number of jobs, queue bound, batch  *)
(* size and set of flush() callers; and, for a store without callers, that *)
(* it is a DurableLog.                                                     *)
(***************************************************************************)
EXTENDS HistoryStore, SequenceTheorems, TLAPS

(* Taking the first n jobs of a sequence leaves two sequences of jobs.     *)
LEMMA SplitType ==
  ASSUME NEW S, NEW s \in Seq(S), NEW n \in 0..Len(s)
  PROVE  /\ SubSeq(s, 1, n) \in Seq(S)
         /\ SubSeq(s, n + 1, Len(s)) \in Seq(S)
BY SMT

(* The initial state has the right types.                                  *)
LEMMA InitType == Init => TypeOK
<1> SUFFICES ASSUME Init PROVE TypeOK
  OBVIOUS
<1>1. pc \in [Flushers -> Places]
  BY DEF Init, Places
<1>2. batch \in [Flushers -> Seq(Jobs)] /\ queue \in Seq(Jobs)
  BY DEF Init
<1>3. at \in [Flushers -> Nat \ {0}]
  BY DEF Init
<1>4. uncommitted \in Seq(Jobs) /\ db \in Seq(Jobs)
  BY DEF Init
<1>5. retryCount \in [Jobs -> 0..MaxRetries] /\ asked \in [Flushers -> SUBSET Jobs]
  BY DEF Init, MaxRetries
<1>6. submitted \in 0..MaxJobs /\ crashes \in 0..MaxCrashes
  BY StoreAssumption DEF Init
<1> QED
  BY <1>1, <1>2, <1>3, <1>4, <1>5, <1>6, Zenon DEF Init, TypeOK

(* Taking a batch keeps every type, for any queue and batch size.          *)
LEMMA TakeBatchType ==
  ASSUME TypeOK, NEW p \in Flushers, TakeBatch(p)
  PROVE  TypeOK'
<1> DEFINE n == IF Len(queue) < BatchMax THEN Len(queue) ELSE BatchMax
<1>1. n \in 0..Len(queue)
  BY StoreAssumption DEF TypeOK
<1>2. SubSeq(queue, 1, n) \in Seq(Jobs) /\ SubSeq(queue, n + 1, Len(queue)) \in Seq(Jobs)
  BY <1>1, SplitType DEF TypeOK
<1>3. batch' = [batch EXCEPT ![p] = SubSeq(queue, 1, n)]
      /\ queue' = SubSeq(queue, n + 1, Len(queue))
  BY DEF TakeBatch
<1> HIDE DEF n
<1>4. batch' \in [Flushers -> Seq(Jobs)] /\ queue' \in Seq(Jobs)
  BY <1>2, <1>3 DEF TypeOK
<1>5. at' \in [Flushers -> Nat \ {0}]
  BY DEF TakeBatch, TypeOK
<1>6. pc' \in [Flushers -> Places] /\ inTxn' \in BOOLEAN
  BY DEF TakeBatch, TypeOK, dbVars, Places
<1>7. uncommitted' = uncommitted /\ db' = db
  BY DEF TakeBatch, dbVars
<1>8. UNCHANGED <<conn, submitted, refused, dropped, retryCount, asked, excused,
                  cancelled, crashes>>
  BY DEF TakeBatch, ghosts
<1> QED
  BY <1>4, <1>5, <1>6, <1>7, <1>8 DEF TypeOK

(* The job a flusher stands at is a job.                                   *)
LEMMA CurrentType ==
  ASSUME TypeOK, NEW p \in Flushers, at[p] <= Len(batch[p])
  PROVE  Current(p) \in Jobs
BY DEF TypeOK, Current

(* Executing a job keeps the three views of the database well typed.       *)
LEMMA ApplyType ==
  ASSUME TypeOK, NEW j \in Jobs, Apply(j)
  PROVE  /\ inTxn' \in BOOLEAN
         /\ uncommitted' \in Seq(Jobs) /\ db' \in Seq(Jobs)
<1>1. inTxn \in BOOLEAN /\ uncommitted \in Seq(Jobs) /\ db \in Seq(Jobs)
  BY DEF TypeOK
<1>2. Append(uncommitted, j) \in Seq(Jobs) /\ Append(db, j) \in Seq(Jobs)
  BY <1>1, AppendProperties
<1>3. /\ inTxn' = inTxn
      /\ uncommitted' = Append(uncommitted, j) \/ uncommitted' = uncommitted
      /\ db' = Append(db, j) \/ db' = db
  BY DEF Apply
<1> QED
  BY <1>1, <1>2, <1>3

(* Ending a batch keeps the flusher's local state well typed.              *)
LEMMA EndBatchType ==
  ASSUME TypeOK, NEW p \in Flushers, EndBatch(p)
  PROVE  /\ pc' \in [Flushers -> Places]
         /\ batch' \in [Flushers -> Seq(Jobs)]
         /\ at' \in [Flushers -> Nat \ {0}]
<1>1. pc \in [Flushers -> Places] /\ at \in [Flushers -> Nat \ {0}]
      /\ batch \in [Flushers -> Seq(Jobs)]
  BY DEF TypeOK
<1>2. pc' \in [Flushers -> Places]
  BY <1>1 DEF EndBatch, Places
<1> QED
  BY <1>1, <1>2, EmptySeq DEF EndBatch

(* So does going to roll back.                                             *)
LEMMA PlaceType ==
  ASSUME TypeOK, NEW p \in Flushers, pc' = [pc EXCEPT ![p] = "rollback"]
  PROVE  pc' \in [Flushers -> Places]
BY DEF TypeOK, Places

(* Every step of the store, and a stuttering step, keeps the types.        *)
LEMMA StepType == TypeOK /\ [Next]_vars => TypeOK'
<1> SUFFICES ASSUME TypeOK, [Next]_vars PROVE TypeOK'
  OBVIOUS
<1>1. CASE UNCHANGED vars
  BY <1>1 DEF TypeOK, vars
<1>2. CASE EnqueueWrite
  <2>1. queue \in Seq(Jobs) /\ submitted \in 0..MaxJobs /\ refused \subseteq Jobs
    BY DEF TypeOK
  <2>2. submitted' \in 0..MaxJobs /\ submitted + 1 \in Jobs
    BY <1>2, <2>1, StoreAssumption DEF EnqueueWrite, Jobs
  <2>3. queue' \in Seq(Jobs) /\ refused' \subseteq Jobs
    BY <1>2, <2>1, <2>2, AppendProperties DEF EnqueueWrite
  <2> QED
    BY <1>2, <2>2, <2>3 DEF EnqueueWrite, TypeOK, dbVars, ghosts
<1>3. CASE LoopWake
  BY <1>3, TakeBatchType DEF LoopWake, Flushers
<1>4. ASSUME NEW p \in Flushers, FlusherStep(p) PROVE TypeOK'
  <2>1. CASE ExecuteJob(p)
    <3>1. Current(p) \in Jobs
      BY <2>1, CurrentType DEF ExecuteJob
    <3>2. retryCount' \in [Jobs -> 0..MaxRetries]
      BY <2>1, <3>1 DEF ExecuteJob, TypeOK
    <3>0. at \in [Flushers -> Nat \ {0}] /\ pc \in [Flushers -> Places]
      BY DEF TypeOK
    <3>3. at' \in [Flushers -> Nat \ {0}]
      BY <2>1, <3>0 DEF ExecuteJob
    <3>5. pc' \in [Flushers -> Places]
      BY <2>1, <3>0 DEF ExecuteJob, Places
    <3>4. inTxn' \in BOOLEAN /\ uncommitted' \in Seq(Jobs) /\ db' \in Seq(Jobs)
      BY <2>1, <3>1, ApplyType DEF ExecuteJob, TypeOK, dbVars
    <3> QED
      BY <2>1, <3>2, <3>3, <3>4, <3>5 DEF ExecuteJob, TypeOK, ghosts
  <2>2. CASE Commit(p)
    <3>1. uncommitted' \in Seq(Jobs) /\ db' \in Seq(Jobs) /\ inTxn' \in BOOLEAN
      <4>1. uncommitted \in Seq(Jobs) /\ db \in Seq(Jobs) /\ inTxn \in BOOLEAN
        BY DEF TypeOK
      <4>2. \/ db' = db \o uncommitted /\ uncommitted' = <<>> /\ inTxn' = FALSE
            \/ UNCHANGED <<inTxn, uncommitted, db>>
        BY <2>2 DEF Commit, dbVars
      <4>3. db \o uncommitted \in Seq(Jobs) /\ <<>> \in Seq(Jobs)
        BY <4>1, EmptySeq, ConcatProperties
      <4>4. CASE UNCHANGED <<inTxn, uncommitted, db>>
        BY <4>1, <4>4
      <4>5. CASE db' = db \o uncommitted /\ uncommitted' = <<>> /\ inTxn' = FALSE
        <5>1. db' \in Seq(Jobs)
          BY <4>3, <4>5, Zenon
        <5>2. uncommitted' \in Seq(Jobs)
          BY <4>3, <4>5, Zenon
        <5> QED
          BY <4>5, <5>1, <5>2
      <4> QED
        BY <4>2, <4>4, <4>5
    <3>2. \/ EndBatch(p)
          \/ pc' = [pc EXCEPT ![p] = "rollback"] /\ UNCHANGED <<batch, at>>
      BY <2>2 DEF Commit
    <3> QED
      BY <2>2, <3>1, <3>2, EndBatchType, PlaceType DEF Commit, TypeOK, ghosts
  <2>3. CASE Rollback(p)
    <3>1. uncommitted' \in Seq(Jobs) /\ db' \in Seq(Jobs) /\ inTxn' \in BOOLEAN
      BY <2>3, EmptySeq DEF Rollback, TypeOK, dbVars
    <3>2. pc \in [Flushers -> Places] /\ at \in [Flushers -> Nat \ {0}]
          /\ batch \in [Flushers -> Seq(Jobs)]
      BY DEF TypeOK
    <3>3. pc' \in [Flushers -> Places]
      BY <2>3, <3>2 DEF Rollback, Places
    <3>4. at' \in [Flushers -> Nat \ {0}] /\ batch' \in [Flushers -> Seq(Jobs)]
      <4>1. /\ at' = [at EXCEPT ![p] = 1]
            /\ batch' = batch \/ batch' = [batch EXCEPT ![p] = <<>>]
        BY <2>3 DEF Rollback
      <4>2. at' \in [Flushers -> Nat \ {0}]
        BY <4>1, <3>2
      <4>3. batch' \in [Flushers -> Seq(Jobs)]
        BY <4>1, <3>2, EmptySeq
      <4> QED
        BY <4>2, <4>3
    <3> QED
      BY <2>3, <3>1, <3>3, <3>4 DEF Rollback, TypeOK, ghosts
  <2>4. CASE RetryJob(p)
    <3>1. Current(p) \in Jobs
      BY <2>4, CurrentType DEF RetryJob
    <3>2. retryCount' \in [Jobs -> 0..MaxRetries] /\ dropped' \subseteq Jobs
      <4>1. retryCount \in [Jobs -> 0..3] /\ dropped \subseteq Jobs
        BY DEF TypeOK, MaxRetries
      <4>2. dropped' \subseteq Jobs
        BY <2>4, <3>1, <4>1 DEF RetryJob
      <4>3. retryCount' \in [Jobs -> 0..3]
        BY <2>4, <3>1, <4>1 DEF RetryJob, MaxRetries
      <4> QED
        BY <4>2, <4>3 DEF MaxRetries
    <3>0. at \in [Flushers -> Nat \ {0}]
      BY DEF TypeOK
    <3>3. /\ at' \in [Flushers -> Nat \ {0}]
          /\ batch' \in [Flushers -> Seq(Jobs)]
          /\ pc' \in [Flushers -> Places]
      <4>1. CASE EndBatch(p)
        BY <4>1, EndBatchType
      <4>2. CASE ~EndBatch(p)
        <5>1. at' = [at EXCEPT ![p] = @ + 1] /\ pc' = pc /\ batch' = batch
          BY <2>4, <4>2 DEF RetryJob
        <5>2. at' \in [Flushers -> Nat \ {0}]
          BY <5>1, <3>0
        <5> QED
          BY <5>1, <5>2 DEF TypeOK
      <4> QED
        BY <4>1, <4>2
    <3>4. inTxn' \in BOOLEAN /\ uncommitted' \in Seq(Jobs) /\ db' \in Seq(Jobs)
      BY <2>4, <3>1, ApplyType DEF RetryJob, TypeOK, dbVars
    <3> QED
      BY <2>4, <3>2, <3>3, <3>4 DEF RetryJob, TypeOK, ghosts
  <2>5. CASE FlushAll(p)
    BY <2>5, TakeBatchType DEF FlushAll
  <2> QED
    BY <1>4, <2>1, <2>2, <2>3, <2>4, <2>5 DEF FlusherStep
<1>5. ASSUME NEW p \in Flushers, FlushHangs(p) PROVE TypeOK'
  BY <1>5 DEF FlushHangs, TypeOK, Places, dbVars, ghosts
<1>6. ASSUME NEW c \in Callers, FlushCall(c) PROVE TypeOK'
  <2>1. Accepted \subseteq Jobs
    BY StoreAssumption DEF Accepted, TypeOK, Jobs
  <2> QED
    BY <1>6, <2>1 DEF FlushCall, TypeOK, Places, dbVars, ghosts, Flushers
<1>7. ASSUME NEW c \in Callers, FlushReturns(c) PROVE TypeOK'
  BY <1>7 DEF FlushReturns, TypeOK, Places, dbVars, Flushers
<1>8. CASE StartClose
  <2>1. batch[Loop] \in Seq(Jobs)
    BY DEF TypeOK, Flushers
  <2>2. cancelled' \subseteq Jobs
    BY <1>8, <2>1 DEF StartClose, TypeOK, ToSet
  <2> QED
    BY <1>8, <2>2 DEF StartClose, TypeOK, dbVars, Places, Flushers
<1>9. CASE CloseConnection
  BY <1>9 DEF CloseConnection, TypeOK, Places, ghosts, Flushers
<1>10. CASE Closed
  BY <1>10 DEF Closed, TypeOK, Places, dbVars, ghosts, Flushers
<1>11. CASE Connect
  BY <1>11 DEF Connect, TypeOK, Places, dbVars, ghosts, Flushers
<1>12. CASE Crash
  <2>1. ToSet(queue) \subseteq Jobs
    BY DEF TypeOK, ToSet
  <2>2. InFlight \subseteq Jobs
    BY DEF TypeOK, InFlight, ToSet
  <2>3. excused' \subseteq Jobs
    BY <1>12, <2>1, <2>2 DEF Crash, TypeOK
  <2>4. crashes' \in 0..MaxCrashes
    BY <1>12, StoreAssumption DEF Crash, TypeOK
  <2>5. queue' \in Seq(Jobs) /\ batch' \in [Flushers -> Seq(Jobs)]
        /\ uncommitted' \in Seq(Jobs)
    BY <1>12, EmptySeq DEF Crash
  <2>6. pc' \in [Flushers -> Places] /\ at' \in [Flushers -> Nat \ {0}]
    BY <1>12 DEF Crash, Places
  <2> QED
    BY <1>12, <2>3, <2>4, <2>5, <2>6, Zenon DEF Crash, TypeOK
<1> QED
  BY <1>1, <1>2, <1>3, <1>4, <1>5, <1>6, <1>7, <1>8, <1>9, <1>10, <1>11, <1>12
  DEF Next

(* Every reachable state of the store is well typed, for all constants.    *)
THEOREM TypeCorrect == Spec => []TypeOK
<1>1. Init => TypeOK
  BY InitType
<1>2. TypeOK /\ [Next]_vars => TypeOK'
  BY StepType
<1> QED
  BY <1>1, <1>2, PTL DEF Spec

-----------------------------------------------------------------------------
(* TxnHasOwner is not inductive by itself: it also takes that only an open *)
(* connection holds a transaction, and that close() is waiting for the     *)
(* connection only while the connection is closing.                        *)
TxnInv ==
  /\ TypeOK
  /\ TxnHasOwner
  /\ inTxn => conn = "open"
  /\ pc[Closer] = "closing" => conn = "closing"

(* Taking a batch begins a transaction that the flusher owns, or leaves    *)
(* the one that is open to its owner.                                      *)
LEMMA TakeBatchTxn ==
  ASSUME TxnInv, NEW p \in Flushers, TakeBatch(p)
  PROVE  TxnInv'
<1>1. TypeOK'
  BY TakeBatchType DEF TxnInv
<1>2. pc \in [Flushers -> Places] /\ conn' = conn
  BY DEF TxnInv, TypeOK, TakeBatch
<1>3. pc' = [pc EXCEPT ![p] = "rollback"] \/ pc' = [pc EXCEPT ![p] = "exec"]
  BY DEF TakeBatch
<1>4. inTxn' => conn = "open"
  BY DEF TakeBatch, TxnInv, dbVars
<1>5. pc'[p] \in {"exec", "rollback"}
  BY <1>2, <1>3
<1>6. pc'[Closer] = "closing" => pc[Closer] = "closing"
  BY <1>2, <1>3 DEF Flushers
<1> QED
  BY <1>1, <1>2, <1>4, <1>5, <1>6 DEF TxnInv, TxnHasOwner

(* Every step of the store keeps TxnInv.                                   *)
LEMMA StepTxn == TxnInv /\ [Next]_vars => TxnInv'
<1> SUFFICES ASSUME TxnInv, [Next]_vars PROVE TxnInv'
  OBVIOUS
<1>0. TypeOK /\ TypeOK'
  BY StepType DEF TxnInv
<1>pc. pc \in [Flushers -> Places]
  BY <1>0 DEF TypeOK
<1> SUFFICES /\ TxnHasOwner'
             /\ inTxn' => conn' = "open"
             /\ pc'[Closer] = "closing" => conn' = "closing"
  BY <1>0 DEF TxnInv
<1> USE DEF TxnHasOwner
<1>1. CASE UNCHANGED vars
  BY <1>1 DEF vars, TxnInv
<1>2. CASE EnqueueWrite
  BY <1>2 DEF EnqueueWrite, TxnInv, dbVars
<1>3. CASE LoopWake
  BY <1>3, TakeBatchTxn DEF LoopWake, Flushers, TxnInv
<1>4. ASSUME NEW p \in Flushers, FlusherStep(p)
      PROVE  /\ TxnHasOwner'
             /\ inTxn' => conn' = "open"
             /\ pc'[Closer] = "closing" => conn' = "closing"
  <2>1. CASE ExecuteJob(p)
    <3>1. inTxn' = inTxn /\ conn' = conn
      BY <2>1 DEF ExecuteJob, Apply, dbVars
    <3>2. pc' = pc \/ pc' = [pc EXCEPT ![p] = "rollback"]
      BY <2>1 DEF ExecuteJob
    <3> QED
      BY <3>1, <3>2, <1>pc DEF TxnInv, Flushers
  <2>2. CASE Commit(p)
    <3>1. conn' = conn /\ (inTxn' => pc' = [pc EXCEPT ![p] = "rollback"])
      BY <2>2 DEF Commit, dbVars
    <3>2. inTxn' => inTxn
      BY <2>2 DEF Commit, dbVars
    <3>3. pc'[Closer] = "closing" => pc[Closer] = "closing"
      BY <2>2, <1>pc DEF Commit, EndBatch, Flushers
    <3> QED
      BY <3>1, <3>2, <3>3, <1>pc DEF TxnInv
  <2>3. CASE Rollback(p)
    <3>1. conn' = conn /\ (inTxn' => conn # "open" /\ inTxn)
      BY <2>3 DEF Rollback, dbVars
    <3>2. pc'[Closer] = "closing" => pc[Closer] = "closing"
      BY <2>3, <1>pc DEF Rollback, Flushers
    <3> QED
      BY <3>1, <3>2 DEF TxnInv
  <2>4. CASE RetryJob(p)
    <3>1. inTxn' = inTxn /\ conn' = conn /\ pc[p] = "retry"
      BY <2>4 DEF RetryJob, Apply, dbVars
    <3>2. pc' = pc \/ pc' = [pc EXCEPT ![p] = IF p = Loop THEN "idle" ELSE "check"]
      BY <2>4 DEF RetryJob, EndBatch
    <3> QED
      BY <3>1, <3>2, <1>pc DEF TxnInv, Flushers
  <2>5. CASE FlushAll(p)
    BY <2>5, TakeBatchTxn DEF FlushAll, TxnInv
  <2> QED
    BY <1>4, <2>1, <2>2, <2>3, <2>4, <2>5 DEF FlusherStep
<1>5. ASSUME NEW p \in Flushers, FlushHangs(p)
      PROVE  /\ TxnHasOwner'
             /\ inTxn' => conn' = "open"
             /\ pc'[Closer] = "closing" => conn' = "closing"
  BY <1>5, <1>pc DEF FlushHangs, TxnInv, dbVars, Flushers
<1>6. ASSUME NEW c \in Callers, FlushCall(c) \/ FlushReturns(c)
      PROVE  /\ TxnHasOwner'
             /\ inTxn' => conn' = "open"
             /\ pc'[Closer] = "closing" => conn' = "closing"
  BY <1>6, <1>pc, StoreAssumption
  DEF FlushCall, FlushReturns, TxnInv, dbVars, Flushers
<1>7. CASE StartClose
  BY <1>7, <1>pc, StoreAssumption DEF StartClose, TxnInv, dbVars, Flushers
<1>8. CASE CloseConnection
  BY <1>8, <1>pc DEF CloseConnection, TxnInv, Flushers
<1>9. CASE Closed
  BY <1>9, <1>pc DEF Closed, TxnInv, dbVars, Flushers
<1>10. CASE Connect
  BY <1>10, <1>pc, StoreAssumption DEF Connect, TxnInv, dbVars, Flushers
<1>11. CASE Crash
  BY <1>11, StoreAssumption DEF Crash, Flushers
<1> QED
  BY <1>1, <1>2, <1>3, <1>4, <1>5, <1>6, <1>7, <1>8, <1>9, <1>10, <1>11 DEF Next

(* However flush(), the loop, close() and crashes interleave, an open      *)
(* transaction always has a coroutine that will end it.                    *)
THEOREM TransactionsEnd == Spec => []TxnHasOwner
<1>1. Init => TxnInv
  BY InitType DEF Init, TxnInv, TxnHasOwner, Flushers
<1>2. TxnInv /\ [Next]_vars => TxnInv'
  BY StepTxn
<1>3. TxnInv => TxnHasOwner
  BY DEF TxnInv
<1> QED
  BY <1>1, <1>2, <1>3, PTL DEF Spec

-----------------------------------------------------------------------------
(* Without callers of flush(): the loop, and close() once it has cancelled *)
(* the loop, never have work in hand at the same time, which is what keeps *)
(* every accepted write accounted for.                                     *)

(* The elements of a sequence are its values at 1..Len.                    *)
LEMMA Elements ==
  ASSUME NEW S, NEW s \in Seq(S)
  PROVE  /\ ToSet(s) = {s[i] : i \in 1..Len(s)}
         /\ \A i \in 1..Len(s) : s[i] \in S
<1>1. DOMAIN s = 1..Len(s)
  BY SMT
<1> QED
  BY <1>1 DEF ToSet

(* Cutting a sequence after n elements loses none of them.                 *)
LEMMA SplitSet ==
  ASSUME NEW S, NEW s \in Seq(S), NEW n \in 0..Len(s)
  PROVE  ToSet(s) \subseteq ToSet(SubSeq(s, 1, n)) \cup ToSet(SubSeq(s, n + 1, Len(s)))
<1> DEFINE a == SubSeq(s, 1, n)
           b == SubSeq(s, n + 1, Len(s))
<1>1. a \in Seq(S) /\ b \in Seq(S)
  BY SplitType
<1>2. Len(a) = n /\ \A i \in 1..n : a[i] = s[i]
  BY SMT
<1>3. Len(b) = Len(s) - n /\ \A i \in (n + 1)..Len(s) : b[i - n] = s[i]
  BY SMT
<1>4. ToSet(a) = {a[i] : i \in 1..Len(a)} /\ ToSet(b) = {b[i] : i \in 1..Len(b)}
  BY <1>1, Elements
<1> HIDE DEF a, b
<1>5. ASSUME NEW i \in 1..Len(s) PROVE s[i] \in ToSet(a) \cup ToSet(b)
  <2>1. CASE i <= n
    BY <1>2, <1>4, <2>1
  <2>2. CASE i > n
    <3>1. i - n \in 1..Len(b) /\ b[i - n] = s[i]
      BY <1>3, <2>2
    <3> QED
      BY <1>4, <3>1
  <2> QED
    BY <2>1, <2>2
<1>6. ToSet(s) = {s[i] : i \in 1..Len(s)}
  BY Elements
<1>7. ToSet(s) \subseteq ToSet(a) \cup ToSet(b)
  BY <1>5, <1>6
<1> QED
  BY <1>7 DEF a, b

(* Concatenation keeps every element of both sequences.                    *)
LEMMA ConcatSet ==
  ASSUME NEW S, NEW s \in Seq(S), NEW t \in Seq(S)
  PROVE  ToSet(s) \cup ToSet(t) \subseteq ToSet(s \o t)
<1>1. s \o t \in Seq(S) /\ Len(s \o t) = Len(s) + Len(t)
  BY ConcatProperties
<1>2. ToSet(s \o t) = {(s \o t)[i] : i \in 1..Len(s \o t)}
      /\ ToSet(s) = {s[i] : i \in 1..Len(s)} /\ ToSet(t) = {t[i] : i \in 1..Len(t)}
  BY <1>1, Elements
<1>3. ASSUME NEW i \in 1..Len(s)
      PROVE  i \in 1..Len(s \o t) /\ (s \o t)[i] = s[i]
  BY SMT
<1>4. ASSUME NEW i \in 1..Len(t)
      PROVE  Len(s) + i \in 1..Len(s \o t) /\ (s \o t)[Len(s) + i] = t[i]
  BY SMT
<1> QED
  BY <1>2, <1>3, <1>4

(* Append keeps every element and adds the new one.                        *)
LEMMA AppendSet ==
  ASSUME NEW S, NEW s \in Seq(S), NEW e \in S
  PROVE  ToSet(s) \cup {e} \subseteq ToSet(Append(s, e))
<1>1. Append(s, e) \in Seq(S) /\ Len(Append(s, e)) = Len(s) + 1
      /\ Append(s, e)[Len(s) + 1] = e /\ \A i \in 1..Len(s) : Append(s, e)[i] = s[i]
  BY AppendProperties, SMT
<1>2. ToSet(Append(s, e)) = {Append(s, e)[i] : i \in 1..Len(Append(s, e))}
      /\ ToSet(s) = {s[i] : i \in 1..Len(s)}
  BY <1>1, Elements
<1> QED
  BY <1>1, <1>2

-----------------------------------------------------------------------------
(* Who may be where: the loop is dead while close() runs, a flusher with a *)
(* batch owns the open transaction, and a retry runs outside any.          *)
ControlInv ==
  /\ TypeOK
  /\ pc[Loop] \in {"idle", "exec", "rollback", "retry", "dead"}
  /\ pc[Closer] # "idle" => pc[Loop] = "dead"
  /\ conn = "none" => pc[Closer] = "idle" /\ pc[Loop] = "dead"
  /\ pc[Closer] = "closing" <=> conn = "closing"
  /\ \A p \in Flushers :
       /\ pc[p] \in {"exec", "rollback"} => inTxn /\ conn = "open"
       /\ pc[p] = "retry" => ~inTxn
       /\ pc[p] \notin {"exec", "rollback", "retry"} => batch[p] = <<>>

(* Without callers, when one flusher is at work the other is not.          *)
LEMMA OneAtWork ==
  ASSUME Callers = {}, ControlInv, NEW p \in Flushers, NEW q \in Flushers, p # q,
         pc[p] \in {"exec", "rollback", "retry"}
  PROVE  pc[q] \in {"idle", "dead"}
BY DEF ControlInv, Flushers, TypeOK, Places

(* Taking a batch: the flusher is Loop awake or Closer after it.           *)
LEMMA TakeBatchControl ==
  ASSUME Callers = {}, ControlInv, NEW p \in Flushers, TakeBatch(p),
         (p = Loop /\ pc[p] = "idle") \/ pc[p] = "check"
  PROVE  ControlInv'
<1> USE DEF ControlInv
<1>1. TypeOK' /\ TypeOK
  BY TakeBatchType
<1>2. Flushers = {Loop, Closer} /\ Loop # Closer
  BY StoreAssumption DEF Flushers
<1>3. pc \in [Flushers -> Places] /\ batch \in [Flushers -> Seq(Jobs)]
  BY DEF TypeOK
<1>4. p = Loop => pc[Closer] = "idle"
  BY <1>2
<1>5. pc[p] = "check" => p = Closer
  BY <1>2
<1>6. conn = "open" /\ conn' = conn
  <2>1. conn # "none" /\ conn' = conn
    BY DEF TakeBatch
  <2>2. conn # "closing"
    BY <1>2, <1>4, <1>5
  <2> QED
    BY <2>1, <2>2 DEF TypeOK
<1>7. /\ pc' = [pc EXCEPT ![p] = IF inTxn THEN "rollback" ELSE "exec"]
      /\ inTxn'
      /\ \E b : batch' = [batch EXCEPT ![p] = b]
  BY <1>1, <1>6 DEF TakeBatch, dbVars, TypeOK
<1>8. \A q \in Flushers : q # p => pc'[q] = pc[q] /\ batch'[q] = batch[q]
  BY <1>3, <1>7
<1>9. pc'[p] \in {"exec", "rollback"}
  BY <1>3, <1>7
<1>10. CASE p = Loop
  BY <1>1, <1>2, <1>4, <1>6, <1>7, <1>8, <1>9, <1>10
<1>11. CASE p = Closer /\ pc[p] = "check"
  BY <1>1, <1>2, <1>6, <1>7, <1>8, <1>9, <1>11
<1> QED
  BY <1>2, <1>5, <1>10, <1>11

(* Every step of the store keeps ControlInv.                               *)
LEMMA StepControl ==
  ASSUME Callers = {}, ControlInv, [Next]_vars
  PROVE  ControlInv'
<1>1. TypeOK /\ TypeOK'
  BY StepType DEF ControlInv
<1>2. Flushers = {Loop, Closer} /\ Loop # Closer
  BY StoreAssumption DEF Flushers
<1>3. pc \in [Flushers -> Places] /\ batch \in [Flushers -> Seq(Jobs)]
  BY <1>1 DEF TypeOK
<1>4. CASE UNCHANGED vars
  BY <1>1, <1>4 DEF ControlInv, vars
<1>5. CASE EnqueueWrite
  BY <1>1, <1>5 DEF ControlInv, EnqueueWrite, dbVars
<1>6. CASE LoopWake
  BY <1>2, <1>6, TakeBatchControl DEF LoopWake
<1>7. ASSUME NEW p \in Flushers, FlusherStep(p) PROVE ControlInv'
  <2>1. CASE ExecuteJob(p)
    <3>1. /\ UNCHANGED <<conn, inTxn, batch>> /\ pc[p] = "exec"
          /\ pc' = pc \/ pc' = [pc EXCEPT ![p] = "rollback"]
      BY <2>1 DEF ExecuteJob, Apply, dbVars
    <3> QED
      BY <1>1, <1>2, <1>3, <3>1 DEF ControlInv
  <2>2. CASE Commit(p)
    <3>1. /\ conn' = conn /\ pc[p] = "exec"
          /\ inTxn' = FALSE
          /\ pc' = [pc EXCEPT ![p] = IF p = Loop THEN "idle" ELSE "check"]
          /\ batch' = [batch EXCEPT ![p] = <<>>]
      BY <2>2 DEF Commit, ControlInv, EndBatch
    <3>2. \A q \in Flushers : q # p => pc[q] \in {"idle", "dead"}
      BY <1>2, <3>1, OneAtWork DEF TypeOK
    <3> QED
      BY <1>1, <1>2, <1>3, <3>1, <3>2 DEF ControlInv
  <2>3. CASE Rollback(p)
    <3>1. /\ conn' = conn /\ pc[p] = "rollback"
          /\ inTxn' = FALSE
          /\ pc' = [pc EXCEPT ![p] = "retry"]
          /\ batch' = batch
      BY <2>3 DEF Rollback, ControlInv
    <3>2. \A q \in Flushers : q # p => pc[q] \in {"idle", "dead"}
      BY <1>2, <3>1, OneAtWork
    <3> QED
      BY <1>1, <1>2, <1>3, <3>1, <3>2 DEF ControlInv
  <2>4. CASE RetryJob(p)
    <3>1. /\ UNCHANGED <<conn, inTxn>> /\ pc[p] = "retry"
          /\ \/ pc' = pc /\ batch' = batch
             \/ /\ pc' = [pc EXCEPT ![p] = IF p = Loop THEN "idle" ELSE "check"]
                /\ batch' = [batch EXCEPT ![p] = <<>>]
      BY <2>4 DEF RetryJob, EndBatch, Apply, dbVars
    <3> QED
      BY <1>1, <1>2, <1>3, <3>1 DEF ControlInv
  <2>5. CASE FlushAll(p)
    BY <2>5, TakeBatchControl DEF FlushAll
  <2> QED
    BY <1>7, <2>1, <2>2, <2>3, <2>4, <2>5 DEF FlusherStep
<1>8. ASSUME NEW p \in Flushers, FlushHangs(p) PROVE ControlInv'
  BY <1>2, <1>8 DEF ControlInv, FlushHangs
<1>9. CASE StartClose
  <2>1. /\ UNCHANGED <<conn, inTxn>> /\ conn = "open" /\ pc[Closer] = "idle"
        /\ pc' = [pc EXCEPT ![Loop] = "dead", ![Closer] = "check"]
        /\ batch' = [batch EXCEPT ![Loop] = <<>>]
    BY <1>9 DEF StartClose, dbVars
  <2> QED
    BY <1>1, <1>2, <1>3, <2>1 DEF ControlInv
<1>10. CASE CloseConnection
  BY <1>1, <1>2, <1>3, <1>10 DEF ControlInv, CloseConnection
<1>11. CASE Closed
  BY <1>1, <1>2, <1>3, <1>11 DEF ControlInv, Closed, dbVars
<1>12. CASE Connect
  BY <1>1, <1>2, <1>3, <1>12 DEF ControlInv, Connect, dbVars
<1>13. CASE Crash
  BY <1>1, <1>2, <1>13 DEF ControlInv, Crash
<1> QED
  BY <1>4, <1>5, <1>6, <1>7, <1>8, <1>9, <1>10, <1>11, <1>12, <1>13 DEF Next

-----------------------------------------------------------------------------
(* The accepted write j is accounted for.                                  *)
Covered(j) ==
  \/ j \in ToSet(queue) \cup Durable \cup dropped \cup excused \cup cancelled
  \/ \E p \in Flushers : j \in ToSet(batch[p])

(* The i-th statement of p's batch, if p is past it, is in the open        *)
(* transaction, or, in the retry after the rollback, settled.              *)
Executed(p, i) ==
  i < at[p] => /\ pc[p] = "exec" => batch[p][i] \in ToSet(uncommitted)
               /\ pc[p] = "retry" => batch[p][i] \in Durable \cup dropped

(* NoSilentLoss is not inductive by itself: that the end of a batch loses  *)
(* nothing takes that the whole batch has been executed.                   *)
LossInv ==
  /\ \A j \in Accepted : Covered(j)
  /\ \A p \in Flushers : \A i \in 1..Len(batch[p]) : Executed(p, i)

(* NoSilentLoss says that every accepted write is covered.                 *)
LEMMA LossIsUncovered == NoSilentLoss <=> \A j \in Accepted : Covered(j)
BY DEF NoSilentLoss, Covered, InFlight

(* Taking a batch moves writes from the queue to the flusher.              *)
LEMMA TakeBatchLoss ==
  ASSUME Callers = {}, ControlInv, LossInv, NEW p \in Flushers, TakeBatch(p),
         batch[p] = <<>>
  PROVE  LossInv'
<1> DEFINE n == IF Len(queue) < BatchMax THEN Len(queue) ELSE BatchMax
<1>1. TypeOK
  BY DEF ControlInv
<1>2. n \in 0..Len(queue) /\ queue \in Seq(Jobs)
  BY <1>1, StoreAssumption DEF TypeOK
<1>3. ToSet(queue) \subseteq ToSet(SubSeq(queue, 1, n)) \cup ToSet(SubSeq(queue, n + 1, Len(queue)))
  BY <1>2, SplitSet
<1>4. /\ batch' = [batch EXCEPT ![p] = SubSeq(queue, 1, n)]
      /\ queue' = SubSeq(queue, n + 1, Len(queue))
      /\ at' = [at EXCEPT ![p] = 1]
      /\ \E x : pc' = [pc EXCEPT ![p] = x]
      /\ UNCHANGED <<uncommitted, db, submitted, refused, dropped, excused, cancelled>>
  BY DEF TakeBatch, dbVars, ghosts
<1> HIDE DEF n
<1>5. /\ batch \in [Flushers -> Seq(Jobs)] /\ pc \in [Flushers -> Places]
      /\ at \in [Flushers -> Nat \ {0}]
  BY <1>1 DEF TypeOK
<1>6. ToSet(queue) \subseteq ToSet(batch'[p]) \cup ToSet(queue')
  BY <1>3, <1>4, <1>5
<1>7. \A q \in Flushers : q # p => batch'[q] = batch[q] /\ at'[q] = at[q] /\ pc'[q] = pc[q]
  BY <1>4, <1>5
<1>8. ASSUME NEW j \in Accepted' PROVE Covered(j)'
  <2>1. Covered(j)
    BY <1>4 DEF LossInv, Accepted
  <2>2. CASE j \in ToSet(queue)
    BY <1>6, <2>2 DEF Covered
  <2>3. CASE \E q \in Flushers : j \in ToSet(batch[q])
    <3>1. PICK q \in Flushers : j \in ToSet(batch[q])
      BY <2>3
    <3>2. q # p
      BY <3>1 DEF ToSet
    <3> QED
      BY <1>7, <3>1, <3>2 DEF Covered
  <2>4. CASE j \in Durable \cup dropped \cup excused \cup cancelled
    BY <1>4, <2>4 DEF Covered, Durable
  <2> QED
    BY <2>1, <2>2, <2>3, <2>4 DEF Covered
<1>9. ASSUME NEW q \in Flushers, NEW i \in 1..Len(batch'[q]) PROVE Executed(q, i)'
  <2>1. CASE q = p
    BY <1>4, <1>5, <2>1 DEF Executed
  <2>2. CASE q # p
    BY <1>4, <1>7, <2>2 DEF Executed, LossInv, Durable
  <2> QED
    BY <2>1, <2>2
<1> QED
  BY <1>8, <1>9 DEF LossInv

(* The effect of a statement only adds to what is executed or durable.     *)
LEMMA ApplyAdds ==
  ASSUME TypeOK, NEW j \in Jobs, Apply(j)
  PROVE  /\ Durable \subseteq Durable' /\ ToSet(uncommitted) \subseteq ToSet(uncommitted')
         /\ inTxn => j \in ToSet(uncommitted')
         /\ ~inTxn => j \in Durable'
<1>1. uncommitted \in Seq(Jobs) /\ db \in Seq(Jobs)
  BY DEF TypeOK
<1>2. /\ ToSet(uncommitted) \cup {j} \subseteq ToSet(Append(uncommitted, j))
      /\ ToSet(db) \cup {j} \subseteq ToSet(Append(db, j))
  BY <1>1, AppendSet
<1> QED
  BY <1>2 DEF Apply, Durable

(* A statement executed joins the open transaction; one that fails changes *)
(* nothing but what the flusher does next.                                 *)
LEMMA ExecuteLoss ==
  ASSUME Callers = {}, ControlInv, LossInv, NEW p \in Flushers, ExecuteJob(p)
  PROVE  LossInv'
<1>1. TypeOK /\ pc[p] = "exec" /\ at[p] <= Len(batch[p]) /\ inTxn
  BY DEF ControlInv, ExecuteJob
<1>2. Current(p) \in Jobs
  BY <1>1, CurrentType
<1>3. /\ UNCHANGED <<queue, batch, submitted, refused, dropped, excused, cancelled>>
      /\ Durable \subseteq Durable' /\ ToSet(uncommitted) \subseteq ToSet(uncommitted')
  BY <1>1, <1>2, ApplyAdds DEF ExecuteJob, ghosts, dbVars, Durable
<1>4. \/ /\ at' = [at EXCEPT ![p] = @ + 1] /\ pc' = pc
         /\ Current(p) \in ToSet(uncommitted')
      \/ at' = at /\ pc' = [pc EXCEPT ![p] = "rollback"]
  BY <1>1, <1>2, ApplyAdds DEF ExecuteJob
<1>5. at \in [Flushers -> Nat \ {0}] /\ pc \in [Flushers -> Places]
  BY <1>1 DEF TypeOK
<1>6. ASSUME NEW j \in Accepted' PROVE Covered(j)'
  BY <1>3 DEF Covered, LossInv, Accepted
<1>7. ASSUME NEW q \in Flushers, NEW i \in 1..Len(batch'[q]) PROVE Executed(q, i)'
  <2>1. Executed(q, i) /\ i \in 1..Len(batch[q])
    BY <1>3 DEF LossInv
  <2>2. CASE q # p
    BY <1>3, <1>4, <1>5, <2>1, <2>2 DEF Executed
  <2>3. CASE q = p /\ pc' = pc
    <3>1. at'[p] = at[p] + 1 /\ Current(p) \in ToSet(uncommitted')
      BY <1>1, <1>4, <1>5, <2>3
    <3>2. CASE i < at[p]
      BY <1>1, <1>3, <2>1, <2>3, <3>2 DEF Executed
    <3>3. CASE i = at[p]
      BY <1>1, <1>3, <2>3, <3>1, <3>3 DEF Executed, Current
    <3>4. i < at'[p] => i < at[p] \/ i = at[p]
      BY <1>5, <2>3, <3>1
    <3> QED
      BY <2>3, <3>2, <3>3, <3>4 DEF Executed
  <2>4. CASE q = p /\ pc' = [pc EXCEPT ![p] = "rollback"]
    BY <1>5, <2>4 DEF Executed
  <2> QED
    BY <1>4, <2>2, <2>3, <2>4
<1> QED
  BY <1>6, <1>7 DEF LossInv

(* COMMIT ends a batch whose statements are all in the transaction.        *)
LEMMA CommitLoss ==
  ASSUME Callers = {}, ControlInv, LossInv, NEW p \in Flushers, Commit(p)
  PROVE  LossInv'
<1>1. TypeOK /\ pc[p] = "exec" /\ at[p] > Len(batch[p]) /\ inTxn /\ conn = "open"
  BY DEF ControlInv, Commit
<1>2. /\ db' = db \o uncommitted
      /\ \E x : pc' = [pc EXCEPT ![p] = x]
      /\ pc'[p] \in {"idle", "check"}
      /\ batch' = [batch EXCEPT ![p] = <<>>] /\ at' = [at EXCEPT ![p] = 1]
      /\ UNCHANGED <<queue, submitted, refused, dropped, excused, cancelled>>
  BY <1>1 DEF Commit, EndBatch, ghosts, TypeOK
<1>3. Durable \cup ToSet(uncommitted) \subseteq Durable'
  BY <1>1, <1>2, ConcatSet DEF TypeOK, Durable
<1>4. /\ batch \in [Flushers -> Seq(Jobs)] /\ pc \in [Flushers -> Places]
      /\ at \in [Flushers -> Nat \ {0}]
  BY <1>1 DEF TypeOK
<1>5. ToSet(batch[p]) \subseteq Durable'
  <2>1. ToSet(batch[p]) = {batch[p][i] : i \in 1..Len(batch[p])}
    BY <1>4, Elements
  <2>2. ASSUME NEW i \in 1..Len(batch[p]) PROVE batch[p][i] \in ToSet(uncommitted)
    BY <1>1, <1>4 DEF LossInv, Executed
  <2> QED
    BY <1>3, <2>1, <2>2
<1>6. \A q \in Flushers : q # p => batch'[q] = batch[q] /\ at'[q] = at[q] /\ pc'[q] = pc[q]
  BY <1>2, <1>4
<1>7. ASSUME NEW j \in Accepted' PROVE Covered(j)'
  <2>1. Covered(j)
    BY <1>2 DEF LossInv, Accepted
  <2>2. ASSUME NEW q \in Flushers, j \in ToSet(batch[q]) PROVE Covered(j)'
    BY <1>5, <1>6, <2>2 DEF Covered
  <2> QED
    BY <1>2, <1>3, <2>1, <2>2 DEF Covered
<1>8. ASSUME NEW q \in Flushers, NEW i \in 1..Len(batch'[q]) PROVE Executed(q, i)'
  <2>1. CASE q = p
    BY <1>2, <2>1 DEF Executed
  <2>2. CASE q # p
    <3>1. pc[q] \in {"idle", "dead"}
      BY <1>1, <2>2, OneAtWork
    <3> QED
      BY <1>6, <2>2, <3>1 DEF Executed
  <2> QED
    BY <2>1, <2>2
<1> QED
  BY <1>7, <1>8 DEF LossInv

(* ROLLBACK takes the transaction back, and keeps the batch for the retry. *)
LEMMA RollbackLoss ==
  ASSUME Callers = {}, ControlInv, LossInv, NEW p \in Flushers, Rollback(p)
  PROVE  LossInv'
<1>1. TypeOK /\ pc[p] = "rollback" /\ inTxn /\ conn = "open"
  BY DEF ControlInv, Rollback
<1>2. /\ pc' = [pc EXCEPT ![p] = "retry"] /\ at' = [at EXCEPT ![p] = 1]
      /\ UNCHANGED <<db, batch, queue, submitted, refused, dropped, excused, cancelled>>
  BY <1>1 DEF Rollback, ghosts
<1>3. /\ pc \in [Flushers -> Places] /\ at \in [Flushers -> Nat \ {0}]
  BY <1>1 DEF TypeOK
<1>4. ASSUME NEW j \in Accepted' PROVE Covered(j)'
  BY <1>2 DEF LossInv, Accepted, Covered, Durable
<1>5. ASSUME NEW q \in Flushers, NEW i \in 1..Len(batch'[q]) PROVE Executed(q, i)'
  <2>1. CASE q = p
    BY <1>2, <1>3, <2>1 DEF Executed
  <2>2. CASE q # p
    <3>1. pc[q] \in {"idle", "dead"}
      BY <1>1, <2>2, OneAtWork
    <3> QED
      BY <1>2, <1>3, <2>2, <3>1 DEF Executed
  <2> QED
    BY <2>1, <2>2
<1> QED
  BY <1>4, <1>5 DEF LossInv

(* A retried statement is settled: durable, or dropped with a log line.    *)
LEMMA RetryLoss ==
  ASSUME Callers = {}, ControlInv, LossInv, NEW p \in Flushers, RetryJob(p)
  PROVE  LossInv'
<1>1. TypeOK /\ pc[p] = "retry" /\ at[p] <= Len(batch[p]) /\ ~inTxn
  BY DEF ControlInv, RetryJob
<1>2. Current(p) \in Jobs
  BY <1>1, CurrentType
<1>3. /\ batch \in [Flushers -> Seq(Jobs)] /\ pc \in [Flushers -> Places]
      /\ at \in [Flushers -> Nat \ {0}]
  BY <1>1 DEF TypeOK
<1>4. /\ UNCHANGED <<queue, submitted, refused, excused, cancelled>>
      /\ Durable \cup dropped \subseteq Durable' \cup dropped'
      /\ Current(p) \in Durable' \cup dropped'
  <2>1. CASE Apply(Current(p)) /\ dropped' = dropped
    BY <1>1, <1>2, <2>1, ApplyAdds DEF RetryJob, ghosts
  <2>2. CASE dropped' = dropped \cup {Current(p)} /\ db' = db
    BY <2>2 DEF RetryJob, ghosts, Durable
  <2> QED
    BY <2>1, <2>2 DEF RetryJob, dbVars
<1>5. \/ at' = [at EXCEPT ![p] = @ + 1] /\ UNCHANGED <<pc, batch>>
      \/ /\ at[p] = Len(batch[p])
         /\ \E x : pc' = [pc EXCEPT ![p] = x]
         /\ pc'[p] \in {"idle", "check"}
         /\ batch' = [batch EXCEPT ![p] = <<>>] /\ at' = [at EXCEPT ![p] = 1]
  BY <1>3 DEF RetryJob, EndBatch
<1>6. ASSUME NEW i \in 1..at[p] PROVE batch[p][i] \in Durable' \cup dropped'
  <2>1. CASE i < at[p]
    BY <1>1, <1>3, <1>4, <2>1 DEF LossInv, Executed
  <2>2. CASE i = at[p]
    BY <1>4, <2>2 DEF Current
  <2> QED
    BY <1>3, <2>1, <2>2
<1>7. \A q \in Flushers : q # p => batch'[q] = batch[q] /\ at'[q] = at[q] /\ pc'[q] = pc[q]
  BY <1>3, <1>5
<1>8. ASSUME NEW j \in Accepted' PROVE Covered(j)'
  <2>1. Covered(j)
    BY <1>4 DEF LossInv, Accepted
  <2>2. ASSUME NEW q \in Flushers, j \in ToSet(batch[q]) PROVE Covered(j)'
    <3>1. CASE batch'[q] = batch[q]
      BY <2>2, <3>1 DEF Covered
    <3>2. CASE q = p /\ at[p] = Len(batch[p])
      <4>1. ToSet(batch[p]) = {batch[p][i] : i \in 1..Len(batch[p])}
        BY <1>3, Elements
      <4>2. j \in Durable' \cup dropped'
        BY <1>6, <2>2, <3>2, <4>1
      <4> QED
        BY <4>2 DEF Covered
    <3> QED
      BY <1>5, <1>7, <3>1, <3>2
  <2> QED
    BY <1>4, <2>1, <2>2 DEF Covered
<1>9. ASSUME NEW q \in Flushers, NEW i \in 1..Len(batch'[q]) PROVE Executed(q, i)'
  <2>1. CASE q # p
    <3>1. pc[q] \in {"idle", "dead"}
      BY <1>1, <2>1, OneAtWork
    <3> QED
      BY <1>7, <2>1, <3>1 DEF Executed
  <2>2. CASE q = p /\ at' = [at EXCEPT ![p] = @ + 1] /\ pc' = pc /\ batch' = batch
    <3>1. i < at'[p] => i \in 1..at[p]
      BY <1>3, <2>2
    <3> QED
      BY <1>1, <1>6, <2>2, <3>1 DEF Executed
  <2>3. CASE q = p /\ pc'[p] \in {"idle", "check"}
    BY <2>3 DEF Executed
  <2> QED
    BY <1>5, <2>1, <2>2, <2>3
<1> QED
  BY <1>8, <1>9 DEF LossInv

(* close() names the writes it cancels with the loop's batch.              *)
LEMMA StartCloseLoss ==
  ASSUME Callers = {}, ControlInv, LossInv, StartClose
  PROVE  LossInv'
<1>1. /\ batch \in [Flushers -> Seq(Jobs)] /\ pc \in [Flushers -> Places]
      /\ at \in [Flushers -> Nat \ {0}]
  BY DEF ControlInv, TypeOK
<1>2. Flushers = {Loop, Closer} /\ Loop # Closer
  BY StoreAssumption DEF Flushers
<1>3. /\ UNCHANGED <<queue, db, submitted, refused, dropped, excused>>
      /\ cancelled' = cancelled \cup (ToSet(batch[Loop]) \ Durable)
      /\ batch'[Loop] = <<>> /\ batch'[Closer] = batch[Closer]
      /\ pc'[Loop] = "dead" /\ pc'[Closer] = "check"
  BY <1>1, <1>2 DEF StartClose, dbVars
<1>4. ASSUME NEW j \in Accepted' PROVE Covered(j)'
  <2>1. Covered(j)
    BY <1>3 DEF LossInv, Accepted
  <2> QED
    BY <1>2, <1>3, <2>1 DEF Covered, Durable
<1>5. ASSUME NEW q \in Flushers, NEW i \in 1..Len(batch'[q]) PROVE Executed(q, i)'
  BY <1>2, <1>3 DEF Executed
<1> QED
  BY <1>4, <1>5 DEF LossInv

(* Every step of the store keeps LossInv.                                  *)
LEMMA StepLoss ==
  ASSUME Callers = {}, ControlInv, LossInv, [Next]_vars
  PROVE  LossInv'
<1>1. TypeOK /\ Flushers = {Loop, Closer} /\ Loop # Closer
  BY StoreAssumption DEF ControlInv, Flushers
<1>2. ASSUME UNCHANGED <<queue, batch, at, uncommitted, db, submitted, refused, dropped,
                         excused, cancelled>>,
             \A q \in Flushers : pc'[q] = pc[q] \/ pc'[q] \in {"idle", "check", "closing"}
      PROVE  LossInv'
  BY <1>2 DEF LossInv, Accepted, Covered, Durable, Executed
<1>3. pc \in [Flushers -> Places]
  BY <1>1 DEF TypeOK
<1>4. CASE UNCHANGED vars
  BY <1>2, <1>4 DEF vars
<1>5. CASE EnqueueWrite
  <2>1. /\ UNCHANGED <<pc, batch, at, uncommitted, db, dropped, excused, cancelled>>
        /\ submitted' = submitted + 1
        /\ \/ queue' = Append(queue, submitted + 1) /\ refused' = refused
           \/ queue' = queue /\ refused' = refused \cup {submitted + 1}
    BY <1>5 DEF EnqueueWrite, dbVars, ghosts
  <2>2. submitted + 1 \in Jobs /\ queue \in Seq(Jobs) /\ submitted \in Nat
    BY <1>1, <1>5, StoreAssumption DEF EnqueueWrite, TypeOK, Jobs
  <2>3. ToSet(queue) \cup {submitted + 1} \subseteq ToSet(Append(queue, submitted + 1))
    BY <2>2, AppendSet
  <2>4. ASSUME NEW j \in Accepted' PROVE Covered(j)'
    <3>1. j \in 1..submitted + 1 /\ j \notin refused'
      BY <2>1, <2>4 DEF Accepted
    <3>2. CASE j \in 1..submitted
      <4>1. Covered(j)
        BY <2>1, <3>1, <3>2 DEF Accepted, LossInv
      <4> QED
        BY <2>1, <2>3, <4>1 DEF Covered, Durable
    <3>3. CASE j = submitted + 1
      BY <2>1, <2>3, <3>1, <3>3 DEF Covered
    <3> QED
      BY <2>2, <3>1, <3>2, <3>3
  <2>5. ASSUME NEW q \in Flushers, NEW i \in 1..Len(batch'[q]) PROVE Executed(q, i)'
    BY <2>1 DEF LossInv, Executed, Durable
  <2> QED
    BY <2>4, <2>5 DEF LossInv
<1>6. CASE LoopWake
  <2>1. batch[Loop] = <<>>
    BY <1>1, <1>6 DEF LoopWake, ControlInv
  <2> QED
    BY <1>1, <1>6, <2>1, TakeBatchLoss DEF LoopWake
<1>7. ASSUME NEW p \in Flushers, FlusherStep(p) PROVE LossInv'
  <2>1. CASE FlushAll(p)
    <3>1. batch[p] = <<>>
      BY <2>1 DEF FlushAll, ControlInv
    <3> QED
      BY <2>1, <3>1, TakeBatchLoss DEF FlushAll
  <2> QED
    BY <1>7, <2>1, ExecuteLoss, CommitLoss, RollbackLoss, RetryLoss DEF FlusherStep
<1>8. ASSUME NEW p \in Flushers, FlushHangs(p) PROVE LossInv'
  BY <1>1, <1>8 DEF ControlInv, FlushHangs
<1>9. CASE StartClose
  BY <1>9, StartCloseLoss
<1>10. CASE CloseConnection
  <2>1. /\ UNCHANGED <<queue, batch, at, db, submitted, refused, dropped, excused, cancelled>>
        /\ pc' = [pc EXCEPT ![Closer] = "closing"] /\ pc[Loop] = "dead"
    BY <1>10 DEF CloseConnection, ControlInv, ghosts
  <2>2. pc'[Closer] = "closing" /\ pc'[Loop] = "dead"
    BY <1>1, <1>3, <2>1
  <2> QED
    BY <1>1, <2>1, <2>2 DEF LossInv, Accepted, Covered, Durable, Executed
<1>11. CASE Closed
  BY <1>2, <1>3, <1>11 DEF Closed, dbVars, ghosts
<1>12. CASE Connect
  BY <1>2, <1>3, <1>12 DEF Connect, dbVars, ghosts
<1>13. CASE Crash
  <2>1. /\ UNCHANGED <<db, submitted, refused, dropped, cancelled>>
        /\ excused' = excused \cup ((ToSet(queue) \cup InFlight) \ Durable)
        /\ batch' = [p \in Flushers |-> <<>>]
    BY <1>13 DEF Crash
  <2>2. ASSUME NEW j \in Accepted' PROVE Covered(j)'
    <3>1. Covered(j)
      BY <2>1 DEF LossInv, Accepted
    <3> QED
      BY <2>1, <3>1 DEF Covered, Durable, InFlight
  <2>3. ASSUME NEW q \in Flushers PROVE Len(batch'[q]) = 0
    BY <2>1
  <2> QED
    BY <2>2, <2>3 DEF LossInv
<1> QED
  BY <1>1, <1>4, <1>5, <1>6, <1>7, <1>8, <1>9, <1>10, <1>11, <1>12, <1>13 DEF Next

(* Without callers of flush(), for every number of writes, queue bound and *)
(* batch size, with failing statements, close(), connect() and crashes: no *)
(* accepted write disappears silently.                                     *)
THEOREM NothingLost ==
  ASSUME Callers = {}
  PROVE  Spec => []NoSilentLoss
<1>1. Init => ControlInv
  BY InitType, StoreAssumption DEF Init, ControlInv, Flushers
<1>2. Init => LossInv
  <2> SUFFICES ASSUME Init PROVE LossInv
    OBVIOUS
  <2>1. Accepted = {}
    BY DEF Init, Accepted
  <2>2. \A p \in Flushers : Len(batch[p]) = 0
    BY DEF Init
  <2> QED
    BY <2>1, <2>2 DEF LossInv
<1>3. ControlInv /\ LossInv /\ [Next]_vars => ControlInv' /\ LossInv'
  BY StepControl, StepLoss
<1>4. ControlInv /\ LossInv => NoSilentLoss
  BY LossIsUncovered DEF LossInv
<1> QED
  BY <1>1, <1>2, <1>3, <1>4, PTL DEF Spec

-----------------------------------------------------------------------------
(* Without callers of flush(), the store is a DurableLog: what waits in a  *)
(* flusher's batch and in the queue becomes durable, or is given up,       *)
(* oldest first.  The order of the database and the bounds on what a crash *)
(* or close() loses are read off the order of that log.                    *)


(* The jobs a flusher holds and those in the queue, oldest first.          *)
Waiting == Unsettled(Loop) \o Unsettled(Closer) \o queue

(* What the open transaction holds.  The second line is what allows the    *)
(* loop's next BEGIN to succeed; the third is the point of the refinement: *)
(* COMMIT makes exactly the batch durable.                                 *)
TxnShape ==
  /\ ~inTxn => uncommitted = <<>>
  /\ conn # "open" \/ pc[Loop] = "idle" => ~inTxn
  /\ \A p \in Flushers :
       /\ pc[p] \in {"exec", "retry"} => at[p] <= Len(batch[p]) + 1
       /\ pc[p] = "exec" => uncommitted = SubSeq(batch[p], 1, at[p] - 1)

(* Whatever is queued, held, executed or durable has been submitted.       *)
Submitted ==
  /\ queue \in Seq(1..submitted) /\ db \in Seq(1..submitted)
  /\ uncommitted \in Seq(1..submitted)
  /\ \A p \in Flushers : batch[p] \in Seq(1..submitted)

-----------------------------------------------------------------------------
(* One more element of a sequence extends the prefix before it.            *)
LEMMA PrefixGrows ==
  ASSUME NEW S, NEW s \in Seq(S), NEW i \in 1..Len(s)
  PROVE  Append(SubSeq(s, 1, i - 1), s[i]) = SubSeq(s, 1, i)
<1>1. SubSeq(s, 1, i - 1) \in Seq(S) /\ SubSeq(s, 1, i) \in Seq(S)
  BY SMT
<1>2. Append(SubSeq(s, 1, i - 1), s[i]) \in Seq(S)
  BY <1>1, AppendProperties
<1>3. Len(SubSeq(s, 1, i - 1)) = i - 1 /\ Len(SubSeq(s, 1, i)) = i
  BY SMT
<1>4. Len(Append(SubSeq(s, 1, i - 1), s[i])) = i
  BY <1>1, <1>3, AppendProperties
<1>5. ASSUME NEW k \in 1..i
      PROVE  Append(SubSeq(s, 1, i - 1), s[i])[k] = SubSeq(s, 1, i)[k]
  BY SMT
<1> QED
  BY <1>1, <1>2, <1>3, <1>4, <1>5, SeqEqual

(* A batch taken off the queue leaves the order of the jobs as it was.     *)
LEMMA SplitJoins ==
  ASSUME NEW S, NEW s \in Seq(S), NEW n \in 0..Len(s)
  PROVE  SubSeq(s, 1, n) \o SubSeq(s, n + 1, Len(s)) = s
<1>1. Len(s) \in Nat
  BY LenProperties
<1>2. 1 \in 1..Len(s) + 1 /\ n \in 1 - 1..Len(s) /\ Len(s) \in n..Len(s)
  BY <1>1
<1>3. SubSeq(s, 1, n) \o SubSeq(s, n + 1, Len(s)) = SubSeq(s, 1, Len(s))
  BY <1>2, ConcatAdjacentSubSeq
<1> QED
  BY <1>3, SubSeqFull

(* An element added at the end of the second of two sequences.             *)
LEMMA AppendBehind ==
  ASSUME NEW S, NEW s \in Seq(S), NEW t \in Seq(S), NEW e \in S
  PROVE  s \o Append(t, e) = Append(s \o t, e)
<1>1. <<e>> \in Seq(S) /\ s \o t \in Seq(S)
  BY ConcatProperties
<1>2. Append(t, e) = t \o <<e>> /\ Append(s \o t, e) = (s \o t) \o <<e>>
  BY <1>1, AppendIsConcat
<1>3. (s \o t) \o <<e>> = s \o (t \o <<e>>)
  BY <1>1, ConcatAssociative
<1> QED
  BY <1>2, <1>3

(* The first elements of a sequence moved to the end of another one.       *)
LEMMA MoveFront ==
  ASSUME NEW S, NEW s \in Seq(S), NEW t \in Seq(S), NEW n \in 0..Len(t)
  PROVE  (s \o SubSeq(t, 1, n)) \o SubSeq(t, n + 1, Len(t)) = s \o t
<1> DEFINE a == SubSeq(t, 1, n)
           b == SubSeq(t, n + 1, Len(t))
<1>1. a \in Seq(S) /\ b \in Seq(S)
  BY SplitType
<1>2. a \o b = t
  BY SplitJoins
<1> HIDE DEF a, b
<1>3. (s \o a) \o b = s \o (a \o b)
  BY <1>1, ConcatAssociative
<1>4. (s \o a) \o b = s \o t
  BY <1>2, <1>3
<1> QED
  BY <1>4 DEF a, b

(* The first elements of a concatenation, and what is behind them.         *)
LEMMA CutConcat ==
  ASSUME NEW S, NEW s \in Seq(S), NEW t \in Seq(S)
  PROVE  /\ Len(s) \in 0..Len(s \o t)
         /\ SubSeq(s \o t, 1, Len(s)) = s
         /\ SubSeq(s \o t, Len(s) + 1, Len(s \o t)) = t
<1>1. s \o t \in Seq(S) /\ Len(s \o t) = Len(s) + Len(t)
      /\ \A i \in 1..Len(s) + Len(t) : (s \o t)[i] = IF i <= Len(s) THEN s[i] ELSE t[i - Len(s)]
  BY ConcatProperties
<1>2. Len(s) \in Nat /\ Len(t) \in Nat
  BY LenProperties
<1>3. Len(s) \in 0..Len(s \o t)
  BY <1>1, <1>2
<1>4. SubSeq(s \o t, 1, Len(s)) \in Seq(S) /\ SubSeq(s \o t, Len(s) + 1, Len(s \o t)) \in Seq(S)
  BY <1>1, <1>3, SplitType
<1>5. SubSeq(s \o t, 1, Len(s)) = s
  <2>1. Len(SubSeq(s \o t, 1, Len(s))) = Len(s)
    BY <1>1, <1>2, SubSeqProperties
  <2>2. ASSUME NEW i \in 1..Len(s) PROVE SubSeq(s \o t, 1, Len(s))[i] = s[i]
    BY <1>1, <1>2, SubSeqProperties
  <2> QED
    BY <1>4, <2>1, <2>2, SeqEqual
<1>6. SubSeq(s \o t, Len(s) + 1, Len(s \o t)) = t
  <2>1. Len(SubSeq(s \o t, Len(s) + 1, Len(s \o t))) = Len(t)
    BY <1>1, <1>2, SubSeqProperties
  <2>2. ASSUME NEW i \in 1..Len(t)
        PROVE  SubSeq(s \o t, Len(s) + 1, Len(s \o t))[i] = t[i]
    <3>1. SubSeq(s \o t, Len(s) + 1, Len(s \o t))[i] = (s \o t)[Len(s) + i]
      BY <1>1, <1>2, SubSeqProperties
    <3>2. Len(s) + i \in 1..Len(s) + Len(t) /\ ~(Len(s) + i <= Len(s)) /\ Len(s) + i - Len(s) = i
      BY <1>2
    <3> QED
      BY <1>1, <3>1, <3>2
  <2> QED
    BY <1>4, <2>1, <2>2, SeqEqual
<1> QED
  BY <1>3, <1>5, <1>6
-----------------------------------------------------------------------------
(* Taking a batch moves submitted jobs.                                    *)
LEMMA TakeBatchSubmitted ==
  ASSUME TypeOK, Submitted, NEW p \in Flushers, TakeBatch(p)
  PROVE  Submitted'
<1> DEFINE n == IF Len(queue) < BatchMax THEN Len(queue) ELSE BatchMax
<1>1. n \in 0..Len(queue)
  BY StoreAssumption DEF TypeOK
<1>2. SubSeq(queue, 1, n) \in Seq(1..submitted)
      /\ SubSeq(queue, n + 1, Len(queue)) \in Seq(1..submitted)
  BY <1>1, SplitType DEF Submitted
<1>3. /\ batch' = [batch EXCEPT ![p] = SubSeq(queue, 1, n)]
      /\ queue' = SubSeq(queue, n + 1, Len(queue))
      /\ UNCHANGED <<uncommitted, db, submitted>>
  BY DEF TakeBatch, dbVars
<1> HIDE DEF n
<1>4. batch \in [Flushers -> Seq(Jobs)]
  BY DEF TypeOK
<1>5. \A q \in Flushers : batch'[q] \in Seq(1..submitted)
  BY <1>2, <1>3, <1>4 DEF Submitted
<1> QED
  BY <1>2, <1>3, <1>5 DEF Submitted

(* So does ending one.                                                     *)
LEMMA BatchesSubmitted ==
  ASSUME TypeOK, Submitted, NEW p \in Flushers,
         batch' = batch \/ batch' = [batch EXCEPT ![p] = <<>>]
  PROVE  \A q \in Flushers : batch'[q] \in Seq(1..submitted)
<1>1. batch \in [Flushers -> Seq(Jobs)] /\ <<>> \in Seq(1..submitted)
  BY EmptySeq DEF TypeOK
<1> QED
  BY <1>1 DEF Submitted

(* Executing a statement adds a submitted job to the database.             *)
LEMMA ApplySubmitted ==
  ASSUME Submitted, NEW j \in 1..submitted, Apply(j)
  PROVE  uncommitted' \in Seq(1..submitted) /\ db' \in Seq(1..submitted)
<1>1. Append(uncommitted, j) \in Seq(1..submitted) /\ Append(db, j) \in Seq(1..submitted)
  BY AppendProperties DEF Submitted
<1> QED
  BY <1>1 DEF Apply, Submitted

(* Every step keeps Submitted.                                             *)
LEMMA StepSubmitted ==
  ASSUME TypeOK, Submitted, [Next]_vars
  PROVE  Submitted'
<1>1. Loop \in Flushers /\ Closer \in Flushers /\ <<>> \in Seq(1..submitted)
  BY EmptySeq DEF Flushers
<1>2. CASE UNCHANGED vars
  BY <1>2 DEF Submitted, vars
<1>3. CASE EnqueueWrite
  <2>1. /\ UNCHANGED <<batch, uncommitted, db>> /\ submitted' = submitted + 1
        /\ queue' = Append(queue, submitted + 1) \/ queue' = queue
    BY <1>3 DEF EnqueueWrite, dbVars
  <2>2. 1..submitted \subseteq 1..submitted' /\ submitted + 1 \in 1..submitted'
    BY <2>1 DEF TypeOK
  <2>3. /\ queue \in Seq(1..submitted') /\ db \in Seq(1..submitted')
        /\ uncommitted \in Seq(1..submitted')
        /\ \A p \in Flushers : batch[p] \in Seq(1..submitted')
    BY <2>2, SeqMonotonic DEF Submitted
  <2>4. queue' \in Seq(1..submitted')
    <3>1. Append(queue, submitted + 1) \in Seq(1..submitted')
      BY <2>2, <2>3, AppendProperties
    <3> QED
      BY <2>1, <2>3, <3>1
  <2> QED
    BY <2>1, <2>3, <2>4 DEF Submitted
<1>4. CASE LoopWake
  BY <1>1, <1>4, TakeBatchSubmitted DEF LoopWake
<1>5. ASSUME NEW p \in Flushers, FlusherStep(p) PROVE Submitted'
  <2>1. at[p] <= Len(batch[p]) => Current(p) \in 1..submitted
    <3>1. at[p] \in Nat \ {0} /\ batch[p] \in Seq(1..submitted)
      BY DEF TypeOK, Submitted
    <3>2. Len(batch[p]) \in Nat
      BY <3>1, LenProperties
    <3>3. at[p] <= Len(batch[p]) => at[p] \in 1..Len(batch[p])
      BY <3>1, <3>2
    <3>4. \A i \in 1..Len(batch[p]) : batch[p][i] \in 1..submitted
      BY <3>1, ElementOfSeq
    <3> QED
      BY <3>3, <3>4 DEF Current
  <2>2. CASE ExecuteJob(p)
    <3>1. UNCHANGED <<queue, batch, submitted>>
      BY <2>2 DEF ExecuteJob
    <3>2. uncommitted' \in Seq(1..submitted) /\ db' \in Seq(1..submitted)
      BY <2>1, <2>2, ApplySubmitted DEF ExecuteJob, Submitted, dbVars
    <3> QED
      BY <3>1, <3>2 DEF Submitted
  <2>3. CASE Commit(p)
    <3>1. /\ UNCHANGED <<queue, submitted>>
          /\ batch' = batch \/ batch' = [batch EXCEPT ![p] = <<>>]
      BY <2>3 DEF Commit, EndBatch
    <3>2. db \o uncommitted \in Seq(1..submitted)
      BY ConcatProperties DEF Submitted
    <3>3. uncommitted' \in Seq(1..submitted) /\ db' \in Seq(1..submitted)
      BY <1>1, <2>3, <3>2 DEF Commit, Submitted, dbVars
    <3> QED
      BY <3>1, <3>3, BatchesSubmitted DEF Submitted
  <2>4. CASE Rollback(p)
    <3>1. /\ UNCHANGED <<queue, submitted>>
          /\ batch' = batch \/ batch' = [batch EXCEPT ![p] = <<>>]
      BY <2>4 DEF Rollback
    <3>2. uncommitted' \in Seq(1..submitted) /\ db' \in Seq(1..submitted)
      BY <1>1, <2>4 DEF Rollback, Submitted, dbVars
    <3> QED
      BY <3>1, <3>2, BatchesSubmitted DEF Submitted
  <2>5. CASE RetryJob(p)
    <3>1. /\ UNCHANGED <<queue, submitted>>
          /\ batch' = batch \/ batch' = [batch EXCEPT ![p] = <<>>]
      BY <2>5 DEF RetryJob, EndBatch
    <3>2. uncommitted' \in Seq(1..submitted) /\ db' \in Seq(1..submitted)
      <4>1. Current(p) \in 1..submitted
        BY <2>1, <2>5 DEF RetryJob
      <4>2. Apply(Current(p)) \/ UNCHANGED dbVars
        BY <2>5 DEF RetryJob, dbVars
      <4> QED
        BY <4>1, <4>2, ApplySubmitted DEF Submitted, dbVars
    <3> QED
      BY <3>1, <3>2, BatchesSubmitted DEF Submitted
  <2>6. CASE FlushAll(p)
    BY <2>6, TakeBatchSubmitted DEF FlushAll
  <2> QED
    BY <1>5, <2>2, <2>3, <2>4, <2>5, <2>6 DEF FlusherStep
<1>6. ASSUME UNCHANGED <<queue, batch, uncommitted, db, submitted>> PROVE Submitted'
  BY <1>6 DEF Submitted
<1>7. ASSUME NEW p \in Flushers, FlushHangs(p) PROVE Submitted'
  BY <1>6, <1>7 DEF FlushHangs, dbVars
<1>8. ASSUME NEW c \in Callers, FlushCall(c) \/ FlushReturns(c) PROVE Submitted'
  BY <1>6, <1>8 DEF FlushCall, FlushReturns, dbVars
<1>9. CASE StartClose
  <2>1. UNCHANGED <<queue, uncommitted, db, submitted>>
        /\ batch' = [batch EXCEPT ![Loop] = <<>>]
    BY <1>9 DEF StartClose, dbVars
  <2> QED
    BY <1>1, <2>1, BatchesSubmitted DEF Submitted
<1>10. CASE CloseConnection
  BY <1>1, <1>10 DEF CloseConnection, Submitted
<1>11. CASE Closed \/ Connect
  BY <1>6, <1>11 DEF Closed, Connect, dbVars
<1>12. CASE Crash
  BY <1>1, <1>12 DEF Crash, Submitted
<1> QED
  BY <1>2, <1>3, <1>4, <1>5, <1>7, <1>8, <1>9, <1>10, <1>11, <1>12 DEF Next
-----------------------------------------------------------------------------
(* Taking a batch begins a transaction with nothing in it.                 *)
LEMMA TakeBatchShape ==
  ASSUME Callers = {}, ControlInv, TxnShape, NEW p \in Flushers, TakeBatch(p),
         (p = Loop /\ pc[p] = "idle") \/ pc[p] = "check"
  PROVE  TxnShape'
<1>1. TypeOK /\ Flushers = {Loop, Closer} /\ Loop # Closer
  BY StoreAssumption DEF ControlInv, Flushers
<1>2. /\ batch \in [Flushers -> Seq(Jobs)] /\ pc \in [Flushers -> Places]
      /\ at \in [Flushers -> Nat \ {0}]
  BY <1>1 DEF TypeOK
<1>3. conn = "open" /\ conn' = conn
  BY <1>1 DEF TakeBatch, ControlInv, TypeOK
<1>4. \A q \in Flushers : q # p => pc[q] \in {"idle", "dead"} /\ (q = Loop => pc[q] = "dead")
  BY <1>1, <1>2 DEF ControlInv, Places
<1>5. TypeOK'
  BY <1>1, TakeBatchType
<1>6. /\ pc' = [pc EXCEPT ![p] = IF inTxn THEN "rollback" ELSE "exec"]
      /\ at' = [at EXCEPT ![p] = 1]
      /\ inTxn' /\ uncommitted' = uncommitted
  BY <1>1, <1>3, <1>5 DEF TakeBatch, dbVars, TypeOK
<1>7. Len(batch'[p]) \in Nat
  BY <1>5, LenProperties DEF TypeOK
<1>8. pc'[p] = "exec" => uncommitted' = SubSeq(batch'[p], 1, 1 - 1)
  <2>1. SubSeq(batch'[p], 1, 1 - 1) = <<>>
    BY <1>5, SubSeqEmpty DEF TypeOK
  <2> QED
    BY <1>2, <1>6, <2>1 DEF TxnShape
<1>9. \A q \in Flushers : q # p => pc'[q] = pc[q]
  BY <1>2, <1>6
<1>10. at'[p] = 1 /\ pc'[p] \in {"rollback", "exec"}
  BY <1>2, <1>6
<1>11. pc'[Loop] # "idle"
  BY <1>1, <1>4, <1>9, <1>10
<1>12. ASSUME NEW q \in Flushers
       PROVE  /\ pc'[q] \in {"exec", "retry"} => at'[q] <= Len(batch'[q]) + 1
              /\ pc'[q] = "exec" => uncommitted' = SubSeq(batch'[q], 1, at'[q] - 1)
  <2>1. CASE q = p
    BY <1>7, <1>8, <1>10, <2>1
  <2>2. CASE q # p
    BY <1>4, <1>9, <2>2
  <2> QED
    BY <2>1, <2>2
<1>13. inTxn' /\ conn' = "open"
  BY <1>3, <1>6
<1> QED
  BY <1>11, <1>12, <1>13, Zenon DEF TxnShape

(* Every step keeps TxnShape.                                              *)
LEMMA StepShape ==
  ASSUME Callers = {}, ControlInv, TxnShape, [Next]_vars
  PROVE  TxnShape'
<1>1. TypeOK /\ Flushers = {Loop, Closer} /\ Loop # Closer
  BY StoreAssumption DEF ControlInv, Flushers
<1>2. /\ batch \in [Flushers -> Seq(Jobs)] /\ pc \in [Flushers -> Places]
      /\ at \in [Flushers -> Nat \ {0}]
  BY <1>1 DEF TypeOK
<1>3. CASE UNCHANGED vars
  BY <1>3 DEF TxnShape, vars
<1>4. CASE EnqueueWrite
  BY <1>4 DEF EnqueueWrite, TxnShape, dbVars
<1>5. CASE LoopWake
  BY <1>1, <1>5, TakeBatchShape DEF LoopWake
<1>6. ASSUME NEW p \in Flushers, FlusherStep(p) PROVE TxnShape'
  <2>1. pc[p] \in {"exec", "rollback", "retry"} =>
          \A q \in Flushers : q # p => pc[q] \in {"idle", "dead"}
    BY OneAtWork
  <2>2. batch[p] \in Seq(Jobs) /\ Len(batch[p]) \in Nat /\ at[p] \in Nat \ {0}
    BY <1>2, LenProperties
  <2>3. CASE ExecuteJob(p)
    <3>1. pc[p] = "exec" /\ inTxn /\ conn = "open" /\ at[p] \in 1..Len(batch[p])
      BY <2>2, <2>3 DEF ExecuteJob, ControlInv
    <3>2. uncommitted = SubSeq(batch[p], 1, at[p] - 1)
      BY <3>1 DEF TxnShape
    <3>3. /\ UNCHANGED <<conn, batch>> /\ inTxn' = inTxn
          /\ \/ /\ uncommitted' = Append(uncommitted, Current(p))
                /\ at' = [at EXCEPT ![p] = @ + 1] /\ pc' = pc
             \/ pc' = [pc EXCEPT ![p] = "rollback"] /\ at' = at /\ uncommitted' = uncommitted
      BY <2>3, <3>1 DEF ExecuteJob, Apply, dbVars
    <3>4. Append(uncommitted, Current(p)) = SubSeq(batch[p], 1, at[p])
      BY <2>2, <3>1, <3>2, PrefixGrows DEF Current
    <3>5. pc'[Loop] # "idle"
      <4>1. p # Loop => pc[Loop] = "dead"
        BY <1>1, <3>1 DEF ControlInv
      <4> QED
        BY <1>1, <1>2, <3>1, <3>3, <4>1
    <3>6. ASSUME NEW q \in Flushers
          PROVE  /\ pc'[q] \in {"exec", "retry"} => at'[q] <= Len(batch'[q]) + 1
                 /\ pc'[q] = "exec" => uncommitted' = SubSeq(batch'[q], 1, at'[q] - 1)
      <4>1. CASE q # p
        BY <1>2, <2>1, <3>1, <3>3, <4>1
      <4>2. CASE q = p /\ pc' = [pc EXCEPT ![p] = "rollback"]
        BY <1>2, <4>2
      <4>3. CASE q = p /\ pc' = pc /\ at' = [at EXCEPT ![p] = @ + 1]
                 /\ uncommitted' = Append(uncommitted, Current(p))
        <5>1. at'[p] = at[p] + 1 /\ at'[p] - 1 = at[p]
          BY <1>2, <2>2, <4>3
        <5> QED
          BY <2>2, <3>1, <3>3, <3>4, <4>3, <5>1
      <4> QED
        BY <3>3, <4>1, <4>2, <4>3
    <3>7. inTxn' /\ conn' = "open"
      BY <3>1, <3>3
    <3> QED
      BY <3>5, <3>6, <3>7, Zenon DEF TxnShape
  <2>4. ASSUME pc[p] \in {"exec", "rollback", "retry"},
               pc'[p] # "exec", \A q \in Flushers : q # p => pc'[q] = pc[q],
               pc'[p] = "retry" => at'[p] <= Len(batch'[p]) + 1,
               inTxn' = FALSE, uncommitted' = <<>>
        PROVE  TxnShape'
    BY <2>1, <2>4 DEF TxnShape
  <2>5. CASE Commit(p)
    <3>1. /\ inTxn' = FALSE /\ uncommitted' = <<>> /\ pc[p] = "exec"
          /\ pc' = [pc EXCEPT ![p] = IF p = Loop THEN "idle" ELSE "check"]
      BY <2>5 DEF Commit, EndBatch, ControlInv
    <3> QED
      BY <1>2, <2>4, <3>1
  <2>6. CASE Rollback(p)
    <3>1. /\ inTxn' = FALSE /\ uncommitted' = <<>> /\ pc[p] = "rollback"
          /\ pc' = [pc EXCEPT ![p] = "retry"]
          /\ at' = [at EXCEPT ![p] = 1] /\ batch' = batch
      BY <2>6 DEF Rollback, ControlInv
    <3>2. at'[p] <= Len(batch'[p]) + 1
      BY <1>2, <2>2, <3>1
    <3> QED
      BY <1>2, <2>4, <3>1, <3>2
  <2>7. CASE RetryJob(p)
    <3>1. /\ inTxn' = FALSE /\ uncommitted' = <<>>
          /\ pc[p] = "retry" /\ at[p] <= Len(batch[p])
      BY <2>7 DEF RetryJob, Apply, dbVars, ControlInv, TxnShape
    <3>2. \/ /\ at' = [at EXCEPT ![p] = @ + 1]
             /\ pc' = pc /\ batch' = batch
          \/ pc' = [pc EXCEPT ![p] = IF p = Loop THEN "idle" ELSE "check"]
      BY <2>7 DEF RetryJob, EndBatch
    <3>3. pc'[p] # "exec" /\ \A q \in Flushers : q # p => pc'[q] = pc[q]
      BY <1>2, <3>1, <3>2
    <3>4. pc'[p] = "retry" => at'[p] <= Len(batch'[p]) + 1
      BY <1>2, <2>2, <3>1, <3>2
    <3> QED
      BY <2>4, <3>1, <3>3, <3>4
  <2>8. CASE FlushAll(p)
    BY <2>8, TakeBatchShape DEF FlushAll
  <2> QED
    BY <1>6, <2>3, <2>5, <2>6, <2>7, <2>8 DEF FlusherStep
<1>7. ASSUME NEW p \in Flushers, FlushHangs(p) PROVE TxnShape'
  BY <1>1, <1>2, <1>7 DEF FlushHangs, dbVars, TxnShape
<1>8. CASE StartClose
  <2>1. /\ UNCHANGED <<conn, inTxn, uncommitted>> /\ conn = "open"
        /\ pc'[Loop] = "dead" /\ pc'[Closer] = "check"
    BY <1>1, <1>2, <1>8 DEF StartClose, dbVars
  <2> QED
    BY <1>1, <2>1 DEF TxnShape
<1>9. CASE CloseConnection
  <2>1. /\ inTxn' = FALSE /\ uncommitted' = <<>>
        /\ pc'[Loop] = "dead" /\ pc'[Closer] = "closing"
    BY <1>1, <1>2, <1>9 DEF CloseConnection, ControlInv
  <2> QED
    BY <1>1, <2>1 DEF TxnShape
<1>10. CASE Closed
  <2>1. UNCHANGED <<inTxn, uncommitted>> /\ ~inTxn
        /\ pc'[Loop] = "dead" /\ pc'[Closer] = "idle"
    BY <1>1, <1>2, <1>10 DEF Closed, ControlInv, TxnShape, dbVars
  <2> QED
    BY <1>1, <2>1 DEF TxnShape
<1>11. CASE Connect
  <2>1. UNCHANGED <<inTxn, uncommitted>> /\ ~inTxn
        /\ pc'[Loop] = "idle" /\ pc'[Closer] = "idle"
    BY <1>1, <1>2, <1>11 DEF Connect, ControlInv, TxnShape, dbVars
  <2> QED
    BY <1>1, <2>1 DEF TxnShape
<1>12. CASE Crash
  BY <1>1, <1>12 DEF Crash, TxnShape
<1> QED
  BY <1>1, <1>3, <1>4, <1>5, <1>6, <1>7, <1>8, <1>9, <1>10, <1>11, <1>12 DEF Next
-----------------------------------------------------------------------------
(* When the other flusher holds nothing, what waits is what p holds and    *)
(* then the queue.                                                         *)
HeldInOrder ==
  \A p \in Flushers :
    (\A q \in Flushers : q # p => batch[q] = <<>>)
      => Unsettled(p) \in Seq(Jobs) /\ Waiting = Unsettled(p) \o queue

LEMMA HeldByOne == Callers = {} /\ TypeOK /\ TxnShape => HeldInOrder
<1> SUFFICES ASSUME Callers = {}, TypeOK, TxnShape, NEW p \in Flushers,
                    \A q \in Flushers : q # p => batch[q] = <<>>
             PROVE  Unsettled(p) \in Seq(Jobs) /\ Waiting = Unsettled(p) \o queue
  BY DEF HeldInOrder
<1>1. Flushers = {Loop, Closer} /\ Loop # Closer
  BY StoreAssumption DEF Flushers
<1>2. queue \in Seq(Jobs) /\ \A q \in Flushers : batch[q] \in Seq(Jobs) /\ at[q] \in Nat \ {0}
  BY DEF TypeOK
<1>3. Unsettled(p) \in Seq(Jobs)
  <2>1. CASE pc[p] = "retry"
    <3>1. Len(batch[p]) \in Nat /\ at[p] \in 1..Len(batch[p]) + 1
      BY <1>2, <2>1, LenProperties DEF TxnShape
    <3>2. at[p] - 1 \in 0..Len(batch[p]) /\ at[p] - 1 + 1 = at[p]
      BY <3>1
    <3>3. SubSeq(batch[p], at[p] - 1 + 1, Len(batch[p])) \in Seq(Jobs)
      BY <1>2, <3>2, SplitType
    <3> QED
      BY <2>1, <3>2, <3>3 DEF Unsettled
  <2>2. CASE pc[p] # "retry"
    BY <1>2, <2>2 DEF Unsettled
  <2> QED
    BY <2>1, <2>2
<1>4. ASSUME NEW q \in Flushers, q # p PROVE Unsettled(q) = <<>>
  <2>1. batch[q] = <<>> /\ Len(<<>>) = 0 /\ at[q] \in Int /\ 0 < at[q]
    BY <1>2, <1>4
  <2>2. SubSeq(<<>>, at[q], 0) = <<>>
    BY <2>1, SubSeqEmpty
  <2> QED
    BY <2>1, <2>2 DEF Unsettled
<1>5. Waiting = Unsettled(p) \o queue
  <2>1. Unsettled(p) \o <<>> = Unsettled(p) /\ <<>> \o Unsettled(p) = Unsettled(p)
    BY <1>3, ConcatEmptySeq
  <2>2. CASE p = Loop
    BY <1>1, <1>4, <2>1, <2>2 DEF Waiting
  <2>3. CASE p = Closer
    BY <1>1, <1>4, <2>1, <2>3 DEF Waiting
  <2> QED
    BY <1>1, <2>2, <2>3
<1> QED
  BY <1>3, <1>5

(* What a flusher holds has been submitted.                                *)
LEMMA UnsettledSubmitted ==
  ASSUME TypeOK, TxnShape, Submitted, NEW p \in Flushers
  PROVE  Unsettled(p) \in Seq(1..submitted)
<1>1. CASE pc[p] = "retry"
  <2>1. Len(batch[p]) \in Nat /\ at[p] \in 1..Len(batch[p]) + 1
    BY <1>1, LenProperties DEF TypeOK, TxnShape
  <2>2. at[p] - 1 \in 0..Len(batch[p]) /\ at[p] - 1 + 1 = at[p]
    BY <2>1
  <2>3. SubSeq(batch[p], at[p] - 1 + 1, Len(batch[p])) \in Seq(1..submitted)
    BY <2>2, SplitType DEF Submitted
  <2> QED
    BY <1>1, <2>2, <2>3 DEF Unsettled
<1>2. CASE pc[p] # "retry"
  BY <1>2 DEF Submitted, Unsettled
<1> QED
  BY <1>1, <1>2

(* Steps that leave what waits and the database alone are stutters of the  *)
(* log; the oldest waiting jobs becoming durable, or given up, are its     *)
(* Settle.                                                                 *)
LEMMA LogStutters ==
  ASSUME Waiting' = Waiting, db' = db
  PROVE  [Log!Next]_(Log!vars)
BY DEF Waiting, Log!vars

LEMMA LogSettles ==
  ASSUME NEW s \in Seq(Jobs), NEW t \in Seq(Jobs),
         Waiting = s \o t, Waiting' = t, db' = db \/ db' = db \o s, db \in Seq(Jobs)
  PROVE  [Log!Next]_(Log!vars)
<1>1. CASE s = <<>>
  <2>1. s \o t = t /\ db \o s = db
    BY <1>1, ConcatEmptySeq
  <2> QED
    BY <2>1, LogStutters
<1>2. CASE s # <<>>
  <2>1. Len(s) \in 1..Len(Waiting) /\ SubSeq(Waiting, 1, Len(s)) = s
        /\ SubSeq(Waiting, Len(s) + 1, Len(Waiting)) = t
    <3>1. Len(s) \in Nat \ {0}
      BY <1>2, EmptySeq, LenProperties
    <3>2. Len(s) \in 0..Len(s \o t) /\ SubSeq(s \o t, 1, Len(s)) = s
          /\ SubSeq(s \o t, Len(s) + 1, Len(s \o t)) = t
      BY CutConcat
    <3>3. Len(s) \in 1..Len(s \o t)
      BY <3>1, <3>2
    <3> QED
      BY <3>2, <3>3
  <2>2. CASE db' = db
    <3>1. Log!Discard(Len(s))
      BY <2>1, <2>2 DEF Log!Discard, Waiting
    <3> QED
      BY <2>1, <3>1 DEF Log!Next, Log!Settle, Waiting
  <2>3. CASE db' = db \o s
    <3>1. Log!Persist(Len(s))
      BY <2>1, <2>3 DEF Log!Persist, Waiting
    <3> QED
      BY <2>1, <3>1 DEF Log!Next, Log!Settle, Waiting
  <2> QED
    BY <2>2, <2>3
<1> QED
  BY <1>1, <1>2

(* What the store does is what the log does.                               *)
LEMMA StepLog ==
  ASSUME Callers = {}, ControlInv, TxnShape, Submitted, [Next]_vars
  PROVE  [Log!Next]_(Log!vars)
<1>1. TypeOK /\ TypeOK' /\ Flushers = {Loop, Closer} /\ Loop # Closer
  BY StoreAssumption, StepType DEF ControlInv, Flushers
<1>2. /\ batch \in [Flushers -> Seq(Jobs)] /\ pc \in [Flushers -> Places]
      /\ at \in [Flushers -> Nat \ {0}] /\ queue \in Seq(Jobs) /\ db \in Seq(Jobs)
  BY <1>1 DEF TypeOK
<1>3. TxnShape'
  BY StepShape
<1>4. ASSUME NEW p \in Flushers, \A q \in Flushers : q # p => batch[q] = <<>>
      PROVE  Unsettled(p) \in Seq(Jobs) /\ Waiting = Unsettled(p) \o queue
  BY <1>1, <1>4, HeldByOne DEF HeldInOrder
<1>5. ASSUME NEW p \in Flushers, \A q \in Flushers : q # p => batch'[q] = <<>>
      PROVE  Unsettled(p)' \in Seq(Jobs) /\ Waiting' = Unsettled(p)' \o queue'
  <2>1. (Callers = {} /\ TypeOK /\ TxnShape => HeldInOrder)'
    BY HeldByOne, PTL
  <2> QED
    BY <1>1, <1>3, <1>5, <2>1 DEF HeldInOrder
<1>6. ASSUME NEW p \in Flushers, pc[p] \notin {"idle", "dead", "closing"} \/ (p = Loop /\ pc[Closer] = "idle")
      PROVE  \A q \in Flushers : q # p => batch[q] = <<>>
  BY <1>1, <1>2, <1>6 DEF ControlInv, Places
<1>7. ASSUME UNCHANGED <<queue, batch, at, db>>,
             \A q \in Flushers : pc'[q] = "retry" <=> pc[q] = "retry"
      PROVE  [Log!Next]_(Log!vars)
  <2>1. Waiting' = Waiting
    BY <1>1, <1>7 DEF Waiting, Unsettled
  <2> QED
    BY <1>7, <2>1, LogStutters
<1>8. CASE UNCHANGED vars
  BY <1>7, <1>8 DEF vars
<1>9. CASE EnqueueWrite
  <2>1. /\ UNCHANGED <<batch, at, pc, db>>
        /\ queue' = Append(queue, submitted + 1) \/ queue' = queue
        /\ submitted + 1 \in Jobs
    BY <1>1, <1>9, StoreAssumption DEF EnqueueWrite, dbVars, TypeOK, Jobs
  <2>2. CASE queue' = queue
    BY <1>7, <2>1, <2>2
  <2>3. CASE queue' = Append(queue, submitted + 1)
    <3>1. PICK p \in Flushers : \A q \in Flushers : q # p => batch[q] = <<>>
      BY <1>1, <1>2 DEF ControlInv, Places
    <3>2. /\ Unsettled(p) \in Seq(Jobs) /\ Waiting = Unsettled(p) \o queue
          /\ Waiting' = Unsettled(p) \o queue'
      BY <1>4, <1>5, <2>1, <3>1 DEF Unsettled
    <3>3. Waiting' = Append(Waiting, submitted + 1)
      <4>1. \A e \in Jobs : Unsettled(p) \o Append(queue, e) = Append(Unsettled(p) \o queue, e)
        BY <1>2, <3>2, AppendBehind
      <4> QED
        BY <2>1, <2>3, <3>2, <4>1
    <3>4. \A k \in ToSet(Waiting) \cup ToSet(db) : k < submitted + 1
      <4>1. Unsettled(p) \in Seq(1..submitted)
        BY <1>1, UnsettledSubmitted
      <4>2. Waiting \in Seq(1..submitted) /\ db \in Seq(1..submitted)
        BY <3>2, <4>1, ConcatProperties DEF Submitted
      <4>3. ASSUME NEW s \in Seq(1..submitted) PROVE ToSet(s) \subseteq 1..submitted
        <5>1. ToSet(s) = {s[i] : i \in 1..Len(s)} /\ \A i \in 1..Len(s) : s[i] \in 1..submitted
          BY Elements
        <5> QED
          BY <5>1
      <4>4. submitted \in Nat
        BY <1>1 DEF TypeOK
      <4> QED
        BY <4>2, <4>3, <4>4
    <3>5. Log!Accept(submitted + 1)
      BY <2>1, <3>3, <3>4 DEF Log!Accept, Log!ToSet, ToSet, Waiting
    <3> QED
      BY <2>1, <3>5 DEF Log!Next
  <2> QED
    BY <2>1, <2>2, <2>3
<1>10. ASSUME NEW p \in Flushers, TakeBatch(p),
              (p = Loop /\ pc[p] = "idle") \/ pc[p] = "check"
       PROVE  [Log!Next]_(Log!vars)
  <2> DEFINE n == IF Len(queue) < BatchMax THEN Len(queue) ELSE BatchMax
  <2>1. n \in 0..Len(queue)
    BY <1>1, StoreAssumption, SMTT(20) DEF TypeOK
  <2>2. SubSeq(queue, 1, n) \o SubSeq(queue, n + 1, Len(queue)) = queue
    BY <1>2, <2>1, SplitJoins
  <2>3. /\ batch' = [batch EXCEPT ![p] = SubSeq(queue, 1, n)]
        /\ queue' = SubSeq(queue, n + 1, Len(queue)) /\ db' = db
        /\ \E x \in {"exec", "rollback"} : pc' = [pc EXCEPT ![p] = x]
    BY <1>10 DEF TakeBatch, dbVars
  <2> HIDE DEF n
  <2>4. pc[Closer] = "idle" \/ p = Closer
    BY <1>1, <1>10 DEF ControlInv
  <2>5. \A q \in Flushers : q # p => batch[q] = <<>>
    BY <1>6, <1>10, <2>4
  <2>6. \A q \in Flushers : q # p => batch'[q] = <<>>
    BY <1>2, <2>3, <2>5
  <2>7. Unsettled(p) = <<>> /\ Unsettled(p)' = SubSeq(queue, 1, n)
    BY <1>1, <1>2, <1>10, <2>3 DEF ControlInv, Unsettled
  <2>8. Waiting = queue /\ Waiting' = queue
    BY <1>2, <1>4, <1>5, <2>2, <2>3, <2>5, <2>6, <2>7, ConcatEmptySeq
  <2> QED
    BY <2>3, <2>8, LogStutters
<1>11. CASE LoopWake
  BY <1>1, <1>10, <1>11 DEF LoopWake
<1>12. ASSUME NEW p \in Flushers, FlusherStep(p) PROVE [Log!Next]_(Log!vars)
  <2>1. CASE ExecuteJob(p)
    <3>1. inTxn /\ pc[p] = "exec"
      BY <2>1 DEF ExecuteJob, ControlInv
    <3>2. /\ UNCHANGED <<queue, batch, db>>
          /\ pc' = pc \/ pc' = [pc EXCEPT ![p] = "rollback"]
          /\ \A q \in Flushers : q # p => at'[q] = at[q]
      BY <1>2, <2>1, <3>1 DEF ExecuteJob, Apply, dbVars
    <3>3. \A q \in Flushers : Unsettled(q)' = Unsettled(q)
      BY <1>2, <3>1, <3>2 DEF Unsettled
    <3>4. Waiting' = Waiting
      BY <1>1, <3>2, <3>3 DEF Waiting
    <3> QED
      BY <3>2, <3>4, LogStutters
  <2>2. ASSUME pc[p] \in {"exec", "rollback", "retry"},
               \/ batch' = batch
               \/ batch' = [batch EXCEPT ![p] = <<>>]
        PROVE  \A q \in Flushers : q # p => batch[q] = <<>> /\ batch'[q] = <<>>
    BY <1>2, <1>6, <2>2
  <2>3. CASE Commit(p)
    <3>1. /\ pc[p] = "exec" /\ at[p] > Len(batch[p]) /\ queue' = queue
          /\ db' = db \o uncommitted
          /\ pc' = [pc EXCEPT ![p] = IF p = Loop THEN "idle" ELSE "check"]
          /\ batch' = [batch EXCEPT ![p] = <<>>]
      BY <2>3 DEF Commit, EndBatch, ControlInv
    <3>2. uncommitted = batch[p]
      <4>1. at[p] <= Len(batch[p]) + 1 /\ uncommitted = SubSeq(batch[p], 1, at[p] - 1)
        BY <3>1 DEF TxnShape
      <4>2. batch[p] \in Seq(Jobs) /\ Len(batch[p]) \in Nat /\ at[p] \in Nat
        BY <1>2, LenProperties
      <4>3. at[p] - 1 = Len(batch[p])
        BY <3>1, <4>1, <4>2
      <4> QED
        BY <4>1, <4>2, <4>3, SubSeqFull
    <3>3. Unsettled(p) = batch[p] /\ Unsettled(p)' = <<>>
      BY <1>2, <3>1 DEF Unsettled
    <3>4. Waiting = batch[p] \o queue /\ Waiting' = queue
      BY <1>2, <1>4, <1>5, <2>2, <3>1, <3>3, ConcatEmptySeq
    <3> QED
      BY <1>2, <3>1, <3>2, <3>4, LogSettles
  <2>4. CASE Rollback(p)
    <3>1. /\ UNCHANGED <<queue, batch, db>> /\ pc[p] = "rollback"
          /\ pc' = [pc EXCEPT ![p] = "retry"]
          /\ at' = [at EXCEPT ![p] = 1]
      BY <2>4 DEF Rollback, ControlInv
    <3>2. Unsettled(p)' = Unsettled(p)
      BY <1>2, <3>1, SubSeqFull DEF Unsettled
    <3>3. \A q \in Flushers : q # p => Unsettled(q)' = Unsettled(q)
      BY <1>2, <3>1 DEF Unsettled
    <3>4. Waiting' = Waiting
      BY <1>1, <3>1, <3>2, <3>3 DEF Waiting
    <3> QED
      BY <3>1, <3>4, LogStutters
  <2>5. CASE RetryJob(p)
    <3>1. /\ pc[p] = "retry" /\ at[p] <= Len(batch[p]) /\ queue' = queue
          /\ db' = Append(db, Current(p)) \/ db' = db
      BY <2>5 DEF RetryJob, Apply, dbVars, ControlInv
    <3>2. /\ batch[p] \in Seq(Jobs) /\ Len(batch[p]) \in Nat
          /\ at[p] \in 1..Len(batch[p]) /\ Len(batch[p]) \in at[p]..Len(batch[p])
      BY <1>2, <3>1, LenProperties
    <3>3. \/ /\ at[p] = Len(batch[p])
             /\ pc' = [pc EXCEPT ![p] = IF p = Loop THEN "idle" ELSE "check"]
             /\ batch' = [batch EXCEPT ![p] = <<>>]
          \/ /\ at' = [at EXCEPT ![p] = @ + 1]
             /\ UNCHANGED <<pc, batch>>
      BY <2>5 DEF RetryJob, EndBatch
    <3>4. Unsettled(p)' = SubSeq(batch[p], at[p] + 1, Len(batch[p]))
      <4>1. CASE at[p] = Len(batch[p]) /\ pc' = [pc EXCEPT ![p] = IF p = Loop THEN "idle" ELSE "check"]
                   /\ batch' = [batch EXCEPT ![p] = <<>>]
        <5>1. SubSeq(batch[p], at[p] + 1, Len(batch[p])) = <<>>
          BY <3>2, <4>1, SubSeqEmpty
        <5> QED
          BY <1>2, <4>1, <5>1 DEF Unsettled
      <4>2. CASE at' = [at EXCEPT ![p] = @ + 1] /\ UNCHANGED <<pc, batch>>
        BY <1>2, <3>1, <4>2 DEF Unsettled
      <4> QED
        BY <3>3, <4>1, <4>2
    <3>5. Unsettled(p) = <<Current(p)>> \o Unsettled(p)' /\ Current(p) \in Jobs
      BY <3>1, <3>2, <3>4, SubSeqRecursiveFirst, ElementOfSeq DEF Unsettled, Current
    <3>6. /\ Waiting = Unsettled(p) \o queue /\ Waiting' = Unsettled(p)' \o queue
          /\ Unsettled(p)' \in Seq(Jobs)
      BY <1>4, <1>5, <2>2, <3>1, <3>3
    <3>7. <<Current(p)>> \in Seq(Jobs) /\ Waiting' \in Seq(Jobs)
      BY <1>2, <3>5, <3>6, ConcatProperties
    <3>8. Waiting = <<Current(p)>> \o Waiting'
      BY <1>2, <3>5, <3>6, <3>7, ConcatAssociative
    <3>9. Append(db, Current(p)) = db \o <<Current(p)>>
      BY <1>2, <3>5, AppendIsConcat
    <3> QED
      BY <1>2, <3>1, <3>7, <3>8, <3>9, LogSettles
  <2>6. CASE FlushAll(p)
    BY <1>10, <2>6 DEF FlushAll
  <2> QED
    BY <1>12, <2>1, <2>3, <2>4, <2>5, <2>6 DEF FlusherStep
<1>13. ASSUME NEW p \in Flushers, FlushHangs(p) PROVE [Log!Next]_(Log!vars)
  BY <1>2, <1>7, <1>13 DEF FlushHangs, dbVars
<1>14. CASE StartClose
  <2>1. /\ UNCHANGED <<queue, db>> /\ pc[Closer] = "idle"
        /\ batch' = [batch EXCEPT ![Loop] = <<>>]
        /\ pc' = [pc EXCEPT ![Loop] = "dead", ![Closer] = "check"]
    BY <1>14 DEF StartClose, dbVars
  <2>2. batch[Closer] = <<>>
    BY <1>1, <2>1 DEF ControlInv
  <2>3. Unsettled(Loop)' = <<>>
    BY <1>1, <1>2, <2>1 DEF Unsettled
  <2>4. /\ Unsettled(Loop) \in Seq(Jobs) /\ Waiting = Unsettled(Loop) \o queue
        /\ Waiting' = <<>> \o queue
    BY <1>1, <1>2, <1>4, <1>5, <2>1, <2>2, <2>3
  <2>5. Waiting' = queue
    BY <1>2, <2>4, ConcatEmptySeq
  <2> QED
    BY <1>2, <2>1, <2>4, <2>5, LogSettles
<1>15. CASE CloseConnection
  BY <1>2, <1>7, <1>15 DEF CloseConnection
<1>16. CASE Closed
  BY <1>2, <1>7, <1>16 DEF Closed, dbVars
<1>17. CASE Connect
  <2>1. pc[Loop] = "dead"
    BY <1>17 DEF Connect, ControlInv
  <2> QED
    BY <1>2, <1>7, <1>17, <2>1 DEF Connect, dbVars
<1>18. CASE Crash
  <2>1. /\ queue' = <<>> /\ db' = db /\ batch' = [p \in Flushers |-> <<>>]
        /\ pc' = [p \in Flushers |-> IF p = Loop THEN "dead" ELSE "idle"]
    BY <1>18 DEF Crash
  <2>2. Unsettled(Loop)' = <<>> /\ Unsettled(Closer)' = <<>>
    BY <1>1, <2>1 DEF Unsettled
  <2>3. Waiting' = <<>>
    BY <2>1, <2>2, EmptySeq, ConcatEmptySeq DEF Waiting
  <2>4. Log!Crash
    BY <2>1, <2>3 DEF Log!Crash, Waiting
  <2> QED
    BY <2>4 DEF Log!Next
<1> QED
  BY <1>1, <1>8, <1>9, <1>11, <1>12, <1>13, <1>14, <1>15, <1>16, <1>17, <1>18 DEF Next
-----------------------------------------------------------------------------
(* Each element is less than those behind it.                              *)
Increasing(s) == \A i, k \in 1..Len(s) : i < k => s[i] < s[k]

(* The order of the log: what is durable, then what waits, as submitted.   *)
(* A batch that becomes durable changes nothing in it.                     *)
Ordered == Increasing(db \o Waiting)

(* A greater element at the end keeps a sequence increasing.               *)
LEMMA IncreasingAppend ==
  ASSUME NEW s \in Seq(Nat), NEW e \in Nat, Increasing(s), \A i \in 1..Len(s) : s[i] < e
  PROVE  Increasing(Append(s, e))
<1>1. /\ Len(Append(s, e)) = Len(s) + 1 /\ Append(s, e)[Len(s) + 1] = e
      /\ \A i \in 1..Len(s) : Append(s, e)[i] = s[i]
      /\ Len(s) \in Nat
  BY AppendProperties, LenProperties
<1>2. ASSUME NEW i \in 1..Len(s) + 1, NEW k \in 1..Len(s) + 1, i < k
      PROVE  Append(s, e)[i] < Append(s, e)[k]
  <2>1. i \in 1..Len(s)
    BY <1>1, <1>2
  <2>2. CASE k = Len(s) + 1
    BY <1>1, <2>1, <2>2
  <2>3. CASE k \in 1..Len(s)
    BY <1>1, <1>2, <2>1, <2>3 DEF Increasing
  <2> QED
    BY <1>1, <2>2, <2>3
<1> QED
  BY <1>1, <1>2 DEF Increasing

(* Removing elements from the middle keeps a sequence increasing.          *)
LEMMA IncreasingCut ==
  ASSUME NEW s \in Seq(Nat), NEW t \in Seq(Nat), Increasing(s \o t), NEW n \in 0..Len(t)
  PROVE  Increasing(s \o SubSeq(t, n + 1, Len(t)))
<1> DEFINE u == SubSeq(t, n + 1, Len(t))
           from(i) == IF i <= Len(s) THEN i ELSE i + n
<1>1. Len(s) \in Nat /\ Len(t) \in Nat
  BY LenProperties
<1>2. u \in Seq(Nat)
  BY SplitType
<1>3. Len(u) = Len(t) - n /\ \A i \in 1..Len(t) - n : u[i] = t[i + n]
  BY SMT
<1> HIDE DEF u
<1>4. /\ Len(s \o t) = Len(s) + Len(t)
      /\ \A i \in 1..Len(s) + Len(t) : (s \o t)[i] = IF i <= Len(s) THEN s[i] ELSE t[i - Len(s)]
  BY ConcatProperties
<1>5. /\ Len(s \o u) = Len(s) + Len(u)
      /\ \A i \in 1..Len(s) + Len(u) : (s \o u)[i] = IF i <= Len(s) THEN s[i] ELSE u[i - Len(s)]
  BY <1>2, ConcatProperties
<1>6. ASSUME NEW i \in 1..Len(s \o u)
      PROVE  from(i) \in 1..Len(s \o t) /\ (s \o u)[i] = (s \o t)[from(i)]
  <2>1. CASE i <= Len(s)
    BY <1>1, <1>3, <1>4, <1>5, <2>1
  <2>2. CASE ~(i <= Len(s))
    <3>1. i - Len(s) \in 1..Len(t) - n /\ i + n \in 1..Len(s) + Len(t)
          /\ ~(i + n <= Len(s)) /\ i + n - Len(s) = i - Len(s) + n
      BY <1>1, <1>3, <1>5, <2>2
    <3>2. from(i) = i + n
      BY <2>2
    <3> HIDE DEF from
    <3>3. (s \o u)[i] = u[i - Len(s)] /\ u[i - Len(s)] = t[i - Len(s) + n]
      BY <1>3, <1>5, <2>2, <3>1
    <3>4. (s \o t)[i + n] = t[i + n - Len(s)]
      BY <1>4, <3>1, SMTT(20)
    <3> QED
      BY <1>4, <3>1, <3>2, <3>3, <3>4
  <2> QED
    BY <2>1, <2>2
<1>7. \A i, k \in 1..Len(s \o u) : i < k => from(i) < from(k)
  BY <1>1, <1>3, <1>5
<1> HIDE DEF from
<1>8. Increasing(s \o u)
  BY <1>6, <1>7 DEF Increasing
<1> QED
  BY <1>8 DEF u

(* What waits is a sequence of submitted jobs.                             *)
LEMMA WaitingSubmitted ==
  ASSUME TypeOK, TxnShape, Submitted
  PROVE  Waiting \in Seq(1..submitted) /\ Waiting \in Seq(Jobs) /\ db \in Seq(Jobs)
<1>1. Unsettled(Loop) \in Seq(1..submitted) /\ Unsettled(Closer) \in Seq(1..submitted)
      /\ queue \in Seq(1..submitted)
  BY UnsettledSubmitted DEF Submitted, Flushers
<1>2. Unsettled(Loop) \o Unsettled(Closer) \in Seq(1..submitted)
  BY <1>1, ConcatProperties
<1>3. Waiting \in Seq(1..submitted)
  BY <1>1, <1>2, ConcatProperties DEF Waiting
<1>4. 1..submitted \subseteq Jobs
  BY StoreAssumption DEF TypeOK, Jobs
<1>5. Waiting \in Seq(Jobs)
  BY <1>3, <1>4, SeqMonotonic
<1> QED
  BY <1>3, <1>5 DEF TypeOK

(* Every step of the log keeps the order.                                  *)
LEMMA LogKeepsOrder ==
  ASSUME TypeOK, TxnShape, Submitted, Ordered, [Log!Next]_(Log!vars)
  PROVE  Ordered'
<1>1. Waiting \in Seq(Jobs) /\ db \in Seq(Jobs)
  BY WaitingSubmitted
<1>2. Jobs \subseteq Nat
  BY StoreAssumption DEF Jobs
<1>3. /\ Waiting \in Seq(Nat) /\ db \in Seq(Nat) /\ db \o Waiting \in Seq(Nat)
      /\ Len(Waiting) \in Nat
  <2>1. Waiting \in Seq(Nat) /\ db \in Seq(Nat)
    BY <1>1, <1>2, SeqMonotonic
  <2> QED
    BY <2>1, ConcatProperties, LenProperties
<1>4. CASE Log!vars' = Log!vars
  BY <1>4 DEF Log!vars, Ordered, Waiting
<1>5. ASSUME NEW n \in 0..Len(Waiting), Waiting' = SubSeq(Waiting, n + 1, Len(Waiting)),
             db' = db
      PROVE  Ordered'
  BY <1>3, <1>5, IncreasingCut DEF Ordered
<1>6. ASSUME NEW j \in Jobs, Log!Accept(j) PROVE Ordered'
  <2>1. /\ Waiting' = Append(Waiting, j) /\ db' = db
        /\ \A k \in ToSet(Waiting) \cup ToSet(db) : k < j
    BY <1>6 DEF Log!Accept, Log!ToSet, ToSet, Waiting
  <2>2. ASSUME NEW i \in 1..Len(db \o Waiting) PROVE (db \o Waiting)[i] < j
    <3>1. (db \o Waiting)[i] \in ToSet(db) \cup ToSet(Waiting)
      <4>1. ToSet(db) = {db[k] : k \in 1..Len(db)}
            /\ ToSet(Waiting) = {Waiting[k] : k \in 1..Len(Waiting)}
        BY <1>3, Elements
      <4>2. /\ Len(db \o Waiting) = Len(db) + Len(Waiting) /\ Len(db) \in Nat
            /\ \A k \in 1..Len(db) + Len(Waiting) :
                 (db \o Waiting)[k] = IF k <= Len(db) THEN db[k] ELSE Waiting[k - Len(db)]
        BY <1>3, ConcatProperties, LenProperties
      <4>3. i <= Len(db) => i \in 1..Len(db)
        BY <4>2
      <4>4. ~(i <= Len(db)) => i - Len(db) \in 1..Len(Waiting)
        BY <1>3, <4>2
      <4> QED
        BY <4>1, <4>2, <4>3, <4>4
    <3> QED
      BY <2>1, <3>1
  <2>3. Increasing(Append(db \o Waiting, j))
    BY <1>2, <1>3, <2>2, IncreasingAppend DEF Ordered
  <2>4. db \o Append(Waiting, j) = Append(db \o Waiting, j)
    BY <1>1, AppendBehind
  <2> QED
    BY <2>1, <2>3, <2>4 DEF Ordered
<1>7. ASSUME NEW n \in 1..Len(Waiting), Log!Persist(n) PROVE Ordered'
  <2>1. db' = db \o SubSeq(Waiting, 1, n) /\ Waiting' = SubSeq(Waiting, n + 1, Len(Waiting))
    BY <1>7 DEF Log!Persist, Waiting
  <2>2. (db \o SubSeq(Waiting, 1, n)) \o SubSeq(Waiting, n + 1, Len(Waiting)) = db \o Waiting
    <3>1. n \in 0..Len(Waiting)
      BY <1>3
    <3> QED
      BY <1>1, <3>1, MoveFront
  <2> QED
    BY <2>1, <2>2 DEF Ordered
<1>8. ASSUME NEW n \in 1..Len(Waiting), Log!Discard(n) PROVE Ordered'
  <2>1. db' = db /\ Waiting' = SubSeq(Waiting, n + 1, Len(Waiting)) /\ n \in 0..Len(Waiting)
    BY <1>3, <1>8 DEF Log!Discard, Waiting
  <2> QED
    BY <1>5, <2>1
<1>9. CASE Log!Crash
  <2>1. db' = db /\ Waiting' = <<>>
    BY <1>9 DEF Log!Crash, Waiting
  <2>2. SubSeq(Waiting, Len(Waiting) + 1, Len(Waiting)) = <<>>
    BY <1>3, SubSeqEmpty
  <2> QED
    BY <1>3, <1>5, <2>1, <2>2
<1>10. (\E n \in 1..Len(Waiting) : Log!Persist(n) \/ Log!Discard(n)) <=> Log!Settle
  BY DEF Log!Settle, Waiting
<1> QED
  BY <1>4, <1>6, <1>7, <1>8, <1>9, <1>10 DEF Log!Next
-----------------------------------------------------------------------------
(* Everything the proofs know of a store without callers of flush().       *)
LogInv == ControlInv /\ LossInv /\ TxnShape /\ Submitted /\ Ordered

(* A job in the queue or in a flusher's hands waits, or the retry has      *)
(* settled it.                                                             *)
LEMMA HeldWaits ==
  ASSUME Callers = {}, LogInv, NEW x \in ToSet(queue) \cup InFlight
  PROVE  x \in ToSet(Waiting) \/ x \in Durable \cup dropped
<1>1. TypeOK /\ Flushers = {Loop, Closer} /\ Loop # Closer
  BY StoreAssumption DEF LogInv, ControlInv, Flushers
<1>2. /\ queue \in Seq(Jobs) /\ batch \in [Flushers -> Seq(Jobs)]
      /\ at \in [Flushers -> Nat \ {0}]
  BY <1>1 DEF TypeOK
<1>3. PICK p \in Flushers : x \in ToSet(queue) \/ x \in ToSet(batch[p])
  BY <1>1 DEF InFlight
<1>4. PICK q \in Flushers :
        /\ \A r \in Flushers : r # q => batch[r] = <<>>
        /\ x \in ToSet(queue) \/ x \in ToSet(batch[q])
  <2>1. \A s : x \in ToSet(s) => s # <<>>
    BY DEF ToSet
  <2>2. batch[Loop] = <<>> \/ batch[Closer] = <<>>
    BY <1>1 DEF LogInv, ControlInv
  <2> QED
    BY <1>1, <1>3, <2>1, <2>2
<1>5. Unsettled(q) \in Seq(Jobs) /\ Waiting = Unsettled(q) \o queue
  <2>1. HeldInOrder
    BY <1>1, HeldByOne DEF LogInv
  <2>2. \A r \in Flushers : r # q => batch[r] = <<>>
    BY <1>4
  <2> QED
    BY <2>1, <2>2, Zenon DEF HeldInOrder
<1>6. ToSet(Unsettled(q)) \cup ToSet(queue) \subseteq ToSet(Waiting)
  BY <1>2, <1>5, ConcatSet
<1>7. CASE x \in ToSet(batch[q]) /\ pc[q] = "retry"
  <2>1. /\ batch[q] \in Seq(Jobs) /\ Len(batch[q]) \in Nat /\ at[q] \in Nat \ {0}
        /\ at[q] <= Len(batch[q]) + 1
    BY <1>2, <1>7, LenProperties DEF LogInv, TxnShape
  <2>2. PICK i \in 1..Len(batch[q]) : x = batch[q][i]
    BY <1>7, <2>1, Elements
  <2>3. CASE i < at[q]
    BY <1>7, <2>2, <2>3 DEF LogInv, LossInv, Executed
  <2>4. CASE i >= at[q]
    <3>1. Unsettled(q) = SubSeq(batch[q], at[q], Len(batch[q]))
      BY <1>7 DEF Unsettled
    <3>2. /\ i - at[q] + 1 \in 1..Len(Unsettled(q))
          /\ Unsettled(q)[i - at[q] + 1] = batch[q][i]
      <4>1. at[q] \in 1..Len(batch[q]) + 1 /\ i \in at[q]..Len(batch[q])
        BY <2>1, <2>4
      <4>2. \A k \in at[q]..Len(batch[q]) : batch[q][k] \in Jobs
        BY <2>1, <4>1, ElementOfSeq
      <4>3. /\ Len(Unsettled(q)) = IF at[q] <= Len(batch[q]) THEN Len(batch[q]) - at[q] + 1 ELSE 0
            /\ \A k \in 1..Len(batch[q]) - at[q] + 1 : Unsettled(q)[k] = batch[q][at[q] + k - 1]
        BY <2>1, <3>1, <4>2, SubSeqProperties
      <4>4. i - at[q] + 1 \in 1..Len(batch[q]) - at[q] + 1 /\ at[q] + (i - at[q] + 1) - 1 = i
        BY <2>1, <2>4
      <4>5. at[q] <= Len(batch[q])
        BY <2>1, <2>4
      <4>6. Len(Unsettled(q)) = Len(batch[q]) - at[q] + 1
        BY <4>3, <4>5
      <4>7. Unsettled(q)[i - at[q] + 1] = batch[q][at[q] + (i - at[q] + 1) - 1]
        BY <4>3, <4>4
      <4> QED
        BY <4>4, <4>6, <4>7
    <3>3. ToSet(Unsettled(q)) = {Unsettled(q)[k] : k \in 1..Len(Unsettled(q))}
      BY <1>5, Elements
    <3>4. x \in ToSet(Unsettled(q))
      BY <2>2, <3>2, <3>3
    <3> QED
      BY <1>6, <3>4
  <2> QED
    BY <2>1, <2>3, <2>4
<1>8. CASE x \in ToSet(batch[q]) /\ pc[q] # "retry"
  BY <1>6, <1>8 DEF Unsettled
<1> QED
  BY <1>4, <1>6, <1>7, <1>8

(* What is durable is older than what waits.                               *)
LEMMA DurableIsOlder ==
  ASSUME TypeOK, TxnShape, Submitted, Ordered,
         NEW d \in Durable, NEW x \in ToSet(Waiting)
  PROVE  d < x
<1>1. Waiting \in Seq(Jobs) /\ db \in Seq(Jobs)
  BY WaitingSubmitted
<1>2. /\ Len(db \o Waiting) = Len(db) + Len(Waiting)
      /\ Len(db) \in Nat /\ Len(Waiting) \in Nat
      /\ \A k \in 1..Len(db) + Len(Waiting) :
           (db \o Waiting)[k] = IF k <= Len(db) THEN db[k] ELSE Waiting[k - Len(db)]
  BY <1>1, ConcatProperties, LenProperties
<1>3. PICK i \in 1..Len(db) : d = db[i]
  BY <1>1, Elements DEF Durable
<1>4. PICK k \in 1..Len(Waiting) : x = Waiting[k]
  BY <1>1, Elements
<1>5. /\ i \in 1..Len(db) + Len(Waiting) /\ i <= Len(db) /\ i < Len(db) + k
      /\ Len(db) + k \in 1..Len(db) + Len(Waiting) /\ ~(Len(db) + k <= Len(db))
      /\ Len(db) + k - Len(db) = k
  BY <1>2
<1>6. (db \o Waiting)[i] < (db \o Waiting)[Len(db) + k]
  BY <1>2, <1>5 DEF Ordered, Increasing
<1>7. (db \o Waiting)[i] = db[i] /\ (db \o Waiting)[Len(db) + k] = Waiting[k]
  BY <1>2, <1>5
<1> QED
  BY <1>3, <1>4, <1>6, <1>7

(* The invariant gives the order of the database, and that it is a prefix  *)
(* of what was accepted.                                                   *)
LEMMA LogInvIsSound ==
  ASSUME Callers = {}, LogInv
  PROVE  LogIsSound
<1>1. TypeOK
  BY DEF LogInv, ControlInv
<1>2. OrderedOnce
  <2>1. Waiting \in Seq(Jobs) /\ db \in Seq(Jobs)
    BY <1>1, WaitingSubmitted DEF LogInv
  <2>2. /\ Len(db \o Waiting) = Len(db) + Len(Waiting)
        /\ Len(db) \in Nat /\ Len(Waiting) \in Nat
        /\ \A k \in 1..Len(db) + Len(Waiting) :
             (db \o Waiting)[k] = IF k <= Len(db) THEN db[k] ELSE Waiting[k - Len(db)]
    BY <2>1, ConcatProperties, LenProperties
  <2>3. \A i \in 1..Len(db) : i \in 1..Len(db \o Waiting) /\ (db \o Waiting)[i] = db[i]
    BY <2>2
  <2>4. \A i, k \in 1..Len(db \o Waiting) : i < k => (db \o Waiting)[i] < (db \o Waiting)[k]
    BY DEF LogInv, Ordered, Increasing
  <2> QED
    BY <2>3, <2>4 DEF OrderedOnce
<1>3. DurablePrefix
  <2> SUFFICES ASSUME NEW j \in Durable, NEW k \in Accepted, k < j
               PROVE  k \notin ToSet(queue) /\ (k \in InFlight => k \in Durable \cup dropped)
    BY DEF DurablePrefix
  <2>1. Waiting \in Seq(Jobs) /\ db \in Seq(Jobs) /\ queue \in Seq(Jobs)
    BY <1>1, WaitingSubmitted DEF LogInv, TypeOK
  <2>2. j \in Nat /\ k \in Nat
    <3>1. j \in Jobs
      BY <2>1, Elements DEF Durable
    <3> QED
      BY <1>1, <3>1, StoreAssumption DEF Jobs, Accepted, TypeOK
  <2>3. k \notin ToSet(Waiting)
    <3>1. k \in ToSet(Waiting) => j < k
      BY <1>1, DurableIsOlder DEF LogInv
    <3> QED
      BY <2>2, <3>1
  <2>4. ToSet(queue) \subseteq ToSet(Waiting)
    <3>1. PICK u \in Seq(Jobs) : Waiting = u \o queue
      <4>1. PICK p \in Flushers : \A q \in Flushers : q # p => batch[q] = <<>>
        BY <1>1, StoreAssumption DEF LogInv, ControlInv, Flushers
      <4> QED
        BY <1>1, <4>1, HeldByOne DEF HeldInOrder, LogInv
    <3> QED
      BY <2>1, <3>1, ConcatSet
  <2> QED
    BY <2>3, <2>4, HeldWaits
<1>4. TxnIsBatchPrefix
  BY DEF LogInv, ControlInv, TxnShape, TxnIsBatchPrefix, Flushers
<1> QED
  BY <1>2, <1>3, <1>4 DEF LogIsSound

(* The initial states of the store, and every step.                        *)
LEMMA InitLog == Callers = {} /\ Init => LogInv /\ Log!Init
<1> SUFFICES ASSUME Callers = {}, Init PROVE LogInv /\ Log!Init
  OBVIOUS
<1>1. ControlInv
  BY InitType, StoreAssumption DEF Init, ControlInv, Flushers
<1>2. Accepted = {} /\ \A p \in Flushers : batch[p] = <<>> /\ Len(batch[p]) = 0
  BY DEF Init, Accepted
<1>3. LossInv
  BY <1>2 DEF LossInv
<1>4. TxnShape
  BY <1>2 DEF Init, TxnShape
<1>5. Submitted
  BY <1>2, EmptySeq DEF Init, Submitted
<1>6. Waiting = <<>> /\ db = <<>>
  <2>1. Unsettled(Loop) = <<>> /\ Unsettled(Closer) = <<>> /\ queue = <<>>
    BY <1>2 DEF Init, Unsettled, Flushers
  <2> QED
    BY <2>1, EmptySeq, ConcatEmptySeq DEF Waiting, Init
<1>7. Ordered
  <2>1. db \o Waiting = <<>>
    BY <1>6, EmptySeq, ConcatEmptySeq
  <2> QED
    BY <2>1 DEF Ordered, Increasing
<1> QED
  BY <1>1, <1>3, <1>4, <1>5, <1>6, <1>7 DEF LogInv, Log!Init, Waiting

(* Every step of the store keeps the invariant and is a step of the log.   *)
LEMMA StepLogInv ==
  Callers = {} /\ LogInv /\ [Next]_vars => LogInv' /\ [Log!Next]_(Log!vars)
<1> SUFFICES ASSUME Callers = {}, LogInv, [Next]_vars PROVE LogInv' /\ [Log!Next]_(Log!vars)
  OBVIOUS
<1>1. TypeOK /\ ControlInv /\ LossInv /\ TxnShape /\ Submitted /\ Ordered
  BY DEF LogInv, ControlInv
<1>2. ControlInv' /\ LossInv' /\ TxnShape' /\ Submitted'
  BY <1>1, StepControl, StepLoss, StepShape, StepSubmitted
<1>3. [Log!Next]_(Log!vars)
  BY <1>1, StepLog
<1>4. Ordered'
  BY <1>1, <1>3, LogKeepsOrder
<1> QED
  BY <1>2, <1>3, <1>4 DEF LogInv

(* Without callers of flush(), for every number of writes, queue bound and *)
(* batch size, with failing statements, close(), connect() and crashes,    *)
(* the write-behind queue is a durable log: _flush_batch makes the oldest  *)
(* waiting writes durable or gives them up, and nothing else happens.      *)
THEOREM StoreIsDurableLog ==
  ASSUME Callers = {}
  PROVE  Spec => ImplementsDurableLog
<1>1. Callers = {}
  OBVIOUS
<1>2. Init => LogInv /\ Log!Init
  BY <1>1, InitLog
<1>3. LogInv /\ [Next]_vars => LogInv' /\ [Log!Next]_(Log!vars)
  BY <1>1, StepLogInv
<1> QED
  BY <1>2, <1>3, PTL DEF Spec, ImplementsDurableLog, Log!Spec

(* Writes take effect once, in the order of _enqueue_write, with no older  *)
(* write left behind, and the open transaction of _flush_batch is the part *)
(* of the batch executed so far.                                           *)
THEOREM LogAlwaysSound ==
  ASSUME Callers = {}
  PROVE  Spec => []LogIsSound
<1>1. Init => LogInv
  BY InitLog
<1>2. LogInv /\ [Next]_vars => LogInv'
  BY StepLogInv
<1>3. LogInv => LogIsSound
  BY LogInvIsSound
<1> QED
  BY <1>1, <1>2, <1>3, PTL DEF Spec

(* Only a crash puts a write among the excused ones.                       *)
LEMMA OnlyCrashExcuses ==
  ASSUME [Next]_vars, excused' # excused
  PROVE  Crash
<1>1. ASSUME NEW p, FlusherStep(p) PROVE excused' = excused
  BY <1>1 DEF FlusherStep, ExecuteJob, Commit, Rollback, RetryJob, FlushAll, TakeBatch, ghosts
<1>2. ASSUME LoopWake \/ EnqueueWrite \/ StartClose \/ CloseConnection \/ Closed \/ Connect
      PROVE  excused' = excused
  BY <1>2 DEF LoopWake, TakeBatch, EnqueueWrite, StartClose, CloseConnection, Closed,
              Connect, ghosts
<1>3. ASSUME NEW p, FlushHangs(p) \/ FlushCall(p) \/ FlushReturns(p) PROVE excused' = excused
  BY <1>3 DEF FlushHangs, FlushCall, FlushReturns, ghosts
<1> QED
  BY <1>1, <1>2, <1>3 DEF Next, vars

(* Only CloseConnection puts the connection into closing.                  *)
LEMMA OnlyCloseCloses ==
  ASSUME [Next]_vars, conn = "open", conn' = "closing"
  PROVE  CloseConnection
<1>1. ASSUME NEW p, FlusherStep(p) PROVE conn' = conn
  BY <1>1 DEF FlusherStep, ExecuteJob, Commit, Rollback, RetryJob, FlushAll, TakeBatch
<1>2. ASSUME LoopWake \/ EnqueueWrite \/ StartClose PROVE conn' = conn
  BY <1>2 DEF LoopWake, TakeBatch, EnqueueWrite, StartClose
<1>3. ASSUME NEW p, FlushHangs(p) \/ FlushCall(p) \/ FlushReturns(p) PROVE conn' = conn
  BY <1>3 DEF FlushHangs, FlushCall, FlushReturns
<1>4. ASSUME Closed \/ Connect \/ Crash PROVE conn' # "closing"
  BY <1>4 DEF Closed, Connect, Crash
<1> QED
  BY <1>1, <1>2, <1>3, <1>4 DEF Next, vars

(* A crash loses only writes younger than every durable one, and close()   *)
(* does not close the connection before every accepted write is settled,   *)
(* except those it cancelled itself.                                       *)
THEOREM LossAlwaysBounded ==
  ASSUME Callers = {}
  PROVE  Spec => LossIsBounded
<1>1. Init => LogInv
  BY InitLog
<1>2. LogInv /\ [Next]_vars => LogInv'
  BY StepLogInv
<1>3. LogInv /\ [Next]_vars =>
        [\A x \in excused' \ excused : \A d \in Durable :
           d < x \/ x \in dropped \/ x \in cancelled]_vars
  <2> SUFFICES ASSUME LogInv, [Next]_vars, NEW x \in excused' \ excused, NEW d \in Durable
               PROVE  d < x \/ x \in dropped
    OBVIOUS
  <2>1. x \in (ToSet(queue) \cup InFlight) \ Durable
    BY OnlyCrashExcuses DEF Crash
  <2>2. x \in ToSet(Waiting) \/ x \in dropped
    BY <2>1, HeldWaits
  <2> QED
    BY <2>2, DurableIsOlder DEF LogInv, ControlInv
<1>4. LogInv /\ [Next]_vars =>
        [conn = "open" /\ conn' = "closing" =>
           Accepted \subseteq Durable \cup dropped \cup excused \cup cancelled]_vars
  <2> SUFFICES ASSUME LogInv, [Next]_vars, conn = "open", conn' = "closing"
               PROVE  Accepted \subseteq Durable \cup dropped \cup excused \cup cancelled
    OBVIOUS
  <2>1. pc[Closer] = "check" /\ queue = <<>>
    BY OnlyCloseCloses DEF CloseConnection
  <2>2. \A p \in Flushers : batch[p] = <<>>
    BY <2>1, StoreAssumption DEF LogInv, ControlInv, Flushers
  <2>3. ToSet(<<>>) = {}
    BY DEF ToSet
  <2> QED
    BY <2>1, <2>2, <2>3 DEF LogInv, LossInv, Covered
<1> QED
  BY <1>1, <1>2, <1>3, <1>4, PTL
  DEF Spec, LossIsBounded, CrashLosesSuffix, CloseSettlesAll
=============================================================================
