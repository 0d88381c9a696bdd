----------------------------- MODULE HistoryStore -----------------------------
(***************************************************************************)
(* core/memory/long_term/sqlite_history_store.py: the write-behind queue   *)
(* of SQLiteHistoryStore and the single aiosqlite connection its flushers  *)
(* share.                                                                  *)
(*                                                                         *)
(* Every insert_* / update_* / mark_* method only enqueues a write job;    *)
(* the jobs are moved to the database in batches by                        *)
(*   - the background flush loop (Loop), every 100 ms,                     *)
(*   - callers of flush() (Callers),                                       *)
(*   - close(), once the loop is cancelled (Closer).                       *)
(* They are coroutines of one event loop, so a step of the model is what   *)
(* one of them does from one `await self._conn.execute` to the next: the   *)
(* result of the previous statement is seen, and the next statement is     *)
(* submitted.  aiosqlite runs submitted statements in order on one thread, *)
(* so a statement takes effect when it is submitted; cancelling the        *)
(* coroutine that awaits it does not take it back.  The connection is in   *)
(* autocommit mode (isolation_level=None): outside BEGIN ... COMMIT each   *)
(* statement is durable by itself.                                         *)
(*                                                                         *)
(* A job is named by its place in the order of the _enqueue_write calls.   *)
(***************************************************************************)
EXTENDS Naturals, Sequences, SequencesExt

CONSTANTS
  MaxJobs,    \* bound: number of _enqueue_write calls in a behaviour
  Broken,     \* jobs whose statement always fails (a NOT NULL column is None)
  Transient,  \* TRUE: a statement that could succeed may fail (database locked)
  QueueMax,   \* write_queue_maxsize (10000 in the code)
  BatchMax,   \* jobs taken by one _flush_batch (500 in the code)
  Callers,    \* tasks that call flush()
  Loop,       \* the task running _flush_loop
  Closer,     \* the task that calls close()
  MayClose,   \* TRUE: the application calls close() and connect() again
  MaxCrashes  \* bound: number of process crashes in a behaviour

Flushers == Callers \cup {Loop, Closer}
Jobs == 1..MaxJobs
MaxRetries == 3  \* _WriteJob.max_retries

ASSUME StoreAssumption ==
  /\ MaxJobs \in Nat /\ Broken \subseteq Jobs
  /\ QueueMax \in Nat \ {0} /\ BatchMax \in Nat \ {0} /\ MaxCrashes \in Nat
  /\ Transient \in BOOLEAN /\ MayClose \in BOOLEAN
  /\ Loop \notin Callers /\ Closer \notin Callers /\ Loop # Closer

VARIABLES
  conn,        \* the connection: "open", "closing" (close() awaits it), "none"
  queue,       \* _write_queue
  pc,          \* where each flusher is suspended
  batch,       \* the local variable `jobs` of each flusher's _flush_batch
  at,          \* index in batch of the next statement of the flusher
  inTxn,       \* the connection is between BEGIN and COMMIT/ROLLBACK
  uncommitted, \* jobs executed in the open transaction
  db,          \* jobs whose effect is durable, in the order they took effect
  submitted,   \* number of _enqueue_write calls so far
  refused,     \* jobs whose _enqueue_write call raised
  dropped,     \* jobs given up after a failed retry, with a log line
  retryCount,  \* retry_count of each job
  asked,       \* what a flush() in progress must cover: jobs accepted at its call
  excused,     \* jobs that were volatile when the process crashed
  cancelled,   \* jobs in the batch of a flush loop that close() cancelled
  crashes      \* number of crashes so far

vars == <<conn, queue, pc, batch, at, inTxn, uncommitted, db, submitted, refused,
          dropped, retryCount, asked, excused, cancelled, crashes>>
dbVars == <<inTxn, uncommitted, db>>
ghosts == <<asked, excused, cancelled, crashes>>

Accepted == (1..submitted) \ refused
Durable == ToSet(db)
InFlight == UNION {ToSet(batch[p]) : p \in Flushers}

-----------------------------------------------------------------------------
Init ==
  /\ conn = "open"
  /\ queue = <<>>
  /\ pc = [p \in Flushers |-> "idle"]
  /\ batch = [p \in Flushers |-> <<>>]
  /\ at = [p \in Flushers |-> 1]
  /\ inTxn = FALSE /\ uncommitted = <<>> /\ db = <<>>
  /\ submitted = 0 /\ refused = {} /\ dropped = {}
  /\ retryCount = [j \in Jobs |-> 0]
  /\ asked = [p \in Flushers |-> {}]
  /\ excused = {} /\ cancelled = {} /\ crashes = 0

(* _enqueue_write: the job is appended; on a full queue the code calls     *)
(* self._flush_all, which the class does not define, so the call raises    *)
(* AttributeError and the job is in no queue.  There is no test of _conn.  *)
EnqueueWrite ==
  /\ submitted < MaxJobs
  /\ submitted' = submitted + 1
  /\ \/ /\ Len(queue) < QueueMax
        /\ queue' = Append(queue, submitted + 1)
        /\ UNCHANGED refused
     \/ /\ Len(queue) >= QueueMax
        /\ refused' = refused \cup {submitted + 1}
        /\ UNCHANGED queue
  /\ UNCHANGED <<conn, pc, batch, at, dbVars, dropped, retryCount, ghosts>>

(* The first step of _flush_batch: take up to BatchMax jobs off the queue  *)
(* and submit BEGIN, which fails in an open transaction or on a closing    *)
(* connection.                                                             *)
TakeBatch(p) ==
  LET n == IF Len(queue) < BatchMax THEN Len(queue) ELSE BatchMax IN
  /\ conn # "none"
  /\ queue # <<>>
  /\ batch' = [batch EXCEPT ![p] = SubSeq(queue, 1, n)]
  /\ queue' = SubSeq(queue, n + 1, Len(queue))
  /\ at' = [at EXCEPT ![p] = 1]
  /\ IF inTxn \/ conn # "open"
     THEN /\ pc' = [pc EXCEPT ![p] = "rollback"]
          /\ UNCHANGED dbVars
     ELSE /\ pc' = [pc EXCEPT ![p] = "exec"]
          /\ inTxn' = TRUE
          /\ UNCHANGED <<uncommitted, db>>
  /\ UNCHANGED <<conn, submitted, refused, dropped, retryCount, ghosts>>

(* The effect of a job's statement on the connection, whoever submits it:  *)
(* part of the open transaction, whoever began it, or durable at once.     *)
Apply(j) ==
  /\ IF inTxn THEN uncommitted' = Append(uncommitted, j) /\ UNCHANGED db
              ELSE db' = Append(db, j) /\ UNCHANGED uncommitted
  /\ UNCHANGED inTxn

CanSucceed(j) == conn = "open" /\ j \notin Broken
CanFail(j) == conn # "open" \/ j \in Broken \/ Transient

Current(p) == batch[p][at[p]]

(* Mutants: a failing statement is skipped; a failing statement ends the   *)
(* batch without ROLLBACK.                                                 *)
ExecuteJobSkips(p) ==
  /\ pc[p] = "exec" /\ at[p] <= Len(batch[p])
  /\ at' = [at EXCEPT ![p] = @ + 1]
  /\ \/ CanSucceed(Current(p)) /\ Apply(Current(p))
     \/ CanFail(Current(p)) /\ UNCHANGED dbVars
  /\ UNCHANGED <<conn, queue, pc, batch, submitted, refused, dropped, retryCount, ghosts>>
ExecuteJobGivesUp(p) ==
  /\ pc[p] = "exec" /\ at[p] <= Len(batch[p])
  /\ \/ CanSucceed(Current(p)) /\ Apply(Current(p)) /\ UNCHANGED pc
     \/ CanFail(Current(p)) /\ pc' = [pc EXCEPT ![p] = "idle"] /\ UNCHANGED dbVars
  /\ at' = [at EXCEPT ![p] = IF pc' = pc THEN @ + 1 ELSE 1]
  /\ batch' = [batch EXCEPT ![p] = IF pc' = pc THEN @ ELSE <<>>]
  /\ UNCHANGED <<conn, queue, submitted, refused, dropped, retryCount, ghosts>>

(* `for job in jobs: await self._conn.execute(job.sql, job.params)`        *)
ExecuteJob(p) ==
  /\ pc[p] = "exec" /\ at[p] <= Len(batch[p])
  /\ \/ /\ CanSucceed(Current(p))
        /\ Apply(Current(p))
        /\ at' = [at EXCEPT ![p] = @ + 1]
        /\ UNCHANGED pc
     \/ /\ CanFail(Current(p))
        /\ pc' = [pc EXCEPT ![p] = "rollback"]
        /\ UNCHANGED <<at, dbVars>>
  /\ UNCHANGED <<conn, queue, batch, submitted, refused, dropped, retryCount, ghosts>>

(* A flusher whose batch is over: the loop goes back to sleep, flush_all   *)
(* tests the queue again.                                                  *)
EndBatch(p) ==
  /\ pc' = [pc EXCEPT ![p] = IF p = Loop THEN "idle" ELSE "check"]
  /\ batch' = [batch EXCEPT ![p] = <<>>]
  /\ at' = [at EXCEPT ![p] = 1]

(* COMMIT: fails when no transaction is open any more.                     *)
Commit(p) ==
  /\ pc[p] = "exec" /\ at[p] > Len(batch[p])
  /\ IF inTxn /\ conn = "open"
     THEN /\ db' = db \o uncommitted
          /\ uncommitted' = <<>> /\ inTxn' = FALSE
          /\ EndBatch(p)
     ELSE /\ pc' = [pc EXCEPT ![p] = "rollback"]
          /\ UNCHANGED <<dbVars, batch, at>>
  /\ UNCHANGED <<conn, queue, submitted, refused, dropped, retryCount, ghosts>>

(* Mutants: the retry resumes at the failed job; ROLLBACK leaves the       *)
(* effects of the executed statements.                                     *)
RollbackKeepsIndex(p) ==
  /\ pc[p] = "rollback"
  /\ uncommitted' = <<>> /\ inTxn' = FALSE
  /\ pc' = [pc EXCEPT ![p] = IF inTxn THEN "retry" ELSE "idle"]
  /\ batch' = [batch EXCEPT ![p] = IF inTxn THEN @ ELSE <<>>]
  /\ UNCHANGED <<conn, queue, at, db, submitted, refused, dropped, retryCount, ghosts>>
RollbackKeepsEffects(p) ==
  /\ pc[p] = "rollback"
  /\ db' = db \o uncommitted
  /\ uncommitted' = <<>> /\ inTxn' = FALSE
  /\ pc' = [pc EXCEPT ![p] = IF inTxn THEN "retry" ELSE "idle"]
  /\ batch' = [batch EXCEPT ![p] = IF inTxn THEN @ ELSE <<>>]
  /\ at' = [at EXCEPT ![p] = 1]
  /\ UNCHANGED <<conn, queue, submitted, refused, dropped, retryCount, ghosts>>

(* The except branch submits ROLLBACK, which undoes whatever transaction   *)
(* is open.  With none open it raises out of _flush_batch: the jobs of the *)
(* batch are no longer held by anyone.  The loop logs and goes on; flush() *)
(* and close() raise to their caller.                                      *)
Rollback(p) ==
  /\ pc[p] = "rollback"
  /\ IF inTxn /\ conn = "open"
     THEN /\ uncommitted' = <<>> /\ inTxn' = FALSE
          /\ pc' = [pc EXCEPT ![p] = "retry"]
          /\ at' = [at EXCEPT ![p] = 1]
          /\ UNCHANGED <<db, batch>>
     ELSE /\ pc' = [pc EXCEPT ![p] = "idle"]
          /\ batch' = [batch EXCEPT ![p] = <<>>]
          /\ at' = [at EXCEPT ![p] = 1]
          /\ UNCHANGED dbVars
  /\ UNCHANGED <<conn, queue, submitted, refused, dropped, retryCount, ghosts>>

(* Mutant: a job whose retry fails is put back into the queue.             *)
RetryJobRequeues(p) ==
  /\ pc[p] = "retry" /\ at[p] <= Len(batch[p])
  /\ \/ CanSucceed(Current(p)) /\ Apply(Current(p)) /\ UNCHANGED queue
     \/ CanFail(Current(p)) /\ queue' = Append(queue, Current(p)) /\ UNCHANGED dbVars
  /\ IF at[p] = Len(batch[p])
     THEN EndBatch(p)
     ELSE at' = [at EXCEPT ![p] = @ + 1] /\ UNCHANGED <<pc, batch>>
  /\ UNCHANGED <<conn, submitted, refused, dropped, retryCount, ghosts>>

(* `for job in jobs:` after the rollback: one more execution of each job;  *)
(* a second failure is logged and the job dropped.  No job is ever put     *)
(* back into the queue, so retry_count does not come near max_retries.     *)
RetryJob(p) ==
  /\ pc[p] = "retry" /\ at[p] <= Len(batch[p])
  /\ IF retryCount[Current(p)] < MaxRetries
     THEN /\ retryCount' = [retryCount EXCEPT ![Current(p)] = @ + 1]
          /\ \/ CanSucceed(Current(p)) /\ Apply(Current(p)) /\ UNCHANGED dropped
             \/ /\ CanFail(Current(p))
                /\ dropped' = dropped \cup {Current(p)}
                /\ UNCHANGED dbVars
     ELSE dropped' = dropped \cup {Current(p)} /\ UNCHANGED <<retryCount, dbVars>>
  /\ IF at[p] = Len(batch[p])
     THEN EndBatch(p)
     ELSE at' = [at EXCEPT ![p] = @ + 1] /\ UNCHANGED <<pc, batch>>
  /\ UNCHANGED <<conn, queue, submitted, refused, ghosts>>

(* Mutant: the loop waits for a full batch.                                *)
LoopWakeWhenFull ==
  /\ pc[Loop] = "idle" /\ Len(queue) >= BatchMax
  /\ TakeBatch(Loop)

(* _flush_loop: wake up every 100 ms and flush one batch.                  *)
LoopWake ==
  /\ pc[Loop] = "idle"
  /\ TakeBatch(Loop)

(* flush() (the second definition, which overrides the first) is flush_all *)
FlushCall(c) ==
  /\ c \in Callers /\ pc[c] = "idle"
  /\ pc' = [pc EXCEPT ![c] = "check"]
  /\ asked' = [asked EXCEPT ![c] = Accepted]
  /\ UNCHANGED <<conn, queue, batch, at, dbVars, submitted, refused, dropped,
                 retryCount, excused, cancelled, crashes>>

(* `while not self._write_queue.empty(): await self._flush_batch()`: with  *)
(* no connection _flush_batch returns without awaiting anything, so the    *)
(* loop never ends and never yields: the whole event loop is stuck ("hung")*)
FlushAll(p) ==
  /\ pc[p] = "check"
  /\ TakeBatch(p)
FlushHangs(p) ==
  /\ pc[p] = "check" /\ conn = "none" /\ queue # <<>>
  /\ pc' = [pc EXCEPT ![p] = "hung"]
  /\ UNCHANGED <<conn, queue, batch, at, dbVars, submitted, refused, dropped,
                 retryCount, ghosts>>
FlushReturns(c) ==
  /\ c \in Callers /\ pc[c] = "check" /\ queue = <<>>
  /\ pc' = [pc EXCEPT ![c] = "idle"]
  /\ asked' = [asked EXCEPT ![c] = {}]
  /\ UNCHANGED <<conn, queue, batch, at, dbVars, submitted, refused, dropped,
                 retryCount, excused, cancelled, crashes>>

(* close(): the loop task is cancelled where it is suspended (it is not in *)
(* `except Exception`), then flush_all runs in the caller.                 *)
StartClose ==
  /\ MayClose /\ conn = "open" /\ pc[Closer] = "idle"
  /\ pc' = [pc EXCEPT ![Loop] = "dead", ![Closer] = "check"]
  /\ cancelled' = cancelled \cup (ToSet(batch[Loop]) \ Durable)
  /\ batch' = [batch EXCEPT ![Loop] = <<>>]
  /\ at' = [at EXCEPT ![Loop] = 1]
  /\ UNCHANGED <<conn, queue, dbVars, submitted, refused, dropped, retryCount, asked,
                 excused, crashes>>

(* Mutant: close() does not wait for the queue.                            *)
CloseConnectionEarly ==
  /\ pc[Closer] = "check" /\ conn = "open"
  /\ conn' = "closing"
  /\ uncommitted' = <<>> /\ inTxn' = FALSE
  /\ pc' = [pc EXCEPT ![Closer] = "closing"]
  /\ UNCHANGED <<queue, batch, at, db, submitted, refused, dropped, retryCount, ghosts>>

(* `await self._conn.close()`: SQLite rolls an open transaction back; only *)
(* when the await returns is self._conn set to None.                       *)
CloseConnection ==
  /\ pc[Closer] = "check" /\ queue = <<>> /\ conn = "open"
  /\ conn' = "closing"
  /\ uncommitted' = <<>> /\ inTxn' = FALSE
  /\ pc' = [pc EXCEPT ![Closer] = "closing"]
  /\ UNCHANGED <<queue, batch, at, db, submitted, refused, dropped, retryCount, ghosts>>
Closed ==
  /\ pc[Closer] = "closing"
  /\ conn' = "none"
  /\ pc' = [pc EXCEPT ![Closer] = "idle"]
  /\ UNCHANGED <<queue, batch, at, dbVars, submitted, refused, dropped, retryCount, ghosts>>

(* connect(): a new connection and a new flush loop task.                  *)
Connect ==
  /\ conn = "none"
  /\ conn' = "open"
  /\ pc' = [pc EXCEPT ![Loop] = "idle"]
  /\ UNCHANGED <<queue, batch, at, dbVars, submitted, refused, dropped, retryCount, ghosts>>

(* The process dies: everything but the committed database is gone.        *)
Crash ==
  /\ crashes < MaxCrashes
  /\ crashes' = crashes + 1
  /\ excused' = excused \cup ((ToSet(queue) \cup InFlight) \ Durable)
  /\ conn' = "none"
  /\ queue' = <<>>
  /\ pc' = [p \in Flushers |-> IF p = Loop THEN "dead" ELSE "idle"]
  /\ batch' = [p \in Flushers |-> <<>>]
  /\ at' = [p \in Flushers |-> 1]
  /\ inTxn' = FALSE /\ uncommitted' = <<>>
  /\ UNCHANGED <<db, submitted, refused, dropped, retryCount, asked, cancelled>>

(* flush_all flushes all that is left in the queue                          *)
(* (sqlite_history_store.py:268): it never hangs on it.                     *)
NotHung == \A p \in Flushers : pc[p] # "hung"

FlusherStep(p) ==
  \/ ExecuteJob(p)
  \/ Commit(p)
  \/ Rollback(p)
  \/ RetryJob(p)
  \/ FlushAll(p)

Next ==
  \/ /\ NotHung
     /\ \/ EnqueueWrite
        \/ LoopWake
        \/ \E p \in Flushers : FlusherStep(p)
        \/ \E p \in Flushers : FlushHangs(p)
        \/ \E c \in Callers : FlushCall(c)
        \/ \E c \in Callers : FlushReturns(c)
        \/ StartClose
        \/ CloseConnection
        \/ Closed
        \/ Connect
  \/ Crash

(* The event loop runs every ready coroutine, and asyncio.sleep returns.   *)
Fairness ==
  /\ WF_vars(LoopWake)
  /\ \A p \in Flushers : WF_vars(FlusherStep(p))
  /\ \A c \in Callers : WF_vars(FlushReturns(c))
  /\ WF_vars(CloseConnection) /\ WF_vars(Closed) /\ WF_vars(Connect)

Spec == Init /\ [][Next]_vars
FairSpec == Spec /\ Fairness

-----------------------------------------------------------------------------
(* Where a flusher can be suspended.                                       *)
Places == {"idle", "exec", "rollback", "retry", "check", "closing", "hung", "dead"}

(* Types of every variable.                                                *)
TypeOK ==
  /\ conn \in {"open", "closing", "none"}
  /\ queue \in Seq(Jobs)
  /\ pc \in [Flushers -> Places]
  /\ batch \in [Flushers -> Seq(Jobs)]
  /\ at \in [Flushers -> Nat \ {0}]
  /\ inTxn \in BOOLEAN
  /\ uncommitted \in Seq(Jobs) /\ db \in Seq(Jobs)
  /\ submitted \in 0..MaxJobs
  /\ refused \subseteq Jobs /\ dropped \subseteq Jobs
  /\ retryCount \in [Jobs -> 0..MaxRetries]
  /\ asked \in [Flushers -> SUBSET Jobs]
  /\ excused \subseteq Jobs /\ cancelled \subseteq Jobs
  /\ crashes \in 0..MaxCrashes

(* No accepted write disappears: it is waiting, in a flusher's hands,      *)
(* durable, or was given up with a log line (or the process died, or       *)
(* close() cancelled the loop with the write in its batch).                *)
NoSilentLoss ==
  Accepted \subseteq ToSet(queue) \cup InFlight \cup Durable \cup dropped
                       \cup excused \cup cancelled

(* Writes take effect in the order they were enqueued, each at most once:  *)
(* the rows a later UPDATE depends on are there, and no INSERT is doubled. *)
OrderedOnce == \A i, k \in 1..Len(db) : i < k => db[i] < db[k]

(* What is durable is a prefix of what was accepted: a durable write has   *)
(* no older accepted write still waiting behind it.                        *)
DurablePrefix ==
  \A j \in Durable : \A k \in Accepted :
    k < j => k \notin ToSet(queue) /\ (k \in InFlight => k \in Durable \cup dropped)

(* A crash loses only writes younger than every durable one: the database  *)
(* is the state as of some earlier moment.                                 *)
CrashLosesSuffix ==
  [][\A x \in excused' \ excused : \A d \in Durable :
        d < x \/ x \in dropped \/ x \in cancelled]_vars

(* An open transaction always has a coroutine that will end it: the one    *)
(* executing its batch, one about to roll back, or the close() that has    *)
(* just cancelled the loop.  Otherwise every later BEGIN would fail.       *)
TxnHasOwner ==
  inTxn => \/ \E p \in Flushers : pc[p] \in {"exec", "rollback"}
           \/ pc[Closer] = "check"

(* With the loop alone the open transaction holds exactly the statements   *)
(* the loop has executed of its batch: nobody else's, none forgotten.      *)
TxnIsBatchPrefix ==
  /\ (pc[Loop] = "exec") => inTxn /\ uncommitted = SubSeq(batch[Loop], 1, at[Loop] - 1)
  /\ (pc[Loop] \in {"idle", "retry"}) => ~inTxn /\ uncommitted = <<>>

(* Every accepted write leaves the queue and the flushers' hands.          *)
Drains ==
  \A j \in Jobs : (j \in ToSet(queue)) ~>
                    (j \in Durable \cup dropped \cup excused \cup cancelled)

(* flush() comes back to its caller, also when batches overlap, unless the *)
(* store is closed under it and the event loop hangs.                      *)
FlushTerminates ==
  \A c \in Callers : (pc[c] # "idle") ~> (pc[c] = "idle" \/ ~NotHung)

(* close() comes back, and it does not close the connection before every   *)
(* accepted write is settled, except those it cancelled itself.            *)
CloseCompletes == (pc[Closer] # "idle") ~> (pc[Closer] = "idle")
CloseSettlesAll ==
  [][conn = "open" /\ conn' = "closing" =>
       Accepted \subseteq Durable \cup dropped \cup excused \cup cancelled]_vars

(* What is in the database, and in its open transaction, is a beginning of *)
(* what was accepted, in order.                                            *)
LogIsSound == OrderedOnce /\ DurablePrefix /\ TxnIsBatchPrefix

(* Neither a crash nor close() loses more than it must.                    *)
LossIsBounded == CrashLosesSuffix /\ CloseSettlesAll

(* Every accepted write is settled, and close() returns.                   *)
WritesEnd == Drains /\ CloseCompletes

(* The store as a durable log: without manual flush() the batch of the     *)
(* loop, or of close() once the loop is cancelled, precedes the queue.     *)
Unsettled(p) ==
  IF pc[p] = "retry" THEN SubSeq(batch[p], at[p], Len(batch[p])) ELSE batch[p]
Log == INSTANCE DurableLog WITH waiting <- Unsettled(Loop) \o Unsettled(Closer) \o queue, log <- db
ImplementsDurableLog == Log!Spec
ImplementsFairDurableLog == Log!FairSpec

-----------------------------------------------------------------------------
(* What comments and messages of the code say, and the code does not do.   *)

(* :733 "Manual flush - dam bao tat ca writes da duoc execute": when       *)
(* flush() returns, every write accepted before the call is settled.       *)
FlushGuarantee ==
  [][\A c \in Callers : pc[c] = "check" /\ pc'[c] = "idle" /\ conn' # "none" =>
        asked[c] \subseteq Durable \cup dropped]_vars

(* :212 "SQLite write queue full, flushing...": a full queue is flushed    *)
(* and the write is queued.                                                *)
FullQueueAccepts == refused = {}
=============================================================================
