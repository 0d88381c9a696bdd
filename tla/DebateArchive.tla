----------------------------- MODULE DebateArchive -----------------------------
(***************************************************************************)
(* core/memory: the way of a debate record from Redis to the vector store. *)
(*                                                                         *)
(* The orchestrator writes a hash debate:{symbol}:{bar} with a TTL.  The   *)
(* loop of DebateArchiver lists every 300 s the debates with at most 600 s *)
(* to live and stores each in the vector database; what fails goes to the  *)
(* table pending_archive, through the write queue of SQLiteHistoryStore    *)
(* (FIFO, volatile, bounded: see HistoryStore), and retry_pending_archive, *)
(* which the application may call, tries it again.                         *)
(*                                                                         *)
(* Time is in units of 300 s.  A cycle is assumed to take less than one    *)
(* unit, so one begins in every unit in which the process is up.           *)
(***************************************************************************)
EXTENDS Naturals, Sequences, FiniteSets, SequencesExt, FiniteSetsExt

CONSTANTS
  Debates,    \* debate keys, one per symbol and bar
  Life,       \* TTL in units (1800 s: 6)
  Window,     \* units before expiry in which a debate is listed (600 s: 2)
  BatchMax,   \* MAX_ARCHIVE_BATCH_SIZE, and the limit of a retry
  QueueMax,   \* capacity of the SQLite write queue
  MaxRetries, \* bound: calls of retry_pending_archive
  MaxFails,   \* bound: Redis errors and outages of the vector store
  MaxCrashes  \* bound: stops and crashes of the process

ASSUME ArchiveAssumption ==
  /\ IsFiniteSet(Debates) /\ Life \in Nat \ {0, 1} /\ Window \in 1..Life
  /\ BatchMax \in Nat \ {0} /\ QueueMax \in Nat \ {0}
  /\ MaxRetries \in Nat /\ MaxFails \in Nat /\ MaxCrashes \in Nat

Workers == {"loop", "retry"}
Forever == Life + 1

VARIABLES
  ttl,      \* units each key has left; 0: no key; Forever: no TTL
  full,     \* the hash holds a debate, not only the field `archived`
  flagged,  \* keys whose hash has archived = True
  vdb,      \* debates in the vector store
  rows,     \* pending_archive: the debate and status of each committed row
  queue,    \* write jobs not committed yet
  work,     \* debates a worker has still to archive: <<debate, row or 0>>
  stage,    \* the worker has stored its first debate and not flagged it yet
  rested,   \* a cycle began in this unit of time
  up,       \* the vector store answers
  alive,    \* the archiver runs
  retries, fails, crashes,
  written,  \* history: debates that were ever set
  excused   \* history: debates crowded out of a batch, refused by a full
            \* queue or lost with the process or with Redis

archiveVars == <<ttl, full, flagged, vdb, rows, queue, work, stage, rested, up, alive,
          retries, fails, crashes, written, excused>>
redisVars == <<ttl, full, flagged>>
bounds == <<fails, crashes>>
histories == <<written, excused>>

ArchiveInit ==
  /\ ttl = [d \in Debates |-> 0] /\ full = [d \in Debates |-> FALSE] /\ flagged = {}
  /\ vdb = {} /\ rows = <<>> /\ queue = <<>>
  /\ work = [w \in Workers |-> <<>>] /\ stage = [w \in Workers |-> FALSE]
  /\ rested = FALSE /\ up = TRUE /\ alive = TRUE
  /\ retries = 0 /\ fails = 0 /\ crashes = 0
  /\ written = {} /\ excused = {}

(* _persist_and_publish of the orchestrator: set_debate (HSET, EXPIRE 3600)*)
(* and EXPIRE 1800.  A failure after HSET leaves the key without TTL; one  *)
(* of the last EXPIRE only a longer life, which is not told apart.         *)
SetDebate(d) ==
  /\ alive /\ d \notin written
  /\ written' = written \cup {d}
  /\ full' = [full EXCEPT ![d] = TRUE]
  /\ \/ /\ ttl' = [ttl EXCEPT ![d] = Life]
        /\ UNCHANGED <<fails, excused>>
     \/ /\ fails < MaxFails /\ fails' = fails + 1
        /\ ttl' = [ttl EXCEPT ![d] = Forever]
        /\ excused' = excused \cup {d}
  /\ UNCHANGED <<flagged, vdb, rows, queue, work, stage, rested, up, alive, retries, crashes>>

(* get_pending_debates_for_archive: the flag `archived` is compared with   *)
(* the string "True" after it was decoded to the Boolean, so it never      *)
(* keeps a debate off the list; a key without TTL is never listed.         *)
Due == {d \in Debates : full[d] /\ ttl[d] \in 1..Window}

Batches(S) == kSubset(IF Cardinality(S) < BatchMax THEN Cardinality(S) ELSE BatchMax, S)

(* archive_ready_debates, called by _run_loop; SCAN gives no order.  An    *)
(* error of Redis ends the cycle with a log line.                          *)
BeginCycle ==
  /\ alive /\ work["loop"] = <<>> /\ ~rested
  /\ rested' = TRUE
  /\ \/ /\ \E S \in Batches(Due) :
             /\ work' = [work EXCEPT !["loop"] =
                           [i \in 1..Cardinality(S) |-> <<SetToSeq(S)[i], 0>>]]
             /\ excused' = (excused \ S) \cup (Due \ S)
        /\ UNCHANGED fails
     \/ /\ fails < MaxFails /\ fails' = fails + 1
        /\ excused' = excused \cup Due
        /\ UNCHANGED work
  /\ UNCHANGED <<redisVars, vdb, rows, queue, stage, up, alive, retries, crashes, written>>

(* retry_pending_archive: the oldest pending rows of the committed table.  *)
PendingRows == {i \in 1..Len(rows) : rows[i].status = "pending"}
Oldest(n) ==
  {ids \in [1..n -> PendingRows] :
     /\ \A i, j \in 1..n : i < j => ids[i] < ids[j]
     /\ \A r \in PendingRows : (\E i \in 1..n : ids[i] = r) \/ \A i \in 1..n : ids[i] < r}
BeginRetry ==
  /\ alive /\ work["retry"] = <<>> /\ PendingRows # {}
  /\ retries < MaxRetries /\ retries' = retries + 1
  /\ LET k == Cardinality(PendingRows)
         n == IF k < BatchMax THEN k ELSE BatchMax IN
     \E ids \in Oldest(n) :
       work' = [work EXCEPT !["retry"] = [i \in 1..n |-> <<rows[ids[i]].d, ids[i]>>]]
  /\ UNCHANGED <<redisVars, vdb, rows, queue, stage, rested, up, alive, bounds, histories>>

First(w) == Head(work[w])[1]
Row(w) == Head(work[w])[2]
Room(n) == Len(queue) + n <= QueueMax
InsertRow(d) == [op |-> "insert", d |-> d, row |-> 0]
Complete(w) == [op |-> "complete", d |-> First(w), row |-> Row(w)]
Proceed(w) == work' = [work EXCEPT ![w] = Tail(@)] /\ stage' = [stage EXCEPT ![w] = FALSE]
Abort(w) == work' = [work EXCEPT ![w] = <<>>] /\ stage' = [stage EXCEPT ![w] = FALSE]

(* The result of _archive_single comes back: a retried row is completed    *)
(* after a success, with the fallback or without.  On a full queue the     *)
(* call raises, so does mark_archive_failed, and the retry ends.           *)
Conclude(w, jobs) ==
  LET done == IF Row(w) = 0 THEN <<>> ELSE <<Complete(w)>> IN
  IF Room(Len(jobs) + Len(done))
  THEN queue' = queue \o jobs \o done /\ Proceed(w)
  ELSE queue' = queue \o jobs /\ Abort(w)

(* Mutant: the failed debate is dropped with its log line.                 *)
FallbackForgets(w) == Proceed(w) /\ UNCHANGED <<queue, excused>>

(* The except branch of _archive_single: insert_pending_archive, and when  *)
(* that raises too the debate stays where it was.                          *)
Fallback(w) ==
  IF Room(1)
  THEN Conclude(w, <<InsertRow(First(w))>>) /\ UNCHANGED excused
  ELSE /\ excused' = excused \cup {First(w)}
       /\ Proceed(w)
       /\ UNCHANGED queue

(* Mutant: the flag is set after a failed insert as after a good one.      *)
StoreSwallows(w) ==
  /\ work[w] # <<>> /\ ~stage[w]
  /\ vdb' = IF up THEN vdb \cup {First(w)} ELSE vdb
  /\ stage' = [stage EXCEPT ![w] = TRUE]
  /\ UNCHANGED <<redisVars, rows, work, queue, retries, rested, up, alive, bounds, histories>>

(* insert_debate of either provider: add keeps a document that is there,   *)
(* upsert replaces it by the same.                                         *)
StoreDebate(w) ==
  /\ work[w] # <<>> /\ ~stage[w]
  /\ \/ /\ up
        /\ vdb' = vdb \cup {First(w)}
        /\ stage' = [stage EXCEPT ![w] = TRUE]
        /\ UNCHANGED <<work, queue, excused>>
     \/ /\ ~up /\ Fallback(w) /\ UNCHANGED vdb
  /\ UNCHANGED <<redisVars, rows, rested, up, alive, retries, bounds, written>>

(* mark_debate_archived: HSET of one field, which on a key that expired    *)
(* meanwhile makes a key of that field only, without TTL.                  *)
MarkArchived(w) ==
  /\ work[w] # <<>> /\ stage[w]
  /\ \/ /\ flagged' = flagged \cup {First(w)}
        /\ ttl' = [ttl EXCEPT ![First(w)] = IF @ = 0 THEN Forever ELSE @]
        /\ Conclude(w, <<>>)
        /\ UNCHANGED <<fails, excused>>
     \/ /\ fails < MaxFails /\ fails' = fails + 1
        /\ Fallback(w)
        /\ UNCHANGED <<flagged, ttl>>
  /\ UNCHANGED <<full, vdb, rows, rested, up, alive, retries, crashes, written>>

(* The flush loop commits the oldest job.                                  *)
Commit ==
  /\ queue # <<>>
  /\ LET j == Head(queue) IN
     rows' = IF j.op = "insert" THEN Append(rows, [d |-> j.d, status |-> "pending"])
             ELSE [rows EXCEPT ![j.row].status = "completed"]
  /\ queue' = Tail(queue)
  /\ UNCHANGED <<redisVars, vdb, work, stage, rested, up, alive, retries, bounds, histories>>

(* 300 seconds pass; a key at the end of its TTL is gone.                  *)
Tick ==
  /\ rested \/ ~alive
  /\ \E d \in Debates : ttl[d] \in 1..Life
  /\ ttl' = [d \in Debates |-> IF ttl[d] \in 1..Life THEN ttl[d] - 1 ELSE ttl[d]]
  /\ full' = [d \in Debates |-> full[d] /\ ttl[d] # 1]
  /\ flagged' = flagged \ {d \in Debates : ttl[d] = 1}
  /\ rested' = FALSE
  /\ excused' = IF alive THEN excused ELSE excused \cup {d \in Debates : ttl[d] = 1}
  /\ UNCHANGED <<vdb, rows, queue, work, stage, up, alive, retries, bounds, written>>

StoreGoes ==
  /\ up' = ~up /\ fails' = IF up THEN fails + 1 ELSE fails
  /\ fails' <= MaxFails
  /\ UNCHANGED <<redisVars, vdb, rows, queue, work, stage, rested, alive, retries, crashes, histories>>

(* stop(): the loop is cancelled wherever it is.                           *)
Stop ==
  /\ alive /\ crashes < MaxCrashes /\ crashes' = crashes + 1
  /\ alive' = FALSE /\ rested' = FALSE
  /\ excused' = excused \cup {work["loop"][i][1] : i \in 1..Len(work["loop"])}
  /\ Abort("loop")
  /\ UNCHANGED <<redisVars, vdb, rows, queue, up, retries, fails, written>>

(* The process dies: queue and workers are lost, Redis and the files stay. *)
Crash ==
  /\ alive /\ crashes < MaxCrashes /\ crashes' = crashes + 1
  /\ alive' = FALSE
  /\ excused' = excused \cup {queue[i].d : i \in 1..Len(queue)}
                        \cup UNION {{work[w][i][1] : i \in 1..Len(work[w])} : w \in Workers}
  /\ queue' = <<>> /\ work' = [w \in Workers |-> <<>>]
  /\ stage' = [w \in Workers |-> FALSE] /\ rested' = FALSE
  /\ UNCHANGED <<redisVars, vdb, rows, up, retries, fails, written>>

(* start().                                                                *)
Restart ==
  /\ ~alive /\ alive' = TRUE
  /\ UNCHANGED <<redisVars, vdb, rows, queue, work, stage, rested, up, retries, bounds, histories>>

ArchiveNext ==
  \/ \E d \in Debates : SetDebate(d)
  \/ BeginCycle \/ BeginRetry
  \/ \E w \in Workers : StoreDebate(w) \/ MarkArchived(w)
  \/ Commit \/ Tick \/ StoreGoes \/ Stop \/ Crash \/ Restart

(* The loop sleeps and wakes, calls return, jobs are flushed; nothing says *)
(* that retry_pending_archive is ever called or the store comes back.      *)
ArchiveWorks ==
  /\ WF_archiveVars(Commit) /\ WF_archiveVars(Tick) /\ WF_archiveVars(Restart)
  /\ \A w \in Workers : WF_archiveVars(StoreDebate(w) \/ MarkArchived(w))

ArchiveSpec ==
  ArchiveInit /\ [][ArchiveNext]_archiveVars /\ WF_archiveVars(BeginCycle) /\ ArchiveWorks

-----------------------------------------------------------------------------
(* Types of every variable.                                                *)
ArchiveTypeOK ==
  /\ ttl \in [Debates -> 0..Forever] /\ full \in [Debates -> BOOLEAN]
  /\ flagged \subseteq Debates /\ vdb \subseteq Debates /\ excused \subseteq Debates
  /\ \A i \in 1..Len(rows) : rows[i] \in [d : Debates, status : {"pending", "completed"}]
  /\ Len(queue) <= QueueMax /\ stage \in [Workers -> BOOLEAN]

(* Somewhere a worker will find it: a row that is pending and has no       *)
(* completion under way counts, and so does the insertion of one.          *)
Kept(d) ==
  \/ d \in vdb
  \/ \E i \in PendingRows : rows[i].d = d
  \/ \E i \in 1..Len(queue) : queue[i].op = "insert" /\ queue[i].d = d
  \/ \E w \in Workers : \E i \in 1..Len(work[w]) : work[w][i][1] = d

(* A debate whose key has expired is in the vector store or on its way     *)
(* there, however outages, retries and expiries interleave, unless it was  *)
(* crowded out of its last batch, refused by a full queue or lost in a     *)
(* crash.                                                                  *)
NothingForgotten == \A d \in written \ excused : full[d] \/ Kept(d)

(* What Redis says is archived is in the vector store, also for the keys   *)
(* that a late flag brings back to life and nothing will ever remove.      *)
FlagIsTrue ==
  /\ flagged \subseteq vdb
  /\ \A d \in Debates : ttl[d] > 0 /\ ~full[d] => d \in flagged

(* No debate is forgotten, and none is taken for archived that is not.     *)
ArchiveSound == NothingForgotten /\ FlagIsTrue

(* A cycle takes the debates with "archived != True"                        *)
(* (redis_cache_manager.py:432): it begins with none that is flagged.       *)
ArchivedAreLeft ==
  work["loop"] # <<>> /\ ~stage["loop"] => First("loop") \notin flagged

(* Every debate that comes near its expiry is settled one way or the other *)
(* by the loop alone: no retry need ever be called.                        *)
DueIsSettled == \A d \in Debates : (d \in Due) ~> (d \in excused \/ Kept(d))
=============================================================================
