------------------------------ MODULE MemoryProofs ------------------------------
(***************************************************************************)
(* Proofs about the memory: the debates in Redis and their archiver        *)
(* (DebateArchive), the zones in Redis (ZoneRegistry), for every number of *)
(* keys, coroutines and failures and every interleaving of their commands, *)
(* and the outcomes of predictions (Outcomes), for every order of commits, *)
(* bars and examinations.                                                  *)
(***************************************************************************)
EXTENDS ZoneRegistry, DebateArchive, Outcomes, FiniteSetTheorems, SequenceTheorems, TLAPS

(* The elements of a sequence.                                             *)
LEMMA SetOfConcat ==
  ASSUME NEW S, NEW s \in Seq(S), NEW t \in Seq(S)
  PROVE  s \o t \in Seq(S) /\ ToSet(s \o t) = ToSet(s) \cup ToSet(t)
<1> DEFINE c == s \o t
<1>1. /\ c \in Seq(S) /\ Len(c) = Len(s) + Len(t) /\ Len(s) \in Nat /\ Len(t) \in Nat
      /\ \A i \in 1..Len(s) + Len(t) : c[i] = IF i <= Len(s) THEN s[i] ELSE t[i - Len(s)]
  BY ConcatProperties, LenProperties
<1>2. DOMAIN c = 1..Len(c) /\ DOMAIN s = 1..Len(s) /\ DOMAIN t = 1..Len(t)
  BY <1>1, LenProperties
<1> HIDE DEF c
<1>3. ASSUME NEW x \in ToSet(c) PROVE x \in ToSet(s) \cup ToSet(t)
  <2>1. PICK i \in 1..Len(c) : c[i] = x
    BY <1>2, <1>3 DEF ToSet
  <2>2. CASE i <= Len(s)
    <3>1. i \in 1..Len(s) /\ s[i] = x
      BY <1>1, <2>1, <2>2
    <3> QED
      BY <1>2, <3>1 DEF ToSet
  <2>3. CASE ~(i <= Len(s))
    <3>1. i - Len(s) \in 1..Len(t) /\ t[i - Len(s)] = x
      BY <1>1, <2>1, <2>3
    <3> QED
      BY <1>2, <3>1 DEF ToSet
  <2> QED
    BY <2>2, <2>3
<1>4. ASSUME NEW x \in ToSet(s) PROVE x \in ToSet(c)
  <2>1. PICK i \in 1..Len(s) : s[i] = x
    BY <1>2, <1>4 DEF ToSet
  <2>2. i \in 1..Len(c) /\ c[i] = x
    BY <1>1, <2>1
  <2> QED
    BY <1>2, <2>2 DEF ToSet
<1>5. ASSUME NEW x \in ToSet(t) PROVE x \in ToSet(c)
  <2>1. PICK i \in 1..Len(t) : t[i] = x
    BY <1>2, <1>5 DEF ToSet
  <2>2. i + Len(s) \in 1..Len(s) + Len(t) /\ ~(i + Len(s) <= Len(s)) /\ (i + Len(s)) - Len(s) = i
    BY <1>1
  <2>3. i + Len(s) \in 1..Len(c) /\ c[i + Len(s)] = x
    BY <1>1, <2>1, <2>2
  <2> QED
    BY <1>2, <2>3 DEF ToSet
<1> QED
  BY <1>1, <1>3, <1>4, <1>5 DEF c

LEMMA SetOfTail ==
  ASSUME NEW S, NEW s \in Seq(S), s # <<>>
  PROVE  /\ Head(s) \in ToSet(s) /\ Head(s) \in S /\ Tail(s) \in Seq(S)
         /\ ToSet(s) = {Head(s)} \cup ToSet(Tail(s)) /\ Len(Tail(s)) = Len(s) - 1
<1>1. /\ Len(s) \in Nat /\ Len(s) > 0 /\ Head(s) = s[1] /\ Head(s) \in S
      /\ Tail(s) \in Seq(S) /\ Len(Tail(s)) = Len(s) - 1
      /\ \A i \in 1..Len(Tail(s)) : Tail(s)[i] = s[i + 1]
  BY EmptySeq, HeadTailProperties, LenProperties
<1>2. DOMAIN s = 1..Len(s) /\ DOMAIN Tail(s) = 1..Len(Tail(s))
  BY <1>1, LenProperties
<1>3. Head(s) \in ToSet(s)
  BY <1>1, <1>2 DEF ToSet
<1>4. ASSUME NEW x \in ToSet(s), x # Head(s) PROVE x \in ToSet(Tail(s))
  <2>1. PICK i \in 1..Len(s) : s[i] = x
    BY <1>2, <1>4 DEF ToSet
  <2>2. i - 1 \in 1..Len(Tail(s)) /\ Tail(s)[i - 1] = x
    BY <1>1, <1>4, <2>1
  <2> QED
    BY <1>2, <2>2 DEF ToSet
<1>5. ASSUME NEW x \in ToSet(Tail(s)) PROVE x \in ToSet(s)
  <2>1. PICK i \in 1..Len(Tail(s)) : Tail(s)[i] = x
    BY <1>2, <1>5 DEF ToSet
  <2>2. i + 1 \in 1..Len(s) /\ s[i + 1] = x
    BY <1>1, <2>1
  <2> QED
    BY <1>2, <2>2 DEF ToSet
<1> QED
  BY <1>1, <1>3, <1>4, <1>5

LEMMA SetOfOne ==
  ASSUME NEW S, NEW x \in S
  PROVE  <<x>> \in Seq(S) /\ ToSet(<<x>>) = {x} /\ Len(<<x>>) = 1
BY DEF ToSet

LEMMA SetOfNone == ToSet(<<>>) = {} /\ Len(<<>>) = 0
BY DEF ToSet

(* SetToSeq lists the elements of a finite set.                            *)
LEMMA ListedAll ==
  ASSUME NEW S, IsFiniteSet(S)
  PROVE  /\ Cardinality(S) \in Nat /\ SetToSeq(S) \in [1..Cardinality(S) -> S]
         /\ \A x \in S : \E i \in 1..Cardinality(S) : SetToSeq(S)[i] = x
<1> DEFINE n == Cardinality(S)
           f == SetToSeq(S)
<1>1. n \in Nat /\ ExistsBijection(1..n, S)
  BY FS_CardinalityType
<1>2. PICK g \in [1..n -> S] : \A a, b \in 1..n : g[a] = g[b] => a = b
  BY <1>1 DEF ExistsBijection, Bijection, Injection, IsInjective
<1>3. IsInjective(g)
  BY <1>2 DEF IsInjective
<1>4. f \in [1..n -> S] /\ IsInjective(f)
  BY <1>2, <1>3 DEF SetToSeq
<1>5. f \in Injection(1..n, S)
  BY <1>4 DEF Injection, IsInjective
<1>6. IsFiniteSet(1..n) /\ Cardinality(1..n) = n
  BY <1>1, FS_Interval
<1>7. f \in Surjection(1..n, S)
  BY <1>5, <1>6, FS_Injection
<1> QED
  BY <1>1, <1>4, <1>7 DEF Surjection

-----------------------------------------------------------------------------
(* The debates.                                                            *)
Job == [op : {"insert", "complete"}, d : Debates, row : Nat]
RowType == [d : Debates, status : {"pending", "completed"}]
Item == Debates \X Nat

ArchiveTypes ==
  /\ full \in [Debates -> BOOLEAN] /\ ttl \in [Debates -> 0..Forever]
  /\ rested \in BOOLEAN /\ alive \in BOOLEAN /\ written \subseteq Debates
  /\ queue \in Seq(Job) /\ Len(queue) <= QueueMax /\ rows \in Seq(RowType)
  /\ work \in [Workers -> Seq(Item)] /\ stage \in [Workers -> BOOLEAN]

(* Completions and retried debates name rows of the table; the loop has    *)
(* debates that have none.                                                 *)
RowsMatch ==
  /\ \A j \in ToSet(queue) : j.op = "complete" => j.row \in 1..Len(rows)
  /\ \A x \in ToSet(work["retry"]) : x[2] \in 1..Len(rows) /\ rows[x[2]].d = x[1]
  /\ \A x \in ToSet(work["loop"]) : x[2] = 0

StagedIsStored == \A w \in Workers : stage[w] => work[w] # <<>> /\ First(w) \in vdb

(* Somewhere a worker will find it, whatever is completed or cut short: a  *)
(* pending row counts only when no completion of it is under way, and the  *)
(* debates of a retry, which a full queue ends, do not count.              *)
Completing(i) == \E j \in ToSet(queue) : j.op = "complete" /\ j.row = i
HasRow(d) == \E i \in PendingRows : rows[i].d = d /\ ~Completing(i)
Listed(d) == \E x \in ToSet(work["loop"]) : x[1] = d
Safe(d) == d \in vdb \/ HasRow(d) \/ InsertRow(d) \in ToSet(queue) \/ Listed(d)

(* A debate that is not safe is still in Redis, and when this unit has had *)
(* its cycle it outlives the unit.                                         *)
Outlives(d) == full[d] /\ (rested => ttl[d] # 1)
SafeOrAlive == \A d \in written \ excused : Safe(d) \/ Outlives(d)

ArchiveInv ==
  /\ ArchiveTypes /\ RowsMatch /\ StagedIsStored /\ (rested => alive)
  /\ SafeOrAlive /\ FlagIsTrue

LEMMA ArchiveNumbers ==
  /\ Life \in Nat /\ Life > 1 /\ Forever \in Nat /\ Forever > Life /\ Forever = Life + 1
  /\ Window \in 1..Life /\ QueueMax \in Nat /\ QueueMax > 0 /\ BatchMax \in Nat
BY ArchiveAssumption DEF Forever

LEMMA ArchiveStarts == ArchiveInit => ArchiveInv
<1> SUFFICES ASSUME ArchiveInit PROVE ArchiveInv
  OBVIOUS
<1>1. ArchiveTypes
  <2>1. <<>> \in Seq(Job) /\ <<>> \in Seq(RowType) /\ <<>> \in Seq(Item) /\ Len(<<>>) = 0
    BY EmptySeq
  <2>2. ttl \in [Debates -> 0..Forever]
    BY ArchiveNumbers DEF ArchiveInit
  <2>3. 0 <= QueueMax
    BY ArchiveNumbers
  <2> QED
    BY <2>1, <2>2, <2>3 DEF ArchiveInit, ArchiveTypes
<1>2. RowsMatch /\ StagedIsStored
  BY SetOfNone DEF ArchiveInit, RowsMatch, StagedIsStored, Workers
<1> QED
  BY <1>1, <1>2 DEF ArchiveInit, ArchiveInv, SafeOrAlive, FlagIsTrue

(* What Conclude does to the queue and the work.                           *)
LEMMA Concluded ==
  ASSUME ArchiveTypes, NEW w \in Workers, work[w] # <<>>,
         NEW jobs \in {<<>>, <<InsertRow(First(w))>>}, Room(Len(jobs)), Conclude(w, jobs)
  PROVE  /\ queue' \in Seq(Job) /\ Len(queue') <= QueueMax
         /\ ToSet(queue) \cup ToSet(jobs) \subseteq ToSet(queue')
         /\ \A j \in ToSet(queue') :
              j \in ToSet(queue) \cup ToSet(jobs) \/ (j = Complete(w) /\ Row(w) # 0)
         /\ work' \in [Workers -> Seq(Item)] /\ stage' = [stage EXCEPT ![w] = FALSE]
         /\ \A v \in Workers : v # w => work'[v] = work[v]
         /\ work'[w] = Tail(work[w]) \/ (work'[w] = <<>> /\ Row(w) # 0)
<1> DEFINE done == IF Row(w) = 0 THEN <<>> ELSE <<Complete(w)>>
           x == Head(work[w])
<1>1. /\ queue \in Seq(Job) /\ Len(queue) \in Nat /\ work[w] \in Seq(Item)
      /\ x \in Item /\ Tail(work[w]) \in Seq(Item)
  BY SetOfTail, LenProperties DEF ArchiveTypes
<1>2. First(w) \in Debates /\ Row(w) \in Nat
  BY <1>1 DEF First, Row, Item
<1>3. Complete(w) \in Job /\ InsertRow(First(w)) \in Job
  BY <1>2 DEF Complete, InsertRow, Job
<1>4. jobs \in Seq(Job) /\ done \in Seq(Job) /\ Len(jobs) \in Nat /\ Len(done) \in Nat
  <2>1. <<Complete(w)>> \in Seq(Job) /\ <<InsertRow(First(w))>> \in Seq(Job) /\ <<>> \in Seq(Job)
    BY <1>3, SetOfOne, EmptySeq
  <2>2. Len(<<Complete(w)>>) = 1 /\ Len(<<InsertRow(First(w))>>) = 1 /\ Len(<<>>) = 0
    OBVIOUS
  <2> QED
    BY <2>1, <2>2
<1>5. \A j \in ToSet(done) : j = Complete(w) /\ Row(w) # 0
  BY <1>3, SetOfOne, SetOfNone
<1>6. /\ queue \o jobs \in Seq(Job) /\ ToSet(queue \o jobs) = ToSet(queue) \cup ToSet(jobs)
      /\ Len(queue \o jobs) = Len(queue) + Len(jobs)
  BY <1>1, <1>4, SetOfConcat, ConcatProperties
<1>7. /\ (queue \o jobs) \o done \in Seq(Job)
      /\ ToSet((queue \o jobs) \o done) = ToSet(queue) \cup ToSet(jobs) \cup ToSet(done)
      /\ Len((queue \o jobs) \o done) = Len(queue) + Len(jobs) + Len(done)
  <2> HIDE DEF done
  <2>1. queue \o jobs \in Seq(Job) /\ done \in Seq(Job)
    BY <1>4, <1>6
  <2> DEFINE q == queue \o jobs
  <2>2. q \in Seq(Job) /\ ToSet(q) = ToSet(queue) \cup ToSet(jobs) /\ Len(q) = Len(queue) + Len(jobs)
    BY <1>6
  <2> HIDE DEF q
  <2>3. q \o done \in Seq(Job) /\ ToSet(q \o done) = ToSet(q) \cup ToSet(done)
    BY <2>1, <2>2, SetOfConcat
  <2>4. Len(q \o done) = Len(q) + Len(done)
    BY <2>1, <2>2, ConcatProperties
  <2> QED
    BY <2>2, <2>3, <2>4 DEF q
<1>8. CASE Room(Len(jobs) + Len(done))
  <2>1. queue' = (queue \o jobs) \o done /\ Proceed(w)
    BY <1>8 DEF Conclude
  <2>2. Len(queue') <= QueueMax
    <3> HIDE DEF done
    <3> QED
      BY <1>1, <1>4, <1>7, <1>8, <2>1, ArchiveNumbers DEF Room
  <2>3. /\ work' \in [Workers -> Seq(Item)] /\ stage' = [stage EXCEPT ![w] = FALSE]
        /\ \A v \in Workers : v # w => work'[v] = work[v]
        /\ work'[w] = Tail(work[w])
    BY <1>1, <2>1 DEF Proceed, ArchiveTypes
  <2> HIDE DEF done
  <2> QED
    BY <1>5, <1>7, <2>1, <2>2, <2>3
<1>9. CASE ~Room(Len(jobs) + Len(done))
  <2>1. queue' = queue \o jobs /\ Abort(w)
    BY <1>9 DEF Conclude
  <2>2. Len(queue') <= QueueMax
    BY <1>6, <2>1 DEF Room
  <2>3. Row(w) # 0
    BY <1>4, <1>9, SetOfNone
  <2>4. /\ work' \in [Workers -> Seq(Item)] /\ stage' = [stage EXCEPT ![w] = FALSE]
        /\ \A v \in Workers : v # w => work'[v] = work[v]
        /\ work'[w] = <<>>
    BY <2>1, EmptySeq DEF Abort, ArchiveTypes
  <2> HIDE DEF done
  <2> QED
    BY <1>6, <2>1, <2>2, <2>3, <2>4
<1> QED
  BY <1>8, <1>9

(* A worker's step.  What its debate needs is there when the debate leaves *)
(* the work: the document, an insertion that waits, or an excuse.          *)
WorkerMoves(w) ==
  /\ work[w] # <<>> /\ queue' \in Seq(Job) /\ Len(queue') <= QueueMax
  /\ vdb \subseteq vdb' /\ excused \subseteq excused' /\ ToSet(queue) \subseteq ToSet(queue')
  /\ work' \in [Workers -> Seq(Item)] /\ stage' \in [Workers -> BOOLEAN]
  /\ \A v \in Workers : v # w => work'[v] = work[v] /\ stage'[v] = stage[v]
  /\ stage'[w] => work'[w] = work[w] /\ First(w) \in vdb'
  /\ work'[w] = work[w] \/ work'[w] = Tail(work[w]) \/ (work'[w] = <<>> /\ Row(w) # 0)
  /\ \/ work'[w] = work[w] /\ queue' = queue
     \/ First(w) \in vdb' \cup excused' \/ InsertRow(First(w)) \in ToSet(queue')
  /\ \A j \in ToSet(queue') :
       \/ j \in ToSet(queue) \/ j = InsertRow(First(w))
       \/ j = Complete(w) /\ Row(w) # 0
          /\ (First(w) \in vdb' \/ InsertRow(First(w)) \in ToSet(queue'))
  /\ UNCHANGED <<full, rows, rested, alive, written>>

LEMMA FallbackMoves ==
  ASSUME ArchiveTypes, NEW w \in Workers, work[w] # <<>>, Fallback(w),
         UNCHANGED <<full, rows, rested, alive, written, vdb>>
  PROVE  WorkerMoves(w)
<1>1. /\ queue \in Seq(Job) /\ work \in [Workers -> Seq(Item)] /\ stage \in [Workers -> BOOLEAN]
      /\ Len(queue) <= QueueMax /\ Tail(work[w]) \in Seq(Item) /\ work[w] \in Seq(Item)
  BY SetOfTail DEF ArchiveTypes
<1>2. CASE Room(1)
  <2> DEFINE jobs == <<InsertRow(First(w))>>
  <2>1. Conclude(w, jobs) /\ UNCHANGED excused
    BY <1>2 DEF Fallback
  <2>2. Len(jobs) = 1 /\ InsertRow(First(w)) \in ToSet(jobs)
        /\ \A j \in ToSet(jobs) : j = InsertRow(First(w))
    BY DEF ToSet
  <2>3. jobs \in {<<>>, <<InsertRow(First(w))>>} /\ Room(Len(jobs))
    BY <1>2, <2>2
  <2> HIDE DEF jobs
  <2>4. /\ queue' \in Seq(Job) /\ Len(queue') <= QueueMax
        /\ ToSet(queue) \cup ToSet(jobs) \subseteq ToSet(queue')
        /\ \A j \in ToSet(queue') :
             j \in ToSet(queue) \cup ToSet(jobs) \/ (j = Complete(w) /\ Row(w) # 0)
        /\ work' \in [Workers -> Seq(Item)] /\ stage' = [stage EXCEPT ![w] = FALSE]
        /\ \A v \in Workers : v # w => work'[v] = work[v]
        /\ work'[w] = Tail(work[w]) \/ (work'[w] = <<>> /\ Row(w) # 0)
    BY <2>1, <2>3, Concluded
  <2> QED
    BY <1>1, <2>1, <2>2, <2>4 DEF WorkerMoves
<1>3. CASE ~Room(1)
  <2>1. excused' = excused \cup {First(w)} /\ Proceed(w) /\ UNCHANGED queue
    BY <1>3 DEF Fallback
  <2> QED
    BY <1>1, <2>1 DEF Proceed, WorkerMoves
<1> QED
  BY <1>2, <1>3

LEMMA StoreMoves ==
  ASSUME ArchiveTypes, NEW w \in Workers, StoreDebate(w)
  PROVE  WorkerMoves(w)
<1>1. UNCHANGED <<full, rows, rested, alive, written>> /\ work[w] # <<>>
  BY DEF StoreDebate, redisVars
<1>2. CASE vdb' = vdb \cup {First(w)} /\ stage' = [stage EXCEPT ![w] = TRUE]
           /\ UNCHANGED <<work, queue, excused>>
  BY <1>1, <1>2 DEF WorkerMoves, ArchiveTypes
<1>3. CASE Fallback(w) /\ UNCHANGED vdb
  BY <1>1, <1>3, FallbackMoves
<1> QED
  BY <1>2, <1>3 DEF StoreDebate

LEMMA MarkMoves ==
  ASSUME ArchiveTypes, StagedIsStored, NEW w \in Workers, MarkArchived(w)
  PROVE  WorkerMoves(w)
<1>1. UNCHANGED <<full, rows, rested, alive, written, vdb>> /\ work[w] # <<>>
  BY DEF MarkArchived
<1>2. First(w) \in vdb
  BY DEF MarkArchived, StagedIsStored
<1>3. CASE Conclude(w, <<>>) /\ UNCHANGED excused
  <2>1. Room(Len(<<>>))
    BY ArchiveNumbers, LenProperties, SetOfNone DEF Room, ArchiveTypes
  <2> DEFINE jobs == <<>>
  <2>2. /\ jobs \in {<<>>, <<InsertRow(First(w))>>} /\ Room(Len(jobs)) /\ Conclude(w, jobs)
    BY <1>3, <2>1
  <2>3. ToSet(jobs) = {}
    BY SetOfNone
  <2> HIDE DEF jobs
  <2>4. /\ queue' \in Seq(Job) /\ Len(queue') <= QueueMax
        /\ ToSet(queue) \cup ToSet(jobs) \subseteq ToSet(queue')
        /\ \A j \in ToSet(queue') :
             j \in ToSet(queue) \cup ToSet(jobs) \/ (j = Complete(w) /\ Row(w) # 0)
        /\ work' \in [Workers -> Seq(Item)] /\ stage' = [stage EXCEPT ![w] = FALSE]
        /\ \A v \in Workers : v # w => work'[v] = work[v]
        /\ work'[w] = Tail(work[w]) \/ (work'[w] = <<>> /\ Row(w) # 0)
    BY <1>1, <2>2, Concluded
  <2> QED
    BY <1>1, <1>2, <1>3, <2>3, <2>4 DEF WorkerMoves, ArchiveTypes
<1>4. CASE Fallback(w)
  BY <1>1, <1>4, FallbackMoves
<1> QED
  BY <1>3, <1>4 DEF MarkArchived

LEMMA WorkerKeeps ==
  ASSUME ArchiveInv, NEW w \in Workers, StoreDebate(w) \/ MarkArchived(w)
  PROVE  ArchiveInv'
<1>1. WorkerMoves(w)
  BY StoreMoves, MarkMoves DEF ArchiveInv
<1>2. /\ ttl' \in [Debates -> 0..Forever]
      /\ \A d \in Debates : ttl'[d] = 1 => ttl[d] = 1
      /\ \A d \in Debates : ttl'[d] > 0 => ttl[d] > 0 \/ d \in flagged'
      /\ flagged \subseteq flagged' /\ flagged' \subseteq vdb'
  <2>1. /\ ttl \in [Debates -> 0..Forever] /\ flagged \subseteq vdb /\ vdb \subseteq vdb'
        /\ work[w] \in Seq(Item)
    BY <1>1 DEF ArchiveInv, ArchiveTypes, FlagIsTrue, WorkerMoves
  <2>2. CASE UNCHANGED <<ttl, flagged>>
    BY <2>1, <2>2
  <2>3. CASE /\ MarkArchived(w) /\ flagged' = flagged \cup {First(w)}
             /\ ttl' = [ttl EXCEPT ![First(w)] = IF @ = 0 THEN Forever ELSE @]
    <3>1. First(w) \in vdb
      BY <2>3 DEF ArchiveInv, StagedIsStored, MarkArchived
    <3>2. \A d \in Debates :
            ttl'[d] = IF d = First(w) /\ ttl[d] = 0 THEN Forever ELSE ttl[d]
      BY <2>1, <2>3
    <3>3. ttl' \in [Debates -> 0..Forever]
      <4> DEFINE n == IF ttl[First(w)] = 0 THEN Forever ELSE ttl[First(w)]
                 x == First(w)
      <4>1. x \in Debates
        <5>1. Head(work[w]) \in Item
          BY <1>1, <2>1, SetOfTail DEF WorkerMoves
        <5> QED
          BY <5>1 DEF First, Item
      <4>2. n \in 0..Forever
        BY <2>1, <4>1, ArchiveNumbers
      <4>3. ttl' = [ttl EXCEPT ![x] = n]
        BY <2>1, <2>3
      <4> HIDE DEF n, x
      <4> QED
        BY <2>1, <4>2, <4>3
    <3>4. \A d \in Debates : ttl'[d] = 1 => ttl[d] = 1
      BY <3>2, ArchiveNumbers
    <3>5. \A d \in Debates : ttl'[d] > 0 => ttl[d] > 0 \/ d \in flagged'
      BY <2>3, <3>2
    <3> QED
      BY <2>1, <2>3, <3>1, <3>3, <3>4, <3>5
  <2> QED
    BY <2>2, <2>3 DEF StoreDebate, MarkArchived, redisVars
<1>3. ArchiveTypes'
  BY <1>1, <1>2 DEF ArchiveInv, ArchiveTypes, WorkerMoves
<1>4. /\ Head(work[w]) \in ToSet(work[w]) /\ First(w) = Head(work[w])[1]
      /\ Row(w) = Head(work[w])[2]
      /\ ToSet(work[w]) = {Head(work[w])} \cup ToSet(Tail(work[w]))
  <2>1. work[w] \in Seq(Item) /\ work[w] # <<>>
    BY <1>1 DEF WorkerMoves, ArchiveInv, ArchiveTypes
  <2> QED
    BY <2>1, SetOfTail DEF First, Row
<1>5. \A v \in Workers : ToSet(work'[v]) \subseteq ToSet(work[v])
  BY <1>1, <1>4, SetOfNone DEF WorkerMoves
<1>6. RowsMatch'
  <2>1. w = "retry" \/ Row(w) = 0
    BY <1>4 DEF ArchiveInv, RowsMatch, Workers
  <2>2. Row(w) # 0 => Row(w) \in 1..Len(rows)
    BY <1>4, <2>1 DEF ArchiveInv, RowsMatch
  <2>3. \A j \in ToSet(queue') : j.op = "complete" => j.row \in 1..Len(rows)
    <3>1. InsertRow(First(w)).op = "insert" /\ Complete(w).row = Row(w)
      BY DEF InsertRow, Complete
    <3> QED
      BY <1>1, <2>2, <3>1 DEF WorkerMoves, ArchiveInv, RowsMatch
  <2>4. rows' = rows
    BY <1>1 DEF WorkerMoves
  <2> QED
    BY <1>5, <2>3, <2>4 DEF ArchiveInv, RowsMatch, Workers
<1>7. StagedIsStored'
  <2> SUFFICES ASSUME NEW v \in Workers, stage'[v]
               PROVE  work'[v] # <<>> /\ Head(work'[v])[1] \in vdb'
    BY DEF StagedIsStored, First
  <2>1. CASE v = w
    BY <1>1, <2>1 DEF WorkerMoves, First
  <2>2. CASE v # w
    BY <1>1, <2>2 DEF WorkerMoves, ArchiveInv, StagedIsStored, First
  <2> QED
    BY <2>1, <2>2
<1>8. SafeOrAlive'
  <2> SUFFICES ASSUME NEW d \in written' \ excused' PROVE (Safe(d) \/ Outlives(d))'
    BY DEF SafeOrAlive
  <2>1. d \in written \ excused /\ d \in Debates
    BY <1>1 DEF WorkerMoves, ArchiveInv, ArchiveTypes
  <2>2. ASSUME Outlives(d) PROVE Outlives(d)'
    BY <1>1, <1>2, <2>1, <2>2 DEF WorkerMoves, Outlives
  <2>3. ASSUME d \in vdb \/ InsertRow(d) \in ToSet(queue) PROVE Safe(d)'
    BY <1>1, <2>3 DEF WorkerMoves, Safe, InsertRow
  <2>4. ASSUME Listed(d) PROVE Safe(d)'
    <3>1. PICK x \in ToSet(work["loop"]) : x[1] = d
      BY <2>4 DEF Listed
    <3>2. CASE x \in ToSet(work'["loop"])
      BY <3>1, <3>2 DEF Listed, Safe
    <3>3. CASE x \notin ToSet(work'["loop"])
      <4>1. w = "loop"
        BY <1>1, <3>1, <3>3 DEF WorkerMoves, Workers
      <4>2. Row(w) = 0
        BY <1>4, <4>1 DEF ArchiveInv, RowsMatch
      <4>3. work'[w] = Tail(work[w]) /\ work'[w] # work[w]
        BY <1>1, <3>1, <3>3, <4>1, <4>2 DEF WorkerMoves
      <4>4. x = Head(work[w])
        BY <1>4, <3>1, <3>3, <4>1, <4>3
      <4>5. First(w) = d
        BY <1>4, <3>1, <4>4
      <4> QED
        BY <1>1, <4>3, <4>5 DEF WorkerMoves, Safe, InsertRow
    <3> QED
      BY <3>2, <3>3
  <2>5. ASSUME HasRow(d) PROVE Safe(d)'
    <3>1. PICK i \in PendingRows : rows[i].d = d /\ ~Completing(i)
      BY <2>5 DEF HasRow
    <3>2. CASE ~Completing(i)'
      BY <1>1, <3>1, <3>2 DEF WorkerMoves, Safe, HasRow, PendingRows
    <3>3. CASE Completing(i)'
      <4>1. PICK j \in ToSet(queue') : j.op = "complete" /\ j.row = i
        BY <3>3 DEF Completing
      <4>2. j \notin ToSet(queue)
        BY <3>1, <4>1 DEF Completing
      <4>3. j # InsertRow(First(w))
        BY <4>1 DEF InsertRow
      <4>4. /\ j = Complete(w) /\ Row(w) # 0
            /\ (First(w) \in vdb' \/ InsertRow(First(w)) \in ToSet(queue'))
        BY <1>1, <4>2, <4>3 DEF WorkerMoves
      <4>5. Row(w) = i /\ w = "retry"
        BY <1>4, <4>1, <4>4 DEF Complete, ArchiveInv, RowsMatch, Workers
      <4>6. First(w) = d
        BY <1>4, <3>1, <4>5 DEF ArchiveInv, RowsMatch
      <4> QED
        BY <4>4, <4>6 DEF Safe, InsertRow
    <3> QED
      BY <3>2, <3>3
  <2> QED
    BY <2>1, <2>2, <2>3, <2>4, <2>5 DEF ArchiveInv, SafeOrAlive, Safe
<1>9. FlagIsTrue'
  BY <1>1, <1>2 DEF ArchiveInv, FlagIsTrue, WorkerMoves
<1> QED
  BY <1>1, <1>3, <1>6, <1>7, <1>8, <1>9 DEF ArchiveInv, WorkerMoves

LEMMA SetDebateKeeps ==
  ASSUME ArchiveInv, NEW d \in Debates, SetDebate(d)
  PROVE  ArchiveInv'
<1>1. /\ UNCHANGED <<flagged, vdb, rows, queue, work, stage, rested, alive>>
      /\ written' = written \cup {d} /\ full' = [full EXCEPT ![d] = TRUE]
      /\ excused \subseteq excused'
      /\ ttl' = [ttl EXCEPT ![d] = Life] \/ ttl' = [ttl EXCEPT ![d] = Forever]
  BY DEF SetDebate
<1>2. /\ ttl' \in [Debates -> 0..Forever] /\ full' \in [Debates -> BOOLEAN] /\ ttl'[d] # 1
      /\ \A x \in Debates : x # d => ttl'[x] = ttl[x] /\ full'[x] = full[x]
      /\ full'[d]
  <2>1. PICK n \in {Life, Forever} : ttl' = [ttl EXCEPT ![d] = n]
    BY <1>1
  <2>2. n \in 0..Forever /\ n # 1
    BY ArchiveNumbers
  <2>3. ttl \in [Debates -> 0..Forever] /\ full \in [Debates -> BOOLEAN]
    BY DEF ArchiveInv, ArchiveTypes
  <2> QED
    BY <1>1, <2>1, <2>2, <2>3
<1>3. ArchiveTypes'
  BY <1>1, <1>2 DEF ArchiveInv, ArchiveTypes
<1>4. RowsMatch' /\ StagedIsStored' /\ (rested' => alive')
  BY <1>1 DEF ArchiveInv, RowsMatch, StagedIsStored, First
<1>5. \A x : Safe(x) => Safe(x)'
  BY <1>1 DEF Safe, HasRow, Completing, Listed, PendingRows, InsertRow
<1>6. SafeOrAlive'
  <2> SUFFICES ASSUME NEW x \in written' \ excused' PROVE (Safe(x) \/ Outlives(x))'
    BY DEF SafeOrAlive
  <2>1. CASE x = d
    BY <1>1, <1>2, <2>1 DEF Outlives
  <2>2. CASE x # d
    <3>1. x \in written \ excused /\ x \in Debates
      BY <1>1, <2>2 DEF ArchiveInv, ArchiveTypes
    <3>2. Outlives(x) => Outlives(x)'
      BY <1>1, <1>2, <2>2, <3>1 DEF Outlives
    <3> QED
      BY <1>5, <3>1, <3>2 DEF ArchiveInv, SafeOrAlive
  <2> QED
    BY <2>1, <2>2
<1>7. FlagIsTrue'
  BY <1>1, <1>2 DEF ArchiveInv, FlagIsTrue
<1> QED
  BY <1>3, <1>4, <1>6, <1>7 DEF ArchiveInv

LEMMA BeginCycleKeeps ==
  ASSUME ArchiveInv, BeginCycle
  PROVE  ArchiveInv'
<1>1. /\ UNCHANGED <<full, ttl, flagged, vdb, rows, queue, stage, alive, written>>
      /\ rested' = TRUE /\ alive /\ ~rested /\ work["loop"] = <<>>
  BY DEF BeginCycle, redisVars
<1>2. /\ work' \in [Workers -> Seq(Item)] /\ work'["retry"] = work["retry"]
      /\ \A x \in ToSet(work'["loop"]) : x[2] = 0
      /\ \A d \in Due : d \in excused' \/ Listed(d)'
      /\ \A d \in excused : d \in excused' \/ Listed(d)'
  <2>1. CASE UNCHANGED work /\ excused' = excused \cup Due
    BY <1>1, <2>1, SetOfNone DEF ArchiveInv, ArchiveTypes
  <2>2. CASE \E S \in Batches(Due) :
               /\ work' = [work EXCEPT !["loop"] =
                             [i \in 1..Cardinality(S) |-> <<SetToSeq(S)[i], 0>>]]
               /\ excused' = (excused \ S) \cup (Due \ S)
    <3>1. PICK S \in Batches(Due) :
               /\ work' = [work EXCEPT !["loop"] =
                             [i \in 1..Cardinality(S) |-> <<SetToSeq(S)[i], 0>>]]
               /\ excused' = (excused \ S) \cup (Due \ S)
      BY <2>2
    <3> DEFINE n == Cardinality(S)
               list == [i \in 1..n |-> <<SetToSeq(S)[i], 0>>]
    <3>2. S \subseteq Debates /\ IsFiniteSet(S)
      <4>1. S \subseteq Due
        BY <3>1 DEF Batches, kSubset
      <4>2. S \in SUBSET Debates
        BY <4>1 DEF Due
      <4> QED
        BY <4>2, ArchiveAssumption, FS_Subset
    <3>3. /\ n \in Nat /\ SetToSeq(S) \in [1..n -> S]
          /\ \A x \in S : \E i \in 1..n : SetToSeq(S)[i] = x
      BY <3>2, ListedAll
    <3>4. list \in Seq(Item) /\ DOMAIN list = 1..n /\ \A i \in 1..n : list[i] = <<SetToSeq(S)[i], 0>>
      <4>1. \A i \in 1..n : <<SetToSeq(S)[i], 0>> \in Item
        BY <3>2, <3>3 DEF Item
      <4>2. list \in [1..n -> Item]
        BY <4>1
      <4>3. \A i \in 1..n : list[i] = <<SetToSeq(S)[i], 0>>
        OBVIOUS
      <4> HIDE DEF list
      <4> QED
        BY <3>3, <4>2, <4>3, SeqDef
    <3>5. work' = [work EXCEPT !["loop"] = list]
      BY <3>1
    <3> HIDE DEF list, n
    <3>6. work' \in [Workers -> Seq(Item)] /\ work'["retry"] = work["retry"] /\ work'["loop"] = list
      BY <3>4, <3>5 DEF ArchiveInv, ArchiveTypes, Workers
    <3>7. \A x \in ToSet(list) : x[2] = 0
      BY <3>4 DEF ToSet
    <3>8. ASSUME NEW d \in S PROVE Listed(d)'
      <4>1. PICK i \in 1..n : SetToSeq(S)[i] = d
        BY <3>3
      <4>2. list[i] \in ToSet(list) /\ list[i][1] = d
        BY <3>4, <4>1 DEF ToSet
      <4> QED
        BY <3>6, <4>2 DEF Listed
    <3> QED
      BY <3>1, <3>6, <3>7, <3>8
  <2> QED
    BY <2>1, <2>2 DEF BeginCycle
<1>3. ArchiveTypes'
  BY <1>1, <1>2 DEF ArchiveInv, ArchiveTypes
<1>4. RowsMatch'
  BY <1>1, <1>2 DEF ArchiveInv, RowsMatch
<1>5. StagedIsStored'
  <2> SUFFICES ASSUME NEW w \in Workers, stage[w] PROVE (work[w] # <<>> /\ First(w) \in vdb)'
    BY <1>1 DEF StagedIsStored
  <2>1. w = "retry"
    BY <1>1 DEF ArchiveInv, StagedIsStored, Workers
  <2> QED
    BY <1>1, <1>2, <2>1 DEF ArchiveInv, StagedIsStored, First
<1>6. SafeOrAlive'
  <2> SUFFICES ASSUME NEW d \in written' \ excused', ~Listed(d)' PROVE (Safe(d) \/ Outlives(d))'
    BY DEF SafeOrAlive, Safe
  <2>1. d \in written \ excused /\ d \in Debates /\ d \notin Due
    BY <1>1, <1>2 DEF ArchiveInv, ArchiveTypes
  <2>2. ~Listed(d)
    BY <1>1, SetOfNone DEF Listed
  <2>3. Safe(d) => Safe(d)'
    BY <1>1, <2>2 DEF Safe, HasRow, Completing, PendingRows, InsertRow
  <2>4. Outlives(d) => Outlives(d)'
    <3>1. full[d] => ttl[d] # 1
      BY <2>1, ArchiveNumbers DEF Due
    <3> QED
      BY <1>1, <3>1 DEF Outlives
  <2> QED
    BY <2>1, <2>3, <2>4 DEF ArchiveInv, SafeOrAlive
<1>7. FlagIsTrue'
  BY <1>1 DEF ArchiveInv, FlagIsTrue
<1> QED
  BY <1>1, <1>3, <1>4, <1>5, <1>6, <1>7 DEF ArchiveInv

LEMMA BeginRetryKeeps ==
  ASSUME ArchiveInv, BeginRetry
  PROVE  ArchiveInv'
<1>1. /\ UNCHANGED <<full, ttl, flagged, vdb, rows, queue, stage, rested, alive, written, excused>>
      /\ work["retry"] = <<>>
  BY DEF BeginRetry, redisVars, histories
<1>2. \E m \in Nat : \E ids \in [1..m -> PendingRows] :
        work' = [work EXCEPT !["retry"] = [i \in 1..m |-> <<rows[ids[i]].d, ids[i]>>]]
  <2> DEFINE k == Cardinality(PendingRows)
             m == IF k < BatchMax THEN k ELSE BatchMax
  <2>1. \E ids \in Oldest(m) :
          work' = [work EXCEPT !["retry"] = [i \in 1..m |-> <<rows[ids[i]].d, ids[i]>>]]
    BY DEF BeginRetry
  <2>2. m \in Nat
    <3>1. PendingRows \in SUBSET (1..Len(rows)) /\ IsFiniteSet(1..Len(rows))
      <4>1. Len(rows) \in Nat
        BY LenProperties DEF ArchiveInv, ArchiveTypes
      <4>2. IsFiniteSet(1..Len(rows))
        BY <4>1, FS_Interval
      <4> QED
        BY <4>2 DEF PendingRows
    <3>2. k \in Nat
      BY <3>1, FS_Subset, FS_CardinalityType
    <3> HIDE DEF k
    <3> QED
      BY <3>2, ArchiveNumbers
  <2> HIDE DEF m
  <2> QED
    BY <2>1, <2>2 DEF Oldest
<1>3. PICK n \in Nat : \E ids \in [1..n -> PendingRows] :
         work' = [work EXCEPT !["retry"] = [i \in 1..n |-> <<rows[ids[i]].d, ids[i]>>]]
  BY <1>2
<1>4. PICK ids \in [1..n -> PendingRows] :
         work' = [work EXCEPT !["retry"] = [i \in 1..n |-> <<rows[ids[i]].d, ids[i]>>]]
  BY <1>3
<1> DEFINE list == [i \in 1..n |-> <<rows[ids[i]].d, ids[i]>>]
<1>5. \A i \in 1..n : ids[i] \in 1..Len(rows) /\ rows[ids[i]].d \in Debates /\ ids[i] \in Nat
  <2>1. \A r \in 1..Len(rows) : r \in Nat /\ rows[r] \in RowType
    BY ElementOfSeq, LenProperties DEF ArchiveInv, ArchiveTypes
  <2>2. \A i \in 1..n : ids[i] \in 1..Len(rows)
    BY DEF PendingRows
  <2> QED
    BY <2>1, <2>2 DEF RowType
<1>6. list \in Seq(Item) /\ DOMAIN list = 1..n
  <2>1. list \in [1..n -> Item]
    BY <1>5 DEF Item
  <2> QED
    BY <2>1, SeqDef
<1>7. \A x \in ToSet(list) : x[2] \in 1..Len(rows) /\ rows[x[2]].d = x[1]
  BY <1>5, <1>6 DEF ToSet
<1>8. work' = [work EXCEPT !["retry"] = list]
  BY <1>4
<1> HIDE DEF list
<1>9. work' \in [Workers -> Seq(Item)] /\ work'["loop"] = work["loop"] /\ work'["retry"] = list
  BY <1>6, <1>8 DEF ArchiveInv, ArchiveTypes, Workers
<1>10. ArchiveTypes'
  BY <1>1, <1>9 DEF ArchiveInv, ArchiveTypes
<1>11. RowsMatch'
  BY <1>1, <1>7, <1>9 DEF ArchiveInv, RowsMatch
<1>12. StagedIsStored'
  <2> SUFFICES ASSUME NEW w \in Workers, stage[w] PROVE (work[w] # <<>> /\ First(w) \in vdb)'
    BY <1>1 DEF StagedIsStored
  <2>1. w = "loop"
    BY <1>1 DEF ArchiveInv, StagedIsStored, Workers
  <2> QED
    BY <1>1, <1>9, <2>1 DEF ArchiveInv, StagedIsStored, First
<1>13. SafeOrAlive'
  <2>1. \A d : Safe(d) => Safe(d)'
    BY <1>1, <1>9 DEF Safe, HasRow, Completing, Listed, PendingRows, InsertRow
  <2>2. \A d : Outlives(d) => Outlives(d)'
    BY <1>1 DEF Outlives
  <2> QED
    BY <1>1, <2>1, <2>2 DEF ArchiveInv, SafeOrAlive
<1>14. FlagIsTrue'
  BY <1>1 DEF ArchiveInv, FlagIsTrue
<1> QED
  BY <1>1, <1>10, <1>11, <1>12, <1>13, <1>14 DEF ArchiveInv

LEMMA CommitKeeps ==
  ASSUME ArchiveInv, Commit
  PROVE  ArchiveInv'
<1> DEFINE j == Head(queue)
<1>1. /\ UNCHANGED <<full, ttl, flagged, vdb, work, stage, rested, alive, written, excused>>
      /\ queue # <<>> /\ queue' = Tail(queue)
      /\ rows' = IF j.op = "insert" THEN Append(rows, [d |-> j.d, status |-> "pending"])
                 ELSE [rows EXCEPT ![j.row].status = "completed"]
  BY DEF Commit, redisVars, histories
<1>2. /\ queue \in Seq(Job) /\ rows \in Seq(RowType) /\ Len(queue) <= QueueMax
      /\ Len(rows) \in Nat /\ DOMAIN rows = 1..Len(rows) /\ Len(queue) \in Nat
      /\ \A i \in 1..Len(rows) : rows[i] \in RowType
  BY ElementOfSeq, LenProperties DEF ArchiveInv, ArchiveTypes
<1>3. /\ j \in Job /\ j \in ToSet(queue) /\ queue' \in Seq(Job) /\ Len(queue') = Len(queue) - 1
      /\ ToSet(queue) = {j} \cup ToSet(queue')
  BY <1>1, <1>2, SetOfTail
<1> HIDE DEF j
<1>4. /\ rows' \in Seq(RowType) /\ Len(rows') \in Nat /\ Len(rows) <= Len(rows')
      /\ \A i \in 1..Len(rows) : rows'[i].d = rows[i].d
      /\ \A i \in 1..Len(rows) :
           rows[i].status = "pending" /\ ~(j.op = "complete" /\ j.row = i)
             => rows'[i].status = "pending"
      /\ j.op = "insert" => /\ Len(rows) + 1 \in 1..Len(rows')
                            /\ rows'[Len(rows) + 1] = [d |-> j.d, status |-> "pending"]
  <2>1. CASE j.op = "insert"
    <3>1. [d |-> j.d, status |-> "pending"] \in RowType
      BY <1>3 DEF Job, RowType
    <3>2. rows' = Append(rows, [d |-> j.d, status |-> "pending"])
      BY <1>1, <2>1
    <3>3. /\ rows' \in Seq(RowType) /\ Len(rows') = Len(rows) + 1
          /\ \A i \in 1..Len(rows) : rows'[i] = rows[i]
          /\ rows'[Len(rows) + 1] = [d |-> j.d, status |-> "pending"]
      BY <1>2, <3>1, <3>2, AppendProperties
    <3> QED
      BY <1>2, <3>3, SMTT(20)
  <2>2. CASE j.op # "insert"
    <3>1. j.op = "complete" /\ j.row \in 1..Len(rows)
      BY <1>3, <2>2 DEF Job, ArchiveInv, RowsMatch
    <3>2. rows' = [rows EXCEPT ![j.row] = [rows[j.row] EXCEPT !.status = "completed"]]
      BY <1>1, <2>2
    <3> DEFINE r == [rows[j.row] EXCEPT !.status = "completed"]
    <3>3. r \in RowType /\ r.d = rows[j.row].d
      BY <1>2, <3>1 DEF RowType
    <3> HIDE DEF r
    <3>4. /\ rows' \in Seq(RowType) /\ Len(rows') = Len(rows)
          /\ \A i \in 1..Len(rows) : rows'[i] = IF i = j.row THEN r ELSE rows[i]
      BY <1>2, <3>1, <3>2, <3>3, ExceptSeq DEF r
    <3>5. \A i \in 1..Len(rows) : rows'[i].d = rows[i].d
      BY <3>1, <3>3, <3>4
    <3>6. \A i \in 1..Len(rows) :
            rows[i].status = "pending" /\ ~(j.op = "complete" /\ j.row = i)
              => rows'[i].status = "pending"
      BY <3>1, <3>4
    <3>7. Len(rows') \in Nat /\ Len(rows) <= Len(rows')
      BY <1>2, <3>4
    <3> QED
      BY <2>2, <3>4, <3>5, <3>6, <3>7
  <2> QED
    BY <2>1, <2>2
<1>5. ArchiveTypes'
  <2>1. Len(queue') <= QueueMax
    BY <1>2, <1>3, ArchiveNumbers
  <2> QED
    BY <1>1, <1>3, <1>4, <2>1 DEF ArchiveInv, ArchiveTypes
<1>6. RowsMatch'
  <2>1. 1..Len(rows) \subseteq 1..Len(rows')
    BY <1>2, <1>4
  <2> QED
    BY <1>1, <1>3, <1>4, <2>1 DEF ArchiveInv, RowsMatch
<1>7. StagedIsStored' /\ (rested' => alive') /\ FlagIsTrue'
  BY <1>1 DEF ArchiveInv, StagedIsStored, First, FlagIsTrue
<1>8. SafeOrAlive'
  <2> SUFFICES ASSUME NEW d \in written \ excused PROVE (Safe(d) \/ Outlives(d))'
    BY <1>1 DEF SafeOrAlive
  <2>1. Outlives(d) => Outlives(d)'
    BY <1>1 DEF Outlives
  <2>2. d \in vdb \/ Listed(d) => Safe(d)'
    BY <1>1 DEF Safe, Listed
  <2>3. ASSUME HasRow(d) PROVE Safe(d)'
    <3>1. PICK i \in 1..Len(rows) : rows[i].status = "pending" /\ rows[i].d = d /\ ~Completing(i)
      BY <2>3 DEF HasRow, PendingRows
    <3>2. ~(j.op = "complete" /\ j.row = i) /\ ~Completing(i)'
      BY <1>3, <3>1 DEF Completing
    <3>3. i \in 1..Len(rows') /\ rows'[i].status = "pending" /\ rows'[i].d = d
      BY <1>2, <1>4, <3>1, <3>2
    <3> QED
      BY <3>2, <3>3 DEF Safe, HasRow, PendingRows
  <2>4. ASSUME InsertRow(d) \in ToSet(queue) PROVE Safe(d)'
    <3>1. CASE InsertRow(d) \in ToSet(queue')
      BY <3>1 DEF Safe, InsertRow
    <3>2. CASE j = InsertRow(d)
      <4>1. j.op = "insert" /\ j.d = d
        BY <3>2 DEF InsertRow
      <4>2. \A x \in ToSet(queue') : ~(x.op = "complete" /\ x.row = Len(rows) + 1)
        <5> SUFFICES ASSUME NEW x \in ToSet(queue'), x.op = "complete", x.row = Len(rows) + 1
                     PROVE  FALSE
          OBVIOUS
        <5>1. x.row \in 1..Len(rows)
          BY <1>3 DEF ArchiveInv, RowsMatch
        <5> QED
          BY <1>2, <5>1
      <4>3. /\ Len(rows) + 1 \in 1..Len(rows') /\ rows'[Len(rows) + 1].d = d
            /\ rows'[Len(rows) + 1].status = "pending"
        BY <1>4, <4>1
      <4>4. HasRow(d)'
        BY <4>2, <4>3 DEF HasRow, PendingRows, Completing
      <4> QED
        BY <4>4 DEF Safe
    <3> QED
      BY <1>3, <2>4, <3>1, <3>2
  <2> QED
    BY <2>1, <2>2, <2>3, <2>4 DEF ArchiveInv, SafeOrAlive, Safe
<1> QED
  BY <1>5, <1>6, <1>7, <1>8 DEF ArchiveInv

(* A unit ends only with its cycle begun: what dies then is safe.          *)
LEMMA TickKeeps ==
  ASSUME ArchiveInv, Tick
  PROVE  ArchiveInv'
<1>1. /\ UNCHANGED <<vdb, rows, queue, work, stage, alive, written>>
      /\ rested \/ ~alive
      /\ ttl' = [d \in Debates |-> IF ttl[d] \in 1..Life THEN ttl[d] - 1 ELSE ttl[d]]
      /\ full' = [d \in Debates |-> full[d] /\ ttl[d] # 1]
      /\ flagged' = flagged \ {d \in Debates : ttl[d] = 1}
      /\ rested' = FALSE
      /\ excused' = IF alive THEN excused ELSE excused \cup {d \in Debates : ttl[d] = 1}
  BY DEF Tick
<1>2. ttl \in [Debates -> 0..Forever] /\ full \in [Debates -> BOOLEAN]
  BY DEF ArchiveInv, ArchiveTypes
<1>3. \A d \in Debates : /\ ttl'[d] \in 0..Forever
                         /\ ttl'[d] > 0 => ttl[d] > 0 /\ ttl[d] # 1
                         /\ full'[d] <=> (full[d] /\ ttl[d] # 1)
  <2> SUFFICES ASSUME NEW d \in Debates
               PROVE  /\ ttl'[d] \in 0..Forever
                      /\ ttl'[d] > 0 => ttl[d] > 0 /\ ttl[d] # 1
                      /\ full'[d] <=> (full[d] /\ ttl[d] # 1)
    OBVIOUS
  <2>1. /\ ttl'[d] = (IF ttl[d] \in 1..Life THEN ttl[d] - 1 ELSE ttl[d])
        /\ full'[d] = (full[d] /\ ttl[d] # 1)
    BY <1>1
  <2>2. ttl[d] \in 0..Forever
    BY <1>2
  <2>3. ttl'[d] \in 0..Forever
    BY <2>1, <2>2, ArchiveNumbers
  <2>4. ttl'[d] > 0 => ttl[d] > 0 /\ ttl[d] # 1
    BY <2>1, <2>2, ArchiveNumbers
  <2> QED
    BY <2>1, <2>3, <2>4
<1>4. ttl' \in [Debates -> 0..Forever] /\ full' \in [Debates -> BOOLEAN]
  <2>1. \A d \in Debates : (full[d] /\ ttl[d] # 1) \in BOOLEAN
    OBVIOUS
  <2>2. full' \in [Debates -> BOOLEAN]
    BY <1>1, <2>1
  <2>3. \A d \in Debates : (IF ttl[d] \in 1..Life THEN ttl[d] - 1 ELSE ttl[d]) \in 0..Forever
    BY <1>2, ArchiveNumbers
  <2> QED
    BY <1>1, <2>2, <2>3
<1>5. ArchiveTypes'
  BY <1>1, <1>4 DEF ArchiveInv, ArchiveTypes
<1>6. RowsMatch' /\ StagedIsStored' /\ (rested' => alive')
  BY <1>1 DEF ArchiveInv, RowsMatch, StagedIsStored, First
<1>7. SafeOrAlive'
  <2> SUFFICES ASSUME NEW d \in written' \ excused' PROVE (Safe(d) \/ Outlives(d))'
    BY DEF SafeOrAlive
  <2>1. d \in written \ excused /\ d \in Debates /\ (~alive => ttl[d] # 1)
    BY <1>1 DEF ArchiveInv, ArchiveTypes
  <2>2. Safe(d) => Safe(d)'
    BY <1>1 DEF Safe, HasRow, Completing, Listed, PendingRows, InsertRow
  <2>3. Outlives(d) => Outlives(d)'
    BY <1>1, <1>3, <2>1 DEF Outlives
  <2> QED
    BY <2>1, <2>2, <2>3 DEF ArchiveInv, SafeOrAlive
<1>8. FlagIsTrue'
  BY <1>1, <1>3 DEF ArchiveInv, FlagIsTrue
<1> QED
  BY <1>5, <1>6, <1>7, <1>8 DEF ArchiveInv

LEMMA StopKeeps ==
  ASSUME ArchiveInv, Stop
  PROVE  ArchiveInv'
<1>1. /\ UNCHANGED <<full, ttl, flagged, vdb, rows, queue, written>>
      /\ rested' = FALSE /\ Abort("loop")
      /\ excused' = excused \cup {work["loop"][i][1] : i \in 1..Len(work["loop"])}
      /\ alive' = FALSE
  BY DEF Stop, redisVars
<1>2. /\ work' \in [Workers -> Seq(Item)] /\ stage' \in [Workers -> BOOLEAN]
      /\ work'["loop"] = <<>> /\ ~stage'["loop"]
      /\ work'["retry"] = work["retry"] /\ stage'["retry"] = stage["retry"]
  <2>1. <<>> \in Seq(Item) /\ "loop" \in Workers /\ "retry" \in Workers /\ "loop" # "retry"
    BY EmptySeq DEF Workers
  <2> QED
    BY <1>1, <2>1 DEF Abort, ArchiveInv, ArchiveTypes
<1>3. ArchiveTypes'
  BY <1>1, <1>2 DEF ArchiveInv, ArchiveTypes
<1>4. RowsMatch' /\ StagedIsStored' /\ (rested' => alive') /\ FlagIsTrue'
  BY <1>1, <1>2, SetOfNone DEF ArchiveInv, RowsMatch, StagedIsStored, First, FlagIsTrue, Workers
<1>5. SafeOrAlive'
  <2> SUFFICES ASSUME NEW d \in written' \ excused' PROVE (Safe(d) \/ Outlives(d))'
    BY DEF SafeOrAlive
  <2>1. ~Listed(d)
    <3> SUFFICES ASSUME NEW x \in ToSet(work["loop"]), x[1] = d PROVE FALSE
      BY DEF Listed
    <3>1. DOMAIN work["loop"] = 1..Len(work["loop"])
      BY LenProperties DEF ArchiveInv, ArchiveTypes, Workers
    <3>2. PICK i \in 1..Len(work["loop"]) : work["loop"][i] = x
      BY <3>1 DEF ToSet
    <3> QED
      BY <1>1, <3>2
  <2>2. Safe(d) => Safe(d)'
    BY <1>1, <2>1 DEF Safe, HasRow, Completing, PendingRows, InsertRow
  <2>3. Outlives(d) => Outlives(d)'
    BY <1>1 DEF Outlives
  <2> QED
    BY <1>1, <2>2, <2>3 DEF ArchiveInv, SafeOrAlive
<1> QED
  BY <1>3, <1>4, <1>5 DEF ArchiveInv

LEMMA CrashKeeps ==
  ASSUME ArchiveInv, Crash
  PROVE  ArchiveInv'
<1>1. /\ UNCHANGED <<full, ttl, flagged, vdb, rows, written>>
      /\ rested' = FALSE /\ alive' = FALSE /\ queue' = <<>>
      /\ work' = [w \in Workers |-> <<>>] /\ stage' = [w \in Workers |-> FALSE]
      /\ excused' = excused \cup {queue[i].d : i \in 1..Len(queue)}
                   \cup UNION {{work[w][i][1] : i \in 1..Len(work[w])} : w \in Workers}
  BY DEF Crash, redisVars
<1>2. <<>> \in Seq(Item) /\ <<>> \in Seq(Job) /\ Len(<<>>) = 0 /\ 0 <= QueueMax
  BY EmptySeq, ArchiveNumbers
<1>3. ArchiveTypes'
  BY <1>1, <1>2 DEF ArchiveInv, ArchiveTypes
<1>4. RowsMatch' /\ StagedIsStored' /\ (rested' => alive') /\ FlagIsTrue'
  BY <1>1, SetOfNone DEF ArchiveInv, RowsMatch, StagedIsStored, FlagIsTrue, Workers
<1>5. SafeOrAlive'
  <2> SUFFICES ASSUME NEW d \in written' \ excused' PROVE (Safe(d) \/ Outlives(d))'
    BY DEF SafeOrAlive
  <2>1. ~Listed(d)
    <3> SUFFICES ASSUME NEW x \in ToSet(work["loop"]), x[1] = d PROVE FALSE
      BY DEF Listed
    <3>1. DOMAIN work["loop"] = 1..Len(work["loop"]) /\ "loop" \in Workers
      BY LenProperties DEF ArchiveInv, ArchiveTypes, Workers
    <3>2. PICK i \in 1..Len(work["loop"]) : work["loop"][i] = x
      BY <3>1 DEF ToSet
    <3> QED
      BY <1>1, <3>1, <3>2
  <2>2. InsertRow(d) \notin ToSet(queue)
    <3> SUFFICES ASSUME InsertRow(d) \in ToSet(queue) PROVE FALSE
      OBVIOUS
    <3>1. DOMAIN queue = 1..Len(queue) /\ InsertRow(d).d = d
      BY LenProperties DEF ArchiveInv, ArchiveTypes, InsertRow
    <3>2. PICK i \in 1..Len(queue) : queue[i] = InsertRow(d)
      BY <3>1 DEF ToSet
    <3> QED
      BY <1>1, <3>1, <3>2
  <2>3. \A i : ~Completing(i)'
    BY <1>1, SetOfNone DEF Completing
  <2>4. Safe(d) => Safe(d)'
    <3>1. HasRow(d) => HasRow(d)'
      BY <1>1, <2>3 DEF HasRow, PendingRows
    <3> QED
      BY <1>1, <2>1, <2>2, <3>1 DEF Safe
  <2>5. Outlives(d) => Outlives(d)'
    BY <1>1 DEF Outlives
  <2> QED
    BY <1>1, <2>4, <2>5 DEF ArchiveInv, SafeOrAlive
<1> QED
  BY <1>3, <1>4, <1>5 DEF ArchiveInv

(* The store's outages, the restart and the steps of nobody.               *)
LEMMA QuietKeeps ==
  ASSUME ArchiveInv, StoreGoes \/ Restart \/ UNCHANGED archiveVars
  PROVE  ArchiveInv'
<1>1. /\ UNCHANGED <<full, ttl, flagged, vdb, rows, queue, work, stage, rested, written, excused>>
      /\ alive' \in BOOLEAN /\ (alive => alive')
  BY DEF StoreGoes, Restart, archiveVars, redisVars, histories, ArchiveInv, ArchiveTypes
<1>2. ArchiveTypes' /\ RowsMatch' /\ StagedIsStored' /\ (rested' => alive') /\ FlagIsTrue'
  BY <1>1 DEF ArchiveInv, ArchiveTypes, RowsMatch, StagedIsStored, First, FlagIsTrue
<1>3. SafeOrAlive'
  <2>1. \A d : Safe(d) => Safe(d)'
    BY <1>1 DEF Safe, HasRow, Completing, Listed, PendingRows, InsertRow
  <2>2. \A d : Outlives(d) => Outlives(d)'
    BY <1>1 DEF Outlives
  <2> QED
    BY <1>1, <2>1, <2>2 DEF ArchiveInv, SafeOrAlive
<1> QED
  BY <1>2, <1>3 DEF ArchiveInv

LEMMA ArchiveKeeps == ArchiveInv /\ [ArchiveNext]_archiveVars => ArchiveInv'
<1> SUFFICES ASSUME ArchiveInv, [ArchiveNext]_archiveVars PROVE ArchiveInv'
  OBVIOUS
<1>1. ASSUME NEW d \in Debates, SetDebate(d) PROVE ArchiveInv'
  BY <1>1, SetDebateKeeps
<1>2. ASSUME NEW w \in Workers, StoreDebate(w) \/ MarkArchived(w) PROVE ArchiveInv'
  BY <1>2, WorkerKeeps
<1>3. CASE BeginCycle
  BY <1>3, BeginCycleKeeps
<1>4. CASE BeginRetry
  BY <1>4, BeginRetryKeeps
<1>5. CASE Commit
  BY <1>5, CommitKeeps
<1>6. CASE Tick
  BY <1>6, TickKeeps
<1>7. CASE Stop
  BY <1>7, StopKeeps
<1>8. CASE Crash
  BY <1>8, CrashKeeps
<1>9. CASE StoreGoes \/ Restart \/ UNCHANGED archiveVars
  BY <1>9, QuietKeeps
<1> QED
  BY <1>1, <1>2, <1>3, <1>4, <1>5, <1>6, <1>7, <1>8, <1>9 DEF ArchiveNext

(* No debate is forgotten and none is taken for archived that is not: for  *)
(* every number of debates and every interleaving of the orchestrator, the *)
(* loop, retries, commits, expiries, outages, stops and crashes.           *)
LEMMA ArchiveIsSound == ArchiveInv => ArchiveSound
<1> SUFFICES ASSUME ArchiveInv PROVE NothingForgotten
  BY DEF ArchiveInv, ArchiveSound
<1> SUFFICES ASSUME NEW d \in written \ excused, ~full[d] PROVE Kept(d)
  BY DEF NothingForgotten
<1>1. Safe(d)
  BY DEF ArchiveInv, SafeOrAlive, Outlives
<1>2. ASSUME Listed(d) PROVE Kept(d)
  <2>1. PICK x \in ToSet(work["loop"]) : x[1] = d
    BY <1>2 DEF Listed
  <2>2. DOMAIN work["loop"] = 1..Len(work["loop"]) /\ "loop" \in Workers
    BY LenProperties DEF ArchiveInv, ArchiveTypes, Workers
  <2>3. PICK i \in 1..Len(work["loop"]) : work["loop"][i] = x
    BY <2>1, <2>2 DEF ToSet
  <2> QED
    BY <2>1, <2>2, <2>3 DEF Kept
<1>3. ASSUME InsertRow(d) \in ToSet(queue) PROVE Kept(d)
  <2>1. DOMAIN queue = 1..Len(queue) /\ InsertRow(d).d = d /\ InsertRow(d).op = "insert"
    BY LenProperties DEF ArchiveInv, ArchiveTypes, InsertRow
  <2>2. PICK i \in 1..Len(queue) : queue[i] = InsertRow(d)
    BY <1>3, <2>1 DEF ToSet
  <2> QED
    BY <2>1, <2>2 DEF Kept
<1> QED
  BY <1>1, <1>2, <1>3 DEF Safe, HasRow, Kept

(* For every number of debates, failures, crashes and retries: no debate   *)
(* that DebateArchiver's cycle reads is forgotten, but for the excuses     *)
(* NothingForgotten names, and what Redis says is archived is in the       *)
(* vector store.                                                           *)
THEOREM ArchiveAlwaysSound == ArchiveSpec => []ArchiveSound
<1>1. ArchiveSpec => []ArchiveInv
  BY ArchiveStarts, ArchiveKeeps, PTL DEF ArchiveSpec
<1> QED
  BY <1>1, ArchiveIsSound, PTL

-----------------------------------------------------------------------------
(* The zones.  What is left of a lone writer's commands says how much of   *)
(* the hash h, the TTL l, the score r of weight q and the touch count n it *)
(* has done.                                                               *)
Stamp(z) == HSet(z, Field("stamp", "set"))
Filled(h, n) ==
  /\ "body" \in DOMAIN h /\ "p_hold" \in DOMAIN h /\ "w_zone" \in DOMAIN h
  /\ "touch_count" \in DOMAIN h /\ h["touch_count"] = n /\ h["p_hold"] \in Nat
Agrees(h, l, r, q, n) == Filled(h, n) /\ l = TRUE /\ r = h["p_hold"] * q

Starting(z, s) ==
  \E st \in Statuses, p \in PHolds, w \in Weights :
    s = <<HSet(z, ZoneHash(st, p, w, 0)), Expire(z), ZAdd(z, p, w)>>
Timing(z, s, h, n) == Filled(h, n) /\ \E m : s = <<Expire(z), ZAdd(z, h["p_hold"], m)>>
Ranking(z, s, h, l, n) ==
  /\ Filled(h, n) /\ l = TRUE
  /\ \E m : LET c == ZAdd(z, h["p_hold"], m) IN s = <<c>> \/ s = <<Stamp(z), c>>
Changing(z, s, h, l, r, q, n) ==
  /\ Agrees(h, l, r, q, n)
  /\ \/ s = <<Stamp(z)>>
     \/ \E st \in Statuses : \/ s = <<HSet(z, Field("status", st)), Stamp(z)>>
                            \/ s = <<HSet(z, Field("status", st)), Stamp(z), ZAdd(z, 0, 0)>>
     \/ \E p \in PHolds : \E w :
          s = <<HSet(z, Field("p_hold", p)), Stamp(z), ZAdd(z, p, w)>>
     \/ s = <<HSet(z, Field("touch_count", n + 1)), Stamp(z)>>
Prepared(z, s, h, l, r, q, n) ==
  \/ Starting(z, s) \/ Timing(z, s, h, n)
  \/ Ranking(z, s, h, l, n) \/ Changing(z, s, h, l, r, q, n)

(* The effect of a command that writes on the zone of its key.             *)
Applied(c, h, l, r, q, n, h2, l2, r2, q2, n2) ==
  \/ /\ c.cmd = "HSET" /\ h2 = Merge(h, c.fields) /\ r2 = r /\ q2 = q
     /\ l2 = TRUE <=> (l = TRUE /\ h # Empty)
     /\ n2 = IF "body" \in DOMAIN c.fields THEN 0
             ELSE IF "touch_count" \in DOMAIN c.fields THEN n + 1 ELSE n
  \/ /\ c.cmd = "EXPIRE" /\ h2 = h /\ r2 = r /\ q2 = q /\ n2 = n
     /\ l2 = TRUE <=> h # Empty
  \/ /\ c.cmd = "ZADD" /\ h2 = h /\ l2 = l /\ n2 = n /\ r2 = c.score /\ q2 = c.weight

LEMMA WholeHash ==
  ASSUME NEW h, NEW st, NEW p \in Nat, NEW w
  PROVE  LET g == ZoneHash(st, p, w, 0) IN
         /\ "body" \in DOMAIN g /\ Filled(Merge(h, g), 0)
         /\ Merge(h, g)["p_hold"] = p
<1> DEFINE g == ZoneHash(st, p, w, 0)
           m == Merge(h, g)
<1>1. DOMAIN g = {"body", "status", "p_hold", "w_zone", "touch_count", "stamp"}
  BY DEF ZoneHash
<1>2. g["p_hold"] = p /\ g["w_zone"] = w /\ g["touch_count"] = 0
  BY DEF ZoneHash
<1> HIDE DEF g
<1>3. \A f \in DOMAIN g : f \in DOMAIN m /\ m[f] = g[f]
  BY DEF Merge
<1> HIDE DEF m
<1>4. Filled(m, 0)
  BY <1>1, <1>2, <1>3 DEF Filled
<1>5. m["p_hold"] = p
  BY <1>1, <1>2, <1>3
<1> QED
  BY <1>1, <1>4, <1>5 DEF m, g

FieldSet(f, v, h, l, r, q, n, h2, l2, r2, q2, n2) ==
  /\ h2 = Merge(h, Field(f, v)) /\ r2 = r /\ q2 = q
  /\ l = TRUE /\ h # Empty => l2 = TRUE
  /\ n2 = IF f = "touch_count" THEN n + 1 ELSE n

LEMMA FieldApplied ==
  ASSUME NEW z, NEW f, NEW v, NEW h, NEW l, NEW r, NEW q, NEW n,
         NEW h2, NEW l2, NEW r2, NEW q2, NEW n2, f # "body",
         Applied(HSet(z, Field(f, v)), h, l, r, q, n, h2, l2, r2, q2, n2)
  PROVE  FieldSet(f, v, h, l, r, q, n, h2, l2, r2, q2, n2)
<1> DEFINE g == Field(f, v)
           c == HSet(z, g)
<1>1. c.cmd = "HSET" /\ c.fields = g
  BY DEF HSet
<1>2. "body" \notin DOMAIN g /\ ("touch_count" \in DOMAIN g <=> f = "touch_count")
  BY DEF Field
<1>3. Applied(c, h, l, r, q, n, h2, l2, r2, q2, n2)
  OBVIOUS
<1> HIDE DEF c, g
<1>4. /\ h2 = Merge(h, g) /\ r2 = r /\ q2 = q /\ (l2 = TRUE <=> (l = TRUE /\ h # Empty))
      /\ n2 = IF "body" \in DOMAIN g THEN 0 ELSE IF "touch_count" \in DOMAIN g THEN n + 1 ELSE n
  BY <1>1, <1>3 DEF Applied
<1> QED
  BY <1>2, <1>4 DEF g, FieldSet

LEMMA FieldKeepsFilled ==
  ASSUME NEW h, NEW f, NEW v, NEW n, Filled(h, n), f = "p_hold" => v \in Nat
  PROVE  /\ Filled(Merge(h, Field(f, v)), IF f = "touch_count" THEN v ELSE n)
         /\ Merge(h, Field(f, v))["p_hold"] = IF f = "p_hold" THEN v ELSE h["p_hold"]
<1> DEFINE m == Merge(h, Field(f, v))
<1>1. /\ DOMAIN m = DOMAIN h \cup {f} /\ m[f] = v
      /\ \A g \in DOMAIN h : g # f => m[g] = h[g]
  BY DEF Field, Merge
<1> HIDE DEF m
<1>2. Filled(m, IF f = "touch_count" THEN v ELSE n)
  BY <1>1 DEF Filled
<1>3. m["p_hold"] = IF f = "p_hold" THEN v ELSE h["p_hold"]
  BY <1>1 DEF Filled
<1> QED
  BY <1>2, <1>3 DEF m

LEMMA FilledIsThere ==
  ASSUME NEW h, NEW n, Filled(h, n)
  PROVE  h # Empty
BY DEF Filled, Empty

(* A command leaves a lone writer with the rest of its list prepared, the  *)
(* last one with a zone that agrees.                                       *)
LEMMA NextCommand ==
  ASSUME NEW z, NEW s, NEW h, NEW l, NEW r, NEW q, NEW n,
         NEW h2, NEW l2, NEW r2, NEW q2, NEW n2,
         Prepared(z, s, h, l, r, q, n), Applied(Head(s), h, l, r, q, n, h2, l2, r2, q2, n2)
  PROVE  (Tail(s) = <<>> /\ Agrees(h2, l2, r2, q2, n2)) \/ Prepared(z, Tail(s), h2, l2, r2, q2, n2)
<1>1. CASE Starting(z, s)
  <2>1. PICK st \in Statuses, p \in PHolds, w \in Weights :
          s = <<HSet(z, ZoneHash(st, p, w, 0)), Expire(z), ZAdd(z, p, w)>>
    BY <1>1 DEF Starting
  <2>p. p \in Nat
    BY RegistryAssumption
  <2> DEFINE g == ZoneHash(st, p, w, 0)
  <2>2. Head(s) = HSet(z, g) /\ Tail(s) = <<Expire(z), ZAdd(z, p, w)>>
    BY <2>1
  <2>3. /\ "body" \in DOMAIN g /\ Filled(Merge(h, g), 0) /\ Merge(h, g)["p_hold"] = p
    BY <2>p, WholeHash
  <2> HIDE DEF g
  <2>4. h2 = Merge(h, g) /\ n2 = 0
    BY <2>2, <2>3 DEF Applied, HSet
  <2>5. Timing(z, Tail(s), h2, n2)
    BY <2>2, <2>3, <2>4 DEF Timing
  <2> QED
    BY <2>5 DEF Prepared
<1>2. CASE Timing(z, s, h, n)
  <2>1. PICK m : s = <<Expire(z), ZAdd(z, h["p_hold"], m)>>
    BY <1>2 DEF Timing
  <2>2. Head(s) = Expire(z) /\ Tail(s) = <<ZAdd(z, h["p_hold"], m)>>
    BY <2>1
  <2>3. h2 = h /\ n2 = n /\ (l2 = TRUE <=> h # Empty)
    BY <2>2 DEF Applied, Expire
  <2>4. Filled(h, n) /\ h # Empty
    BY <1>2, FilledIsThere DEF Timing
  <2>5. Ranking(z, Tail(s), h2, l2, n2)
    BY <2>2, <2>3, <2>4 DEF Ranking
  <2> QED
    BY <2>5 DEF Prepared
<1>3. CASE Ranking(z, s, h, l, n)
  <2>1. Filled(h, n) /\ l = TRUE /\ h # Empty
    BY <1>3, FilledIsThere DEF Ranking
  <2>2. PICK m : s = <<ZAdd(z, h["p_hold"], m)>> \/ s = <<Stamp(z), ZAdd(z, h["p_hold"], m)>>
    BY <1>3 DEF Ranking
  <2>3. CASE s = <<ZAdd(z, h["p_hold"], m)>>
    <3>1. Head(s) = ZAdd(z, h["p_hold"], m) /\ Tail(s) = <<>>
      BY <2>3
    <3>2. h2 = h /\ l2 = l /\ n2 = n /\ r2 = h["p_hold"] * m /\ q2 = m
      BY <3>1 DEF Applied, ZAdd
    <3> QED
      BY <2>1, <3>1, <3>2 DEF Agrees
  <2>4. CASE s = <<Stamp(z), ZAdd(z, h["p_hold"], m)>>
    <3>1. Head(s) = HSet(z, Field("stamp", "set")) /\ Tail(s) = <<ZAdd(z, h["p_hold"], m)>>
      BY <2>4 DEF Stamp
    <3>2. h2 = Merge(h, Field("stamp", "set")) /\ l2 = TRUE /\ n2 = n
      <4>1. Applied(HSet(z, Field("stamp", "set")), h, l, r, q, n, h2, l2, r2, q2, n2) /\ "stamp" # "body"
        BY <3>1
      <4>2. FieldSet("stamp", "set", h, l, r, q, n, h2, l2, r2, q2, n2)
        BY <4>1, FieldApplied
      <4> QED
        BY <2>1, <4>2 DEF FieldSet
    <3>3. Filled(h2, n2) /\ h2["p_hold"] = h["p_hold"]
      BY <2>1, <3>2, FieldKeepsFilled
    <3>4. Ranking(z, Tail(s), h2, l2, n2)
      BY <3>1, <3>2, <3>3 DEF Ranking
    <3> QED
      BY <3>4 DEF Prepared
  <2> QED
    BY <2>2, <2>3, <2>4
<1>4. CASE Changing(z, s, h, l, r, q, n)
  <2>1. Agrees(h, l, r, q, n) /\ Filled(h, n) /\ l = TRUE /\ h # Empty /\ r = h["p_hold"] * q
    BY <1>4, FilledIsThere DEF Changing, Agrees
  <2>2. CASE s = <<Stamp(z)>>
    <3>1. Head(s) = HSet(z, Field("stamp", "set")) /\ Tail(s) = <<>>
      BY <2>2 DEF Stamp
    <3>2. h2 = Merge(h, Field("stamp", "set")) /\ l2 = TRUE /\ n2 = n /\ r2 = r /\ q2 = q
      <4>1. Applied(HSet(z, Field("stamp", "set")), h, l, r, q, n, h2, l2, r2, q2, n2) /\ "stamp" # "body"
        BY <3>1
      <4>2. FieldSet("stamp", "set", h, l, r, q, n, h2, l2, r2, q2, n2)
        BY <4>1, FieldApplied
      <4> QED
        BY <2>1, <4>2 DEF FieldSet
    <3>3. Filled(h2, n2) /\ h2["p_hold"] = h["p_hold"]
      BY <2>1, <3>2, FieldKeepsFilled
    <3> QED
      BY <2>1, <3>1, <3>2, <3>3 DEF Agrees
  <2>3. ASSUME NEW st \in Statuses,
               \/ s = <<HSet(z, Field("status", st)), Stamp(z)>>
               \/ s = <<HSet(z, Field("status", st)), Stamp(z), ZAdd(z, 0, 0)>>
        PROVE  Prepared(z, Tail(s), h2, l2, r2, q2, n2)
    <3> DEFINE c == HSet(z, Field("status", st))
    <3>1. Head(s) = c /\ (Tail(s) = <<Stamp(z)>> \/ Tail(s) = <<Stamp(z), ZAdd(z, 0, 0)>>)
      <4>1. CASE s = <<c, Stamp(z)>>
        BY <4>1
      <4>2. CASE s = <<c, Stamp(z), ZAdd(z, 0, 0)>>
        BY <4>2
      <4> QED
        BY <2>3, <4>1, <4>2
    <3>2. h2 = Merge(h, Field("status", st)) /\ l2 = TRUE /\ n2 = n /\ r2 = r /\ q2 = q
      <4>1. Applied(HSet(z, Field("status", st)), h, l, r, q, n, h2, l2, r2, q2, n2) /\ "status" # "body"
        BY <3>1
      <4>2. FieldSet("status", st, h, l, r, q, n, h2, l2, r2, q2, n2)
        BY <4>1, FieldApplied
      <4> QED
        BY <2>1, <4>2 DEF FieldSet
    <3>3. Filled(h2, n2) /\ h2["p_hold"] = h["p_hold"]
      BY <2>1, <3>2, FieldKeepsFilled
    <3>4. Agrees(h2, l2, r2, q2, n2)
      BY <2>1, <3>2, <3>3 DEF Agrees
    <3>5. Tail(s) = <<Stamp(z)>> => Changing(z, Tail(s), h2, l2, r2, q2, n2)
      BY <3>4 DEF Changing
    <3>6. Tail(s) = <<Stamp(z), ZAdd(z, 0, 0)>> => Ranking(z, Tail(s), h2, l2, n2)
      <4>1. ZAdd(z, 0, 0) = ZAdd(z, h2["p_hold"], 0)
        BY <3>3 DEF Filled, ZAdd
      <4> QED
        BY <3>3, <3>4, <4>1 DEF Ranking, Agrees
    <3> QED
      BY <3>1, <3>5, <3>6 DEF Prepared
  <2>4. ASSUME NEW p \in PHolds, NEW w,
               s = <<HSet(z, Field("p_hold", p)), Stamp(z), ZAdd(z, p, w)>>
        PROVE  Prepared(z, Tail(s), h2, l2, r2, q2, n2)
    <3>1. /\ Head(s) = HSet(z, Field("p_hold", p))
          /\ Tail(s) = <<Stamp(z), ZAdd(z, p, w)>>
      BY <2>4
    <3>2. h2 = Merge(h, Field("p_hold", p)) /\ l2 = TRUE /\ n2 = n
      <4>1. Applied(HSet(z, Field("p_hold", p)), h, l, r, q, n, h2, l2, r2, q2, n2) /\ "p_hold" # "body"
        BY <3>1
      <4>2. FieldSet("p_hold", p, h, l, r, q, n, h2, l2, r2, q2, n2)
        BY <4>1, FieldApplied
      <4> QED
        BY <2>1, <4>2 DEF FieldSet
    <3>3. Filled(h2, n2) /\ h2["p_hold"] = p
      BY <2>1, <3>2, FieldKeepsFilled, RegistryAssumption
    <3>4. Ranking(z, Tail(s), h2, l2, n2)
      BY <3>1, <3>2, <3>3 DEF Ranking
    <3> QED
      BY <3>4 DEF Prepared
  <2>5. CASE s = <<HSet(z, Field("touch_count", n + 1)), Stamp(z)>>
    <3>1. Head(s) = HSet(z, Field("touch_count", n + 1)) /\ Tail(s) = <<Stamp(z)>>
      BY <2>5
    <3>2. h2 = Merge(h, Field("touch_count", n + 1)) /\ l2 = TRUE /\ n2 = n + 1 /\ r2 = r /\ q2 = q
      <4>1. Applied(HSet(z, Field("touch_count", n + 1)), h, l, r, q, n, h2, l2, r2, q2, n2) /\ "touch_count" # "body"
        BY <3>1
      <4>2. FieldSet("touch_count", n + 1, h, l, r, q, n, h2, l2, r2, q2, n2)
        BY <4>1, FieldApplied
      <4> QED
        BY <2>1, <4>2 DEF FieldSet
    <3>3. Filled(h2, n2) /\ h2["p_hold"] = h["p_hold"]
      BY <2>1, <3>2, FieldKeepsFilled
    <3>4. Changing(z, Tail(s), h2, l2, r2, q2, n2)
      BY <2>1, <3>1, <3>2, <3>3 DEF Agrees, Changing
    <3> QED
      BY <3>4 DEF Prepared
  <2> QED
    BY <1>4, <2>2, <2>3, <2>4, <2>5 DEF Changing
<1> QED
  BY <1>1, <1>2, <1>3, <1>4 DEF Prepared

WritesTo(t, z) == \E c \in ToSet(commands[t]) : c.key = z /\ c.cmd # "READ"
Settled(z) == hash[z] = Empty \/ Agrees(hash[z], hasTTL[z], rank[z], weight[z], touches[z])
Halfway(z, t) == Prepared(z, commands[t], hash[z], hasTTL[z], rank[z], weight[z], touches[z])

(* A zone that nothing has disturbed has no writer and is whole, or has    *)
(* one, and what that one has done goes with what it has still to do.      *)
ZoneHolds(z) ==
  \/ dirty[z] = TRUE
  \/ (\A t \in Tasks : ~WritesTo(t, z)) /\ Settled(z)
  \/ \E t \in Tasks : /\ WritesTo(t, z) /\ Halfway(z, t)
                     /\ \A u \in Tasks : WritesTo(u, z) => u = t

(* An operation reads zones it wants, or writes to one; a zone steady      *)
(* since a query began is found or still to be read.                       *)
TaskHolds(t) ==
  /\ commands[t] \in Seq(ToSet(commands[t]))
  /\ \/ \E W \in SUBSET Zones :
          /\ steady[t] \subseteq W
          /\ \A c \in ToSet(commands[t]) : \E k \in Zones : c = Read(k, W)
     \/ /\ steady[t] = {}
        /\ \E z \in Zones : \A c \in ToSet(commands[t]) : c.key = z /\ c.cmd # "READ"
  /\ \A z \in steady[t] : z \in found[t] \/ \E c \in ToSet(commands[t]) : c.key = z

ZonesTypes ==
  /\ DOMAIN hash = Zones /\ hasTTL \in [Zones -> BOOLEAN] /\ DOMAIN rank = Zones
  /\ DOMAIN weight = Zones /\ DOMAIN touches = Zones /\ dirty \in [Zones -> BOOLEAN]
  /\ DOMAIN commands = Tasks /\ DOMAIN found = Tasks /\ DOMAIN steady = Tasks

ZonesInv ==
  /\ ZonesTypes /\ (\A z \in Zones : ZoneHolds(z)) /\ (\A t \in Tasks : TaskHolds(t))

LEMMA OwnElements ==
  ASSUME NEW S, NEW s \in Seq(S)
  PROVE  s \in Seq(ToSet(s)) /\ DOMAIN s = 1..Len(s) /\ Len(s) \in Nat
<1>1. DOMAIN s = 1..Len(s) /\ Len(s) \in Nat /\ s \in [1..Len(s) -> S]
  BY LenProperties
<1>2. \A i \in 1..Len(s) : s[i] \in ToSet(s)
  BY <1>1 DEF ToSet
<1>3. s \in [1..Len(s) -> ToSet(s)]
  BY <1>1, <1>2
<1> QED
  BY <1>1, <1>3, SeqDef

LEMMA ListOfOne ==
  ASSUME NEW a
  PROVE  LET s == <<a>> IN s \in Seq(ToSet(s)) /\ s # <<>> /\ ToSet(s) = {a}
<1> DEFINE s == <<a>>
<1>1. s \in Seq({a}) /\ s # <<>> /\ ToSet(s) = {a}
  BY DEF ToSet
<1> HIDE DEF s
<1> QED
  BY <1>1 DEF s

LEMMA ListOfTwo ==
  ASSUME NEW a, NEW b
  PROVE  LET s == <<a, b>> IN s \in Seq(ToSet(s)) /\ s # <<>> /\ ToSet(s) = {a, b}
<1> DEFINE s == <<a, b>>
<1>1. s \in Seq({a, b}) /\ s # <<>> /\ DOMAIN s = {1, 2} /\ s[1] = a /\ s[2] = b
  OBVIOUS
<1> HIDE DEF s
<1>2. ToSet(s) = {a, b}
  BY <1>1 DEF ToSet
<1> QED
  BY <1>1, <1>2 DEF s

LEMMA ListOfThree ==
  ASSUME NEW a, NEW b, NEW c
  PROVE  LET s == <<a, b, c>> IN s \in Seq(ToSet(s)) /\ s # <<>> /\ ToSet(s) = {a, b, c}
<1> DEFINE s == <<a, b, c>>
<1>1. /\ s \in Seq({a, b, c}) /\ s # <<>> /\ DOMAIN s = {1, 2, 3}
      /\ s[1] = a /\ s[2] = b /\ s[3] = c
  OBVIOUS
<1> HIDE DEF s
<1>2. ToSet(s) = {a, b, c}
  BY <1>1 DEF ToSet
<1> QED
  BY <1>1, <1>2 DEF s

LEMMA TwoAndOne ==
  ASSUME NEW a, NEW b, NEW c
  PROVE  <<a, b>> \o <<c>> = <<a, b, c>>
<1> DEFINE S == {a, b, c}
           u == <<a, b>>
           v == <<c>>
           t == u \o v
<1>1. /\ u \in Seq(S) /\ v \in Seq(S) /\ Len(u) = 2 /\ Len(v) = 1
      /\ u[1] = a /\ u[2] = b /\ v[1] = c
  OBVIOUS
<1> HIDE DEF S, u, v
<1>2. /\ t \in Seq(S) /\ Len(t) = Len(u) + Len(v)
      /\ \A i \in 1..Len(u) + Len(v) : t[i] = IF i <= Len(u) THEN u[i] ELSE v[i - Len(u)]
  BY <1>1, ConcatProperties
<1>3. t \in Seq(S) /\ Len(t) = 3 /\ t[1] = a /\ t[2] = b /\ t[3] = c
  BY <1>1, <1>2
<1> DEFINE s == <<a, b, c>>
<1>4. s \in Seq(S) /\ Len(s) = 3 /\ s[1] = a /\ s[2] = b /\ s[3] = c
  BY DEF S
<1> HIDE DEF s, t
<1>5. s = t
  <2>1. \A i \in 1..3 : s[i] = t[i]
    BY <1>3, <1>4
  <2> QED
    BY <1>3, <1>4, <2>1, SeqEqual
<1> QED
  BY <1>5 DEF s, t, u, v

LEMMA WritersAre ==
  ASSUME ZonesInv, NEW z, NEW t \in Tasks
  PROVE  t \in Writers(z) <=> WritesTo(t, z)
<1>1. DOMAIN commands[t] = 1..Len(commands[t])
  BY OwnElements DEF ZonesInv, TaskHolds
<1>2. t \in Writers(z) => WritesTo(t, z)
  BY <1>1 DEF Writers, WritesTo, ToSet
<1>3. WritesTo(t, z) => t \in Writers(z)
  BY <1>1 DEF Writers, WritesTo, ToSet
<1> QED
  BY <1>2, <1>3

LEMMA IdleMeans ==
  ASSUME ZonesInv, NEW z
  PROVE  Idle(z) <=> \A t \in Tasks : ~WritesTo(t, z)
BY WritersAre DEF Idle, Writers

LEMMA ZonesStart == ZonesInit => ZonesInv
<1> SUFFICES ASSUME ZonesInit PROVE ZonesInv
  OBVIOUS
<1>1. <<>> \in Seq(ToSet(<<>>))
  BY EmptySeq
<1>2. ZonesTypes
  BY DEF ZonesInit, ZonesTypes
<1>3. ASSUME NEW z \in Zones PROVE ZoneHolds(z)
  BY SetOfNone DEF ZonesInit, ZoneHolds, WritesTo, Settled
<1>4. ASSUME NEW t \in Tasks PROVE TaskHolds(t)
  <2>1. commands[t] = <<>> /\ steady[t] = {}
    BY DEF ZonesInit
  <2> QED
    BY <1>1, <2>1, SetOfNone DEF TaskHolds
<1> QED
  BY <1>2, <1>3, <1>4 DEF ZonesInv

(* What is not touched stays.                                              *)
LEMMA ZoneStays ==
  ASSUME NEW z, ZoneHolds(z), dirty[z] = TRUE => dirty'[z] = TRUE,
         hash'[z] = hash[z], hasTTL'[z] = hasTTL[z], rank'[z] = rank[z], weight'[z] = weight[z], touches'[z] = touches[z],
         \A t \in Tasks : WritesTo(t, z)' <=> WritesTo(t, z),
         \A t \in Tasks : WritesTo(t, z) => commands'[t] = commands[t]
  PROVE  ZoneHolds(z)'
<1>1. CASE (\A t \in Tasks : ~WritesTo(t, z)) /\ Settled(z)
  BY <1>1 DEF ZoneHolds, Settled
<1>2. CASE \E t \in Tasks : /\ WritesTo(t, z) /\ Halfway(z, t)
                          /\ \A u \in Tasks : WritesTo(u, z) => u = t
  <2>1. PICK t \in Tasks : /\ WritesTo(t, z) /\ Halfway(z, t)
                          /\ \A u \in Tasks : WritesTo(u, z) => u = t
    BY <1>2
  <2>2. Halfway(z, t)'
    BY <2>1 DEF Halfway
  <2> QED
    BY <2>1, <2>2 DEF ZoneHolds
<1> QED
  BY <1>1, <1>2 DEF ZoneHolds

LEMMA TaskStays ==
  ASSUME NEW t, TaskHolds(t), commands'[t] = commands[t], found'[t] = found[t],
         steady'[t] \subseteq steady[t]
  PROVE  TaskHolds(t)'
<1>1. commands'[t] \in Seq(ToSet(commands'[t]))
  BY DEF TaskHolds
<1>2. \A z \in steady'[t] : z \in found'[t] \/ \E c \in ToSet(commands'[t]) : c.key = z
  BY DEF TaskHolds
<1>3. CASE \E W \in SUBSET Zones :
             /\ steady[t] \subseteq W
             /\ \A c \in ToSet(commands[t]) : \E k \in Zones : c = Read(k, W)
  BY <1>1, <1>2, <1>3 DEF TaskHolds
<1>4. CASE /\ steady[t] = {}
           /\ \E z \in Zones : \A c \in ToSet(commands[t]) : c.key = z /\ c.cmd # "READ"
  BY <1>1, <1>2, <1>4 DEF TaskHolds
<1> QED
  BY <1>3, <1>4 DEF TaskHolds

(* A writer begins.  It is clean only when it is alone and what it has     *)
(* read goes with what it will do.                                         *)
WriteList(z, s) ==
  s \in Seq(ToSet(s)) /\ s # <<>> /\ \A c \in ToSet(s) : c.key = z /\ c.cmd # "READ"

LEMMA WriteBegins ==
  ASSUME ZonesInv, NEW t \in Tasks, NEW z \in Zones, NEW s, NEW b \in BOOLEAN,
         Begin(t, s), WriteList(z, s), dirty' = [dirty EXCEPT ![z] = b],
         found' = [found EXCEPT ![t] = {}], steady' = [steady EXCEPT ![t] = {}],
         b = FALSE => Idle(z) /\ Prepared(z, s, hash[z], hasTTL[z], rank[z], weight[z], touches[z])
  PROVE  ZonesInv'
<1>1. /\ commands[t] = <<>> /\ commands' = [commands EXCEPT ![t] = s]
      /\ UNCHANGED <<hash, hasTTL, rank, weight, touches>>
  BY DEF Begin
<1>2. ZonesTypes'
  BY <1>1 DEF ZonesInv, ZonesTypes
<1>3. /\ commands'[t] = s /\ steady'[t] = {} /\ dirty'[z] = b
      /\ \A u \in Tasks : u # t =>
           commands'[u] = commands[u] /\ found'[u] = found[u] /\ steady'[u] = steady[u]
      /\ \A y \in Zones : y # z => dirty'[y] = dirty[y]
  BY <1>1 DEF ZonesInv, ZonesTypes
<1>4. \A y : ~WritesTo(t, y)
  BY <1>1, SetOfNone DEF WritesTo
<1>5. \A y : WritesTo(t, y)' <=> y = z
  <2>1. \E c : c \in ToSet(s)
    <3>1. Head(s) \in ToSet(s)
      BY SetOfTail DEF WriteList
    <3> QED
      BY <3>1
  <2> QED
    BY <1>3, <2>1 DEF WritesTo, WriteList
<1>6. \A u \in Tasks : \A y : u # t => (WritesTo(u, y)' <=> WritesTo(u, y))
  BY <1>3 DEF WritesTo
<1>7. ASSUME NEW u \in Tasks PROVE TaskHolds(u)'
  <2>1. CASE u # t
    <3>1. TaskHolds(u)
      BY DEF ZonesInv
    <3> QED
      BY <1>3, <2>1, <3>1, TaskStays
  <2>2. CASE u = t
    BY <1>3, <2>2 DEF TaskHolds, WriteList
  <2> QED
    BY <2>1, <2>2
<1>8. ASSUME NEW y \in Zones PROVE ZoneHolds(y)'
  <2>1. CASE y # z
    <3>1. ZoneHolds(y) /\ dirty'[y] = dirty[y]
      BY <1>3, <2>1 DEF ZonesInv
    <3>2. \A u \in Tasks : WritesTo(u, y)' <=> WritesTo(u, y)
      BY <1>4, <1>5, <1>6, <2>1
    <3>3. \A u \in Tasks : WritesTo(u, y) => commands'[u] = commands[u]
      BY <1>3, <1>4
    <3> QED
      BY <1>1, <3>1, <3>2, <3>3, ZoneStays
  <2>2. CASE y = z /\ b = TRUE
    BY <1>3, <2>2 DEF ZoneHolds
  <2>3. CASE y = z /\ b = FALSE
    <3>1. \A u \in Tasks : ~WritesTo(u, z)
      BY <2>3, IdleMeans
    <3>2. \A u \in Tasks : WritesTo(u, z)' => u = t
      BY <1>6, <3>1
    <3>3. Halfway(z, t)'
      BY <1>1, <1>3, <2>3 DEF Halfway
    <3> QED
      BY <1>5, <2>3, <3>2, <3>3 DEF ZoneHolds
  <2> QED
    BY <2>1, <2>2, <2>3
<1> QED
  BY <1>2, <1>7, <1>8 DEF ZonesInv

(* What a lone writer of a clean zone that is there has read.              *)
LEMMA ReadWhole ==
  ASSUME ZonesInv, NEW z \in Zones, Exists(z), Idle(z), dirty[z] = FALSE
  PROVE  Agrees(hash[z], hasTTL[z], rank[z], weight[z], touches[z])
<1>1. \A t \in Tasks : ~WritesTo(t, z)
  BY IdleMeans
<1> QED
  BY <1>1 DEF ZonesInv, ZoneHolds, Settled, Exists

LEMMA WriteListOf ==
  ASSUME NEW z, NEW s, s \in Seq(ToSet(s)), s # <<>>,
         \A c \in ToSet(s) : \/ c = Expire(z)
                             \/ \E g : c = HSet(z, g) \/ \E w : c = ZAdd(z, g, w)
  PROVE  WriteList(z, s)
BY DEF WriteList, Expire, HSet, ZAdd

LEMMA UpsertKeeps ==
  ASSUME ZonesInv, NEW t \in Tasks, NEW z \in Zones, UpsertZone(t, z)
  PROVE  ZonesInv'
<1>1. PICK st \in Statuses, p \in PHolds, w \in Weights :
        /\ Begin(t, SetZone(z, ZoneHash(st, p, w, 0)) \o <<ZAdd(z, p, w)>>)
        /\ dirty' = [dirty EXCEPT ![z] = ~Idle(z)]
        /\ found' = [found EXCEPT ![t] = {}] /\ steady' = [steady EXCEPT ![t] = {}]
  BY DEF UpsertZone
<1> DEFINE a == HSet(z, ZoneHash(st, p, w, 0))
           c == ZAdd(z, p, w)
           s == <<a, Expire(z), c>>
           b == ~Idle(z)
<1>2. SetZone(z, ZoneHash(st, p, w, 0)) \o <<c>> = s
  <2>1. SetZone(z, ZoneHash(st, p, w, 0)) = <<a, Expire(z)>>
    BY DEF SetZone
  <2> HIDE DEF a, c
  <2> QED
    BY <2>1, TwoAndOne DEF s
<1>3. Begin(t, s)
  BY <1>1, <1>2
<1>4. WriteList(z, s)
  <2>1. s \in Seq(ToSet(s)) /\ s # <<>> /\ ToSet(s) = {a, Expire(z), c}
    <3> HIDE DEF a, c
    <3> QED
      BY ListOfThree
  <2> HIDE DEF s
  <2> QED
    BY <2>1, WriteListOf
<1>5. Prepared(z, s, hash[z], hasTTL[z], rank[z], weight[z], touches[z])
  BY DEF Prepared, Starting
<1>6. dirty' = [dirty EXCEPT ![z] = b] /\ b \in BOOLEAN /\ (b = FALSE => Idle(z))
  BY <1>1
<1> HIDE DEF s, b
<1> QED
  BY <1>1, <1>3, <1>4, <1>5, <1>6, WriteBegins

(* The three updates of a zone that is there.                              *)
LEMMA BeginWriteKeeps ==
  ASSUME ZonesInv, NEW t \in Tasks, NEW z \in Zones, NEW s, BeginWrite(t, z, s), Exists(z),
         WriteList(z, s),
         Agrees(hash[z], hasTTL[z], rank[z], weight[z], touches[z])
           => Prepared(z, s, hash[z], hasTTL[z], rank[z], weight[z], touches[z])
  PROVE  ZonesInv'
<1> DEFINE b == dirty[z] \/ ~Idle(z)
<1>1. /\ Begin(t, s) /\ dirty' = [dirty EXCEPT ![z] = b]
      /\ found' = [found EXCEPT ![t] = {}] /\ steady' = [steady EXCEPT ![t] = {}]
  BY DEF BeginWrite
<1>2. dirty[z] \in BOOLEAN
  BY DEF ZonesInv, ZonesTypes
<1>3. b \in BOOLEAN
  OBVIOUS
<1>4. b = FALSE => Idle(z) /\ dirty[z] = FALSE
  BY <1>2
<1> HIDE DEF b
<1>5. b = FALSE => Idle(z) /\ Prepared(z, s, hash[z], hasTTL[z], rank[z], weight[z], touches[z])
  BY <1>4, ReadWhole
<1> QED
  BY <1>1, <1>3, <1>5, WriteBegins

LEMMA StatusKeeps ==
  ASSUME ZonesInv, NEW t \in Tasks, NEW z \in Zones, UpdateZoneStatus(t, z)
  PROVE  ZonesInv'
<1>1. PICK st \in Statuses :
        /\ Exists(z)
        /\ BeginWrite(t, z, <<HSet(z, Field("status", st)), HSet(z, Field("stamp", "set"))>>
                             \o (IF st = "MITIGATED" THEN <<ZAdd(z, 0, 0)>> ELSE <<>>))
  BY DEF UpdateZoneStatus
<1> DEFINE a == HSet(z, Field("status", st))
<1>2. Stamp(z) = HSet(z, Field("stamp", "set"))
  BY DEF Stamp
<1>3. CASE st = "MITIGATED"
  <2> DEFINE c == ZAdd(z, 0, 0)
             s == <<a, Stamp(z), c>>
  <2>1. BeginWrite(t, z, <<a, Stamp(z)>> \o <<c>>)
    BY <1>1, <1>2, <1>3
  <2>2. <<a, Stamp(z)>> \o <<c>> = s
    <3> HIDE DEF a, c
    <3> QED
      BY TwoAndOne
  <2>3. WriteList(z, s)
    <3>1. s \in Seq(ToSet(s)) /\ s # <<>> /\ ToSet(s) = {a, Stamp(z), c}
      <4> HIDE DEF a, c
      <4> QED
        BY ListOfThree
    <3> HIDE DEF s
    <3> QED
      BY <1>2, <3>1, WriteListOf
  <2>4. Agrees(hash[z], hasTTL[z], rank[z], weight[z], touches[z])
           => Prepared(z, s, hash[z], hasTTL[z], rank[z], weight[z], touches[z])
    BY DEF Prepared, Changing
  <2>5. BeginWrite(t, z, s)
    BY <2>1, <2>2
  <2> HIDE DEF s
  <2> QED
    BY <1>1, <2>3, <2>4, <2>5, BeginWriteKeeps
<1>4. CASE st # "MITIGATED"
  <2> DEFINE s == <<a, Stamp(z)>>
  <2>1. BeginWrite(t, z, s \o <<>>)
    BY <1>1, <1>2, <1>4
  <2>2. WriteList(z, s) /\ s \in Seq(ToSet(s))
    <3>1. s \in Seq(ToSet(s)) /\ s # <<>> /\ ToSet(s) = {a, Stamp(z)}
      <4> HIDE DEF a
      <4> QED
        BY ListOfTwo
    <3> HIDE DEF s
    <3> QED
      BY <1>2, <3>1, WriteListOf
  <2>3. Agrees(hash[z], hasTTL[z], rank[z], weight[z], touches[z])
           => Prepared(z, s, hash[z], hasTTL[z], rank[z], weight[z], touches[z])
    BY DEF Prepared, Changing
  <2> HIDE DEF s
  <2>4. s \o <<>> = s
    BY <2>2, ConcatEmptySeq
  <2>5. BeginWrite(t, z, s)
    BY <2>1, <2>4
  <2> QED
    BY <1>1, <2>2, <2>3, <2>5, BeginWriteKeeps
<1> QED
  BY <1>3, <1>4

LEMMA PHoldKeeps ==
  ASSUME ZonesInv, NEW t \in Tasks, NEW z \in Zones, UpdateZonePHold(t, z)
  PROVE  ZonesInv'
<1>1. PICK p \in PHolds, w \in Given \cup {WeightOf(hash[z])} :
        /\ Exists(z)
        /\ BeginWrite(t, z, <<HSet(z, Field("p_hold", p)), HSet(z, Field("stamp", "set")),
                              ZAdd(z, p, w)>>)
  BY DEF UpdateZonePHold
<1> DEFINE a == HSet(z, Field("p_hold", p))
           c == ZAdd(z, p, w)
           s == <<a, Stamp(z), c>>
<1>2. Stamp(z) = HSet(z, Field("stamp", "set"))
  BY DEF Stamp
<1>3. BeginWrite(t, z, s)
  BY <1>1, <1>2
<1>4. WriteList(z, s)
  <2>1. s \in Seq(ToSet(s)) /\ s # <<>> /\ ToSet(s) = {a, Stamp(z), c}
    <3> HIDE DEF a, c
    <3> QED
      BY ListOfThree
  <2> HIDE DEF s
  <2> QED
    BY <1>2, <2>1, WriteListOf
<1>5. Agrees(hash[z], hasTTL[z], rank[z], weight[z], touches[z])
         => Prepared(z, s, hash[z], hasTTL[z], rank[z], weight[z], touches[z])
  BY DEF Prepared, Changing
<1> HIDE DEF s
<1> QED
  BY <1>1, <1>3, <1>4, <1>5, BeginWriteKeeps

LEMMA TouchKeeps ==
  ASSUME ZonesInv, NEW t \in Tasks, NEW z \in Zones, RecordZoneTouch(t, z)
  PROVE  ZonesInv'
<1> DEFINE a == HSet(z, Field("touch_count", CountOf(hash[z]) + 1))
           s == <<a, Stamp(z)>>
<1>1. Stamp(z) = HSet(z, Field("stamp", "set"))
  BY DEF Stamp
<1>2. Exists(z) /\ BeginWrite(t, z, s)
  BY <1>1 DEF RecordZoneTouch
<1>3. WriteList(z, s)
  <2>1. s \in Seq(ToSet(s)) /\ s # <<>> /\ ToSet(s) = {a, Stamp(z)}
    <3> HIDE DEF a
    <3> QED
      BY ListOfTwo
  <2> HIDE DEF s
  <2> QED
    BY <1>1, <2>1, WriteListOf
<1>4. Agrees(hash[z], hasTTL[z], rank[z], weight[z], touches[z])
         => Prepared(z, s, hash[z], hasTTL[z], rank[z], weight[z], touches[z])
  <2> SUFFICES ASSUME Agrees(hash[z], hasTTL[z], rank[z], weight[z], touches[z])
               PROVE  Prepared(z, s, hash[z], hasTTL[z], rank[z], weight[z], touches[z])
    OBVIOUS
  <2>1. CountOf(hash[z]) = touches[z]
    BY DEF CountOf, Agrees, Filled
  <2>2. s = <<HSet(z, Field("touch_count", touches[z] + 1)), Stamp(z)>>
    BY <2>1
  <2> QED
    BY <2>2 DEF Prepared, Changing
<1> HIDE DEF s
<1> QED
  BY <1>2, <1>3, <1>4, BeginWriteKeeps

(* A query begins with every zone it promises on its list.                 *)
LEMMA QueryKeeps ==
  ASSUME ZonesInv, NEW t \in Tasks, NEW keys \in SUBSET Zones, NEW wanted \in SUBSET Zones,
         NEW promised \in SUBSET wanted, BeginQuery(t, keys, wanted, promised),
         \A z \in promised : IsActive(hash[z]) => z \in keys
  PROVE  ZonesInv'
<1> DEFINE n == Cardinality(keys)
           s == [i \in 1..n |-> Read(SetToSeq(keys)[i], wanted)]
<1>1. /\ Begin(t, s) /\ found' = [found EXCEPT ![t] = {}] /\ UNCHANGED dirty
      /\ steady' = [steady EXCEPT ![t] = {z \in promised : IsActive(hash[z])}]
  BY DEF BeginQuery
<1>2. /\ n \in Nat /\ SetToSeq(keys) \in [1..n -> keys]
      /\ \A z \in keys : \E i \in 1..n : SetToSeq(keys)[i] = z
  <2>1. IsFiniteSet(keys)
    BY RegistryAssumption, FS_Subset
  <2> QED
    BY <2>1, ListedAll
<1>3. /\ DOMAIN s = 1..n /\ \A i \in 1..n : s[i] = Read(SetToSeq(keys)[i], wanted)
      /\ s \in Seq({Read(k, wanted) : k \in keys})
  <2>1. s \in [1..n -> {Read(k, wanted) : k \in keys}]
    BY <1>2
  <2>2. DOMAIN s = 1..n /\ \A i \in 1..n : s[i] = Read(SetToSeq(keys)[i], wanted)
    OBVIOUS
  <2> HIDE DEF s, n
  <2>3. s \in Seq({Read(k, wanted) : k \in keys})
    BY <1>2, <2>1, SeqDef
  <2> QED
    BY <2>2, <2>3
<1> HIDE DEF s, n
<1>4. s \in Seq(ToSet(s)) /\ \A c \in ToSet(s) : \E k \in keys : c = Read(k, wanted)
  <2>1. s \in Seq(ToSet(s))
    BY <1>3, OwnElements
  <2>2. \A c \in ToSet(s) : \E k \in keys : c = Read(k, wanted)
    BY <1>2, <1>3 DEF ToSet
  <2> QED
    BY <2>1, <2>2
<1>5. \A z \in keys : \E c \in ToSet(s) : c.key = z
  <2> SUFFICES ASSUME NEW z \in keys PROVE \E c \in ToSet(s) : c.key = z
    OBVIOUS
  <2>1. PICK i \in 1..n : SetToSeq(keys)[i] = z
    BY <1>2
  <2>2. s[i] = Read(z, wanted) /\ s[i] \in ToSet(s)
    BY <1>3, <2>1 DEF ToSet
  <2> QED
    BY <2>2 DEF Read
<1>6. /\ commands[t] = <<>> /\ commands' = [commands EXCEPT ![t] = s]
      /\ UNCHANGED <<hash, hasTTL, rank, weight, touches>>
  BY <1>1 DEF Begin
<1>7. ZonesTypes'
  BY <1>1, <1>6 DEF ZonesInv, ZonesTypes
<1>8. /\ commands'[t] = s /\ steady'[t] = {z \in promised : IsActive(hash[z])}
      /\ \A u \in Tasks : u # t =>
           commands'[u] = commands[u] /\ found'[u] = found[u] /\ steady'[u] = steady[u]
  BY <1>1, <1>6 DEF ZonesInv, ZonesTypes
<1>9. ASSUME NEW u \in Tasks PROVE TaskHolds(u)'
  <2>1. CASE u # t
    <3>1. TaskHolds(u)
      BY DEF ZonesInv
    <3> QED
      BY <1>8, <2>1, <3>1, TaskStays
  <2>2. CASE u = t
    <3>1. steady'[t] \subseteq wanted /\ \A z \in steady'[t] : z \in keys
      BY <1>8
    <3>2. \A c \in ToSet(commands'[t]) : \E k \in Zones : c = Read(k, wanted)
      BY <1>4, <1>8
    <3>3. commands'[t] \in Seq(ToSet(commands'[t]))
      BY <1>4, <1>8
    <3>4. \A z \in steady'[t] : \E c \in ToSet(commands'[t]) : c.key = z
      BY <1>5, <1>8, <3>1
    <3> QED
      BY <2>2, <3>1, <3>2, <3>3, <3>4 DEF TaskHolds
  <2> QED
    BY <2>1, <2>2
<1>10. ASSUME NEW y \in Zones PROVE ZoneHolds(y)'
  <2>1. ~WritesTo(t, y) /\ ~WritesTo(t, y)'
    <3>1. ~WritesTo(t, y)
      BY <1>6, SetOfNone DEF WritesTo
    <3>2. \A c \in ToSet(s) : c.cmd = "READ"
      BY <1>4 DEF Read
    <3> QED
      BY <1>8, <3>1, <3>2 DEF WritesTo
  <2>2. \A u \in Tasks : WritesTo(u, y)' <=> WritesTo(u, y)
    BY <1>8, <2>1 DEF WritesTo
  <2>3. \A u \in Tasks : WritesTo(u, y) => commands'[u] = commands[u]
    BY <1>8, <2>1
  <2>4. ZoneHolds(y)
    BY DEF ZonesInv
  <2> QED
    BY <1>1, <1>6, <2>2, <2>3, <2>4, ZoneStays
<1> QED
  BY <1>7, <1>9, <1>10 DEF ZonesInv

LEMMA GetKeeps ==
  ASSUME ZonesInv, NEW t \in Tasks, GetZonesNearPrice(t) \/ GetTopZones(t)
  PROVE  ZonesInv'
<1>1. CASE GetZonesNearPrice(t)
  <2> DEFINE keys == {z \in Zones : Exists(z)}
  <2>1. \A z \in Near : IsActive(hash[z]) => z \in keys
    BY RegistryAssumption DEF IsActive, HashComplete, Exists, Empty
  <2>2. keys \in SUBSET Zones /\ Near \in SUBSET Zones /\ Near \in SUBSET Near
    BY RegistryAssumption
  <2>3. BeginQuery(t, keys, Near, Near)
    BY <1>1 DEF GetZonesNearPrice
  <2> HIDE DEF keys
  <2> QED
    BY <2>1, <2>2, <2>3, QueryKeeps
<1>2. CASE GetTopZones(t)
  <2>1. PICK S \in SUBSET Zones : BeginQuery(t, S, Zones, S)
    BY <1>2 DEF GetTopZones, ZRevRange
  <2>2. Zones \in SUBSET Zones
    OBVIOUS
  <2> QED
    BY <2>1, <2>2, QueryKeeps
<1> QED
  BY <1>1, <1>2

(* A command of a query.                                                   *)
LEMMA ReadKeeps ==
  ASSUME ZonesInv, NEW t \in Tasks, Command(t), Head(commands[t]).cmd = "READ"
  PROVE  ZonesInv'
<1> DEFINE c == Head(commands[t])
<1>1. /\ commands[t] # <<>> /\ commands' = [commands EXCEPT ![t] = Tail(commands[t])]
      /\ UNCHANGED <<hash, hasTTL, rank, weight, touches, dirty>>
      /\ found' = [found EXCEPT ![t] =
                     IF c.key \in c.wanted /\ IsActive(hash[c.key])
                     THEN found[t] \cup {c.key} ELSE found[t]]
      /\ steady' = [u \in Tasks |-> {z \in steady[u] : IsActive(hash[z])}]
  BY DEF Command, Effect, KeepSteady
<1>2. TaskHolds(t)
  BY DEF ZonesInv
<1>3. /\ commands[t] \in Seq(ToSet(commands[t])) /\ c \in ToSet(commands[t])
      /\ Tail(commands[t]) \in Seq(ToSet(Tail(commands[t])))
      /\ ToSet(commands[t]) = {c} \cup ToSet(Tail(commands[t]))
  <2>1. commands[t] \in Seq(ToSet(commands[t]))
    BY <1>2 DEF TaskHolds
  <2>2. /\ c \in ToSet(commands[t]) /\ Tail(commands[t]) \in Seq(ToSet(commands[t]))
        /\ ToSet(commands[t]) = {c} \cup ToSet(Tail(commands[t]))
    BY <1>1, <2>1, SetOfTail
  <2> QED
    BY <2>1, <2>2, OwnElements
<1> HIDE DEF c
<1>4. PICK W \in SUBSET Zones :
        /\ steady[t] \subseteq W
        /\ \A x \in ToSet(commands[t]) : \E k \in Zones : x = Read(k, W)
  BY <1>2, <1>3 DEF TaskHolds, c
<1>5. ZonesTypes'
  BY <1>1 DEF ZonesInv, ZonesTypes
<1>6. /\ commands'[t] = Tail(commands[t])
      /\ found'[t] = IF c.key \in c.wanted /\ IsActive(hash[c.key])
                     THEN found[t] \cup {c.key} ELSE found[t]
      /\ \A u \in Tasks : /\ u # t => commands'[u] = commands[u] /\ found'[u] = found[u]
                          /\ steady'[u] = {z \in steady[u] : IsActive(hash[z])}
  BY <1>1 DEF ZonesInv, ZonesTypes
<1>7. ASSUME NEW u \in Tasks PROVE TaskHolds(u)'
  <2>1. CASE u # t
    <3>1. TaskHolds(u) /\ steady'[u] \subseteq steady[u]
      BY <1>6 DEF ZonesInv
    <3> QED
      BY <1>6, <2>1, <3>1, TaskStays
  <2>2. CASE u = t
    <3>1. c.wanted = W
      BY <1>3, <1>4 DEF Read
    <3>2. \A z \in steady'[t] : z \in found'[t] \/ \E x \in ToSet(commands'[t]) : x.key = z
      <4> SUFFICES ASSUME NEW z \in steady'[t], z \notin found'[t]
                   PROVE  \E x \in ToSet(commands'[t]) : x.key = z
        OBVIOUS
      <4>1. z \in steady[t] /\ IsActive(hash[z]) /\ z \in W
        BY <1>4, <1>6
      <4>2. z # c.key /\ z \notin found[t]
        BY <1>6, <3>1, <4>1
      <4>3. PICK x \in ToSet(commands[t]) : x.key = z
        BY <1>2, <4>1, <4>2 DEF TaskHolds
      <4> QED
        BY <1>3, <1>6, <4>2, <4>3
    <3>3. steady'[t] \subseteq W
      BY <1>4, <1>6
    <3>4. \A x \in ToSet(commands'[t]) : \E k \in Zones : x = Read(k, W)
      BY <1>3, <1>4, <1>6
    <3> QED
      BY <1>3, <1>6, <2>2, <3>2, <3>3, <3>4 DEF TaskHolds
  <2> QED
    BY <2>1, <2>2
<1>8. ASSUME NEW y \in Zones PROVE ZoneHolds(y)'
  <2>1. ~WritesTo(t, y)
    BY <1>4 DEF WritesTo, Read
  <2>2. ~WritesTo(t, y)'
    BY <1>3, <1>4, <1>6 DEF WritesTo, Read
  <2>3. \A u \in Tasks : WritesTo(u, y)' <=> WritesTo(u, y)
    BY <1>6, <2>1, <2>2 DEF WritesTo
  <2>4. \A u \in Tasks : WritesTo(u, y) => commands'[u] = commands[u]
    BY <1>6, <2>1
  <2>5. ZoneHolds(y)
    BY DEF ZonesInv
  <2> QED
    BY <1>1, <2>3, <2>4, <2>5, ZoneStays
<1> QED
  BY <1>5, <1>7, <1>8 DEF ZonesInv

(* A command of a writer.                                                  *)
LEMMA WriteKeeps ==
  ASSUME ZonesInv, NEW t \in Tasks, Command(t), Head(commands[t]).cmd # "READ"
  PROVE  ZonesInv'
<1> DEFINE c == Head(commands[t])
<1>1. /\ commands[t] # <<>> /\ commands' = [commands EXCEPT ![t] = Tail(commands[t])]
      /\ UNCHANGED dirty /\ Effect(c, t) /\ c.cmd # "READ"
      /\ steady' = [u \in Tasks |-> {z \in steady[u] : IsActive(hash'[z])}]
  BY DEF Command, KeepSteady
<1>2. TaskHolds(t)
  BY DEF ZonesInv
<1>3. /\ commands[t] \in Seq(ToSet(commands[t])) /\ c \in ToSet(commands[t])
      /\ Tail(commands[t]) \in Seq(ToSet(Tail(commands[t])))
      /\ ToSet(commands[t]) = {c} \cup ToSet(Tail(commands[t]))
  <2>1. commands[t] \in Seq(ToSet(commands[t]))
    BY <1>2 DEF TaskHolds
  <2>2. /\ c \in ToSet(commands[t]) /\ Tail(commands[t]) \in Seq(ToSet(commands[t]))
        /\ ToSet(commands[t]) = {c} \cup ToSet(Tail(commands[t]))
    BY <1>1, <2>1, SetOfTail
  <2> QED
    BY <2>1, <2>2, OwnElements
<1> HIDE DEF c
<1>4. /\ steady[t] = {}
      /\ \E z \in Zones : \A x \in ToSet(commands[t]) : x.key = z /\ x.cmd # "READ"
  BY <1>1, <1>2, <1>3 DEF TaskHolds, Read
<1>5. PICK z \in Zones : \A x \in ToSet(commands[t]) : x.key = z /\ x.cmd # "READ"
  BY <1>4
<1>6. c.key = z
  BY <1>3, <1>5
<1>7. /\ DOMAIN hash' = Zones /\ hasTTL' \in [Zones -> BOOLEAN] /\ DOMAIN rank' = Zones
      /\ DOMAIN weight' = Zones /\ DOMAIN touches' = Zones /\ found' = found
      /\ \A y \in Zones : y # z => /\ hash'[y] = hash[y] /\ hasTTL'[y] = hasTTL[y]
                                /\ rank'[y] = rank[y] /\ weight'[y] = weight[y]
                                /\ touches'[y] = touches[y]
      /\ Applied(c, hash[z], hasTTL[z], rank[z], weight[z], touches[z],
                    hash'[z], hasTTL'[z], rank'[z], weight'[z], touches'[z])
  <2>1. ZonesTypes
    BY DEF ZonesInv
  <2>2. CASE /\ c.cmd = "HSET"
             /\ hash' = [hash EXCEPT ![c.key] = Merge(hash[c.key], c.fields)]
             /\ hasTTL' = [hasTTL EXCEPT ![c.key] = hasTTL[c.key] /\ hash[c.key] # Empty]
             /\ touches' = [touches EXCEPT ![c.key] =
                              IF "body" \in DOMAIN c.fields THEN 0
                              ELSE IF "touch_count" \in DOMAIN c.fields
                                   THEN touches[c.key] + 1 ELSE touches[c.key]]
             /\ UNCHANGED <<rank, weight, found>>
    <3> DEFINE l == hasTTL[z] /\ hash[z] # Empty
    <3>1. l \in BOOLEAN
      OBVIOUS
    <3>2. hasTTL' = [hasTTL EXCEPT ![z] = l]
      BY <1>6, <2>2
    <3> HIDE DEF l
    <3>3. hasTTL' \in [Zones -> BOOLEAN] /\ hasTTL'[z] = l
          /\ \A y \in Zones : y # z => hasTTL'[y] = hasTTL[y]
      BY <2>1, <3>1, <3>2 DEF ZonesTypes
    <3>4. hasTTL'[z] = TRUE <=> (hasTTL[z] = TRUE /\ hash[z] # Empty)
      BY <2>1, <3>3 DEF l, ZonesTypes
    <3> QED
      BY <1>6, <2>1, <2>2, <3>3, <3>4 DEF ZonesTypes, Applied
  <2>3. CASE /\ c.cmd = "EXPIRE"
             /\ hasTTL' = [hasTTL EXCEPT ![c.key] = hash[c.key] # Empty]
             /\ UNCHANGED <<hash, rank, weight, found, touches>>
    <3> DEFINE l == hash[z] # Empty
    <3>1. l \in BOOLEAN
      OBVIOUS
    <3>2. hasTTL' = [hasTTL EXCEPT ![z] = l]
      BY <1>6, <2>3
    <3> HIDE DEF l
    <3>3. hasTTL' \in [Zones -> BOOLEAN] /\ hasTTL'[z] = l
          /\ \A y \in Zones : y # z => hasTTL'[y] = hasTTL[y]
      BY <2>1, <3>1, <3>2 DEF ZonesTypes
    <3>4. hasTTL'[z] = TRUE <=> hash[z] # Empty
      BY <3>3 DEF l
    <3> QED
      BY <1>6, <2>1, <2>3, <3>3, <3>4 DEF ZonesTypes, Applied
  <2>4. CASE /\ c.cmd = "ZADD" /\ rank' = [rank EXCEPT ![c.key] = c.score]
             /\ weight' = [weight EXCEPT ![c.key] = c.weight]
             /\ UNCHANGED <<hash, hasTTL, found, touches>>
    BY <1>6, <2>1, <2>4 DEF ZonesTypes, Applied
  <2> QED
    BY <1>1, <2>2, <2>3, <2>4 DEF Effect
<1>8. ZonesTypes'
  BY <1>1, <1>7 DEF ZonesInv, ZonesTypes
<1>9. /\ commands'[t] = Tail(commands[t])
      /\ \A u \in Tasks : u # t => commands'[u] = commands[u]
      /\ \A u \in Tasks : steady'[u] \subseteq steady[u]
  BY <1>1 DEF ZonesInv, ZonesTypes
<1>10. ASSUME NEW u \in Tasks PROVE TaskHolds(u)'
  <2>1. CASE u # t
    <3>1. TaskHolds(u) /\ found'[u] = found[u]
      BY <1>7 DEF ZonesInv
    <3> QED
      BY <1>9, <2>1, <3>1, TaskStays
  <2>2. CASE u = t
    <3>1. steady'[t] = {}
      BY <1>4, <1>9
    <3>2. \A x \in ToSet(commands'[t]) : x.key = z /\ x.cmd # "READ"
      BY <1>3, <1>5, <1>9
    <3>3. commands'[t] \in Seq(ToSet(commands'[t]))
      BY <1>3, <1>9
    <3> QED
      BY <2>2, <3>1, <3>2, <3>3 DEF TaskHolds
  <2> QED
    BY <2>1, <2>2
<1>11. \A u \in Tasks : \A y : u # t => (WritesTo(u, y)' <=> WritesTo(u, y))
  BY <1>9 DEF WritesTo
<1>12. \A y : WritesTo(t, y) <=> y = z
  BY <1>3, <1>5 DEF WritesTo
<1>13. ASSUME NEW y \in Zones, y # z PROVE ZoneHolds(y)'
  <2>1. ~WritesTo(t, y) /\ ~WritesTo(t, y)'
    BY <1>3, <1>5, <1>9, <1>13 DEF WritesTo
  <2>2. \A u \in Tasks : WritesTo(u, y)' <=> WritesTo(u, y)
    BY <1>11, <2>1
  <2>3. \A u \in Tasks : WritesTo(u, y) => commands'[u] = commands[u]
    BY <1>9, <2>1
  <2>4. ZoneHolds(y) /\ dirty'[y] = dirty[y]
    BY <1>1 DEF ZonesInv
  <2> QED
    BY <1>7, <1>13, <2>2, <2>3, <2>4, ZoneStays
<1>14. ZoneHolds(z)'
  <2> SUFFICES ASSUME dirty[z] # TRUE PROVE ZoneHolds(z)'
    BY <1>1 DEF ZoneHolds
  <2>1. Halfway(z, t) /\ \A u \in Tasks : WritesTo(u, z) => u = t
    BY <1>12 DEF ZonesInv, ZoneHolds
  <2> DEFINE h2 == hash'[z]
             l2 == hasTTL'[z]
             r2 == rank'[z]
             q2 == weight'[z]
             n2 == touches'[z]
             s == commands[t]
  <2>2. Applied(Head(s), hash[z], hasTTL[z], rank[z], weight[z], touches[z], h2, l2, r2, q2, n2)
    BY <1>7 DEF c
  <2>3. Prepared(z, s, hash[z], hasTTL[z], rank[z], weight[z], touches[z])
    BY <2>1 DEF Halfway
  <2>4. \/ Tail(s) = <<>> /\ Agrees(h2, l2, r2, q2, n2)
        \/ Prepared(z, Tail(s), h2, l2, r2, q2, n2)
    <3> HIDE DEF h2, l2, r2, q2, n2, s
    <3> QED
      BY <2>2, <2>3, NextCommand
  <2>5. \A u \in Tasks : WritesTo(u, z)' => u = t
    BY <1>11, <2>1
  <2>6. CASE Tail(s) = <<>> /\ Agrees(h2, l2, r2, q2, n2)
    <3>1. ~WritesTo(t, z)'
      BY <1>9, <2>6, SetOfNone DEF WritesTo
    <3>2. Settled(z)'
      BY <2>6 DEF Settled
    <3> QED
      BY <2>5, <3>1, <3>2 DEF ZoneHolds
  <2>7. CASE Tail(s) # <<>> /\ Prepared(z, Tail(s), h2, l2, r2, q2, n2)
    <3>1. Head(Tail(s)) \in ToSet(Tail(s))
      BY <1>3, <2>7, SetOfTail
    <3>2. WritesTo(t, z)'
      BY <1>3, <1>5, <1>9, <3>1 DEF WritesTo
    <3>3. Halfway(z, t)'
      BY <1>9, <2>7 DEF Halfway
    <3> QED
      BY <2>5, <3>2, <3>3 DEF ZoneHolds
  <2>8. ~Prepared(z, <<>>, h2, l2, r2, q2, n2)
    BY DEF Prepared, Starting, Timing, Ranking, Changing
  <2> QED
    BY <2>4, <2>6, <2>7, <2>8
<1> QED
  BY <1>8, <1>10, <1>13, <1>14 DEF ZonesInv

(* An operation that raises leaves the zone it was writing to disturbed.   *)
LEMMA RaiseKeeps ==
  ASSUME ZonesInv, NEW t \in Tasks, Raise(t)
  PROVE  ZonesInv'
<1>1. /\ dirty' = [z \in Zones |-> dirty[z] \/ t \in Writers(z)]
      /\ commands' = [commands EXCEPT ![t] = <<>>]
      /\ found' = [found EXCEPT ![t] = {}] /\ steady' = [steady EXCEPT ![t] = {}]
      /\ UNCHANGED <<hash, hasTTL, rank, weight, touches>>
  BY DEF Raise
<1>2. ZonesTypes'
  <2>1. \A z \in Zones : (dirty[z] \/ t \in Writers(z)) \in BOOLEAN
    OBVIOUS
  <2>2. dirty' \in [Zones -> BOOLEAN]
    BY <1>1, <2>1
  <2> QED
    BY <1>1, <2>2 DEF ZonesInv, ZonesTypes
<1>3. /\ commands'[t] = <<>> /\ steady'[t] = {}
      /\ \A u \in Tasks : u # t =>
           commands'[u] = commands[u] /\ found'[u] = found[u] /\ steady'[u] = steady[u]
  BY <1>1 DEF ZonesInv, ZonesTypes
<1>4. ASSUME NEW u \in Tasks PROVE TaskHolds(u)'
  <2>1. CASE u # t
    <3>1. TaskHolds(u)
      BY DEF ZonesInv
    <3> QED
      BY <1>3, <2>1, <3>1, TaskStays
  <2>2. CASE u = t
    <3>1. <<>> \in Seq(ToSet(<<>>))
      BY EmptySeq
    <3> QED
      BY <1>3, <2>2, <3>1, SetOfNone DEF TaskHolds
  <2> QED
    BY <2>1, <2>2
<1>5. ASSUME NEW y \in Zones PROVE ZoneHolds(y)'
  <2>1. ~WritesTo(t, y)'
    BY <1>3, SetOfNone DEF WritesTo
  <2>2. \A u \in Tasks : u # t => (WritesTo(u, y)' <=> WritesTo(u, y))
    BY <1>3 DEF WritesTo
  <2>3. CASE WritesTo(t, y)
    <3>1. t \in Writers(y)
      BY <2>3, WritersAre
    <3>2. dirty'[y] = TRUE
      BY <1>1, <3>1
    <3> QED
      BY <3>2 DEF ZoneHolds
  <2>4. CASE ~WritesTo(t, y)
    <3>1. dirty[y] = TRUE => dirty'[y] = TRUE
      BY <1>1
    <3>2. \A u \in Tasks : WritesTo(u, y)' <=> WritesTo(u, y)
      BY <2>1, <2>2, <2>4
    <3>3. \A u \in Tasks : WritesTo(u, y) => commands'[u] = commands[u]
      BY <1>3, <2>4
    <3>4. ZoneHolds(y)
      BY DEF ZonesInv
    <3> QED
      BY <1>1, <3>1, <3>2, <3>3, <3>4, ZoneStays
  <2> QED
    BY <2>3, <2>4
<1> QED
  BY <1>2, <1>4, <1>5 DEF ZonesInv

LEMMA ExpiryKeeps ==
  ASSUME ZonesInv, NEW z \in Zones, KeyExpires(z)
  PROVE  ZonesInv'
<1> DEFINE b == dirty[z] \/ ~Idle(z)
<1>1. /\ hash' = [hash EXCEPT ![z] = Empty] /\ hasTTL' = [hasTTL EXCEPT ![z] = FALSE]
      /\ dirty' = [dirty EXCEPT ![z] = b] /\ UNCHANGED <<rank, weight, commands, found, touches>>
      /\ steady' = [t \in Tasks |-> {y \in steady[t] : IsActive(hash'[y])}]
  BY DEF KeyExpires, KeepSteady
<1>2. b \in BOOLEAN /\ (b # TRUE => Idle(z))
  OBVIOUS
<1> HIDE DEF b
<1>3. ZonesTypes'
  BY <1>1, <1>2 DEF ZonesInv, ZonesTypes
<1>4. /\ hash'[z] = Empty /\ dirty'[z] = b
      /\ \A y \in Zones : y # z => /\ hash'[y] = hash[y] /\ hasTTL'[y] = hasTTL[y]
                                /\ dirty'[y] = dirty[y]
      /\ \A t \in Tasks : steady'[t] \subseteq steady[t]
  BY <1>1 DEF ZonesInv, ZonesTypes
<1>5. ASSUME NEW t \in Tasks PROVE TaskHolds(t)'
  BY <1>1, <1>4, TaskStays DEF ZonesInv
<1>6. \A t, y : WritesTo(t, y)' <=> WritesTo(t, y)
  BY <1>1 DEF WritesTo
<1>7. ASSUME NEW y \in Zones PROVE ZoneHolds(y)'
  <2>1. CASE y # z
    <3>1. ZoneHolds(y)
      BY DEF ZonesInv
    <3> QED
      BY <1>1, <1>4, <1>6, <2>1, <3>1, ZoneStays
  <2>2. CASE y = z /\ b = TRUE
    BY <1>4, <2>2 DEF ZoneHolds
  <2>3. CASE y = z /\ b # TRUE
    <3>1. \A t \in Tasks : ~WritesTo(t, z)'
      BY <1>2, <1>6, <2>3, IdleMeans
    <3> QED
      BY <1>4, <2>3, <3>1 DEF ZoneHolds, Settled
  <2> QED
    BY <2>1, <2>2, <2>3
<1> QED
  BY <1>3, <1>5, <1>7 DEF ZonesInv

LEMMA ZonesKeep == ZonesInv /\ [ZonesNext]_zoneVars => ZonesInv'
<1> SUFFICES ASSUME ZonesInv, [ZonesNext]_zoneVars PROVE ZonesInv'
  OBVIOUS
<1>1. ASSUME NEW t \in Tasks, NEW z \in Zones, UpsertZone(t, z) PROVE ZonesInv'
  BY <1>1, UpsertKeeps
<1>2. ASSUME NEW t \in Tasks, NEW z \in Zones, UpdateZoneStatus(t, z) PROVE ZonesInv'
  BY <1>2, StatusKeeps
<1>3. ASSUME NEW t \in Tasks, NEW z \in Zones, UpdateZonePHold(t, z) PROVE ZonesInv'
  BY <1>3, PHoldKeeps
<1>4. ASSUME NEW t \in Tasks, NEW z \in Zones, RecordZoneTouch(t, z) PROVE ZonesInv'
  BY <1>4, TouchKeeps
<1>5. ASSUME NEW t \in Tasks, GetZonesNearPrice(t) \/ GetTopZones(t) PROVE ZonesInv'
  BY <1>5, GetKeeps
<1>6. ASSUME NEW t \in Tasks, Command(t) PROVE ZonesInv'
  BY <1>6, ReadKeeps, WriteKeeps
<1>7. ASSUME NEW t \in Tasks, Raise(t) PROVE ZonesInv'
  BY <1>7, RaiseKeeps
<1>8. ASSUME NEW z \in Zones, KeyExpires(z) PROVE ZonesInv'
  BY <1>8, ExpiryKeeps
<1>9. CASE UNCHANGED zoneVars
  <2>1. UNCHANGED <<hash, hasTTL, rank, weight, commands, found, steady, dirty, touches>>
    BY <1>9 DEF zoneVars
  <2>2. ASSUME NEW t \in Tasks PROVE TaskHolds(t)'
    BY <2>1, TaskStays DEF ZonesInv
  <2>3. \A t, z : WritesTo(t, z)' <=> WritesTo(t, z)
    BY <2>1 DEF WritesTo
  <2>4. ASSUME NEW z \in Zones PROVE ZoneHolds(z)'
    <3>1. ZoneHolds(z)
      BY DEF ZonesInv
    <3> QED
      BY <2>1, <2>3, <3>1, ZoneStays
  <2>5. ZonesTypes'
    BY <2>1 DEF ZonesInv, ZonesTypes
  <2> QED
    BY <2>2, <2>4, <2>5 DEF ZonesInv
<1> QED
  BY <1>1, <1>2, <1>3, <1>4, <1>5, <1>6, <1>7, <1>8, <1>9 DEF ZonesNext

(* A settled zone is whole, with its TTL, its score and all its touches,   *)
(* and no query misses a zone that was active all the while: for every     *)
(* number of zones and coroutines and every interleaving of their          *)
(* commands, expiries and errors.                                          *)
LEMMA ZonesAreSound == ZonesInv => ZonesSound
<1> SUFFICES ASSUME ZonesInv PROVE ZonesSound
  OBVIOUS
<1>1. SettledIsConsistent
  <2> SUFFICES ASSUME NEW z \in Zones, Idle(z), ~dirty[z], hash[z] # Empty
               PROVE  LET h == hash[z] IN
                      /\ HashComplete(h) /\ hasTTL[z]
                      /\ rank[z] = h["p_hold"] * weight[z]
                      /\ h["touch_count"] = touches[z]
    BY DEF SettledIsConsistent
  <2>1. dirty[z] = FALSE /\ Exists(z)
    BY DEF ZonesInv, ZonesTypes, Exists
  <2>2. Agrees(hash[z], hasTTL[z], rank[z], weight[z], touches[z])
    BY <2>1, ReadWhole
  <2> QED
    BY <2>2 DEF Agrees, Filled, HashComplete
<1>2. QueryMissesNone
  <2> SUFFICES ASSUME NEW t \in Tasks, NEW z \in steady[t], z \notin found[t]
               PROVE  z \in {commands[t][i].key : i \in 1..Len(commands[t])}
    BY DEF QueryMissesNone
  <2>1. PICK c \in ToSet(commands[t]) : c.key = z
    BY DEF ZonesInv, TaskHolds
  <2>2. DOMAIN commands[t] = 1..Len(commands[t])
    BY OwnElements DEF ZonesInv, TaskHolds
  <2>3. PICK i \in 1..Len(commands[t]) : commands[t][i] = c
    BY <2>1, <2>2 DEF ToSet
  <2> QED
    BY <2>1, <2>3
<1> QED
  BY <1>1, <1>2 DEF ZonesSound

(* However many operations of the registry run at once, and whichever of   *)
(* their commands fail: hash, TTL and ranking of a zone whose writers did  *)
(* not overlap agree, and no query misses a zone that was there all along. *)
THEOREM ZonesAlwaysSound == ZonesSpec => []ZonesSound
<1>1. ZonesSpec => []ZonesInv
  BY ZonesStart, ZonesKeep, PTL DEF ZonesSpec
<1> QED
  BY <1>1, ZonesAreSound, PTL

-----------------------------------------------------------------------------
(* The outcomes.                                                           *)
Outcome == OutcomeType
WriteType == [p : Times, set : Outcome \cup {Pending}]
EventType == [p : Times, outcome : Outcome, at : Nat]
BarType == [bsl : BOOLEAN, ssl : BOOLEAN, inZone : BOOLEAN, at : Nat]

OutcomeTypes ==
  /\ bars \in Seq(BarType) /\ Len(bars) <= MaxBars /\ handled \in Nat
  /\ windowStart \in Nat /\ windowStart <= Len(bars) + 1 /\ seen \in Nat
  /\ DOMAIN table = Times /\ writes \in Seq(WriteType) /\ examining \in Seq(Times)
  /\ published \in Seq(EventType)

Unsaid(p) == \A i \in 1..Len(published) : published[i].p # p
Reached(B, p, b) == \E k \in p + 1..b : B[k].bsl \/ B[k].ssl
Minute(B, b) == IF b = 0 THEN 0 ELSE B[b].at
Lapse(B, p, b) == Minute(B, b) - Minute(B, p)
Clear(B, p, b) == p <= b /\ ~Reached(B, p, b) /\ Lapse(B, p, b) <= Horizon

(* The first outcome announced for a prediction is right for the bars B.   *)
Judged(B, e) ==
  /\ e.p < e.at /\ ~Reached(B, e.p, e.at - 1) /\ Lapse(B, e.p, e.at - 1) <= Horizon
  /\ e.outcome = "BSL_HIT" => B[e.at].bsl
  /\ e.outcome = "SSL_HIT" => B[e.at].ssl /\ ~B[e.at].bsl
  /\ e.outcome = "TIMEOUT" => ~Reached(B, e.p, e.at) /\ Lapse(B, e.p, e.at) > Horizon
AllJudged ==
  \A i \in 1..Len(published) :
    IsFirst(i) /\ published[i].p \notin late => Judged(bars, published[i])

(* A prediction with no outcome yet, that was examined at every bar, has   *)
(* met no level and is within its horizon up to the last bar, or up to the *)
(* one before it while it waits for its turn in the handler.               *)
OpenIsClear ==
  \A p \in Times \ late : Unsaid(p) =>
    /\ p \in ToSet(examining) => p < handled /\ Clear(bars, p, handled - 1)
    /\ p \in Open \ ToSet(examining) => Clear(bars, p, Len(bars))

(* The last write of a prediction, or its row when none waits, is what was *)
(* announced last; the row is there, so that the write will not be void.   *)
Settles(W, T, p, o) ==
  \/ \E k \in 1..Len(W) : /\ W[k] = [p |-> p, set |-> o]
                          /\ \A m \in k + 1..Len(W) : W[m].p # p
  \/ (\A k \in 1..Len(W) : W[k].p # p) /\ T[p] = o
LastWins ==
  \A i \in 1..Len(published) :
    /\ table[published[i].p] # NoOutcome
    /\ IsLast(i) => Settles(writes, table, published[i].p, published[i].outcome)

Handling ==
  /\ examining # <<>> => handled = Len(bars) /\ seen <= handled /\ handled > 0
  /\ \A p \in ToSet(examining) : table[p] # NoOutcome
  /\ \A i \in 1..Len(published) : published[i].at \in 1..Len(bars)

OutcomesInv == OutcomeTypes /\ Handling /\ OpenIsClear /\ LastWins /\ AllJudged

LEMMA OutcomeNumbers ==
  /\ Horizon \in Nat /\ CacheMax \in Nat /\ CacheMax > 0 /\ MaxBars \in Nat
  /\ Limit \in Nat /\ MaxPreds \in Nat
BY OutcomeAssumption

LEMMA OutcomesStart == OutcomesInit => OutcomesInv
<1> SUFFICES ASSUME OutcomesInit PROVE OutcomesInv
  OBVIOUS
<1>1. <<>> \in Seq(BarType) /\ <<>> \in Seq(WriteType) /\ <<>> \in Seq(Times)
      /\ <<>> \in Seq(EventType) /\ Len(<<>>) = 0
  BY EmptySeq
<1>2. OutcomeTypes
  BY <1>1, OutcomeNumbers DEF OutcomesInit, OutcomeTypes
<1>3. Handling /\ LastWins /\ AllJudged
  BY SetOfNone DEF OutcomesInit, Handling, LastWins, AllJudged
<1>4. OpenIsClear
  <2>1. Open = {}
    BY SetOfNone DEF OutcomesInit, Open, NoOutcome, Pending
  <2> QED
    BY <2>1, SetOfNone DEF OutcomesInit, OpenIsClear
<1> QED
  BY <1>2, <1>3, <1>4 DEF OutcomesInv

(* What was so for some bars is so when bars are added.                    *)
LEMMA ReachedStays ==
  ASSUME NEW B, NEW C, NEW p \in Nat, NEW n \in Nat, NEW b \in Int, b <= n,
         \A k \in 1..n : C[k] = B[k]
  PROVE  Reached(C, p, b) <=> Reached(B, p, b)
<1>1. \A k \in p + 1..b : k \in 1..n
  OBVIOUS
<1>2. \A k \in p + 1..b : C[k] = B[k]
  BY <1>1
<1> QED
  BY <1>2 DEF Reached

LEMMA LapseStays ==
  ASSUME NEW B, NEW C, NEW n \in Nat, NEW p \in 0..n, NEW b \in 0..n,
         \A k \in 1..n : C[k] = B[k]
  PROVE  Lapse(C, p, b) = Lapse(B, p, b)
BY DEF Lapse, Minute

LEMMA LapseIsInt ==
  ASSUME OutcomesInv, NEW p \in 0..Len(bars), NEW b \in 0..Len(bars)
  PROVE  /\ Lapse(bars, p, b) \in Int
         /\ Elapsed(p, b) = Lapse(bars, p, b)
<1>1. bars \in Seq(BarType) /\ Len(bars) \in Nat
  BY LenProperties DEF OutcomesInv, OutcomeTypes
<1>2. \A k \in 1..Len(bars) : bars[k].at \in Int
  <2>1. \A k \in 1..Len(bars) : bars[k] \in BarType
    BY <1>1, ElementOfSeq
  <2> QED
    BY <2>1 DEF BarType
<1>3. Minute(bars, p) \in Int /\ Minute(bars, b) \in Int
  BY <1>1, <1>2 DEF Minute
<1> QED
  BY <1>3 DEF Lapse, Minute, Elapsed, CloseTime

LEMMA JudgedStays ==
  ASSUME NEW B, NEW C, NEW n \in Nat, NEW e \in EventType, e.at <= n, e.at > 0,
         \A k \in 1..n : C[k] = B[k], Judged(B, e)
  PROVE  Judged(C, e)
<1>1. e.p \in Nat /\ e.at \in Nat /\ e.at \in 1..n /\ e.at - 1 \in Int /\ e.at - 1 <= n
  BY DEF EventType, Times
<1>0. e.p \in 0..n /\ e.at \in 0..n /\ e.at - 1 \in 0..n
  BY <1>1 DEF Judged
<1>2. C[e.at] = B[e.at]
  BY <1>1
<1>3. /\ Reached(C, e.p, e.at - 1) <=> Reached(B, e.p, e.at - 1)
      /\ Reached(C, e.p, e.at) <=> Reached(B, e.p, e.at)
  BY <1>1, ReachedStays
<1>4. /\ Lapse(C, e.p, e.at - 1) = Lapse(B, e.p, e.at - 1)
      /\ Lapse(C, e.p, e.at) = Lapse(B, e.p, e.at)
  BY <1>0, LapseStays
<1> QED
  BY <1>2, <1>3, <1>4 DEF Judged

LEMMA OutcomesIdle ==
  ASSUME OutcomesInv, UNCHANGED <<bars, windowStart, seen, table, writes, examining, handled, published, late>>
  PROVE  OutcomesInv'
<1>1. OutcomeTypes' /\ Handling'
  BY DEF OutcomesInv, OutcomeTypes, Handling
<1>2. OpenIsClear'
  BY DEF OutcomesInv, OpenIsClear, Unsaid, Open
<1>3. LastWins' /\ AllJudged'
  BY DEF OutcomesInv, LastWins, Settles, IsLast, AllJudged, IsFirst
<1> QED
  BY <1>1, <1>2, <1>3 DEF OutcomesInv

(* A write of another prediction changes nothing for this one.             *)
LEMMA SettlesStays ==
  ASSUME NEW W \in Seq(WriteType), NEW w \in WriteType, NEW T, NEW q, NEW o,
         w.p # q, Settles(W, T, q, o)
  PROVE  Settles(Append(W, w), T, q, o)
<1> DEFINE V == Append(W, w)
<1>1. /\ Len(W) \in Nat /\ Len(V) = Len(W) + 1 /\ V[Len(W) + 1] = w
      /\ \A i \in 1..Len(W) : V[i] = W[i]
  BY AppendProperties, LenProperties
<1> HIDE DEF V
<1>2. CASE \E k \in 1..Len(W) : /\ W[k] = [p |-> q, set |-> o]
                                /\ \A m \in k + 1..Len(W) : W[m].p # q
  <2>1. PICK k \in 1..Len(W) : /\ W[k] = [p |-> q, set |-> o]
                               /\ \A m \in k + 1..Len(W) : W[m].p # q
    BY <1>2
  <2>2. \A m \in k + 1..Len(V) : V[m].p # q
    <3> SUFFICES ASSUME NEW m \in k + 1..Len(V) PROVE V[m].p # q
      OBVIOUS
    <3>1. CASE m = Len(W) + 1
      BY <1>1, <3>1
    <3>2. CASE m # Len(W) + 1
      <4>1. m \in k + 1..Len(W) /\ m \in 1..Len(W)
        BY <1>1, <2>1, <3>2
      <4> QED
        BY <1>1, <2>1, <4>1
    <3> QED
      BY <3>1, <3>2
  <2>3. k \in 1..Len(V) /\ V[k] = [p |-> q, set |-> o]
    BY <1>1, <2>1
  <2> QED
    BY <2>2, <2>3 DEF Settles, V
<1>3. CASE (\A k \in 1..Len(W) : W[k].p # q) /\ T[q] = o
  <2>1. \A k \in 1..Len(V) : V[k].p # q
    BY <1>1, <1>3
  <2> QED
    BY <1>3, <2>1 DEF Settles, V
<1> QED
  BY <1>2, <1>3 DEF Settles

LEMMA InsertKeeps ==
  ASSUME OutcomesInv, InsertPrediction
  PROVE  OutcomesInv'
<1> DEFINE p == Len(bars)
           w == [p |-> p, set |-> Pending]
<1>1. /\ UNCHANGED <<bars, windowStart, seen, table, examining, handled, published, late>>
      /\ table[p] = NoOutcome /\ writes' = Append(writes, w)
      /\ \A i \in 1..Len(writes) : writes[i].p # p
  BY DEF InsertPrediction
<1>2. /\ writes \in Seq(WriteType) /\ Len(bars) \in Nat /\ p \in Times /\ Len(writes) \in Nat
  BY LenProperties DEF OutcomesInv, OutcomeTypes, Times
<1>3. w \in WriteType /\ w.p = p /\ w.set = Pending
  BY <1>2 DEF WriteType
<1> HIDE DEF p, w
<1>4. /\ writes' \in Seq(WriteType) /\ Len(writes') = Len(writes) + 1
      /\ \A i \in 1..Len(writes) : writes'[i] = writes[i]
      /\ writes'[Len(writes) + 1] = w
  BY <1>1, <1>2, <1>3, AppendProperties
<1>5. OutcomeTypes' /\ Handling' /\ AllJudged'
  BY <1>1, <1>4 DEF OutcomesInv, OutcomeTypes, Handling, AllJudged, IsFirst
<1>6. OpenIsClear'
  <2> SUFFICES ASSUME NEW q \in Times \ late, Unsaid(q)
               PROVE  /\ q \in ToSet(examining) => q < handled /\ Clear(bars, q, handled - 1)
                      /\ q \in Open' \ ToSet(examining) => Clear(bars, q, Len(bars))
    BY <1>1 DEF OpenIsClear, Unsaid
  <2>1. q \in ToSet(examining) => q < handled /\ Clear(bars, q, handled - 1)
    BY DEF OutcomesInv, OpenIsClear
  <2>2. ASSUME q \in Open', q \notin ToSet(examining) PROVE Clear(bars, q, Len(bars))
    <3>1. CASE q \in Open
      BY <2>2, <3>1 DEF OutcomesInv, OpenIsClear
    <3>2. CASE q \notin Open
      <4>1. q = p
        <5>1. PICK i \in 1..Len(writes') : writes'[i] = [p |-> q, set |-> Pending]
          BY <1>1, <2>2, <3>2 DEF Open
        <5>2. i = Len(writes) + 1
          BY <1>2, <1>4, <3>2, <5>1 DEF Open
        <5>3. w = [p |-> q, set |-> Pending]
          BY <1>4, <5>1, <5>2
        <5> QED
          BY <1>3, <5>3
      <4>2. ~Reached(bars, Len(bars), Len(bars)) /\ Lapse(bars, Len(bars), Len(bars)) <= Horizon
        <5>1. ~Reached(bars, Len(bars), Len(bars))
          BY <1>2 DEF Reached
        <5>2. Lapse(bars, Len(bars), Len(bars)) \in Int
          BY <1>2, LapseIsInt
        <5>3. Lapse(bars, Len(bars), Len(bars)) = 0
          <6>1. bars \in Seq(BarType)
            BY DEF OutcomesInv, OutcomeTypes
          <6>2. Len(bars) > 0 => bars[Len(bars)].at \in Int
            <7>1. Len(bars) > 0 => bars[Len(bars)] \in BarType
              BY <1>2, <6>1, ElementOfSeq
            <7> QED
              BY <7>1 DEF BarType
          <6> QED
            BY <1>2, <6>2 DEF Lapse, Minute
        <5> QED
          BY <5>1, <5>3, OutcomeNumbers
      <4> QED
        BY <1>2, <4>1, <4>2 DEF Clear, p
    <3> QED
      BY <3>1, <3>2
  <2> QED
    BY <2>1, <2>2
<1>7. LastWins'
  <2> SUFFICES ASSUME NEW i \in 1..Len(published)
               PROVE  /\ table[published[i].p] # NoOutcome
                      /\ IsLast(i) => Settles(writes', table', published[i].p, published[i].outcome)
    BY <1>1 DEF LastWins, IsLast
  <2> DEFINE q == published[i].p
             o == published[i].outcome
  <2>1. table[q] # NoOutcome /\ (IsLast(i) => Settles(writes, table, q, o))
    BY DEF OutcomesInv, LastWins
  <2>2. q # p
    BY <1>1, <2>1
  <2> HIDE DEF q, o
  <2>3. ASSUME Settles(writes, table, q, o)
        PROVE  Settles(writes', table', q, o)
    BY <1>1, <1>2, <1>3, <2>2, <2>3, SettlesStays
  <2> QED
    BY <1>1, <2>1, <2>3 DEF q, o
<1> QED
  BY <1>5, <1>6, <1>7 DEF OutcomesInv

LEMMA CommitOutcomeKeeps ==
  ASSUME OutcomesInv, CommitOutcome
  PROVE  OutcomesInv'
<1> DEFINE j == Head(writes)
<1>1. /\ UNCHANGED <<bars, windowStart, seen, examining, handled, published, late>>
      /\ writes # <<>> /\ writes' = Tail(writes)
      /\ table' = IF j.set = Pending \/ table[j.p] # NoOutcome
                  THEN [table EXCEPT ![j.p] = j.set] ELSE table
  BY DEF CommitOutcome
<1>2. writes \in Seq(WriteType) /\ DOMAIN table = Times
  BY DEF OutcomesInv, OutcomeTypes
<1>3. /\ j \in WriteType /\ j = writes[1] /\ writes' \in Seq(WriteType)
      /\ Len(writes') = Len(writes) - 1 /\ Len(writes) \in Nat /\ Len(writes) > 0
      /\ \A i \in 1..Len(writes') : writes'[i] = writes[i + 1]
  BY <1>1, <1>2, EmptySeq, HeadTailProperties, LenProperties
<1>4. j.p \in Times /\ j.set \in Outcome \cup {Pending} /\ j.set # NoOutcome
      /\ j = [p |-> j.p, set |-> j.set]
  BY <1>3 DEF WriteType, Outcome, OutcomeType, NoOutcome, Pending
<1> HIDE DEF j
<1>5. /\ DOMAIN table' = Times
      /\ \A p \in Times : table'[p] = IF p = j.p /\ (j.set = Pending \/ table[p] # NoOutcome)
                                      THEN j.set ELSE table[p]
  BY <1>1, <1>2, <1>4
<1>6. \A p \in Times : table[p] # NoOutcome => table'[p] # NoOutcome
  BY <1>4, <1>5
<1>7. OutcomeTypes'
  BY <1>1, <1>3, <1>5 DEF OutcomesInv, OutcomeTypes
<1>8. /\ \A p \in ToSet(examining) : p \in Times
      /\ \A i \in 1..Len(published) : published[i].p \in Times
  <2>1. DOMAIN examining = 1..Len(examining) /\ \A i \in 1..Len(examining) : examining[i] \in Times
    BY LenProperties, ElementOfSeq DEF OutcomesInv, OutcomeTypes
  <2>2. \A i \in 1..Len(published) : published[i] \in EventType
    BY ElementOfSeq DEF OutcomesInv, OutcomeTypes
  <2>3. \A p \in ToSet(examining) : p \in Times
    BY <2>1 DEF ToSet
  <2> QED
    BY <2>2, <2>3 DEF EventType
<1>9. Handling' /\ AllJudged'
  BY <1>1, <1>6, <1>8 DEF OutcomesInv, Handling, AllJudged, IsFirst
<1>10. OpenIsClear'
  <2>1. Open' \subseteq Open
    <3> SUFFICES ASSUME NEW p \in Open' PROVE p \in Open
      OBVIOUS
    <3>1. p \in Times
      BY DEF Open, Times
    <3>2. CASE table'[p] = Pending
      <4>1. CASE table[p] = Pending
        BY <3>1, <4>1 DEF Open
      <4>2. CASE table[p] # Pending
        <5>1. writes[1] = [p |-> p, set |-> Pending] /\ 1 \in 1..Len(writes)
          BY <1>3, <1>4, <1>5, <3>1, <3>2, <4>2
        <5> QED
          BY <3>1, <5>1 DEF Open
      <4> QED
        BY <4>1, <4>2
    <3>3. CASE \E i \in 1..Len(writes') : writes'[i] = [p |-> p, set |-> Pending]
      <4>1. PICK i \in 1..Len(writes') : writes'[i] = [p |-> p, set |-> Pending]
        BY <3>3
      <4>2. i + 1 \in 1..Len(writes) /\ writes[i + 1] = [p |-> p, set |-> Pending]
        BY <1>3, <4>1
      <4> QED
        BY <3>1, <4>2 DEF Open
    <3> QED
      BY <3>2, <3>3 DEF Open
  <2> QED
    BY <1>1, <2>1 DEF OutcomesInv, OpenIsClear, Unsaid
<1>11. LastWins'
  <2> SUFFICES ASSUME NEW i \in 1..Len(published)
               PROVE  /\ table'[published[i].p] # NoOutcome
                      /\ IsLast(i) => Settles(writes', table', published[i].p, published[i].outcome)
    BY <1>1 DEF LastWins, IsLast
  <2> DEFINE q == published[i].p
             o == published[i].outcome
  <2>1. table[q] # NoOutcome /\ (IsLast(i) => Settles(writes, table, q, o)) /\ q \in Times
    BY <1>8 DEF OutcomesInv, LastWins
  <2> HIDE DEF q, o
  <2>2. ASSUME Settles(writes, table, q, o)
        PROVE  Settles(writes', table', q, o)
    <3>1. CASE \E k \in 1..Len(writes) : /\ writes[k] = [p |-> q, set |-> o]
                                        /\ \A m \in k + 1..Len(writes) : writes[m].p # q
      <4>1. PICK k \in 1..Len(writes) : /\ writes[k] = [p |-> q, set |-> o]
                                        /\ \A m \in k + 1..Len(writes) : writes[m].p # q
        BY <3>1
      <4>2. CASE k = 1
        <5>1. j.p = q /\ j.set = o
          BY <1>3, <4>1, <4>2
        <5>2. table'[q] = o
          BY <1>5, <2>1, <5>1
        <5>3. \A m \in 1..Len(writes') : writes'[m].p # q
          BY <1>3, <4>1, <4>2
        <5> QED
          BY <5>2, <5>3 DEF Settles
      <4>3. CASE k # 1
        <5>1. k - 1 \in 1..Len(writes') /\ writes'[k - 1] = [p |-> q, set |-> o]
          BY <1>3, <4>1, <4>3
        <5>2. \A m \in (k - 1) + 1..Len(writes') : m + 1 \in k + 1..Len(writes) /\ m \in 1..Len(writes')
          BY <1>3, <4>1, <4>3
        <5>3. \A m \in (k - 1) + 1..Len(writes') : writes'[m].p # q
          BY <1>3, <4>1, <5>2
        <5> QED
          BY <5>1, <5>3 DEF Settles
      <4> QED
        BY <4>2, <4>3
    <3>2. CASE (\A k \in 1..Len(writes) : writes[k].p # q) /\ table[q] = o
      <4>1. \A k \in 1..Len(writes') : writes'[k].p # q
        BY <1>3, <3>2
      <4>2. j.p # q
        BY <1>3, <3>2
      <4> QED
        BY <1>5, <2>1, <3>2, <4>1, <4>2 DEF Settles
    <3> QED
      BY <2>2, <3>1, <3>2 DEF Settles
  <2> QED
    BY <1>1, <1>6, <2>1, <2>2 DEF Settles, q, o
<1> QED
  BY <1>7, <1>9, <1>10, <1>11 DEF OutcomesInv

(* The predictions a handler will look at have a row.                      *)
LEMMA PendingAreRows ==
  ASSUME OutcomesInv, NEW n \in Nat, NEW ids \in GetPending(n)
  PROVE  ids \in Seq(Times) /\ \A p \in ToSet(ids) : p \in Times /\ table[p] = Pending /\ p \in Open
<1> DEFINE S == {p \in Times : table[p] = Pending}
           k == IF Cardinality(S) < n THEN Cardinality(S) ELSE n
<1>1. IsFiniteSet(S)
  <2>1. S \in SUBSET Times /\ IsFiniteSet(Times)
    BY OutcomeNumbers, FS_Interval DEF Times
  <2> QED
    BY <2>1, FS_Subset
<1>2. k \in Nat
  BY <1>1, FS_CardinalityType
<1>3. ids \in [1..k -> S]
  BY DEF GetPending
<1>4. S \subseteq Open
  BY DEF Open
<1> HIDE DEF k
<1>5. ids \in [1..k -> Times] /\ DOMAIN ids = 1..k
  BY <1>3
<1>6. ids \in Seq(Times)
  BY <1>2, <1>5, SeqDef
<1>7. ToSet(ids) \subseteq S
  BY <1>3 DEF ToSet
<1> QED
  BY <1>4, <1>6, <1>7

LEMMA BarCloses ==
  ASSUME OutcomesInv, OnBarClose
  PROVE  OutcomesInv'
<1>1. /\ examining = <<>> /\ Len(bars) < MaxBars
      /\ handled' = Len(bars) + 1 /\ seen' = windowStart
      /\ windowStart' = IF handled' - windowStart + 1 > CacheMax
                        THEN handled' - CacheMax + 1 ELSE windowStart
      /\ late' = late \cup (Open \ ToSet(examining'))
      /\ UNCHANGED <<table, writes, published>>
  BY DEF OnBarClose
<1>2. PICK k \in Kinds, g \in Gaps :
        bars' = Append(bars, [bsl |-> k.bsl, ssl |-> k.ssl, inZone |-> k.inZone,
                              at |-> CloseTime(Len(bars)) + g])
  BY DEF OnBarClose
<1>3. bars \in Seq(BarType) /\ Len(bars) \in Nat /\ windowStart \in Nat /\ windowStart <= Len(bars) + 1
  BY LenProperties DEF OutcomesInv, OutcomeTypes
<1>0. [bsl |-> k.bsl, ssl |-> k.ssl, inZone |-> k.inZone,
       at |-> CloseTime(Len(bars)) + g] \in BarType
  <2>1. k \in [bsl : BOOLEAN, ssl : BOOLEAN, inZone : BOOLEAN] /\ g \in Nat
    BY OutcomeAssumption
  <2>2. Len(bars) > 0 => bars[Len(bars)].at \in Nat
    <3>1. Len(bars) > 0 => bars[Len(bars)] \in BarType
      BY <1>3, ElementOfSeq
    <3> QED
      BY <3>1 DEF BarType
  <2>3. CloseTime(Len(bars)) \in Nat
    BY <1>3, <2>2 DEF CloseTime
  <2> QED
    BY <2>1, <2>3 DEF BarType
<1>4. /\ bars' \in Seq(BarType) /\ Len(bars') = Len(bars) + 1
      /\ \A i \in 1..Len(bars) : bars'[i] = bars[i]
  BY <1>0, <1>2, <1>3, AppendProperties
<1>5. /\ examining' \in Seq(Times)
      /\ \A p \in ToSet(examining') : p \in Times /\ table[p] = Pending /\ p \in Open
  BY PendingAreRows, OutcomeNumbers DEF OnBarClose
<1>6. windowStart' \in Nat /\ windowStart' <= Len(bars') + 1
  BY <1>1, <1>3, <1>4, OutcomeNumbers
<1>7. OutcomeTypes'
  BY <1>1, <1>3, <1>4, <1>5, <1>6, OutcomeNumbers DEF OutcomesInv, OutcomeTypes
<1>8. Handling'
  <2>1. \A p \in ToSet(examining') : table'[p] # NoOutcome
    BY <1>1, <1>5 DEF Pending, NoOutcome
  <2>2. handled' = Len(bars') /\ seen' <= handled' /\ handled' > 0
    BY <1>1, <1>3, <1>4
  <2>3. \A i \in 1..Len(published') : published'[i].at \in 1..Len(bars')
    BY <1>1, <1>3, <1>4 DEF OutcomesInv, Handling
  <2> QED
    BY <2>1, <2>2, <2>3 DEF Handling
<1>9. OpenIsClear'
  <2> SUFFICES ASSUME NEW p \in Times \ late', Unsaid(p)'
               PROVE  /\ p \in ToSet(examining') => p < handled' /\ Clear(bars', p, handled' - 1)
                      /\ p \in Open' => p \in ToSet(examining')
    BY DEF OpenIsClear
  <2>1. p \in Nat /\ p \notin late /\ Unsaid(p) /\ (p \in Open => p \in ToSet(examining'))
    BY <1>1 DEF Times, Unsaid
  <2>2. Open' = Open
    BY <1>1 DEF Open
  <2>3. ASSUME p \in ToSet(examining') PROVE p < handled' /\ Clear(bars', p, handled' - 1)
    <3>1. p \in Open \ ToSet(examining)
      BY <1>1, <1>5, <2>3, SetOfNone
    <3>2. Clear(bars, p, Len(bars))
      BY <2>1, <3>1 DEF OutcomesInv, OpenIsClear
    <3>3. handled' - 1 = Len(bars) /\ p < handled'
      BY <1>1, <1>3, <2>1, <3>2 DEF Clear
    <3>4. Reached(bars', p, Len(bars)) <=> Reached(bars, p, Len(bars))
      BY <1>3, <1>4, <2>1, ReachedStays, SMTT(20)
    <3>5. p \in 0..Len(bars) /\ Len(bars) \in 0..Len(bars)
      BY <1>3, <2>1, <3>2 DEF Clear
    <3>6. Lapse(bars', p, Len(bars)) = Lapse(bars, p, Len(bars))
      BY <1>3, <1>4, <3>5, LapseStays, SMTT(20)
    <3> QED
      BY <3>2, <3>3, <3>4, <3>6 DEF Clear
  <2> QED
    BY <2>1, <2>2, <2>3
<1>10. LastWins'
  BY <1>1 DEF OutcomesInv, LastWins, IsLast
<1>11. AllJudged'
  <2> SUFFICES ASSUME NEW i \in 1..Len(published), IsFirst(i), published[i].p \notin late
               PROVE  Judged(bars', published[i])
    BY <1>1 DEF AllJudged, IsFirst
  <2>1. published[i] \in EventType /\ published[i].at \in 1..Len(bars)
    BY ElementOfSeq DEF OutcomesInv, OutcomeTypes, Handling
  <2>2. Judged(bars, published[i])
    BY DEF OutcomesInv, AllJudged
  <2>3. published[i].at <= Len(bars) /\ published[i].at > 0
    BY <1>3, <2>1
  <2> QED
    BY <1>3, <1>4, <2>1, <2>2, <2>3, JudgedStays
<1> QED
  BY <1>7, <1>8, <1>9, <1>10, <1>11 DEF OutcomesInv

LEMMA BackfillKeeps ==
  ASSUME OutcomesInv, Backfill
  PROVE  OutcomesInv'
<1>1. /\ examining = <<>> /\ bars # <<>> /\ windowStart' = 1 /\ seen' = 1 /\ handled' = Len(bars)
      /\ late' = late \cup ToSet(examining')
      /\ UNCHANGED <<bars, table, writes, published>>
  BY DEF Backfill
<1>2. bars \in Seq(BarType) /\ Len(bars) \in Nat /\ Len(bars) > 0
  BY <1>1, LenProperties, EmptySeq DEF OutcomesInv, OutcomeTypes
<1>3. /\ examining' \in Seq(Times)
      /\ \A p \in ToSet(examining') : table[p] = Pending
  BY PendingAreRows, OutcomeNumbers DEF Backfill
<1>4. OutcomeTypes'
  BY <1>1, <1>2, <1>3 DEF OutcomesInv, OutcomeTypes
<1>5. Handling'
  BY <1>1, <1>2, <1>3 DEF OutcomesInv, Handling, Pending, NoOutcome
<1>6. OpenIsClear'
  <2> SUFFICES ASSUME NEW p \in Times \ late', Unsaid(p)', p \in Open' PROVE Clear(bars, p, Len(bars))
    BY <1>1 DEF OpenIsClear
  <2>1. p \notin late /\ Unsaid(p) /\ p \in Open \ ToSet(examining)
    BY <1>1, SetOfNone DEF Unsaid, Open
  <2> QED
    BY <2>1 DEF OutcomesInv, OpenIsClear
<1>7. LastWins'
  BY <1>1 DEF OutcomesInv, LastWins, IsLast
<1>8. AllJudged'
  BY <1>1 DEF OutcomesInv, AllJudged, IsFirst
<1> QED
  BY <1>4, <1>5, <1>6, <1>7, <1>8 DEF OutcomesInv

(* What the determinator says of a prediction that was clear up to the bar *)
(* before the one that is handled.                                         *)
LEMMA VerdictIsRight ==
  ASSUME OutcomesInv, examining # <<>>, NEW p \in Nat, p < handled, Clear(bars, p, handled - 1)
  PROVE  /\ DetermineOutcome(p) = NoOutcome => Clear(bars, p, Len(bars))
         /\ DetermineOutcome(p) # NoOutcome =>
              Judged(bars, [p |-> p, outcome |-> DetermineOutcome(p), at |-> handled])
<1> DEFINE o == DetermineOutcome(p)
           e == [p |-> p, outcome |-> o, at |-> handled]
<1>1. /\ Len(bars) = handled /\ handled \in Nat /\ seen \in Nat /\ seen <= handled /\ Horizon \in Nat
  BY OutcomeNumbers DEF OutcomesInv, OutcomeTypes, Handling
<1>2. /\ handled \in Since(p)
      /\ \A b \in Since(p) : b \in p + 1..handled
  BY <1>1 DEF Since
<1>3. Since(p) # {}
  BY <1>2
<1>4. \A b \in p + 1..handled - 1 : ~bars[b].bsl /\ ~bars[b].ssl
  BY DEF Clear, Reached
<1>5. \A b \in Since(p) : b # handled => ~bars[b].bsl /\ ~bars[b].ssl
  <2> SUFFICES ASSUME NEW b \in Since(p), b # handled PROVE b \in p + 1..handled - 1
    BY <1>4
  <2> QED
    BY <1>1, <1>2
<1>6. /\ High(Since(p)) <=> bars[handled].bsl
      /\ Low(Since(p)) <=> bars[handled].ssl
  BY <1>2, <1>5 DEF High, Low
<1>7. Lapse(bars, p, handled - 1) <= Horizon /\ ~Reached(bars, p, handled - 1)
  BY DEF Clear
<1>0. Elapsed(p, handled) = Lapse(bars, p, handled) /\ Lapse(bars, p, handled) \in Int
  BY <1>1, LapseIsInt
<1>8. ~bars[handled].bsl /\ ~bars[handled].ssl => ~Reached(bars, p, handled)
  <2> SUFFICES ASSUME ~bars[handled].bsl, ~bars[handled].ssl, NEW b \in p + 1..handled
               PROVE  ~bars[b].bsl /\ ~bars[b].ssl
    BY DEF Reached
  <2>1. CASE b = handled
    BY <2>1
  <2>2. CASE b # handled
    <3>1. b \in p + 1..handled - 1
      BY <1>1, <2>2
    <3> QED
      BY <1>4, <3>1
  <2> QED
    BY <2>1, <2>2
<1>9. \/ o = NoOutcome /\ ~bars[handled].bsl /\ ~bars[handled].ssl /\ ~(Lapse(bars, p, handled) > Horizon)
      \/ o = "ZONE_HOLD"
      \/ o = "BSL_HIT" /\ bars[handled].bsl
      \/ o = "SSL_HIT" /\ bars[handled].ssl /\ ~bars[handled].bsl
      \/ o = "TIMEOUT" /\ ~bars[handled].bsl /\ ~bars[handled].ssl /\ Lapse(bars, p, handled) > Horizon
  <2>1. o = IF ZoneHold(p) THEN "ZONE_HOLD"
            ELSE IF bars[handled].bsl THEN "BSL_HIT"
            ELSE IF bars[handled].ssl THEN "SSL_HIT"
            ELSE IF Lapse(bars, p, handled) > Horizon THEN "TIMEOUT" ELSE NoOutcome
    BY <1>0, <1>3, <1>6 DEF DetermineOutcome
  <2> HIDE DEF o
  <2> QED
    BY <2>1, Zenon
<1>10. ~(Lapse(bars, p, handled) > Horizon) => Lapse(bars, p, handled) <= Horizon
  BY <1>0, <1>1
<1>11. e.p = p /\ e.outcome = o /\ e.at = handled
  OBVIOUS
<1> HIDE DEF o, e
<1>12. o = NoOutcome => Clear(bars, p, Len(bars))
  BY <1>1, <1>8, <1>9, <1>10 DEF Clear, NoOutcome
<1>13. o # NoOutcome => Judged(bars, e)
  BY <1>7, <1>8, <1>9, <1>11 DEF Judged, NoOutcome
<1> QED
  BY <1>12, <1>13 DEF o, e

LEMMA ExamineKeeps ==
  ASSUME OutcomesInv, Examine
  PROVE  OutcomesInv'
<1> DEFINE p == Head(examining)
           o == DetermineOutcome(p)
           w == [p |-> p, set |-> o]
           e == [p |-> p, outcome |-> o, at |-> handled]
<1>1. /\ examining # <<>> /\ examining' = Tail(examining)
      /\ UNCHANGED <<bars, windowStart, seen, table, handled, late>>
  BY DEF Examine
<1>2. IF o = NoOutcome THEN UNCHANGED <<writes, published>>
      ELSE writes' = Append(writes, w) /\ published' = Append(published, e)
  BY DEF Examine, UpdateAndPublish
<1>3. /\ writes \in Seq(WriteType) /\ published \in Seq(EventType) /\ examining \in Seq(Times)
      /\ handled \in Nat /\ Len(published) \in Nat
  BY LenProperties DEF OutcomesInv, OutcomeTypes
<1>4. /\ p \in ToSet(examining) /\ p \in Times /\ examining' \in Seq(Times)
      /\ ToSet(examining) = {p} \cup ToSet(examining')
  BY <1>1, <1>3, SetOfTail
<1>5. p \in Nat /\ table[p] # NoOutcome /\ handled = Len(bars) /\ handled \in 1..Len(bars)
  BY <1>1, <1>3, <1>4 DEF OutcomesInv, Handling, Times
<1>6. o # NoOutcome => o \in Outcome
  BY DEF DetermineOutcome, Outcome, OutcomeType
<1>7. ASSUME p \notin late, Unsaid(p)
      PROVE  /\ o = NoOutcome => Clear(bars, p, Len(bars))
             /\ o # NoOutcome => Judged(bars, e)
  <2>1. p < handled /\ Clear(bars, p, handled - 1)
    BY <1>4, <1>7 DEF OutcomesInv, OpenIsClear
  <2> QED
    BY <1>1, <1>5, <2>1, VerdictIsRight
<1>8. w.p = p /\ w.set = o /\ e.p = p /\ e.outcome = o /\ e.at = handled
      /\ (o # NoOutcome => w \in WriteType /\ e \in EventType)
  BY <1>3, <1>4, <1>6 DEF WriteType, EventType
<1> HIDE DEF p, o, w, e
<1>9. CASE o = NoOutcome
  <2>1. UNCHANGED <<writes, published>>
    BY <1>2, <1>9
  <2>2. OutcomeTypes' /\ Handling'
    BY <1>1, <1>4, <2>1 DEF OutcomesInv, OutcomeTypes, Handling
  <2>3. LastWins' /\ AllJudged'
    BY <1>1, <2>1 DEF OutcomesInv, LastWins, IsLast, AllJudged, IsFirst
  <2>4. OpenIsClear'
    <3>1. Open' = Open
      BY <1>1, <2>1 DEF Open
    <3> SUFFICES ASSUME NEW q \in Times \ late, Unsaid(q)
                 PROVE  /\ q \in ToSet(examining') => q < handled /\ Clear(bars, q, handled - 1)
                        /\ q \in Open \ ToSet(examining') => Clear(bars, q, Len(bars))
      BY <1>1, <2>1, <3>1 DEF OpenIsClear, Unsaid
    <3>2. /\ q \in ToSet(examining) => q < handled /\ Clear(bars, q, handled - 1)
          /\ q \in Open \ ToSet(examining) => Clear(bars, q, Len(bars))
      BY DEF OutcomesInv, OpenIsClear
    <3>3. q = p => Clear(bars, q, Len(bars))
      BY <1>7, <1>9
    <3> QED
      BY <1>4, <3>2, <3>3
  <2> QED
    BY <2>2, <2>3, <2>4 DEF OutcomesInv
<1>10. CASE o # NoOutcome
  <2>0. /\ writes' = Append(writes, w) /\ published' = Append(published, e)
        /\ w \in WriteType /\ e \in EventType
    BY <1>2, <1>8, <1>10
  <2>1. /\ writes' = Append(writes, w) /\ writes' \in Seq(WriteType)
        /\ Len(writes) \in Nat /\ Len(writes') = Len(writes) + 1 /\ writes'[Len(writes) + 1] = w
        /\ \A i \in 1..Len(writes) : writes'[i] = writes[i]
    BY <1>3, <2>0, AppendProperties, LenProperties
  <2>2. /\ published' \in Seq(EventType)
        /\ Len(published') = Len(published) + 1 /\ published'[Len(published) + 1] = e
        /\ \A i \in 1..Len(published) : published'[i] = published[i]
    BY <1>3, <2>0, AppendProperties
  <2>3. OutcomeTypes'
    BY <1>1, <1>4, <2>1, <2>2 DEF OutcomesInv, OutcomeTypes
  <2>4. Handling'
    <3>1. ASSUME NEW i \in 1..Len(published') PROVE published'[i].at \in 1..Len(bars)
      <4>1. CASE i = Len(published) + 1
        BY <1>5, <1>8, <2>2, <4>1
      <4>2. CASE i # Len(published) + 1
        <5>1. i \in 1..Len(published) /\ published'[i] = published[i]
          BY <1>3, <2>2, <4>2
        <5> QED
          BY <5>1 DEF OutcomesInv, Handling
      <4> QED
        BY <4>1, <4>2
    <3> QED
      BY <1>1, <1>4, <3>1 DEF OutcomesInv, Handling
  <2>5. OpenIsClear'
    <3>1. Open' = Open
      <4>1. \A q : w # [p |-> q, set |-> Pending]
        BY <1>6, <1>8, <1>10 DEF Outcome, OutcomeType, Pending
      <4>2. ASSUME NEW q
            PROVE (\E i \in 1..Len(writes') : writes'[i] = [p |-> q, set |-> Pending])
                  <=> (\E i \in 1..Len(writes) : writes[i] = [p |-> q, set |-> Pending])
        BY <2>1, <4>1
      <4> QED
        BY <1>1, <4>2 DEF Open
    <3> SUFFICES ASSUME NEW q \in Times \ late, Unsaid(q)'
                 PROVE  /\ q \in ToSet(examining') => q < handled /\ Clear(bars, q, handled - 1)
                        /\ q \in Open \ ToSet(examining') => Clear(bars, q, Len(bars))
      BY <1>1, <3>1 DEF OpenIsClear
    <3>2. Unsaid(q) /\ q # p
      <4>1. /\ Len(published) + 1 \in 1..Len(published')
            /\ \A i \in 1..Len(published) : i \in 1..Len(published')
        BY <1>3, <2>2
      <4> QED
        BY <1>8, <2>2, <4>1 DEF Unsaid
    <3>3. /\ q \in ToSet(examining) => q < handled /\ Clear(bars, q, handled - 1)
          /\ q \in Open \ ToSet(examining) => Clear(bars, q, Len(bars))
      BY <3>2 DEF OutcomesInv, OpenIsClear
    <3> QED
      BY <1>4, <3>2, <3>3
  <2>6. LastWins'
    <3> SUFFICES ASSUME NEW i \in 1..Len(published')
                 PROVE  /\ table[published'[i].p] # NoOutcome
                        /\ IsLast(i)' => Settles(writes', table, published'[i].p, published'[i].outcome)
      BY <1>1 DEF LastWins
    <3>1. CASE i = Len(published) + 1
      <4>1. published'[i] = e
        BY <2>2, <3>1
      <4>2. writes'[Len(writes')] = [p |-> p, set |-> o] /\ Len(writes') \in 1..Len(writes')
        BY <2>1 DEF w
      <4>3. \A m \in Len(writes') + 1..Len(writes') : writes'[m].p # p
        BY <2>1
      <4>4. Settles(writes', table, p, o)
        BY <4>2, <4>3 DEF Settles
      <4> QED
        BY <1>5, <1>8, <4>1, <4>4
    <3>2. CASE i # Len(published) + 1
      <4>1. i \in 1..Len(published) /\ published'[i] = published[i]
        BY <1>3, <2>2, <3>2
      <4>2. ASSUME IsLast(i)'
            PROVE  IsLast(i) /\ published[i].p # p
        <5>1. \A j \in i + 1..Len(published') : published'[j].p # published[i].p
          BY <4>1, <4>2 DEF IsLast
        <5>2. Len(published) + 1 \in i + 1..Len(published')
          BY <1>3, <2>2, <4>1
        <5>3. \A j \in i + 1..Len(published) : j \in i + 1..Len(published') /\ j \in 1..Len(published)
          BY <1>3, <2>2, <4>1
        <5> QED
          BY <1>8, <2>2, <5>1, <5>2, <5>3 DEF IsLast
      <4>3. ASSUME IsLast(i)' PROVE Settles(writes', table, published[i].p, published[i].outcome)
        <5>1. Settles(writes, table, published[i].p, published[i].outcome) /\ published[i].p # p
          BY <4>1, <4>2, <4>3 DEF OutcomesInv, LastWins
        <5>2. w \in WriteType /\ w.p # published[i].p
          BY <1>8, <1>10, <5>1
        <5> QED
          BY <1>3, <2>1, <5>1, <5>2, SettlesStays
      <4> QED
        BY <4>1, <4>3 DEF OutcomesInv, LastWins
    <3> QED
      BY <3>1, <3>2
  <2>7. AllJudged'
    <3> SUFFICES ASSUME NEW i \in 1..Len(published'), IsFirst(i)', published'[i].p \notin late
                 PROVE  Judged(bars, published'[i])
      BY <1>1 DEF AllJudged
    <3>1. CASE i = Len(published) + 1
      <4>1. published'[i] = e
        BY <2>2, <3>1
      <4>2. \A j \in 1..Len(published) : published[j].p # p
        BY <1>3, <1>8, <2>2, <3>1, <4>1 DEF IsFirst
      <4> QED
        BY <1>7, <1>8, <1>10, <4>1, <4>2 DEF Unsaid
    <3>2. CASE i # Len(published) + 1
      <4>1. i \in 1..Len(published) /\ published'[i] = published[i]
        BY <1>3, <2>2, <3>2
      <4>2. \A j \in 1..i - 1 : j \in 1..Len(published)
        BY <1>3, <4>1
      <4>3. IsFirst(i)
        BY <2>2, <4>1, <4>2 DEF IsFirst
      <4> QED
        BY <4>1, <4>3 DEF OutcomesInv, AllJudged
    <3> QED
      BY <3>1, <3>2
  <2> QED
    BY <2>3, <2>4, <2>5, <2>6, <2>7 DEF OutcomesInv
<1> QED
  BY <1>9, <1>10

LEMMA OutcomesKeep == OutcomesInv /\ [OutcomesNext]_outcomeVars => OutcomesInv'
<1> SUFFICES ASSUME OutcomesInv, [OutcomesNext]_outcomeVars PROVE OutcomesInv'
  OBVIOUS
<1>1. CASE InsertPrediction
  BY <1>1, InsertKeeps
<1>2. CASE CommitOutcome
  BY <1>2, CommitOutcomeKeeps
<1>3. CASE OnBarClose
  BY <1>3, BarCloses
<1>4. CASE Backfill
  BY <1>4, BackfillKeeps
<1>5. CASE Examine
  BY <1>5, ExamineKeeps
<1>6. CASE ZoneMoves
  BY <1>6, OutcomesIdle DEF ZoneMoves
<1>7. CASE UNCHANGED outcomeVars
  BY <1>7, OutcomesIdle DEF outcomeVars
<1> QED
  BY <1>1, <1>2, <1>3, <1>4, <1>5, <1>6, <1>7 DEF OutcomesNext

(* The last event of a prediction that has one.                            *)
LEMMA SomeIsLast ==
  ASSUME OutcomesInv, NEW p, ~Unsaid(p)
  PROVE  \E i \in 1..Len(published) : published[i].p = p /\ IsLast(i)
<1> DEFINE n == Len(published)
           T == {d \in 0..n : n - d \in 1..n /\ published[n - d].p = p}
           R == OpToRel(<, Nat)
<1>1. n \in Nat
  BY LenProperties DEF OutcomesInv, OutcomeTypes
<1>2. T # {}
  <2>1. PICK i \in 1..n : published[i].p = p
    BY DEF Unsaid
  <2>2. n - i \in 0..n /\ n - (n - i) = i
    BY <1>1, <2>1
  <2>3. n - i \in T
    BY <2>1, <2>2
  <2> QED
    BY <2>3
<1>3. T \subseteq Nat
  BY <1>1
<1> HIDE DEF T
<1>4. \E x \in T : \A y \in T : ~ (<<y, x>> \in R)
  BY <1>2, <1>3, NatLessThanWellFounded, WFMin
<1>5. \A x, y \in Nat : <<y, x>> \in R <=> y < x
  BY DEF OpToRel
<1> HIDE DEF R
<1>6. PICK d \in T : \A y \in T : ~ (<<y, d>> \in R)
  BY <1>4
<1>7. \A y \in T : ~(y < d)
  BY <1>3, <1>5, <1>6, Zenon
<1>8. d \in 0..n /\ n - d \in 1..n /\ published[n - d].p = p
  BY <1>6 DEF T
<1>9. IsLast(n - d)
  <2> SUFFICES ASSUME NEW j \in (n - d) + 1..n, published[j].p = p PROVE FALSE
    BY <1>8 DEF IsLast
  <2>1. n - j \in 0..n /\ n - (n - j) = j /\ j \in 1..n /\ n - j < d
    BY <1>1, <1>8
  <2>2. n - j \in T
    BY <2>1 DEF T
  <2> QED
    BY <1>7, <2>1, <2>2
<1> QED
  BY <1>8, <1>9

LEMMA OutcomesAreSound == OutcomesInv => OutcomesSound
<1> SUFFICES ASSUME OutcomesInv PROVE OutcomesSound
  OBVIOUS
<1>1. FirstEventDecides
  <2> SUFFICES ASSUME NEW i \in 1..Len(published), IsFirst(i), published[i].p \notin late
               PROVE  LET e == published[i] IN
                      /\ ~Decisive(e.p, e.at - 1) /\ Elapsed(e.p, e.at - 1) <= Horizon
                      /\ e.outcome = "BSL_HIT" => bars[e.at].bsl
                      /\ e.outcome = "SSL_HIT" => bars[e.at].ssl /\ ~bars[e.at].bsl
                      /\ e.outcome = "TIMEOUT" => ~Decisive(e.p, e.at) /\ Elapsed(e.p, e.at) > Horizon
    BY DEF FirstEventDecides
  <2> DEFINE e == published[i]
  <2>1. Judged(bars, e)
    BY DEF OutcomesInv, AllJudged
  <2>2. \A b : Elapsed(e.p, b) = Lapse(bars, e.p, b)
    BY DEF Elapsed, CloseTime, Lapse, Minute
  <2>3. \A b : Decisive(e.p, b) <=> Reached(bars, e.p, b)
    BY DEF Decisive, Reached
  <2> QED
    BY <2>1, <2>2, <2>3 DEF Judged
<1>2. ASSUME writes = <<>>, NEW i \in 1..Len(published), IsLast(i)
      PROVE  table[published[i].p] = published[i].outcome
  <2>1. Settles(writes, table, published[i].p, published[i].outcome)
    BY <1>2 DEF OutcomesInv, LastWins
  <2>2. Len(writes) = 0
    BY <1>2
  <2> QED
    BY <2>1, <2>2 DEF Settles
<1>3. StoredIsLastAnnounced
  BY <1>2 DEF StoredIsLastAnnounced
<1>4. NoneOverlooked
  <2> SUFFICES ASSUME writes = <<>>, examining = <<>>, NEW p \in Times,
                      table[p] = Pending, p \notin late
               PROVE  Elapsed(p, Len(bars)) <= Horizon /\ ~Decisive(p, Len(bars))
    BY DEF NoneOverlooked
  <2>1. Unsaid(p)
    <3> SUFFICES ASSUME ~Unsaid(p) PROVE FALSE
      OBVIOUS
    <3>1. PICK i \in 1..Len(published) : published[i].p = p /\ IsLast(i)
      BY SomeIsLast
    <3>2. published[i].outcome = Pending
      BY <1>2, <3>1
    <3>3. published[i] \in EventType
      BY ElementOfSeq, <3>1 DEF OutcomesInv, OutcomeTypes
    <3> QED
      BY <3>2, <3>3 DEF EventType, Outcome, OutcomeType, Pending
  <2>2. p \in Open \ ToSet(examining)
    BY SetOfNone DEF Open
  <2>3. Clear(bars, p, Len(bars))
    BY <2>1, <2>2 DEF OutcomesInv, OpenIsClear
  <2> QED
    BY <2>3 DEF Clear, Reached, Decisive, Elapsed, CloseTime, Lapse, Minute
<1> QED
  BY <1>1, <1>3, <1>4 DEF OutcomesSound

(* Every prediction is judged by what happened first, none is overlooked,  *)
(* and the table agrees with what was announced, for every horizon, limit, *)
(* number of predictions and order of commits, bars and examinations.      *)
THEOREM OutcomesAlwaysSound == OutcomesSpec => []OutcomesSound
<1>1. OutcomesInit => OutcomesInv
  BY OutcomesStart
<1>2. OutcomesInv /\ [OutcomesNext]_outcomeVars => OutcomesInv'
  BY OutcomesKeep
<1>3. OutcomesInv => OutcomesSound
  BY OutcomesAreSound
<1> QED
  BY <1>1, <1>2, <1>3, PTL DEF OutcomesSpec
=============================================================================
