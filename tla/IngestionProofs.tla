---------------------------- MODULE IngestionProofs ----------------------------
(***************************************************************************)
(* Proofs about TickQueue, for every capacity, threshold, K and stream,    *)
(* about the rate limit of TVWebhook, for every rate, capacity and pattern *)
(* of requests, about the bars of OHLCVAggregator, for every set of        *)
(* timeframes, every stream of ticks and any lateness, and about what the  *)
(* readers of MarketState are told of those bars.                          *)
(***************************************************************************)
EXTENDS TickQueue, TVWebhook, MarketState, SequenceTheorems, FiniteSetTheorems, TLAPS

(* The larger of two integers.                                             *)
LEMMA MaxOfTwo ==
  ASSUME NEW a \in Int, NEW b \in Int
  PROVE  /\ Max({a, b}) \in {a, b}
         /\ Max({a, b}) >= a /\ Max({a, b}) >= b
<1>1. \E x \in {a, b} : \A y \in {a, b} : x >= y
  <2>1. CASE a >= b
    BY <2>1
  <2>2. CASE b >= a
    BY <2>2
  <2> QED
    BY <2>1, <2>2
<1>2. /\ Max({a, b}) \in {a, b}
      /\ \A y \in {a, b} : Max({a, b}) >= y
  BY <1>1, Zenon DEF Max
<1> QED
  BY <1>2

(* A quotient of x * m by r is at most m when x is below r.                *)
LEMMA ScaleBound ==
  ASSUME NEW x \in Nat, NEW m \in Nat, NEW r \in Nat \ {0}, x <= r
  PROVE  (x * m) \div r \in 0..m
<1>1. x * m \in Nat
  OBVIOUS
<1>2. x * m <= r * m
  OBVIOUS
<1> DEFINE q == (x * m) \div r
<1>3. q \in Int /\ r * q <= x * m /\ x * m < r * q + r
  BY <1>1
<1>4. r * q <= r * m /\ 0 < r * (q + 1)
  BY <1>1, <1>2, <1>3
<1> HIDE DEF q
<1>5. q <= m
  BY <1>3, <1>4
<1>6. q >= 0
  BY <1>3, <1>4
<1> QED
  BY <1>3, <1>5, <1>6 DEF q

(* K always lies between 1 and max_k.                                      *)
LEMMA KRange ==
  ASSUME NEW d \in Nat
  PROVE  KForDepth(d) \in 1..MaxK
<1>1. CASE d >= MaxSize
  BY <1>1, QueueAssumption DEF KForDepth
<1>2. CASE d < MaxSize /\ d >= Threshold
  <2> DEFINE r == Max({MaxSize - Threshold, 1})
             q == ((d - Threshold) * (MaxK - 1)) \div r
  <2>1. r \in Nat \ {0} /\ d - Threshold <= r /\ d - Threshold \in Nat
        /\ MaxK - 1 \in Nat
    <3>1. MaxSize - Threshold \in Int /\ 1 \in Int
      BY QueueAssumption
    <3>2. r \in {MaxSize - Threshold, 1} /\ r >= MaxSize - Threshold /\ r >= 1
      BY <3>1, MaxOfTwo
    <3> HIDE DEF r
    <3> QED
      BY <1>2, <3>1, <3>2, QueueAssumption
  <2>2. KForDepth(d) = Max({1, 1 + q})
    BY <1>2, QueueAssumption DEF KForDepth
  <2> HIDE DEF r
  <2>3. q \in 0..(MaxK - 1)
    BY <2>1, ScaleBound
  <2> HIDE DEF q
  <2>4. Max({1, 1 + q}) \in {1, 1 + q}
    <3>1. 1 \in Int /\ 1 + q \in Int
      BY <2>3, QueueAssumption
    <3> QED
      BY <3>1, MaxOfTwo
  <2> QED
    BY <2>2, <2>3, <2>4, QueueAssumption
<1>3. CASE d < Threshold /\ d < MaxSize
  BY <1>3, QueueAssumption DEF KForDepth
<1> QED
  BY <1>1, <1>2, <1>3, QueueAssumption

-----------------------------------------------------------------------------
(* The queue is a window of consecutive sequence numbers that ends at the  *)
(* newest tick; everything older has been delivered or lost, not both.     *)
(* This is inductive, where TicksAccounted and NothingVanishes alone are   *)
(* not: what Tail removes must be known to be next in the stream.          *)
WindowInv ==
  /\ TypeOK
  /\ sequence = totalEnqueued
  /\ TicksAccounted
  /\ Len(queue) <= sequence
  /\ QueueIsWindow
  /\ delivered \cap lost = {}
  /\ delivered \cup lost = 0..(sequence - Len(queue) - 1)

(* A nonempty window begins with the tick after those already gone, and    *)
(* its tail is the window that begins one later.                           *)
LEMMA WindowHead ==
  ASSUME WindowInv, queue # <<>>
  PROVE  /\ Len(queue) \in Nat \ {0}
         /\ Head(queue) = sequence - Len(queue)
         /\ Tail(queue) \in Seq(Nat) /\ Len(Tail(queue)) = Len(queue) - 1
         /\ \A i \in 1..Len(Tail(queue)) : Tail(queue)[i] = queue[i + 1]
<1>1. queue \in Seq(Nat)
  BY DEF WindowInv, TypeOK
<1>2. Len(queue) \in Nat \ {0} /\ Head(queue) = queue[1]
  BY <1>1, EmptySeq
<1>3. Head(queue) = sequence - Len(queue)
  BY <1>2 DEF WindowInv, QueueIsWindow, TypeOK
<1> QED
  BY <1>1, <1>2, <1>3, HeadTailProperties

(* The ticks of the window.                                                *)
LEMMA WindowSet ==
  ASSUME WindowInv
  PROVE  ToSet(queue) = (sequence - Len(queue))..(sequence - 1)
<1>1. queue \in Seq(Nat) /\ sequence \in Nat /\ Len(queue) \in Nat
  BY DEF WindowInv, TypeOK
<1>2. \A i \in 1..Len(queue) : queue[i] = sequence - Len(queue) + i - 1
  BY DEF WindowInv, QueueIsWindow
<1>3. ASSUME NEW x \in (sequence - Len(queue))..(sequence - 1)
      PROVE  x \in ToSet(queue)
  <2>1. x - (sequence - Len(queue)) + 1 \in 1..Len(queue)
    BY <1>1
  <2>2. queue[x - (sequence - Len(queue)) + 1] = x
    BY <1>1, <1>2, <2>1
  <2> QED
    BY <1>1, <2>1, <2>2 DEF ToSet
<1>4. ASSUME NEW x \in ToSet(queue)
      PROVE  x \in (sequence - Len(queue))..(sequence - 1)
  <2>1. PICK i \in 1..Len(queue) : x = queue[i]
    BY <1>1 DEF ToSet
  <2> QED
    BY <1>1, <1>2, <2>1
<1> QED
  BY <1>3, <1>4

(* Enqueueing moves the window on by one, and by one at the old end too    *)
(* when the queue is full.                                                 *)
LEMMA EnqueueWindow == WindowInv /\ Enqueue => WindowInv'
<1> SUFFICES ASSUME WindowInv, Enqueue PROVE WindowInv'
  OBVIOUS
<1> DEFINE full == Len(queue) >= MaxSize
           kept == IF full THEN Tail(queue) ELSE queue
<1>0. /\ queue \in Seq(Nat) /\ sequence \in Nat /\ Len(queue) \in Nat
      /\ totalEnqueued \in Nat /\ totalDequeued \in Nat /\ totalSampled \in Nat
      /\ sequence = totalEnqueued /\ Len(queue) <= sequence
      /\ Len(queue) <= MaxSize /\ MaxSize \in Nat \ {0}
      /\ totalEnqueued = totalDequeued + totalSampled + Len(queue)
      /\ \A i \in 1..Len(queue) : queue[i] = sequence - Len(queue) + i - 1
  BY QueueAssumption DEF WindowInv, TypeOK, TicksAccounted, QueueIsWindow
<1>1. /\ queue' = Append(kept, sequence)
      /\ sequence' = sequence + 1 /\ totalEnqueued' = totalEnqueued + 1
      /\ totalSampled' = totalSampled + (IF full THEN 1 ELSE 0)
      /\ lost' = IF full THEN lost \cup {Head(queue)} ELSE lost
      /\ UNCHANGED <<totalDequeued, delivered>>
  BY DEF Enqueue
<1>2. full => queue # <<>>
  BY <1>0, EmptySeq
<1>3. /\ kept \in Seq(Nat)
      /\ Len(kept) = Len(queue) - (IF full THEN 1 ELSE 0)
      /\ \A i \in 1..Len(kept) : kept[i] = sequence - Len(kept) + i - 1
  <2>1. CASE full
    BY <1>0, <1>2, <2>1, WindowHead
  <2>2. CASE ~full
    BY <1>0, <2>2
  <2> QED
    BY <2>1, <2>2
<1>4. full => Head(queue) = sequence - Len(queue)
  BY <1>2, WindowHead
<1> HIDE DEF kept
<1>5. /\ queue' \in Seq(Nat) /\ Len(queue') = Len(kept) + 1
      /\ \A i \in 1..Len(kept) : queue'[i] = kept[i]
      /\ queue'[Len(kept) + 1] = sequence
  <2>1. kept \in Seq(Nat) /\ sequence \in Nat /\ queue' = Append(kept, sequence)
    BY <1>0, <1>1, <1>3
  <2> QED
    BY <2>1, AppendProperties
<1>6. QueueIsWindow'
  <2> SUFFICES ASSUME NEW i \in 1..Len(queue')
               PROVE  queue'[i] = sequence' - Len(queue') + i - 1
    BY DEF QueueIsWindow
  <2>0. Len(kept) \in Nat /\ sequence' = sequence + 1 /\ Len(queue') = Len(kept) + 1
    BY <1>1, <1>3, <1>5
  <2>1. CASE i \in 1..Len(kept)
    BY <1>0, <1>3, <1>5, <2>0, <2>1
  <2>2. CASE i = Len(kept) + 1
    BY <1>0, <1>5, <2>0, <2>2
  <2> QED
    BY <2>0, <2>1, <2>2
<1>7. TicksAccounted' /\ sequence' = totalEnqueued' /\ Len(queue') <= sequence'
  <2>1. CASE full
    BY <1>0, <1>1, <1>3, <1>5, <2>1 DEF TicksAccounted
  <2>2. CASE ~full
    BY <1>0, <1>1, <1>3, <1>5, <2>2 DEF TicksAccounted
  <2> QED
    BY <2>1, <2>2
<1>8. /\ (delivered \cap lost)' = {}
      /\ (delivered \cup lost)' = 0..(sequence' - Len(queue') - 1)
  <2>1. delivered \cap lost = {} /\ delivered \cup lost = 0..(sequence - Len(queue) - 1)
    BY DEF WindowInv
  <2>2. CASE full
    <3>1. lost' = lost \cup {sequence - Len(queue)} /\ delivered' = delivered
      BY <1>1, <1>4, <2>2
    <3>2. /\ sequence' = sequence + 1 /\ Len(queue') = Len(queue)
          /\ sequence - Len(queue) \in Nat /\ Len(queue) \in Nat
      BY <1>0, <1>1, <1>3, <1>5, <2>2
    <3>3. 0..(sequence - Len(queue)) =
            0..(sequence - Len(queue) - 1) \cup {sequence - Len(queue)}
      BY <3>2
    <3>4. sequence' - Len(queue') - 1 = sequence - Len(queue)
      BY <1>0, <3>2
    <3> QED
      BY <1>0, <2>1, <3>1, <3>2, <3>3, <3>4
  <2>3. CASE ~full
    BY <1>0, <1>1, <1>3, <1>5, <2>1, <2>3
  <2> QED
    BY <2>2, <2>3
<1>9. TypeOK'
  <2>1. lost' \subseteq Nat /\ delivered' \subseteq Nat
    BY <1>0, <1>1, <1>2, <1>4 DEF WindowInv, TypeOK
  <2>2. currentK' \in 1..MaxK /\ isOverflow' \in BOOLEAN
    <3>1. CASE DynamicK /\ totalEnqueued' % KPeriod = 0
      <4>1. Len(queue') \in Nat
        BY <1>5
      <4>2. currentK' = KForDepth(Len(queue')) /\ isOverflow' = OverflowAtDepth(Len(queue'))
        BY <3>1 DEF Enqueue
      <4> QED
        BY <4>1, <4>2, KRange DEF OverflowAtDepth
    <3>2. CASE ~(DynamicK /\ totalEnqueued' % KPeriod = 0)
      BY <3>2 DEF Enqueue, mode, WindowInv, TypeOK
    <3> QED
      BY <3>1, <3>2
  <2> QED
    BY <1>0, <1>1, <1>5, <2>1, <2>2 DEF TypeOK
<1> QED
  BY <1>6, <1>7, <1>8, <1>9 DEF WindowInv

(* Dequeueing moves the old end on by one, into one history or the other.  *)
LEMMA DequeueWindow == WindowInv /\ Dequeue => WindowInv'
<1> SUFFICES ASSUME WindowInv, Dequeue PROVE WindowInv'
  OBVIOUS
<1>0. /\ queue \in Seq(Nat) /\ sequence \in Nat /\ Len(queue) \in Nat \ {0}
      /\ totalEnqueued \in Nat /\ totalDequeued \in Nat /\ totalSampled \in Nat
      /\ sequence = totalEnqueued /\ Len(queue) <= sequence /\ Len(queue) <= MaxSize
      /\ MaxSize \in Nat
      /\ totalEnqueued = totalDequeued + totalSampled + Len(queue)
      /\ \A i \in 1..Len(queue) : queue[i] = sequence - Len(queue) + i - 1
  BY QueueAssumption, EmptySeq
  DEF Dequeue, WindowInv, TypeOK, TicksAccounted, QueueIsWindow
<1>1. /\ queue' = Tail(queue) /\ sequence' = sequence
      /\ totalEnqueued' = totalEnqueued /\ UNCHANGED mode
      /\ \/ /\ totalDequeued' = totalDequeued + 1 /\ totalSampled' = totalSampled
            /\ delivered' = delivered \cup {Head(queue)} /\ lost' = lost
         \/ /\ totalDequeued' = totalDequeued /\ totalSampled' = totalSampled + 1
            /\ delivered' = delivered /\ lost' = lost \cup {Head(queue)}
  BY DEF Dequeue
<1>2. /\ Head(queue) = sequence - Len(queue)
      /\ queue' \in Seq(Nat) /\ Len(queue') = Len(queue) - 1
      /\ \A i \in 1..Len(queue') : queue'[i] = queue[i + 1]
  BY <1>1, WindowHead DEF Dequeue
<1>3. QueueIsWindow'
  BY <1>0, <1>1, <1>2 DEF QueueIsWindow
<1>4. TicksAccounted' /\ sequence' = totalEnqueued' /\ Len(queue') <= sequence'
  BY <1>0, <1>1, <1>2 DEF TicksAccounted
<1>5. delivered \cap lost = {} /\ delivered \cup lost = 0..(sequence - Len(queue) - 1)
  BY DEF WindowInv
<1>6. /\ (delivered \cap lost)' = {}
      /\ (delivered \cup lost)' = 0..(sequence' - Len(queue') - 1)
  <2> DEFINE oldest == sequence - Len(queue)
  <2>1. oldest \in Nat /\ sequence' - Len(queue') - 1 = oldest
    BY <1>0, <1>1, <1>2
  <2>2. \/ delivered' = delivered \cup {oldest} /\ lost' = lost
        \/ delivered' = delivered /\ lost' = lost \cup {oldest}
    BY <1>1, <1>2
  <2> HIDE DEF oldest
  <2>3. delivered \cap lost = {} /\ delivered \cup lost = 0..(oldest - 1)
    BY <1>5 DEF oldest
  <2>4. 0..oldest = 0..(oldest - 1) \cup {oldest} /\ oldest \notin 0..(oldest - 1)
    BY <2>1
  <2> QED
    BY <2>1, <2>2, <2>3, <2>4
<1>7. TypeOK'
  <2>1. Head(queue) \in Nat /\ delivered \subseteq Nat /\ lost \subseteq Nat
    BY <1>0, <1>2 DEF WindowInv, TypeOK
  <2>2. delivered' \subseteq Nat /\ lost' \subseteq Nat
    BY <1>1, <2>1
  <2>3. totalDequeued' \in Nat /\ totalSampled' \in Nat
    BY <1>0, <1>1
  <2>4. isOverflow' \in BOOLEAN /\ currentK' \in 1..MaxK
    BY <1>1 DEF mode, WindowInv, TypeOK
  <2> QED
    BY <1>0, <1>1, <1>2, <2>2, <2>3, <2>4 DEF TypeOK
<1> QED
  BY <1>3, <1>4, <1>6, <1>7 DEF WindowInv

(* dequeue_all and flush empty the window: each of its ticks is put into   *)
(* one history or the other.                                               *)
LEMMA EmptyingWindow ==
  ASSUME WindowInv, NEW out \in SUBSET ToSet(queue),
         queue' = <<>>, sequence' = sequence, totalEnqueued' = totalEnqueued,
         UNCHANGED mode,
         totalDequeued' \in Nat, totalSampled' \in Nat,
         totalDequeued' + totalSampled' = totalDequeued + totalSampled + Len(queue),
         delivered' = delivered \cup out,
         lost' = lost \cup (ToSet(queue) \ out)
  PROVE  WindowInv'
<1>0. /\ queue \in Seq(Nat) /\ sequence \in Nat /\ Len(queue) \in Nat
      /\ totalEnqueued \in Nat /\ totalDequeued \in Nat /\ totalSampled \in Nat
      /\ sequence = totalEnqueued /\ Len(queue) <= sequence
      /\ MaxSize \in Nat
      /\ totalEnqueued = totalDequeued + totalSampled + Len(queue)
  BY QueueAssumption DEF WindowInv, TypeOK, TicksAccounted
<1>1. Len(queue') = 0 /\ queue' \in Seq(Nat)
  BY EmptySeq
<1>2. ToSet(queue) = (sequence - Len(queue))..(sequence - 1)
  BY WindowSet
<1>3. delivered \cap lost = {} /\ delivered \cup lost = 0..(sequence - Len(queue) - 1)
  BY DEF WindowInv
<1>4. (delivered \cup lost) \cap ToSet(queue) = {}
  BY <1>0, <1>2, <1>3
<1>5. (delivered \cap lost)' = {}
  BY <1>3, <1>4
<1>6. (delivered \cup lost)' = 0..(sequence' - Len(queue') - 1)
  BY <1>0, <1>1, <1>2, <1>3
<1>7. QueueIsWindow' /\ TicksAccounted' /\ sequence' = totalEnqueued'
      /\ Len(queue') <= sequence'
  BY <1>0, <1>1 DEF QueueIsWindow, TicksAccounted
<1>8. TypeOK'
  BY <1>0, <1>1, <1>2, <1>3, <1>6 DEF WindowInv, TypeOK, mode
<1> QED
  BY <1>5, <1>6, <1>7, <1>8 DEF WindowInv

(* A part of the window and its complement have as many ticks as the queue.*)
LEMMA SplitCount ==
  ASSUME WindowInv, NEW out \in SUBSET ToSet(queue)
  PROVE  /\ Cardinality(out) \in Nat /\ Cardinality(ToSet(queue) \ out) \in Nat
         /\ Cardinality(out) + Cardinality(ToSet(queue) \ out) = Len(queue)
<1> DEFINE lo == sequence - Len(queue)
           hi == sequence - 1
<1>1. lo \in Int /\ hi \in Int /\ Len(queue) \in Nat /\ sequence \in Nat
  BY DEF WindowInv, TypeOK
<1>2. ToSet(queue) = lo..hi
  BY WindowSet
<1>3. hi - lo + 1 = Len(queue)
  BY <1>1
<1> HIDE DEF lo, hi
<1>4. IsFiniteSet(lo..hi) /\ Cardinality(lo..hi) = IF lo > hi THEN 0 ELSE hi - lo + 1
  BY <1>1, FS_Interval
<1>5. Cardinality(ToSet(queue)) = Len(queue) /\ IsFiniteSet(ToSet(queue))
  BY <1>1, <1>2, <1>3, <1>4
<1>6. Cardinality(ToSet(queue) \ out) =
        Cardinality(ToSet(queue)) - Cardinality(ToSet(queue) \cap out)
  BY <1>5, FS_Difference
<1>7. ToSet(queue) \cap out = out
  OBVIOUS
<1>8. Cardinality(out) \in Nat /\ Cardinality(ToSet(queue) \ out) \in Nat
  BY <1>5, FS_Subset, FS_CardinalityType, FS_Difference
<1>9. Cardinality(ToSet(queue) \ out) = Len(queue) - Cardinality(out)
  BY <1>5, <1>6, <1>7, Zenon
<1> QED
  BY <1>1, <1>8, <1>9, SMT

(* Every operation of the queue keeps the window.                          *)
LEMMA StepWindow == WindowInv /\ [Next]_vars => WindowInv'
<1> SUFFICES ASSUME WindowInv, [Next]_vars PROVE WindowInv'
  OBVIOUS
<1>0. totalDequeued \in Nat /\ totalSampled \in Nat /\ Len(queue) \in Nat
  BY DEF WindowInv, TypeOK
<1>1. CASE Enqueue
  BY <1>1, EnqueueWindow
<1>2. CASE Dequeue
  BY <1>2, DequeueWindow
<1>3. CASE DequeueAll
  <2>1. PICK out \in SUBSET ToSet(queue) :
          /\ delivered' = delivered \cup out
          /\ lost' = lost \cup (ToSet(queue) \ out)
          /\ totalDequeued' = totalDequeued + Cardinality(out)
          /\ totalSampled' = totalSampled + Cardinality(ToSet(queue) \ out)
    BY <1>3 DEF DequeueAll
  <2>2. /\ totalDequeued' \in Nat /\ totalSampled' \in Nat
        /\ totalDequeued' + totalSampled' = totalDequeued + totalSampled + Len(queue)
    <3> DEFINE came == Cardinality(out)
               off == Cardinality(ToSet(queue) \ out)
    <3>1. came \in Nat /\ off \in Nat /\ came + off = Len(queue)
      BY SplitCount
    <3>2. totalDequeued' = totalDequeued + came /\ totalSampled' = totalSampled + off
      BY <2>1
    <3> HIDE DEF came, off
    <3> QED
      BY <1>0, <3>1, <3>2
  <2>3. queue' = <<>> /\ sequence' = sequence /\ totalEnqueued' = totalEnqueued
        /\ UNCHANGED mode
    BY <1>3 DEF DequeueAll
  <2> QED
    BY <2>1, <2>2, <2>3, EmptyingWindow
<1>4. CASE Flush
  <2>1. /\ queue' = <<>> /\ sequence' = sequence /\ totalEnqueued' = totalEnqueued
        /\ UNCHANGED mode
        /\ totalDequeued' = totalDequeued + Len(queue)
        /\ totalSampled' = totalSampled
        /\ delivered' = delivered \cup ToSet(queue)
        /\ lost' = lost \cup (ToSet(queue) \ ToSet(queue))
    BY <1>4 DEF Flush
  <2>2. totalDequeued' \in Nat /\ totalSampled' \in Nat
        /\ totalDequeued' + totalSampled' = totalDequeued + totalSampled + Len(queue)
    BY <1>0, <2>1
  <2>3. ToSet(queue) \in SUBSET ToSet(queue)
    OBVIOUS
  <2> QED
    BY <2>1, <2>2, <2>3, EmptyingWindow
<1>5. CASE UNCHANGED vars
  BY <1>5 DEF vars, counters, mode, WindowInv, TypeOK, TicksAccounted, QueueIsWindow
<1> QED
  BY <1>1, <1>2, <1>3, <1>4, <1>5 DEF Next

(* The empty queue is an empty window.                                     *)
LEMMA InitWindow == Init => WindowInv
<1> SUFFICES ASSUME Init PROVE WindowInv
  OBVIOUS
<1>1. queue \in Seq(Nat) /\ Len(queue) = 0
  BY EmptySeq DEF Init
<1>2. delivered \cap lost = {} /\ delivered \cup lost = 0..(sequence - Len(queue) - 1)
  BY <1>1 DEF Init
<1>3. TypeOK
  <2>1. currentK \in 1..MaxK
    BY QueueAssumption DEF Init
  <2>2. isOverflow \in BOOLEAN /\ delivered \subseteq Nat /\ lost \subseteq Nat
    BY DEF Init
  <2>3. sequence \in Nat /\ totalEnqueued \in Nat /\ totalDequeued \in Nat
        /\ totalSampled \in Nat
    BY DEF Init
  <2> QED
    BY <1>1, <2>1, <2>2, <2>3 DEF TypeOK
<1>4. TicksAccounted /\ QueueIsWindow /\ sequence = totalEnqueued /\ Len(queue) <= sequence
  BY <1>1, QueueAssumption DEF Init, TicksAccounted, QueueIsWindow
<1> QED
  BY <1>2, <1>3, <1>4 DEF WindowInv

(* The window holds in every reachable state.                              *)
THEOREM WindowCorrect == Spec => []WindowInv
BY InitWindow, StepWindow, PTL DEF Spec

(* Types are kept, K stays in 1..max_k.                                    *)
THEOREM TypeCorrect == Spec => []TypeOK
<1>1. WindowInv => TypeOK
  BY DEF WindowInv
<1> QED
  BY <1>1, WindowCorrect, PTL

(* No tick is uncounted, and the queue stays within its capacity.          *)
THEOREM AccountingCorrect == Spec => []TicksAccounted
<1>1. WindowInv => TicksAccounted
  BY DEF WindowInv
<1> QED
  BY <1>1, WindowCorrect, PTL

(* The queue is always the newest part of the stream.                      *)
THEOREM WindowIsNewest == Spec => []QueueIsWindow
<1>1. WindowInv => QueueIsWindow
  BY DEF WindowInv
<1> QED
  BY <1>1, WindowCorrect, PTL

(* Every tick is in the queue or in exactly one of the histories.          *)
THEOREM NothingVanishesCorrect == Spec => []NothingVanishes
<1>1. ASSUME WindowInv PROVE NothingVanishes
  <2>1. /\ sequence \in Nat /\ Len(queue) \in Nat /\ Len(queue) <= sequence
        /\ delivered \cup lost = 0..(sequence - Len(queue) - 1)
        /\ delivered \cap lost = {}
    BY <1>1 DEF WindowInv, TypeOK
  <2>2. ToSet(queue) = (sequence - Len(queue))..(sequence - 1)
    BY <1>1, WindowSet
  <2> QED
    BY <2>1, <2>2 DEF NothingVanishes
<1> QED
  BY <1>1, WindowCorrect, PTL

(* The consumer sees ticks in order of arrival, none twice.                *)
THEOREM OrderCorrect == Spec => DeliveredInOrder
<1>1. ASSUME WindowInv, [Next]_vars
      PROVE  [\A new \in delivered' \ delivered, old \in delivered : old < new]_vars
  <2>1. delivered' \ delivered \subseteq ToSet(queue)
    <3>1. CASE Dequeue
      <4>1. queue \in Seq(Nat) /\ queue # <<>> /\ Len(queue) \in Nat \ {0}
        BY <1>1, <3>1, EmptySeq DEF WindowInv, TypeOK, Dequeue
      <4>2. Head(queue) = queue[1]
        BY <4>1
      <4>3. Head(queue) \in ToSet(queue)
        BY <4>1, <4>2 DEF ToSet
      <4> QED
        BY <3>1, <4>3 DEF Dequeue
    <3>2. CASE DequeueAll
      BY <3>2 DEF DequeueAll
    <3>3. CASE Flush
      BY <3>3 DEF Flush
    <3>4. CASE Enqueue \/ UNCHANGED vars
      BY <3>4 DEF Enqueue, vars
    <3> QED
      BY <1>1, <3>1, <3>2, <3>3, <3>4 DEF Next
  <2>2. ToSet(queue) = (sequence - Len(queue))..(sequence - 1)
    BY <1>1, WindowSet
  <2>3. delivered \subseteq 0..(sequence - Len(queue) - 1)
        /\ sequence \in Nat /\ Len(queue) \in Nat
    BY <1>1 DEF WindowInv, TypeOK
  <2> QED
    BY <2>1, <2>2, <2>3
<1> QED
  BY <1>1, WindowCorrect, PTL DEF Spec, DeliveredInOrder

-----------------------------------------------------------------------------
(* The rate limit of the webhook.  RateIsBounded is not inductive: it says *)
(* nothing of the tokens that are left.  Paid does: what was admitted      *)
(* since any admission and what is left are together no more than the      *)
(* bucket and its inflow.                                                  *)
Paid ==
  \A i \in 1..Len(admitted) :
    Token * (Len(admitted) - i + 1) + tokens
      <= Capacity + Rate * (lastUpdate - admitted[i])

LimiterTypes ==
  /\ tokens \in Nat /\ tokens <= Capacity
  /\ clock \in Nat /\ lastUpdate \in Nat /\ lastUpdate <= clock
  /\ admitted \in Seq(Nat)
  /\ \A i \in 1..Len(admitted) : admitted[i] <= lastUpdate

LimiterInv == LimiterTypes /\ Paid /\ RateIsBounded

(* What flows in over two stretches of time flows in over both together.   *)
LEMMA Inflow ==
  ASSUME NEW a \in Int, NEW b \in Int, NEW c \in Int
  PROVE  Rate * (c - a) = Rate * (b - a) + Rate * (c - b)
  BY WebhookAssumption, Z3

(* One more admission costs one more token.                                *)
LEMMA OneMore ==
  ASSUME NEW n \in Int
  PROVE  Token * (n + 1) = Token * n + Token
  BY WebhookAssumption, Z3

(* The budget carried over a refill from t to f tokens.                    *)
LEMMA Carried ==
  ASSUME NEW p \in Int, NEW t \in Int, NEW f \in Int, NEW r1 \in Int, NEW r2 \in Int,
         p + t <= Capacity + r1, f <= t + r2
  PROVE  p + f <= Capacity + (r1 + r2)
  BY WebhookAssumption

(* Refilling at a time no earlier than the last gives a bucket that is no  *)
(* fuller than allowed and gained no more than the inflow.                 *)
LEMMA RefillIsBounded ==
  ASSUME LimiterTypes
  PROVE  /\ Refilled \in Nat /\ Refilled <= Capacity
         /\ Refilled <= tokens + Rate * (clock - lastUpdate)
<1>1. Rate * (clock - lastUpdate) \in Nat
  <2>1. clock - lastUpdate \in Nat /\ Rate \in Nat
    BY WebhookAssumption DEF LimiterTypes
  <2>2. ASSUME NEW m \in Nat, NEW n \in Nat PROVE m * n \in Nat
    BY Z3
  <2>. QED BY <2>1, <2>2
<1>. QED BY <1>1, WebhookAssumption DEF Refilled, LimiterTypes

LEMMA LimiterInit == WebhookInit => LimiterInv
  BY WebhookAssumption
  DEF WebhookInit, LimiterInv, LimiterTypes, Paid, RateIsBounded

(* An admission at the present time.                                       *)
LEMMA AdmitKeeps == LimiterInv /\ Admit => LimiterInv'
<1>. SUFFICES ASSUME LimiterInv, Admit PROVE LimiterInv'
  OBVIOUS
<1>. USE WebhookAssumption
<1>. DEFINE n == Len(admitted)
<1>t. LimiterTypes /\ Paid /\ RateIsBounded
  BY DEF LimiterInv
<1>r. /\ Refilled \in Nat /\ Refilled <= Capacity
      /\ Refilled <= tokens + Rate * (clock - lastUpdate)
  BY <1>t, RefillIsBounded
<1>a. /\ tokens' = Refilled - Token /\ lastUpdate' = clock /\ clock' = clock
      /\ Refilled >= Token
      /\ admitted' = Append(admitted, clock)
  BY DEF Admit
<1>l. /\ n \in Nat /\ Len(admitted') = n + 1 /\ admitted'[n + 1] = clock
      /\ \A i \in 1..n : admitted'[i] = admitted[i]
  BY <1>a, <1>t DEF LimiterTypes
<1>1. LimiterTypes'
  <2>1. tokens' \in Nat /\ tokens' <= Capacity
    BY <1>a, <1>r
  <2>2. admitted' \in Seq(Nat)
    BY <1>a, <1>t DEF LimiterTypes
  <2>3. ASSUME NEW i \in 1..Len(admitted') PROVE admitted'[i] <= lastUpdate'
    <3>1. CASE i = n + 1
      BY <3>1, <1>l, <1>a, <1>t DEF LimiterTypes
    <3>2. CASE i \in 1..n
      BY <3>2, <1>l, <1>a, <1>t DEF LimiterTypes
    <3>. QED BY <3>1, <3>2, <1>l
  <2>. QED BY <2>1, <2>2, <2>3, <1>a, <1>t DEF LimiterTypes
<1>2. Paid'
  <2>. SUFFICES ASSUME NEW i \in 1..(n + 1)
                PROVE  Token * (n + 1 - i + 1) + tokens'
                         <= Capacity + Rate * (clock - admitted'[i])
    BY <1>l, <1>a DEF Paid
  <2>1. CASE i = n + 1
    <3>1. Token * (n + 1 - i + 1) = Token
      BY <2>1, <1>l, n + 1 - i + 1 = 1
    <3>2. Rate * (clock - admitted'[i]) = 0
      BY <2>1, <1>l, <1>t, clock - admitted'[i] = 0 DEF LimiterTypes
    <3>. QED BY <3>1, <3>2, <1>a, <1>r
  <2>2. CASE i \in 1..n
    <3>1. Token * (n - i + 1) + tokens <= Capacity + Rate * (lastUpdate - admitted[i])
      BY <2>2, <1>t DEF Paid
    <3>2. /\ admitted[i] \in Int /\ lastUpdate \in Int /\ clock \in Int
          /\ tokens \in Int
      BY <2>2, <1>t DEF LimiterTypes
    <3>3. Rate * (clock - admitted[i])
            = Rate * (lastUpdate - admitted[i]) + Rate * (clock - lastUpdate)
      BY <3>2, Inflow
    <3>4. Token * ((n - i + 1) + 1) = Token * (n - i + 1) + Token
      BY <1>l, <2>2, OneMore
    <3>5. (n - i + 1) + 1 = n + 1 - i + 1
      BY <1>l, <2>2
    <3>6. /\ Token * (n - i + 1) \in Int
          /\ Rate * (lastUpdate - admitted[i]) \in Int
          /\ Rate * (clock - lastUpdate) \in Int
      BY <3>2, <1>l, <2>2
    <3>7. Token * (n + 1 - i + 1) = Token * (n - i + 1) + Token
      BY <3>4, <3>5
    <3>8. admitted'[i] = admitted[i]
      BY <2>2, <1>l
    <3>. DEFINE p == Token * (n - i + 1)
                r1 == Rate * (lastUpdate - admitted[i])
                r2 == Rate * (clock - lastUpdate)
    <3>a. /\ p \in Int /\ r1 \in Int /\ r2 \in Int
          /\ p + tokens <= Capacity + r1 /\ Refilled <= tokens + r2
      BY <3>1, <3>6, <1>r
    <3>b. p + Refilled <= Capacity + (r1 + r2)
      <4>. HIDE DEF p, r1, r2
      <4>. QED BY <3>a, <3>2, <1>r, Carried
    <3>9. Token * (n - i + 1) + Refilled <= Capacity + Rate * (clock - admitted[i])
      BY ONLY <3>b, <3>3
    <3>10. \A x, y, z \in Int : (x + z) + (y - z) = x + y
      OBVIOUS
    <3>11. Token * (n + 1 - i + 1) + tokens' = Token * (n - i + 1) + Refilled
      BY <3>6, <3>7, <3>10, <1>a, <1>r
    <3>. QED BY <3>8, <3>9, <3>11
  <2>. QED BY <2>1, <2>2, <1>l
<1>3. RateIsBounded'
  <2>. SUFFICES ASSUME NEW i \in 1..(n + 1), NEW j \in i..(n + 1)
                PROVE  Token * (j - i + 1)
                         <= Capacity + Rate * (admitted'[j] - admitted'[i])
    BY <1>l DEF RateIsBounded
  <2>1. CASE j = n + 1
    <3>1. Token * (n + 1 - i + 1) + tokens'
            <= Capacity + Rate * (clock - admitted'[i])
      BY <1>2, <1>l, <1>a DEF Paid
    <3>2. tokens' \in Nat
      BY <1>1 DEF LimiterTypes
    <3>3. /\ Token * (n + 1 - i + 1) \in Int
          /\ Rate * (clock - admitted'[i]) \in Int
      BY <1>1, <1>l, <1>t DEF LimiterTypes
    <3>. QED BY <2>1, <3>1, <3>2, <3>3, <1>l
  <2>2. CASE j \in 1..n
    <3>1. i \in 1..n /\ j \in i..n
      BY <2>2, <1>l
    <3>. QED BY <3>1, <1>t, <1>l DEF RateIsBounded
  <2>. QED BY <2>1, <2>2, <1>l
<1>. QED BY <1>1, <1>2, <1>3 DEF LimiterInv

(* A rejection refills and takes nothing.                                  *)
LEMMA RejectKeeps == LimiterInv /\ Reject => LimiterInv'
<1>. SUFFICES ASSUME LimiterInv, Reject PROVE LimiterInv'
  OBVIOUS
<1>. USE WebhookAssumption
<1>t. LimiterTypes /\ Paid /\ RateIsBounded
  BY DEF LimiterInv
<1>r. /\ Refilled \in Nat /\ Refilled <= Capacity
      /\ Refilled <= tokens + Rate * (clock - lastUpdate)
  BY <1>t, RefillIsBounded
<1>a. /\ tokens' = Refilled /\ lastUpdate' = clock /\ clock' = clock
      /\ admitted' = admitted
  BY DEF Reject
<1>1. LimiterTypes'
  <2>1. ASSUME NEW i \in 1..Len(admitted) PROVE admitted[i] <= clock
    BY <1>t DEF LimiterTypes
  <2>. QED BY <2>1, <1>a, <1>r, <1>t DEF LimiterTypes
<1>2. Paid'
  <2>. SUFFICES ASSUME NEW i \in 1..Len(admitted)
                PROVE  Token * (Len(admitted) - i + 1) + Refilled
                         <= Capacity + Rate * (clock - admitted[i])
    BY <1>a DEF Paid
  <2>1. Token * (Len(admitted) - i + 1) + tokens
          <= Capacity + Rate * (lastUpdate - admitted[i])
    BY <1>t DEF Paid
  <2>2. /\ admitted[i] \in Int /\ lastUpdate \in Int /\ clock \in Int
        /\ tokens \in Int /\ Len(admitted) \in Int
    BY <1>t DEF LimiterTypes
  <2>3. Rate * (clock - admitted[i])
          = Rate * (lastUpdate - admitted[i]) + Rate * (clock - lastUpdate)
    BY <2>2, Inflow
  <2>. DEFINE p == Token * (Len(admitted) - i + 1)
              r1 == Rate * (lastUpdate - admitted[i])
              r2 == Rate * (clock - lastUpdate)
  <2>4. /\ p \in Int /\ r1 \in Int /\ r2 \in Int
        /\ p + tokens <= Capacity + r1 /\ Refilled <= tokens + r2
    BY <2>1, <2>2, <1>r
  <2>5. p + Refilled <= Capacity + (r1 + r2)
    <3>. HIDE DEF p, r1, r2
    <3>. QED BY <2>4, <2>2, <1>r, Carried
  <2>. QED BY ONLY <2>5, <2>3
<1>3. RateIsBounded'
  BY <1>a, <1>t DEF RateIsBounded
<1>. QED BY <1>1, <1>2, <1>3 DEF LimiterInv

LEMMA LimiterStep == LimiterInv /\ [WebhookNext]_webhookVars => LimiterInv'
<1>. SUFFICES ASSUME LimiterInv, [WebhookNext]_webhookVars PROVE LimiterInv'
  OBVIOUS
<1>1. CASE Admit
  BY <1>1, AdmitKeeps
<1>2. CASE Reject
  BY <1>2, RejectKeeps
<1>3. ASSUME NEW body \in Bodies, Answer(body) PROVE LimiterInv'
  BY <1>3 DEF Answer, LimiterInv, LimiterTypes, Paid, RateIsBounded
<1>4. CASE Tick
  BY <1>4 DEF Tick, LimiterInv, LimiterTypes, Paid, RateIsBounded
<1>5. CASE UNCHANGED webhookVars
  BY <1>5 DEF webhookVars, LimiterInv, LimiterTypes, Paid, RateIsBounded
<1>. QED BY <1>1, <1>2, <1>3, <1>4, <1>5 DEF WebhookNext

(* The webhook never admits more than a full bucket and the inflow of the  *)
(* time it took (TokenBucketRateLimiter.acquire), for every rate,          *)
(* capacity, and order and time of requests.                               *)
THEOREM RateIsBoundedAlways == WebhookSpec => []RateIsBounded
<1>1. LimiterInv => RateIsBounded
  BY DEF LimiterInv
<1>. QED BY LimiterInit, LimiterStep, <1>1, PTL DEF WebhookSpec

-----------------------------------------------------------------------------
(* The bars.  What is kept of a bucket does not depend on the other ones,  *)
(* so the proof is about one timeframe and one bucket at a time: its bars  *)
(* f, its events cl and the ticks tk, as values.                           *)
TickType == [time : Times, price : Prices]
At(tk, tf, b) == {i \in 1..Len(tk) : Bucket(tf, tk[i].time) = b}
For(cl, b) == {i \in 1..Len(cl) : cl[i].bucket = b}
Ordered(tk) == \A i, j \in 1..Len(tk) : i < j => tk[i].time <= tk[j].time
NewestOf(tk) == Max({0} \cup {tk[i].time : i \in DOMAIN tk})

Made(tk, bar, S) ==
  /\ bar.tick_count = Cardinality(S)
  /\ \E i \in S : bar.open = tk[i].price /\ \A j \in S : i <= j
  /\ \E i \in S : bar.close = tk[i].price /\ \A j \in S : j <= i
  /\ \E i \in S : bar.high = tk[i].price
  /\ \E i \in S : bar.low = tk[i].price
  /\ \A i \in S : bar.low <= tk[i].price /\ tk[i].price <= bar.high

(* A bucket is open and unannounced, or closed and announced, or it was    *)
(* announced twice and is open again; its ticks are accordingly many.      *)
Accounted(bar, cl, C, n, b, N) ==
  \/ ~bar.is_closed /\ C = {} /\ bar.tick_count = n
  \/ bar.is_closed /\ bar.tick_count = n /\ \E i \in C : C = {i} /\ cl[i].bar = bar
  \/ /\ ~bar.is_closed /\ b < N
     /\ \E i, j \in C : /\ i # j /\ C = {i, j} /\ cl[i].bar = cl[j].bar
                  /\ n = cl[i].bar.tick_count + bar.tick_count

(* N is the bucket of the newest tick: its bar is open, no later one is    *)
(* there, and while ticks come in order all the earlier ones are closed.   *)
BucketHolds(f, cl, tk, tf, N, b) ==
  /\ f[b] = NoBar => At(tk, tf, b) = {} /\ For(cl, b) = {}
  /\ b > N => f[b] = NoBar
  /\ b = N /\ tk # <<>> => f[b] # NoBar /\ ~f[b].is_closed /\ For(cl, b) = {}
  /\ f[b] # NoBar =>
       /\ At(tk, tf, b) # {}
       /\ Accounted(f[b], cl, For(cl, b), Cardinality(At(tk, tf, b)), b, N)
  /\ f[b] # NoBar /\ Ordered(tk) =>
       /\ 0 \notin Prices => Made(tk, f[b], At(tk, tf, b))
       /\ b < N => f[b].is_closed

TimeframeHolds(f, cl, tk, tf) ==
  \A b \in Times : BucketHolds(f, cl, tk, tf, Bucket(tf, NewestOf(tk)), b)

(* Newest is the largest of the ticks' times, 0 when there is none.        *)
NewestHolds(tk) ==
  /\ NewestOf(tk) = 0 \/ \E i \in 1..Len(tk) : tk[i].time = NewestOf(tk)
  /\ NewestOf(tk) \in Times /\ \A i \in 1..Len(tk) : tk[i].time <= NewestOf(tk)

BarsInv ==
  /\ BarsTypeOK /\ NewestHolds(ticks)
  /\ \A tf \in Timeframes : TimeframeHolds(bars[tf], closes[tf], ticks, tf)

(* The buckets of a timeframe follow each other.                           *)
LEMMA ProductsGrow ==
  ASSUME NEW s \in Nat, s > 0, NEW x \in Int, NEW y \in Int, x <= y
  PROVE  x * s <= y * s /\ x * s \in Int
BY Z3

LEMMA BucketStarts ==
  ASSUME NEW tf \in Timeframes, NEW t \in Nat
  PROVE  /\ Bucket(tf, t) \in Nat /\ Bucket(tf, t) <= t /\ t < Bucket(tf, t) + Seconds[tf]
         /\ Seconds[tf] \in Nat /\ Seconds[tf] > 0
<1> DEFINE s == Seconds[tf]
<1>1. s \in Nat /\ s > 0
  BY AggregatorAssumption
<1> HIDE DEF s
<1>2. /\ t \div s \in Nat /\ t % s \in Nat /\ t % s < s
      /\ t = s * (t \div s) + (t % s)
  BY <1>1, Z3
<1>3. s * (t \div s) = (t \div s) * s /\ (t \div s) * s \in Nat
  BY <1>1, <1>2, Z3
<1>4. Bucket(tf, t) = (t \div s) * s
  BY DEF Bucket, s
<1> QED
  BY <1>1, <1>2, <1>3, <1>4 DEF s

LEMMA BucketsOrdered ==
  ASSUME NEW tf \in Timeframes, NEW t \in Nat, NEW u \in Nat, t <= u
  PROVE  Bucket(tf, t) <= Bucket(tf, u)
<1> DEFINE s == Seconds[tf]
           x == t \div s
           y == u \div s
<1>1. s \in Nat /\ s > 0
  BY AggregatorAssumption
<1>2. Bucket(tf, t) = x * s /\ Bucket(tf, u) = y * s
  BY DEF Bucket
<1>3. x \in Int /\ y \in Int
  BY <1>1
<1>4. /\ x * s \in Int /\ y * s \in Int
      /\ x * s <= t /\ t < x * s + s /\ y * s <= u /\ u < y * s + s
  BY <1>2, BucketStarts
<1> HIDE DEF s, x, y
<1>5. CASE x <= y
  BY <1>1, <1>2, <1>3, <1>5, ProductsGrow
<1>6. CASE y + 1 <= x
  <2>1. (y + 1) * s <= x * s
    BY <1>1, <1>3, <1>6, ProductsGrow
  <2>2. (y + 1) * s = y * s + s
    BY <1>1, <1>3, Z3
  <2> QED
    BY <1>1, <1>4, <2>1, <2>2
<1> QED
  BY <1>3, <1>5, <1>6

(* The newest tick's time after one more tick.                             *)
LEMMA NewestGrows ==
  ASSUME NEW tk \in Seq(TickType), NewestHolds(tk), NEW r \in TickType
  PROVE  LET tk2 == Append(tk, r) IN
         /\ NewestHolds(tk2)
         /\ NewestOf(tk2) = IF r.time > NewestOf(tk) THEN r.time ELSE NewestOf(tk)
<1> DEFINE tk2 == Append(tk, r)
           S == {0} \cup {tk2[i].time : i \in DOMAIN tk2}
           m == IF r.time > NewestOf(tk) THEN r.time ELSE NewestOf(tk)
<1>1. /\ Len(tk) \in Nat /\ DOMAIN tk2 = 1..(Len(tk) + 1) /\ Len(tk2) = Len(tk) + 1
      /\ tk2[Len(tk) + 1] = r /\ \A i \in 1..Len(tk) : tk2[i] = tk[i]
      /\ r.time \in Times /\ NewestOf(tk) \in Times
  BY DEF TickType, NewestHolds
<1>2. Times \subseteq Nat
  BY AggregatorAssumption DEF Times
<1>n. r.time \in Nat /\ NewestOf(tk) \in Nat
  BY <1>1, <1>2
<1>t. \A i \in 1..Len(tk) : tk[i].time \in Nat
  <2> TAKE i \in 1..Len(tk)
  <2>1. tk[i] \in TickType
    OBVIOUS
  <2> QED
    BY <1>2, <2>1 DEF TickType
<1> HIDE DEF tk2
<1>3. m = 0 \/ \E i \in DOMAIN tk2 : tk2[i].time = m
  BY <1>1 DEF NewestHolds
<1>4. \A i \in DOMAIN tk2 : tk2[i].time <= m
  <2> TAKE i \in DOMAIN tk2
  <2>1. CASE i = Len(tk) + 1
    BY <1>1, <1>n, <2>1
  <2>2. CASE i \in 1..Len(tk)
    <3>1. tk[i].time <= NewestOf(tk) /\ tk[i].time \in Nat
      BY <1>t, <2>2 DEF NewestHolds
    <3> QED
      BY <1>1, <1>n, <2>2, <3>1
  <2> QED
    BY <1>1, <2>1, <2>2
<1>5. m \in Times /\ m \in Nat
  BY <1>1, <1>n
<1> HIDE DEF m
<1>6. m \in S /\ \A x \in S : m >= x
  BY <1>2, <1>3, <1>4, <1>5
<1>7. \A y \in S : (\A x \in S : y >= x) => y = m
  <2> SUFFICES ASSUME NEW y \in S, \A x \in S : y >= x
               PROVE  y = m
    OBVIOUS
  <2>1. y >= m /\ m >= y
    BY <1>6
  <2>2. y \in Int
    <3>1. \A i \in DOMAIN tk2 : tk2[i].time \in Nat
      BY <1>1, <1>n, <1>t
    <3> QED
      BY <3>1
  <2> QED
    BY <1>5, <2>1, <2>2
<1> HIDE DEF S
<1>8. Max(S) = m
  BY <1>6, <1>7 DEF Max
<1>9. NewestOf(tk2) = m
  BY <1>8 DEF NewestOf, S
<1> QED
  BY <1>1, <1>3, <1>4, <1>5, <1>9 DEF NewestHolds, tk2, m

(* The bucket of the newest tick is the newest bucket.                     *)
LEMMA NewestBucket ==
  ASSUME NEW tk \in Seq(TickType), NewestHolds(tk), NEW r \in TickType, NEW tf \in Timeframes
  PROVE  LET N == Bucket(tf, NewestOf(tk))
             B == Bucket(tf, r.time)
         IN /\ N \in Times /\ B \in Times
            /\ Bucket(tf, NewestOf(Append(tk, r))) = IF B > N THEN B ELSE N
            /\ tk # <<>> /\ Ordered(Append(tk, r)) => N <= B
            /\ tk = <<>> => N <= B
<1> DEFINE tk2 == Append(tk, r)
           N == Bucket(tf, NewestOf(tk))
           B == Bucket(tf, r.time)
<1>1. r.time \in Times /\ NewestOf(tk) \in Times
  BY DEF NewestHolds, TickType
<1>2. Times \subseteq Nat /\ \A x \in Nat, y \in Times : x <= y => x \in Times
  BY AggregatorAssumption DEF Times
<1>n. r.time \in Nat /\ NewestOf(tk) \in Nat
  BY <1>1, <1>2
<1>3. /\ N \in Nat /\ N <= NewestOf(tk) /\ B \in Nat /\ B <= r.time
  BY <1>1, <1>2, BucketStarts
<1>4. N \in Times /\ B \in Times
  BY <1>1, <1>2, <1>3
<1>5. NewestOf(tk2) = IF r.time > NewestOf(tk) THEN r.time ELSE NewestOf(tk)
  BY NewestGrows
<1>6. Bucket(tf, NewestOf(tk2)) = IF B > N THEN B ELSE N
  <2>1. CASE r.time > NewestOf(tk)
    <3>1. N <= B
      BY <1>n, <2>1, BucketsOrdered
    <3>2. Bucket(tf, NewestOf(tk2)) = B
      BY <1>5, <2>1
    <3> HIDE DEF N, B, tk2
    <3> QED
      BY <1>3, <3>1, <3>2
  <2>2. CASE r.time <= NewestOf(tk)
    <3>1. B <= N
      BY <1>n, <2>2, BucketsOrdered
    <3>2. Bucket(tf, NewestOf(tk2)) = N
      <4>1. ~(r.time > NewestOf(tk))
        BY <1>n, <2>2
      <4> QED
        BY <1>5, <4>1
    <3> HIDE DEF N, B, tk2
    <3> QED
      BY <1>3, <3>1, <3>2
  <2> QED
    BY <1>n, <2>1, <2>2
<1>7. ASSUME Ordered(tk2)
      PROVE  NewestOf(tk) <= r.time
  <2>1. CASE NewestOf(tk) = 0
    BY <1>n, <2>1
  <2>2. CASE \E i \in 1..Len(tk) : tk[i].time = NewestOf(tk)
    <3>1. PICK i \in 1..Len(tk) : tk[i].time = NewestOf(tk)
      BY <2>2
    <3>2. /\ i \in 1..Len(tk2) /\ Len(tk) + 1 \in 1..Len(tk2) /\ i < Len(tk) + 1
          /\ tk2[i] = tk[i] /\ tk2[Len(tk) + 1] = r
      BY <3>1
    <3> HIDE DEF tk2
    <3> QED
      BY <1>7, <3>1, <3>2 DEF Ordered
  <2> QED
    BY <2>1, <2>2 DEF NewestHolds
<1>8. ASSUME tk = <<>>
      PROVE  NewestOf(tk) <= r.time
  <2>1. NewestOf(tk) = 0
    BY <1>8 DEF NewestHolds
  <2> QED
    BY <1>n, <2>1
<1>9. NewestOf(tk) <= r.time => N <= B
  BY <1>n, BucketsOrdered
<1> HIDE DEF N, B
<1> QED
  BY <1>4, <1>6, <1>7, <1>8, <1>9 DEF N, B

(* Listing a set of at most one element.                                   *)
LEMMA ListOfNone == SetToSeq({}) = <<>>
<1>1. Cardinality({}) = 0
  BY FS_EmptySet
<1>2. \A g \in [1..0 -> {}] : g = <<>>
  OBVIOUS
<1>4. <<>> \in [1..0 -> {}]
  OBVIOUS
<1>3. IsInjective(<<>>)
  BY DEF IsInjective
<1> QED
  BY <1>1, <1>2, <1>3, <1>4 DEF SetToSeq

LEMMA ListOfOne ==
  ASSUME NEW e
  PROVE  SetToSeq({e}) = <<e>>
<1>1. Cardinality({e}) = 1
  BY FS_Singleton
<1>2. \A g \in [1..1 -> {e}] : g = <<e>>
  OBVIOUS
<1>3. <<e>> \in [1..1 -> {e}] /\ IsInjective(<<e>>)
  BY DEF IsInjective
<1> QED
  BY <1>1, <1>2, <1>3 DEF SetToSeq

(* Which bucket a tick of bucket B closes: its own, if it comes late, or   *)
(* the newest one, if it comes in a newer one.                             *)
LEMMA ClosingIs ==
  ASSUME NEW f \in [Times -> BarState \cup {NoBar}], NEW cl, NEW tk \in Seq(TickType),
         NEW tf \in Timeframes, NewestHolds(tk), TimeframeHolds(f, cl, tk, tf),
         NEW B \in Times, NEW N \in Times, N = Bucket(tf, NewestOf(tk))
  PROVE  /\ f[B] # NoBar /\ f[B].is_closed => Closing(f, B) = {B}
         /\ f[B] # NoBar /\ ~f[B].is_closed => Closing(f, B) = {}
         /\ f[B] = NoBar /\ tk # <<>> /\ B > N => Closing(f, B) = {N}
         /\ f[B] = NoBar /\ (tk = <<>> \/ B <= N) => Closing(f, B) = {}
<1>1. Times \subseteq Int
  BY AggregatorAssumption DEF Times
<1>2. \A b \in Times : BucketHolds(f, cl, tk, tf, N, b)
  BY DEF TimeframeHolds
<1>3. \A b \in Open(f) : b \in Times /\ f[b] # NoBar /\ b <= N
  <2> TAKE b \in Open(f)
  <2>1. b \in Times /\ f[b] # NoBar
    BY DEF Open
  <2>2. b \in Int /\ N \in Int
    BY <1>1, <2>1
  <2> QED
    BY <1>2, <2>1, <2>2 DEF BucketHolds
<1>4. CASE f[B] # NoBar
  BY <1>4 DEF Closing
<1>5. CASE f[B] = NoBar
  <2>1. Closing(f, B) = {x \in Open(f) : x < B /\ \A y \in Open(f) : y <= x}
    BY <1>5 DEF Closing
  <2>2. CASE tk = <<>>
    <3>1. \A b \in Times : At(tk, tf, b) = {}
      BY <2>2 DEF At
    <3>2. Open(f) = {}
      BY <1>2, <3>1 DEF BucketHolds, Open
    <3> QED
      BY <1>5, <2>1, <2>2, <3>2
  <2>3. CASE tk # <<>>
    <3>1. N \in Open(f)
      BY <1>2, <2>3 DEF BucketHolds, Open
    <3>2. \A x \in Closing(f, B) : x = N /\ N < B
      <4> TAKE x \in Closing(f, B)
      <4>1. x \in Int /\ N \in Int /\ x <= N /\ N <= x /\ x < B
        BY <1>1, <1>3, <2>1, <3>1
      <4> QED
        BY <4>1
    <3>3. CASE B > N
      <4>1. N \in Closing(f, B)
        <5>1. N < B
          BY <1>1, <3>3
        <5> QED
          BY <1>3, <2>1, <3>1, <5>1
      <4>2. ~(B <= N)
        BY <1>1, <3>3
      <4> QED
        BY <1>5, <2>3, <3>2, <4>1, <4>2
    <3>4. CASE B <= N
      <4>1. ~(N < B) /\ ~(B > N)
        BY <1>1, <3>4
      <4> QED
        BY <1>5, <3>2, <4>1
    <3>5. B > N \/ B <= N
      BY <1>1
    <3> QED
      BY <3>3, <3>4, <3>5
  <2> QED
    BY <2>2, <2>3
<1> QED
  BY <1>4, <1>5

AtMostOne(S) == S = {} \/ \E x \in Times : S = {x}

LEMMA ClosingIsOne ==
  ASSUME NEW f \in [Times -> BarState \cup {NoBar}], NEW cl, NEW tk \in Seq(TickType),
         NEW tf \in Timeframes, NewestHolds(tk), TimeframeHolds(f, cl, tk, tf),
         NEW B \in Times, NEW N \in Times, N = Bucket(tf, NewestOf(tk))
  PROVE  AtMostOne(Closing(f, B))
<1>1. B \in Int /\ N \in Int
  BY AggregatorAssumption DEF Times
<1>2. B > N \/ B <= N
  BY <1>1
<1> QED
  BY <1>2, ClosingIs DEF AtMostOne

(* S2 is S and x, which is not in it.                                      *)
Grown(S, S2, x) == x \notin S /\ S2 = S \cup {x}

(* A tick adds its place to its bucket's ticks and to no other.            *)
LEMMA AtGrows ==
  ASSUME NEW tk \in Seq(TickType), NEW r \in TickType, NEW tf, NEW b
  PROVE  /\ At(tk, tf, b) \subseteq 1..Len(tk)
         /\ IsFiniteSet(At(tk, tf, b)) /\ Cardinality(At(tk, tf, b)) \in Nat
         /\ Bucket(tf, r.time) = b =>
              /\ Grown(At(tk, tf, b), At(Append(tk, r), tf, b), Len(tk) + 1)
              /\ Cardinality(At(Append(tk, r), tf, b)) = Cardinality(At(tk, tf, b)) + 1
         /\ Bucket(tf, r.time) # b => At(Append(tk, r), tf, b) = At(tk, tf, b)
<1> DEFINE tk2 == Append(tk, r)
<1>1. /\ Len(tk) \in Nat /\ Len(tk2) = Len(tk) + 1
      /\ tk2[Len(tk) + 1] = r /\ \A i \in 1..Len(tk) : tk2[i] = tk[i]
  OBVIOUS
<1> HIDE DEF tk2
<1>2. At(tk, tf, b) \subseteq 1..Len(tk) /\ Len(tk) + 1 \notin At(tk, tf, b)
  BY <1>1 DEF At
<1>3. IsFiniteSet(At(tk, tf, b)) /\ Cardinality(At(tk, tf, b)) \in Nat
  <2>1. IsFiniteSet(1..Len(tk))
    BY <1>1, FS_Interval
  <2> QED
    BY <1>2, <2>1, FS_Subset, FS_CardinalityType
<1>4. Bucket(tf, r.time) = b => At(tk2, tf, b) = At(tk, tf, b) \cup {Len(tk) + 1}
  BY <1>1 DEF At
<1>5. Bucket(tf, r.time) # b => At(tk2, tf, b) = At(tk, tf, b)
  BY <1>1 DEF At
<1>6. Cardinality(At(tk, tf, b) \cup {Len(tk) + 1}) = Cardinality(At(tk, tf, b)) + 1
  BY <1>2, <1>3, FS_AddElement
<1> QED
  BY <1>1, <1>2, <1>3, <1>4, <1>5, <1>6 DEF tk2, Grown

(* An event adds its place to its bucket's events and to no other.         *)
LEMMA ForGrows ==
  ASSUME NEW cl \in Seq(BarClose), NEW e \in BarClose, NEW b
  PROVE  /\ Append(cl, e)[Len(cl) + 1] = e
         /\ e.bucket = b => Grown(For(cl, b), For(Append(cl, e), b), Len(cl) + 1)
         /\ e.bucket # b => For(Append(cl, e), b) = For(cl, b)
<1> DEFINE cl2 == Append(cl, e)
<1>1. /\ Len(cl) \in Nat /\ Len(cl2) = Len(cl) + 1
      /\ cl2[Len(cl) + 1] = e /\ \A i \in 1..Len(cl) : cl2[i] = cl[i]
  OBVIOUS
<1> HIDE DEF cl2
<1>2. For(cl, b) \subseteq 1..Len(cl) /\ Len(cl) + 1 \notin For(cl, b)
  BY <1>1 DEF For
<1>3. e.bucket = b => For(cl2, b) = For(cl, b) \cup {Len(cl) + 1}
  BY <1>1 DEF For
<1>4. e.bucket # b => For(cl2, b) = For(cl, b)
  BY <1>1 DEF For
<1> QED
  BY <1>1, <1>2, <1>3, <1>4 DEF cl2, Grown

(* What is announced of a bucket's ticks depends on its own events only.   *)
LEMMA AccountedKept ==
  ASSUME NEW bar, NEW cl, NEW cl2, NEW C, NEW n, NEW b, NEW N, NEW N2,
         \A i \in C : cl2[i] = cl[i], b < N => b < N2, Accounted(bar, cl, C, n, b, N)
  PROVE  Accounted(bar, cl2, C, n, b, N2)
BY Zenon DEF Accounted

(* A bucket's bar depends on its own ticks only.                           *)
LEMMA MadeKept ==
  ASSUME NEW tk, NEW tk2, NEW bar, NEW bar2, NEW S, Made(tk, bar, S),
         \A i \in S : tk2[i] = tk[i],
         /\ bar2.open = bar.open /\ bar2.high = bar.high /\ bar2.low = bar.low
         /\ bar2.close = bar.close /\ bar2.tick_count = bar.tick_count
  PROVE  Made(tk2, bar2, S)
BY DEF Made

(* A new tick's bar, and an open bar after one more tick.                  *)
LEMMA CreateTyped == \A p \in Prices : CreateBar(p) \in BarState
BY DEF CreateBar, BarState

LEMMA CreateMade ==
  ASSUME NEW tk, NEW m \in Nat, NEW p \in Prices, tk[m].price = p, NEW S, S = {m}
  PROVE  Made(tk, CreateBar(p), S)
<1>1. Cardinality(S) = 1 /\ p \in Nat
  BY FS_Singleton, AggregatorAssumption
<1> QED
  BY <1>1 DEF Made, CreateBar

LEMMA UpdatedTyped ==
  ASSUME NEW bar \in BarState, NEW p \in Prices
  PROVE  Updated(bar, p) \in BarState
<1> DEFINE high == IF bar.high = 0 \/ p > bar.high THEN p ELSE bar.high
           low == IF bar.low = 0 \/ p < bar.low THEN p ELSE bar.low
<1>1. high \in Prices /\ low \in Prices
  BY DEF BarState
<1>2. bar.tick_count + 1 \in Nat \ {0}
  BY DEF BarState
<1>3. Updated(bar, p) = [bar EXCEPT !.tick_count = bar.tick_count + 1, !.close = p,
                                    !.high = high, !.low = low]
  BY DEF Updated, BarState
<1> HIDE DEF high, low
<1> QED
  BY <1>1, <1>2, <1>3 DEF BarState

LEMMA UpdateMade ==
  ASSUME NEW tk, NEW bar \in BarState, NEW S, NEW S2,
         NEW n \in Nat, NEW m, m = n + 1, NEW p \in Prices,
         0 \notin Prices, tk[m].price = p, S \subseteq 1..n, IsFiniteSet(S),
         \A i \in S : tk[i].price \in Prices, Made(tk, bar, S),
         Grown(S, S2, m)
  PROVE  Made(tk, Updated(bar, p), S2)
<1> DEFINE bar2 == Updated(bar, p)
<1>1. /\ bar.high \in Nat /\ bar.low \in Nat /\ bar.high # 0 /\ bar.low # 0 /\ p \in Nat
      /\ \A i \in S : tk[i].price \in Nat
      /\ bar.open \in Prices /\ bar.tick_count \in Nat
  BY AggregatorAssumption DEF BarState
<1>2. /\ bar2.tick_count = bar.tick_count + 1 /\ bar2.close = p /\ bar2.open = bar.open
      /\ bar2.high = IF p > bar.high THEN p ELSE bar.high
      /\ bar2.low = IF p < bar.low THEN p ELSE bar.low
  BY <1>1 DEF Updated, BarState
<1> HIDE DEF bar2
<1>s. m \notin S /\ S2 = S \cup {m}
  BY DEF Grown
<1>3. Cardinality(S2) = Cardinality(S) + 1
  BY <1>s, FS_AddElement
<1>4. \E i \in S2 : bar2.open = tk[i].price /\ \A j \in S2 : i <= j
  <2>1. PICK i \in S : bar.open = tk[i].price /\ \A j \in S : i <= j
    BY DEF Made
  <2>2. i <= m /\ i \in Nat
    <3>1. i \in 1..n
      BY <2>1
    <3> QED
      BY ONLY <3>1, n \in Nat, m = n + 1
  <2> QED
    BY <1>2, <1>s, <2>1, <2>2
<1>5. bar2.close = tk[m].price /\ \A j \in S2 : j <= m
  BY <1>2, <1>s
<1>6. \E i \in S2 : bar2.high = tk[i].price
  BY <1>2, <1>s DEF Made
<1>7. \E i \in S2 : bar2.low = tk[i].price
  BY <1>2, <1>s DEF Made
<1>8. ASSUME NEW i \in S2
      PROVE  bar2.low <= tk[i].price /\ tk[i].price <= bar2.high
  <2>1. CASE i = m
    BY <1>1, <1>2, <2>1
  <2>2. CASE i \in S
    <3>1. bar.low <= tk[i].price /\ tk[i].price <= bar.high /\ tk[i].price \in Nat
      BY <1>1, <2>2 DEF Made
    <3> QED
      BY <1>1, <1>2, <3>1
  <2> QED
    BY <1>s, <2>1, <2>2
<1>9. bar2.tick_count = Cardinality(S2)
  BY <1>2, <1>3 DEF Made
<1> QED
  BY <1>s, <1>4, <1>5, <1>6, <1>7, <1>8, <1>9 DEF Made, bar2

(* A timeframe's bars and events after the tick r; what _close_bar sends   *)
(* of bucket x is the bar it closes.                                       *)
Sent(f, x) == [bucket |-> x, bar |-> [f[x] EXCEPT !.is_closed = TRUE]]
Announces(f, cl, cl2, C) ==
  \/ C = {} /\ cl2 = cl
  \/ \E x \in Times : C = {x} /\ cl2 = Append(cl, Sent(f, x))

(* What a tick makes of its own bucket's bar and of the one it closes.     *)
LEMMA BarsTyped ==
  ASSUME NEW f \in [Times -> BarState \cup {NoBar}], NEW B \in Times, NEW p \in Prices
  PROVE  /\ UpdateTF(f, B, p) \in [Times -> BarState \cup {NoBar}]
         /\ \A x \in Closing(f, B) :
              /\ x \in Times /\ f[x] \in BarState /\ Sent(f, x) \in BarClose
              /\ f[x].is_closed => Sent(f, x).bar = f[x]
<1>1. NoBar \notin BarState /\ Prices \subseteq Nat
  BY NoBarAssumption, AggregatorAssumption
<1>2. \A x \in Closing(f, B) : x \in Times /\ f[x] \in BarState
  BY <1>1 DEF Closing, Open
<1>3. \A bar \in BarState : [bar EXCEPT !.is_closed = TRUE] \in BarState
  BY DEF BarState
<1>4. \A bar \in BarState : bar.is_closed => [bar EXCEPT !.is_closed = TRUE] = bar
  BY DEF BarState
<1>5. CreateBar(p) \in BarState
  BY CreateTyped
<1>6. \A bar \in BarState : Updated(bar, p) \in BarState
  BY UpdatedTyped
<1>7. \A x \in Open(f) : f[x] \in BarState
  BY <1>1 DEF Open
<1>8. UpdateTF(f, B, p) \in [Times -> BarState \cup {NoBar}]
  BY <1>2, <1>3, <1>5, <1>6, <1>7 DEF UpdateTF
<1>9. \A x \in Closing(f, B) :
        Sent(f, x) \in BarClose /\ (f[x].is_closed => Sent(f, x).bar = f[x])
  BY <1>2, <1>3, <1>4 DEF Sent, BarClose
<1> QED
  BY <1>2, <1>8, <1>9

(* A tick keeps what is true of every bucket of a timeframe.               *)
LEMMA BucketStep ==
  ASSUME NEW tf \in Timeframes,
         NEW f \in [Times -> BarState \cup {NoBar}], NEW cl \in Seq(BarClose),
         NEW tk \in Seq(TickType), NEW r \in TickType, NEW cl2,
         NewestHolds(tk), TimeframeHolds(f, cl, tk, tf),
         NEW B, B = Bucket(tf, r.time), Announces(f, cl, cl2, Closing(f, B)),
         NEW b \in Times
  PROVE  BucketHolds(UpdateTF(f, B, r.price), cl2, Append(tk, r), tf,
                     Bucket(tf, NewestOf(Append(tk, r))), b)
<1> DEFINE N == Bucket(tf, NewestOf(tk))
           N2 == Bucket(tf, NewestOf(Append(tk, r)))
           tk2 == Append(tk, r)
           f2 == UpdateTF(f, B, r.price)
           A == At(tk, tf, b)
           A2 == At(tk2, tf, b)
           C == For(cl, b)
           C2 == For(cl2, b)
<1>1. /\ N \in Times /\ B \in Times /\ N2 = IF B > N THEN B ELSE N
      /\ Ordered(tk2) \/ tk = <<>> => N <= B
  BY NewestBucket
<1>2. Times \subseteq Int /\ r.price \in Prices /\ Prices \subseteq Nat
  BY AggregatorAssumption DEF Times, TickType
<1>3. N \in Int /\ B \in Int /\ b \in Int
  BY <1>1, <1>2
<1>4. BucketHolds(f, cl, tk, tf, N, b) /\ BucketHolds(f, cl, tk, tf, N, B)
  BY <1>1 DEF TimeframeHolds
<1>5. /\ f[B] # NoBar /\ f[B].is_closed => Closing(f, B) = {B}
      /\ f[B] # NoBar /\ ~f[B].is_closed => Closing(f, B) = {}
      /\ f[B] = NoBar /\ tk # <<>> /\ B > N => Closing(f, B) = {N}
      /\ f[B] = NoBar /\ (tk = <<>> \/ B <= N) => Closing(f, B) = {}
  BY <1>1, ClosingIs
<1>6. /\ Len(tk) \in Nat /\ tk2[Len(tk) + 1] = r /\ \A i \in 1..Len(tk) : tk2[i] = tk[i]
      /\ tk2 # <<>> /\ (Ordered(tk2) => Ordered(tk))
  BY DEF Ordered
<1>7. /\ A \subseteq 1..Len(tk) /\ IsFiniteSet(A) /\ Cardinality(A) \in Nat
      /\ B = b => Grown(A, A2, Len(tk) + 1) /\ Cardinality(A2) = Cardinality(A) + 1
      /\ B # b => A2 = A
  BY AtGrows
<1>8. \A i \in A : tk2[i] = tk[i] /\ tk[i].price \in Prices
  <2> TAKE i \in A
  <2>1. i \in 1..Len(tk)
    BY <1>7
  <2>2. tk[i] \in TickType
    BY <2>1
  <2> QED
    BY <1>6, <2>1, <2>2 DEF TickType
<1>9. \A x \in Closing(f, B) : /\ x \in Times /\ f[x] \in BarState /\ Sent(f, x) \in BarClose
                               /\ f[x].is_closed => Sent(f, x).bar = f[x]
  BY <1>1, <1>2, BarsTyped
<1>10. b \notin Closing(f, B) => C2 = C /\ \A i \in C : cl2[i] = cl[i]
  <2>1. CASE Closing(f, B) = {} /\ cl2 = cl
    BY <2>1
  <2>2. ASSUME NEW x \in Times, Closing(f, B) = {x}, cl2 = Append(cl, Sent(f, x)), b # x
        PROVE  C2 = C /\ \A i \in C : cl2[i] = cl[i]
    <3>1. Sent(f, x) \in BarClose /\ Sent(f, x).bucket # b
      BY <1>9, <2>2 DEF Sent
    <3>2. For(cl2, b) = For(cl, b)
      BY <2>2, <3>1, ForGrows
    <3>3. \A i \in For(cl, b) : cl2[i] = cl[i]
      BY <2>2, <3>1 DEF For
    <3> QED
      BY <3>2, <3>3
  <2> QED
    BY <2>1, <2>2 DEF Announces
<1>11. ASSUME b \in Closing(f, B)
       PROVE  \E k : /\ k \notin C /\ C2 = C \cup {k} /\ cl2[k] = Sent(f, b)
                     /\ \A i \in C : cl2[i] = cl[i]
  <2>1. cl2 = Append(cl, Sent(f, b))
    BY <1>11 DEF Announces
  <2>2. Sent(f, b) \in BarClose /\ Sent(f, b).bucket = b
    BY <1>9, <1>11 DEF Sent
  <2>3. /\ Grown(C, C2, Len(cl) + 1)
        /\ cl2[Len(cl) + 1] = Sent(f, b) /\ \A i \in C : cl2[i] = cl[i]
    <3>1. Grown(For(cl, b), For(cl2, b), Len(cl) + 1)
      BY <2>1, <2>2, ForGrows
    <3>2. \A i \in For(cl, b) : cl2[i] = cl[i]
      BY <2>1, <2>2 DEF For
    <3>3. cl2[Len(cl) + 1] = Sent(f, b)
      BY <2>1, <2>2, ForGrows
    <3> QED
      BY <3>1, <3>2, <3>3
  <2> QED
    BY <2>3 DEF Grown
<1>12. /\ b = B => f2[b] = IF b \in Open(f) THEN Updated(f[b], r.price) ELSE CreateBar(r.price)
       /\ b # B /\ b \in Closing(f, B) => f2[b] = [f[b] EXCEPT !.is_closed = TRUE]
       /\ b # B /\ b \notin Closing(f, B) => f2[b] = f[b]
  BY DEF UpdateTF
<1>13. f[b] # NoBar => f[b] \in BarState /\ tk # <<>> /\ ~(b > N)
  <2>1. tk = <<>> => A = {}
    BY DEF At
  <2> QED
    BY <1>4, <2>1 DEF BucketHolds
<1>14. CreateBar(r.price) # NoBar /\ ~CreateBar(r.price).is_closed
       /\ CreateBar(r.price).tick_count = 1
  <2>1. CreateBar(r.price) \in BarState
    BY <1>2, CreateTyped
  <2> QED
    BY <2>1, NoBarAssumption DEF CreateBar
<1> SUFFICES BucketHolds(f2, cl2, tk2, tf, N2, b)
  OBVIOUS
<1> HIDE DEF N, N2, tk2, f2, A, A2, C, C2
(* A bucket the tick leaves alone.                                         *)
<1>a. CASE b # B /\ b \notin Closing(f, B)
  <2>1. f2[b] = f[b] /\ C2 = C /\ A2 = A /\ \A i \in C : cl2[i] = cl[i]
    BY <1>7, <1>10, <1>12, <1>a
  <2>2. b < N => b < N2
    BY <1>1, <1>3
  <2>3. b > N2 => b > N
    BY <1>1, <1>3
  <2>4. b = N2 => b = N /\ tk # <<>>
    BY <1>1, <1>3, <1>a
  <2>5. ASSUME Ordered(tk2), f[b] # NoBar, b < N2
        PROVE  f[b].is_closed
    <3>1. CASE b < N
      BY <1>4, <1>6, <2>5, <3>1 DEF BucketHolds, N, A, C
    <3>2. CASE b = N
      <4>1. f[B] = NoBar /\ B > N
        BY <1>1, <1>3, <1>4, <2>5, <3>2 DEF BucketHolds, N
      <4> QED
        BY <1>5, <1>13, <1>a, <2>5, <3>2, <4>1
    <3> QED
      BY <1>3, <1>13, <2>5, <3>1, <3>2
  <2>6. Accounted(f[b], cl, C, Cardinality(A), b, N)
          => Accounted(f[b], cl2, C, Cardinality(A), b, N2)
    BY <2>1, <2>2, AccountedKept
  <2>7. Made(tk, f[b], A) => Made(tk2, f[b], A)
    BY <1>8, MadeKept
  <2> QED
    BY <1>4, <1>6, <2>1, <2>3, <2>4, <2>5, <2>6, <2>7 DEF BucketHolds, N, A, C, A2, C2
(* The first tick of a bucket.                                             *)
<1>b. CASE b = B /\ f[b] = NoBar
  <2>1. A = {} /\ C = {}
    BY <1>4, <1>b DEF BucketHolds, A, C
  <2>2. b \notin Closing(f, B)
    BY <1>5, <1>b, <1>3
  <2>3. f2[b] = CreateBar(r.price) /\ C2 = {} /\ A2 = {Len(tk) + 1} /\ Cardinality(A2) = 1
    <3>1. b \notin Open(f)
      BY <1>b DEF Open
    <3>2. Cardinality(A) = 0
      BY <2>1, FS_EmptySet
    <3> QED
      BY <1>7, <1>10, <1>12, <1>b, <2>1, <2>2, <3>1, <3>2 DEF Grown
  <2>4. ~(b > N2) /\ (Ordered(tk2) => ~(b < N2))
    BY <1>1, <1>3, <1>b
  <2>5. Made(tk2, f2[b], A2)
    <3>1. tk2[Len(tk) + 1].price = r.price /\ Len(tk) + 1 \in Nat
      BY <1>6
    <3> QED
      BY <1>2, <2>3, <3>1, CreateMade
  <2>6. Accounted(f2[b], cl2, C2, Cardinality(A2), b, N2)
    BY <1>14, <2>3 DEF Accounted
  <2> QED
    BY <1>14, <2>3, <2>4, <2>5, <2>6 DEF BucketHolds, A2, C2
(* One more tick of an open bucket.                                        *)
<1>c. CASE b = B /\ f[b] # NoBar /\ ~f[b].is_closed
  <2>1. f2[b] = Updated(f[b], r.price) /\ C2 = C /\ \A i \in C : cl2[i] = cl[i]
    <3>1. b \in Open(f) /\ b \notin Closing(f, B)
      BY <1>5, <1>c DEF Open
    <3> QED
      BY <1>10, <1>12, <1>c, <3>1
  <2>2. /\ f2[b] # NoBar /\ ~f2[b].is_closed
        /\ f2[b].tick_count = f[b].tick_count + 1 /\ f[b].tick_count \in Nat
    <3>1. f[b] \in BarState /\ f[b].tick_count \in Nat
      BY <1>13, <1>c DEF BarState
    <3>2. f2[b] \in BarState
      BY <1>2, <2>1, <3>1, UpdatedTyped
    <3>3. f2[b].tick_count = f[b].tick_count + 1
      BY <2>1, <3>1 DEF Updated, BarState
    <3>4. ~f2[b].is_closed
      BY <1>c, <2>1, <3>1 DEF Updated, BarState
    <3> QED
      BY <3>1, <3>2, <3>3, <3>4, NoBarAssumption
  <2>3. N2 = N /\ ~(b > N2) /\ (Ordered(tk2) => ~(b < N2))
    BY <1>1, <1>3, <1>13, <1>c
  <2>4. b = N2 => C2 = {}
    BY <1>4, <1>13, <1>c, <2>1, <2>3 DEF BucketHolds, C
  <2>5. A2 # {}
    BY <1>7, <1>c DEF Grown
  <2>6. Accounted(f2[b], cl2, C2, Cardinality(A2), b, N2)
    <3>1. Accounted(f[b], cl, C, Cardinality(A), b, N)
      BY <1>4, <1>c DEF BucketHolds, N, A, C
    <3>2. CASE C = {} /\ f[b].tick_count = Cardinality(A)
      BY <1>7, <1>c, <2>1, <2>2, <3>2 DEF Accounted
    <3>3. CASE /\ b < N
               /\ \E i, j \in C : /\ i # j /\ C = {i, j} /\ cl[i].bar = cl[j].bar
                                 /\ Cardinality(A) = cl[i].bar.tick_count + f[b].tick_count
      <4>1. PICK i \in C, j \in C :
              /\ i # j /\ C = {i, j} /\ cl[i].bar = cl[j].bar
              /\ Cardinality(A) = cl[i].bar.tick_count + f[b].tick_count
        BY <3>3
      <4>2. cl[i].bar.tick_count \in Nat
        <5>1. i \in 1..Len(cl)
          BY <4>1 DEF C, For
        <5>2. cl[i] \in BarClose
          BY ONLY <5>1, cl \in Seq(BarClose)
        <5> QED
          BY <5>2 DEF BarClose, BarState
      <4>3. Cardinality(A2) = cl[i].bar.tick_count + f2[b].tick_count
        <5>1. Cardinality(A2) = Cardinality(A) + 1
          BY <1>7, <1>c
        <5>2. PICK before, count : before = cl[i].bar.tick_count /\ count = f[b].tick_count
          OBVIOUS
        <5>3. /\ before \in Nat /\ count \in Nat /\ f2[b].tick_count = count + 1
              /\ Cardinality(A2) = (before + count) + 1
          BY <2>2, <4>1, <4>2, <5>1, <5>2, Zenon
        <5>4. (before + count) + 1 = before + (count + 1)
          BY <5>3
        <5> QED
          BY <5>2, <5>3, <5>4, Zenon
      <4>4. b < N2 /\ cl2[i].bar = cl[i].bar /\ cl2[j].bar = cl[j].bar
        BY <2>1, <2>3, <3>3, <4>1
      <4> QED
        BY <2>1, <2>2, <4>1, <4>3, <4>4 DEF Accounted
    <3> QED
      BY <1>c, <3>1, <3>2, <3>3 DEF Accounted
  <2>7. ASSUME Ordered(tk2), 0 \notin Prices
        PROVE  Made(tk2, f2[b], A2)
    <3>1. Made(tk, f[b], A)
      BY <1>4, <1>6, <1>c, <2>7 DEF BucketHolds, A
    <3>2. Made(tk2, f[b], A)
      BY <1>8, <3>1, MadeKept
    <3>3. tk2[Len(tk) + 1].price = r.price /\ f[b] \in BarState
      BY <1>6, <1>13, <1>c
    <3>4. \A i \in A : tk2[i].price \in Prices
      BY <1>8
    <3>5. Grown(A, A2, Len(tk) + 1)
      BY <1>7, <1>c
    <3>6. A \subseteq 1..Len(tk) /\ IsFiniteSet(A) /\ Len(tk) \in Nat
      BY <1>6, <1>7
    <3>7. Made(tk2, Updated(f[b], r.price), A2)
      BY ONLY <1>2, <2>7, <3>2, <3>3, <3>4, <3>5, <3>6, UpdateMade
    <3> QED
      BY <2>1, <3>7
  <2> QED
    BY <2>2, <2>3, <2>4, <2>5, <2>6, <2>7 DEF BucketHolds, A2, C2
(* A late tick of a closed bucket.                                         *)
<1>d. CASE b = B /\ f[b] # NoBar /\ f[b].is_closed
  <2>1. b \in Closing(f, B) /\ Sent(f, b).bar = f[b]
    BY <1>5, <1>9, <1>d
  <2>2. PICK k : /\ k \notin C /\ C2 = C \cup {k} /\ cl2[k] = Sent(f, b)
                 /\ \A i \in C : cl2[i] = cl[i]
    BY <1>11, <2>1
  <2>3. f2[b] = CreateBar(r.price)
    BY <1>12, <1>d DEF Open
  <2>4. b < N /\ N2 = N /\ ~Ordered(tk2)
    <3>1. b # N
      BY <1>4, <1>13, <1>d DEF BucketHolds, N
    <3> QED
      BY <1>1, <1>3, <1>13, <1>d, <3>1
  <2>5. Cardinality(A2) = Cardinality(A) + 1 /\ A2 # {}
    BY <1>7, <1>d DEF Grown
  <2>6. Accounted(f2[b], cl2, C2, Cardinality(A2), b, N2)
    <3>1. Accounted(f[b], cl, C, Cardinality(A), b, N)
      BY <1>4, <1>d DEF BucketHolds, N, A, C
    <3>2. f[b].tick_count = Cardinality(A) /\ \E i \in C : C = {i} /\ cl[i].bar = f[b]
      BY <1>d, <3>1 DEF Accounted
    <3>3. PICK i \in C : C = {i} /\ cl[i].bar = f[b]
      BY <3>2
    <3>4. i # k /\ C2 = {i, k} /\ cl2[i].bar = cl2[k].bar /\ cl2[i].bar = f[b]
      BY <2>1, <2>2, <3>3
    <3> QED
      BY <1>14, <2>3, <2>4, <2>5, <3>2, <3>4 DEF Accounted
  <2> QED
    BY <1>3, <1>14, <2>3, <2>4, <2>5, <2>6 DEF BucketHolds, A2, C2
(* The bucket that the tick closes.                                        *)
<1>e. CASE b # B /\ b \in Closing(f, B)
  <2>1. f[B] = NoBar /\ tk # <<>> /\ B > N /\ b = N
    BY <1>3, <1>5, <1>e
  <2>2. f[b] # NoBar /\ ~f[b].is_closed /\ C = {} /\ f[b] \in BarState
    BY <1>4, <1>9, <1>e, <2>1 DEF BucketHolds, N, C
  <2>3. PICK k : C2 = {k} /\ cl2[k] = Sent(f, b)
    BY <1>11, <1>e, <2>2
  <2>4. f2[b] = [f[b] EXCEPT !.is_closed = TRUE] /\ A2 = A
    BY <1>7, <1>12, <1>e
  <2>5. /\ f2[b] \in BarState /\ f2[b] # NoBar /\ f2[b].is_closed
        /\ f2[b].tick_count = f[b].tick_count /\ f2[b].open = f[b].open
        /\ f2[b].high = f[b].high /\ f2[b].low = f[b].low /\ f2[b].close = f[b].close
        /\ cl2[k].bar = f2[b]
    <3>1. f2[b] \in BarState
      BY <2>2, <2>4 DEF BarState
    <3>2. /\ f2[b].is_closed
          /\ f2[b].tick_count = f[b].tick_count /\ f2[b].open = f[b].open
          /\ f2[b].high = f[b].high /\ f2[b].low = f[b].low /\ f2[b].close = f[b].close
      BY <2>2, <2>4 DEF BarState
    <3>3. cl2[k].bar = f2[b]
      BY <2>3, <2>4 DEF Sent
    <3> QED
      BY <3>1, <3>2, <3>3, NoBarAssumption
  <2>6. N2 = B /\ b < N2
    BY <1>1, <1>3, <2>1
  <2>7. Accounted(f2[b], cl2, C2, Cardinality(A2), b, N2)
    <3>1. Accounted(f[b], cl, C, Cardinality(A), b, N)
      BY <1>4, <2>2 DEF BucketHolds, N, A, C
    <3>2. f[b].tick_count = Cardinality(A)
      BY <2>2, <3>1 DEF Accounted
    <3> QED
      BY <2>3, <2>4, <2>5, <3>2 DEF Accounted
  <2>8. Ordered(tk2) /\ 0 \notin Prices => Made(tk2, f2[b], A2)
    <3>1. Ordered(tk2) /\ 0 \notin Prices => Made(tk, f[b], A)
      BY <1>4, <1>6, <2>2 DEF BucketHolds, A
    <3>2. Made(tk, f[b], A) => Made(tk2, f2[b], A)
      BY <1>8, <2>5, MadeKept
    <3> QED
      BY <2>4, <3>1, <3>2
  <2>9. A2 # {} /\ ~(b > N2) /\ b # N2
    BY <1>3, <1>4, <2>2, <2>4, <2>6 DEF BucketHolds, A
  <2> QED
    BY <2>5, <2>6, <2>7, <2>8, <2>9 DEF BucketHolds, A2, C2
<1> QED
  BY <1>a, <1>b, <1>c, <1>d, <1>e

(* What process_tick does to one timeframe: the cascade finds nothing more *)
(* to close, for no tick is behind the end of its own bucket.              *)
LEMMA TimeframeStep ==
  ASSUME BarsInv, NEW t \in Times, NEW p \in Prices, ProcessTick(t, p),
         NEW tf \in Timeframes
  PROVE  LET f == bars[tf]
             B == Bucket(tf, t)
         IN /\ bars'[tf] = UpdateTF(f, B, p)
            /\ Announces(f, closes[tf], closes'[tf], Closing(f, B))
<1> DEFINE f == bars[tf]
           cl == closes[tf]
           B == Bucket(tf, t)
           N == Bucket(tf, NewestOf(ticks))
           r == [time |-> t, price |-> p]
           f2 == UpdateTF(f, B, p)
           C == Closing(f, B)
           late == IF Closing(bars[Base], Bucket(Base, t)) # {} /\ tf # Base
                   THEN Cascade(f2, tf, t) ELSE {}
<1>1. /\ f \in [Times -> BarState \cup {NoBar}] /\ cl \in Seq(BarClose)
      /\ ticks \in Seq(TickType) /\ r \in TickType /\ r.time = t
      /\ NewestHolds(ticks) /\ TimeframeHolds(f, cl, ticks, tf)
  BY DEF BarsInv, BarsTypeOK, TickType
<1>2. N \in Times /\ B \in Times
  BY <1>1, NewestBucket
<1>3. late = {}
  <2>1. t \in Nat
    BY AggregatorAssumption DEF Times
  <2>2. /\ t < Bucket(tf, t) + Seconds[tf] /\ Bucket(tf, t) \in Nat /\ Seconds[tf] \in Nat
    BY <2>1, BucketStarts
  <2>3. ~(t >= Bucket(tf, t) + Seconds[tf])
    BY <2>1, <2>2
  <2> HIDE DEF f2
  <2> QED
    BY <2>3 DEF Cascade
<1> DEFINE S == {Sent(f, b) : b \in C}
           S2 == {Sent(f2, b) : b \in late}
<1>4. /\ bars'[tf] = [b \in Times |-> IF b \in late THEN [f2[b] EXCEPT !.is_closed = TRUE]
                                                     ELSE f2[b]]
      /\ closes'[tf] = cl \o SetToSeq(S) \o SetToSeq(S2)
  <2> DEFINE closing == [x \in Timeframes |-> Closing(bars[x], Bucket(x, t))]
             updated == [x \in Timeframes |-> UpdateTF(bars[x], Bucket(x, t), p)]
             cascade == [x \in Timeframes |-> IF closing[Base] # {} /\ x # Base
                                              THEN Cascade(updated[x], x, t) ELSE {}]
  <2>1. /\ bars' = [x \in Timeframes |->
                      [b \in Times |-> IF b \in cascade[x]
                                       THEN [updated[x][b] EXCEPT !.is_closed = TRUE]
                                       ELSE updated[x][b]]]
        /\ closes' = [x \in Timeframes |->
                        closes[x] \o SetToSeq({Sent(bars[x], b) : b \in closing[x]})
                                  \o SetToSeq({Sent(updated[x], b) : b \in cascade[x]})]
    BY Zenon DEF ProcessTick, Sent
  <2>2. closing[tf] = C /\ updated[tf] = f2
    OBVIOUS
  <2>3. cascade[tf] = late
    BY <2>2, AggregatorAssumption
  <2> HIDE DEF closing, updated, cascade, late, f2, C
  <2>4. /\ {Sent(bars[tf], b) : b \in closing[tf]} = S
        /\ {Sent(updated[tf], b) : b \in cascade[tf]} = S2
    BY <2>2, <2>3
  <2> HIDE DEF S, S2
  <2> QED
    BY <2>1, <2>2, <2>3, <2>4
<1>5. f2 = [b \in Times |-> f2[b]]
  BY DEF UpdateTF
<1>6. AtMostOne(C)
  BY <1>1, <1>2, ClosingIsOne
<1>c. \A x \in C : Sent(f, x) \in BarClose
  BY <1>1, <1>2, BarsTyped
<1>s. C = {} => S = {}
  OBVIOUS
<1>t. \A x \in Times : C = {x} => S = {Sent(f, x)}
  OBVIOUS
<1>u. S2 = {}
  BY <1>3
<1> HIDE DEF late, f2, C, B, N, S, S2
<1>7. bars'[tf] = f2
  BY <1>3, <1>4, <1>5
<1>8. closes'[tf] = cl \o SetToSeq(S)
  <2>1. SetToSeq(S) \in Seq(BarClose)
    <3>1. CASE C = {}
      <4>1. SetToSeq(S) = <<>>
        BY <1>s, <3>1, ListOfNone
      <4> QED
        BY <4>1
    <3>2. ASSUME NEW x \in Times, C = {x}
          PROVE  SetToSeq(S) \in Seq(BarClose)
      <4>1. SetToSeq(S) = <<Sent(f, x)>>
        BY <1>t, <3>2, ListOfOne
      <4>2. Sent(f, x) \in BarClose
        BY <1>c, <3>2
      <4> QED
        BY <4>1, <4>2
    <3> QED
      BY <1>6, <3>1, <3>2 DEF AtMostOne
  <2>2. cl \o SetToSeq(S) \in Seq(BarClose)
    BY <1>1, <2>1, ConcatProperties
  <2>3. (cl \o SetToSeq(S)) \o <<>> = cl \o SetToSeq(S)
    BY <2>2, ConcatEmptySeq
  <2> QED
    BY <1>4, <1>u, <2>3, ListOfNone
<1>9. Announces(f, cl, closes'[tf], C)
  <2>1. CASE C = {}
    BY <1>1, <1>8, <1>s, <2>1, ListOfNone, ConcatEmptySeq DEF Announces
  <2>2. ASSUME NEW x \in Times, C = {x}
        PROVE  Announces(f, cl, closes'[tf], C)
    <3>1. Sent(f, x) \in BarClose
      BY <1>c, <2>2
    <3>2. closes'[tf] = cl \o <<Sent(f, x)>>
      BY <1>8, <1>t, <2>2, ListOfOne
    <3>3. closes'[tf] = Append(cl, Sent(f, x))
      BY <1>1, <3>1, <3>2, AppendIsConcat
    <3> QED
      BY <2>2, <3>3 DEF Announces
  <2> QED
    BY <1>6, <2>1, <2>2 DEF AtMostOne
<1> QED
  BY <1>7, <1>9 DEF f2, C, B

LEMMA BarsInitHolds == BarsInit => BarsInv
<1> SUFFICES ASSUME BarsInit PROVE BarsInv
  OBVIOUS
<1>1. 0 \in Times /\ Times \subseteq Nat
  BY AggregatorAssumption DEF Times
<1>2. ticks = <<>> /\ Len(ticks) = 0 /\ DOMAIN ticks = {}
  BY DEF BarsInit
<1>3. NewestOf(ticks) = 0
  <2> DEFINE S == {0} \cup {ticks[i].time : i \in DOMAIN ticks}
  <2>1. S = {0}
    BY <1>2
  <2>2. Max({0}) = 0
    BY DEF Max
  <2> QED
    BY <2>1, <2>2 DEF NewestOf
<1>4. NewestHolds(ticks)
  BY <1>1, <1>2, <1>3 DEF NewestHolds
<1>5. BarsTypeOK
  BY DEF BarsInit, BarsTypeOK
<1>6. ASSUME NEW tf \in Timeframes, NEW b \in Times
      PROVE  BucketHolds(bars[tf], closes[tf], ticks, tf, Bucket(tf, NewestOf(ticks)), b)
  <2>1. bars[tf][b] = NoBar /\ closes[tf] = <<>>
    BY DEF BarsInit
  <2>2. At(ticks, tf, b) = {} /\ For(closes[tf], b) = {}
    BY <1>2, <2>1 DEF At, For
  <2> QED
    BY <1>2, <2>1, <2>2 DEF BucketHolds
<1> QED
  BY <1>4, <1>5, <1>6 DEF BarsInv, TimeframeHolds

LEMMA BarsStep == BarsInv /\ [BarsNext]_barVars => BarsInv'
<1> SUFFICES ASSUME BarsInv, [BarsNext]_barVars PROVE BarsInv'
  OBVIOUS
<1>1. CASE UNCHANGED barVars
  BY <1>1 DEF barVars, BarsInv, BarsTypeOK
<1>2. ASSUME NEW t \in Times, NEW p \in Prices, ProcessTick(t, p)
      PROVE  BarsInv'
  <2> DEFINE r == [time |-> t, price |-> p]
  <2>1. /\ ticks' = Append(ticks, r) /\ ticks \in Seq(TickType) /\ r \in TickType
        /\ NewestHolds(ticks) /\ r.time = t /\ r.price = p
    BY <1>2 DEF ProcessTick, BarsInv, BarsTypeOK, TickType
  <2>2. NewestHolds(ticks')
    BY <2>1, NewestGrows
  <2>3. ASSUME NEW tf \in Timeframes
        PROVE  /\ bars'[tf] \in [Times -> BarState \cup {NoBar}]
               /\ closes'[tf] \in Seq(BarClose)
               /\ TimeframeHolds(bars'[tf], closes'[tf], ticks', tf)
    <3> DEFINE B == Bucket(tf, t)
    <3>1. /\ bars'[tf] = UpdateTF(bars[tf], B, p)
          /\ Announces(bars[tf], closes[tf], closes'[tf], Closing(bars[tf], B))
      BY <1>2, TimeframeStep
    <3>2. /\ bars[tf] \in [Times -> BarState \cup {NoBar}] /\ closes[tf] \in Seq(BarClose)
          /\ TimeframeHolds(bars[tf], closes[tf], ticks, tf)
      BY DEF BarsInv, BarsTypeOK
    <3>3. B \in Times
      BY <2>1, NewestBucket
    <3> HIDE DEF B
    <3>4. bars'[tf] \in [Times -> BarState \cup {NoBar}]
      BY <3>1, <3>2, <3>3, BarsTyped
    <3>5. closes'[tf] \in Seq(BarClose)
      <4>1. \A x \in Closing(bars[tf], B) : Sent(bars[tf], x) \in BarClose
        BY <3>2, <3>3, BarsTyped
      <4>2. \A e \in BarClose : Append(closes[tf], e) \in Seq(BarClose)
        BY <3>2
      <4> QED
        BY <3>1, <3>2, <4>1, <4>2 DEF Announces
    <3>6. ASSUME NEW b \in Times
          PROVE  BucketHolds(bars'[tf], closes'[tf], ticks', tf,
                             Bucket(tf, NewestOf(ticks')), b)
      <4>1. B = Bucket(tf, r.time) /\ bars'[tf] = UpdateTF(bars[tf], B, r.price)
        BY <2>1, <3>1 DEF B
      <4>2. BucketHolds(UpdateTF(bars[tf], B, r.price), closes'[tf], Append(ticks, r), tf,
                        Bucket(tf, NewestOf(Append(ticks, r))), b)
        <5> HIDE DEF r
        <5> QED
          BY <2>1, <3>1, <3>2, <4>1, BucketStep
      <4> QED
        BY <2>1, <4>1, <4>2
    <3> QED
      BY <3>4, <3>5, <3>6 DEF TimeframeHolds
  <2>4. BarsTypeOK'
    <3>1. bars' = [tf \in Timeframes |-> bars'[tf]] /\ closes' = [tf \in Timeframes |-> closes'[tf]]
      BY <1>2 DEF ProcessTick
    <3>2. ticks' \in Seq(TickType)
      BY <2>1
    <3> QED
      BY <2>3, <3>1, <3>2 DEF BarsTypeOK, TickType
  <2> QED
    BY <2>2, <2>3, <2>4 DEF BarsInv
<1> QED
  BY <1>1, <1>2 DEF BarsNext

(* What the invariant says of the ticks and events, in the module's terms. *)
LEMMA BarsSoundFollows ==
  BarsInv => /\ ClosedOnceFinal /\ TicksConserved /\ RepeatsAreEqual
             /\ 0 \notin Prices => BarsMatchTicks
<1> SUFFICES ASSUME BarsInv
             PROVE  /\ ClosedOnceFinal /\ TicksConserved /\ RepeatsAreEqual
                    /\ 0 \notin Prices => BarsMatchTicks
  OBVIOUS
<1>1. InOrder <=> Ordered(ticks)
  BY DEF InOrder, Ordered
<1>2. \A tf \in Timeframes, b \in Times :
        TicksOf(tf, b) = At(ticks, tf, b) /\ SentFor(tf, b) = For(closes[tf], b)
  BY DEF TicksOf, SentFor, At, For
<1>3. Newest = NewestOf(ticks)
  BY DEF Newest, NewestOf
<1>4. ASSUME NEW tf \in Timeframes, NEW b \in Times
      PROVE  BucketHolds(bars[tf], closes[tf], ticks, tf, Bucket(tf, Newest), b)
  BY <1>3 DEF BarsInv, TimeframeHolds
<1>5. 0 \notin Prices => BarsMatchTicks
  BY <1>1, <1>2, <1>4 DEF BarsMatchTicks, BucketHolds, Made, IsBarOf
<1>6. ClosedOnceFinal
  <2> SUFFICES ASSUME Ordered(ticks), NEW tf \in Timeframes, NEW b \in Times
               PROVE  IF At(ticks, tf, b) # {} /\ b < Bucket(tf, Newest)
                      THEN \E i \in For(closes[tf], b) :
                             For(closes[tf], b) = {i} /\ closes[tf][i].bar = bars[tf][b]
                      ELSE For(closes[tf], b) = {}
    BY <1>1, <1>2 DEF ClosedOnceFinal
  <2> DEFINE A == At(ticks, tf, b)
             C == For(closes[tf], b)
             N == Bucket(tf, Newest)
  <2>1. BucketHolds(bars[tf], closes[tf], ticks, tf, N, b)
    BY <1>4
  <2>2. b \in Int /\ N \in Int
    <3>1. Newest \in Nat /\ Times \subseteq Int
      BY <1>3, AggregatorAssumption DEF BarsInv, NewestHolds, Times
    <3> QED
      BY <3>1, BucketStarts
  <2>3. CASE A = {}
    <3>1. C = {}
      BY <2>1, <2>3 DEF BucketHolds
    <3> QED
      BY <2>3, <3>1
  <2>4. CASE A # {} /\ b < N
    <3>1. bars[tf][b] # NoBar /\ bars[tf][b].is_closed
      BY <2>1, <2>4 DEF BucketHolds
    <3>2. Accounted(bars[tf][b], closes[tf], C, Cardinality(A), b, N)
      BY <2>1, <3>1 DEF BucketHolds
    <3>3. \E i \in C : C = {i} /\ closes[tf][i].bar = bars[tf][b]
      BY <3>1, <3>2 DEF Accounted
    <3> QED
      BY <2>4, <3>3
  <2>5. CASE A # {} /\ ~(b < N)
    <3>1. bars[tf][b] # NoBar
      BY <2>1, <2>5 DEF BucketHolds
    <3>2. b = N
      BY <2>1, <2>2, <2>5, <3>1 DEF BucketHolds
    <3>3. ticks # <<>>
      BY <2>5 DEF At
    <3>4. C = {}
      BY <2>1, <3>2, <3>3 DEF BucketHolds
    <3> QED
      BY <2>5, <3>4
  <2> QED
    BY <2>3, <2>4, <2>5
<1>b. ASSUME NEW tf \in Timeframes, NEW b \in Times
      PROVE  LET C == For(closes[tf], b)
                 cl == closes[tf]
                 n == Cardinality(At(ticks, tf, b))
                 open == IF b \in Open(bars[tf]) THEN bars[tf][b].tick_count ELSE 0
             IN \/ C = {} /\ n = open
                \/ \E i \in C : C = {i} /\ n = cl[i].bar.tick_count + open
                \/ \E i, j \in C : /\ C = {i, j} /\ cl[i].bar = cl[j].bar
                                 /\ n = cl[i].bar.tick_count + open
  <2> DEFINE C == For(closes[tf], b)
             n == Cardinality(At(ticks, tf, b))
             open == IF b \in Open(bars[tf]) THEN bars[tf][b].tick_count ELSE 0
  <2>1. CASE bars[tf][b] = NoBar
    <3>1. At(ticks, tf, b) = {} /\ C = {}
      BY <1>4, <2>1 DEF BucketHolds
    <3>2. n = 0 /\ open = 0
      BY <2>1, <3>1, FS_EmptySet DEF Open
    <3> QED
      BY <3>1, <3>2
  <2>2. CASE bars[tf][b] # NoBar
    <3>1. Accounted(bars[tf][b], closes[tf], C, n, b, Bucket(tf, Newest))
      BY <1>4, <2>2 DEF BucketHolds
    <3>2. /\ bars[tf][b].is_closed => open = 0
          /\ ~bars[tf][b].is_closed => open = bars[tf][b].tick_count
      BY <2>2 DEF Open
    <3>3. bars[tf][b].tick_count \in Nat
      BY <2>2 DEF BarsInv, BarsTypeOK, BarState
    <3> HIDE DEF C, n, open
    <3>4. CASE ~bars[tf][b].is_closed /\ C = {} /\ bars[tf][b].tick_count = n
      BY <3>2, <3>4 DEF C, n, open
    <3>5. CASE /\ bars[tf][b].is_closed /\ bars[tf][b].tick_count = n
               /\ \E i \in C : C = {i} /\ closes[tf][i].bar = bars[tf][b]
      <4>1. PICK i \in C : C = {i} /\ closes[tf][i].bar = bars[tf][b]
        BY <3>5
      <4>2. n = closes[tf][i].bar.tick_count + open
        BY <3>2, <3>3, <3>5, <4>1
      <4> QED
        BY <4>1, <4>2 DEF C, n, open
    <3>6. CASE /\ ~bars[tf][b].is_closed
               /\ \E i, j \in C : /\ C = {i, j} /\ closes[tf][i].bar = closes[tf][j].bar
                                 /\ n = closes[tf][i].bar.tick_count + bars[tf][b].tick_count
      BY <3>2, <3>6 DEF C, n, open
    <3> QED
      BY <3>1, <3>4, <3>5, <3>6 DEF Accounted
  <2> QED
    BY <2>1, <2>2
<1>7. TicksConserved
  <2> SUFFICES ASSUME NEW tf \in Timeframes, NEW b \in Times
               PROVE  LET C == For(closes[tf], b)
                          n == Cardinality(At(ticks, tf, b))
                          open == IF b \in Open(bars[tf]) THEN bars[tf][b].tick_count ELSE 0
                      IN /\ C = {} => n = open
                         /\ \A i \in C : n = closes[tf][i].bar.tick_count + open
    BY <1>2 DEF TicksConserved
  <2> DEFINE C == For(closes[tf], b)
             n == Cardinality(At(ticks, tf, b))
             open == IF b \in Open(bars[tf]) THEN bars[tf][b].tick_count ELSE 0
  <2>1. \/ C = {} /\ n = open
        \/ \E i \in C : C = {i} /\ n = closes[tf][i].bar.tick_count + open
        \/ \E i, j \in C : /\ C = {i, j} /\ closes[tf][i].bar = closes[tf][j].bar
                         /\ n = closes[tf][i].bar.tick_count + open
    BY <1>b
  <2> HIDE DEF C, n, open
  <2>2. (C = {} => n = open) /\ \A i \in C : n = closes[tf][i].bar.tick_count + open
    BY <2>1
  <2> QED
    BY <2>2 DEF C, n, open
<1>8. RepeatsAreEqual
  <2> SUFFICES ASSUME NEW tf \in Timeframes, NEW b \in Times
               PROVE  LET C == For(closes[tf], b)
                      IN /\ Cardinality(C) <= 2
                         /\ \A i, j \in C : closes[tf][i].bar = closes[tf][j].bar
    BY <1>2 DEF RepeatsAreEqual
  <2> DEFINE C == For(closes[tf], b)
  <2>1. \/ C = {}
        \/ \E i \in C : C = {i}
        \/ \E i, j \in C : C = {i, j} /\ closes[tf][i].bar = closes[tf][j].bar
    BY <1>b
  <2> HIDE DEF C
  <2>2. Cardinality(C) <= 2
    <3>1. Cardinality({}) = 0 /\ \A i : Cardinality({i}) = 1
      BY FS_EmptySet, FS_Singleton
    <3>2. ASSUME NEW i \in C, NEW j \in C, C = {i, j}
          PROVE  Cardinality(C) <= 2
      <4>1. CASE i = j
        <5>1. C = {i}
          BY <3>2, <4>1
        <5>2. Cardinality(C) = 1
          BY <5>1, FS_Singleton, Zenon
        <5> QED
          BY <5>2
      <4>2. CASE i # j
        <5>1. C = {i} \cup {j} /\ j \notin {i} /\ IsFiniteSet({i})
          BY <3>2, <4>2, FS_Singleton
        <5>2. Cardinality(C) = Cardinality({i}) + 1
          BY <5>1, FS_AddElement
        <5> QED
          BY <3>1, <5>2
      <4> QED
        BY <4>1, <4>2
    <3> QED
      BY <2>1, <3>1, <3>2
  <2>3. \A i, j \in C : closes[tf][i].bar = closes[tf][j].bar
    BY <2>1
  <2> QED
    BY <2>2, <2>3 DEF C
<1> QED
  BY <1>5, <1>6, <1>7, <1>8

(* A bucket that is over was announced once, with the final bar, while     *)
(* ticks come in order; with late ticks every tick is accounted for and    *)
(* what is announced twice is the same (OHLCVAggregator.process_tick,      *)
(* _update_tf, _close_bar), for every set of timeframes, every stream and  *)
(* any lateness.                                                           *)
THEOREM AnnouncementsAlwaysSound ==
  BarsSpec => [](ClosedOnceFinal /\ TicksConserved /\ RepeatsAreEqual)
<1>1. BarsInv => ClosedOnceFinal /\ TicksConserved /\ RepeatsAreEqual
  BY BarsSoundFollows
<1> QED
  BY BarsInitHolds, BarsStep, <1>1, PTL DEF BarsSpec

(* Besides, while ticks come in order every bar is the one its bucket's    *)
(* ticks make, if no price is 0, which BarState.update takes for a high or *)
(* low that is not set yet.                                                *)
THEOREM BarsAlwaysSound == ASSUME 0 \notin Prices PROVE BarsSpec => []BarsSound
<1>1. BarsInv => BarsSound
  BY BarsSoundFollows DEF BarsSound
<1> QED
  BY BarsInitHolds, BarsStep, <1>1, PTL DEF BarsSpec

-----------------------------------------------------------------------------
(* What readers of the bars are told.                                      *)

(* The least element of a set of naturals, the greatest of a bounded one.  *)
LEMMA LeastExists ==
  ASSUME NEW T \in SUBSET Nat, T # {}
  PROVE  \E x \in T : \A y \in T : x <= y
<1> DEFINE R == OpToRel(<, Nat)
<1>1. \E x \in T : \A y \in T : ~ (<<y, x>> \in R)
  BY NatLessThanWellFounded, WFMin
<1>2. \A x, y \in Nat : <<y, x>> \in R <=> y < x
  BY DEF OpToRel
<1> HIDE DEF R
<1>3. PICK x \in T : \A y \in T : ~ (<<y, x>> \in R)
  BY <1>1
<1>4. \A y \in T : ~(y < x)
  BY <1>2, <1>3, Zenon
<1>5. \A y \in T : x <= y
  BY <1>4
<1> QED
  BY <1>5

LEMMA MinIsLeast ==
  ASSUME NEW T \in SUBSET Nat, T # {}
  PROVE  Min(T) \in T /\ \A y \in T : Min(T) <= y
<1>1. \E x \in T : \A y \in T : x <= y
  BY LeastExists
<1> QED
  BY <1>1, Zenon DEF Min

LEMMA GreatestExists ==
  ASSUME NEW n \in Nat, NEW T \in SUBSET (0..n), T # {}
  PROVE  \E x \in T : \A y \in T : y <= x
<1> DEFINE U == {d \in 0..n : n - d \in T}
<1>1. U \in SUBSET Nat /\ U # {}
  <2>1. PICK x \in T : TRUE
    OBVIOUS
  <2>2. n - x \in 0..n /\ n - (n - x) = x
    OBVIOUS
  <2>3. n - x \in U
    BY <2>2
  <2>4. \A d \in U : d \in Nat
    OBVIOUS
  <2> HIDE DEF U
  <2> QED
    BY <2>3, <2>4
<1>2. PICK d \in U : \A y \in U : d <= y
  BY <1>1, LeastExists
<1>3. n - d \in T /\ d \in 0..n
  BY <1>2
<1>4. \A y \in T : y <= n - d
  <2> TAKE y \in T
  <2>1. n - y \in U
    <3>1. n - y \in 0..n /\ n - (n - y) = y
      OBVIOUS
    <3> QED
      BY <3>1
  <2>2. d <= n - y /\ y \in Int
    BY <1>2, <2>1
  <2> QED
    BY <1>3, <2>2
<1> QED
  BY <1>3, <1>4

(* Multiples of s, in the order of their factors.                          *)
LEMMA ProductsOrdered ==
  ASSUME NEW s \in Nat, s > 0, NEW x \in Int, NEW y \in Int
  PROVE  x * s < y * s <=> x < y
<1>1. x < y => x * s < y * s
  BY Z3
<1>2. y <= x => y * s <= x * s
  BY ProductsGrow
<1> QED
  BY <1>1, <1>2

LEMMA ProductsAdd ==
  ASSUME NEW s \in Nat, s > 0, NEW x \in Int, NEW y \in Int
  PROVE  (x + y) * s = x * s + y * s /\ (x - y) * s = x * s - y * s
         /\ x * s \in Int
BY Z3

LEMMA ProductsDivide ==
  ASSUME NEW s \in Nat, s > 0, NEW x \in Int
  PROVE  (x * s) \div s = x
BY Z3

(* Bars begin at multiples of their timeframe.                             *)
LEMMA BarsAligned ==
  ASSUME BarsInv, NEW tf \in Timeframes, NEW x \in Closed(tf)
  PROVE  x \in Times /\ \E q \in Int : x = q * Seconds[tf]
<1>1. x \in Times /\ bars[tf][x] # NoBar
  BY DEF Closed, Existing
<1>2. At(ticks, tf, x) # {}
  BY <1>1 DEF BarsInv, TimeframeHolds, BucketHolds
<1>3. PICK i \in 1..Len(ticks) : Bucket(tf, ticks[i].time) = x
  BY <1>2 DEF At
<1>4. ticks[i].time \in Nat
  <2>1. ticks \in Seq(TickType)
    BY DEF BarsInv, BarsTypeOK, TickType
  <2>2. ticks[i] \in TickType
    BY <2>1
  <2> QED
    BY <2>2, AggregatorAssumption DEF TickType, Times
<1>5. ticks[i].time \div Seconds[tf] \in Int
  BY <1>4, AggregatorAssumption
<1> QED
  BY <1>1, <1>3, <1>5 DEF Bucket

(* The buckets of a window, as multiples of the timeframe, and a gap in it *)
(* between two multiples: it is no longer than what the window misses.     *)
Multiples(E, s, lo, hi) == \A e \in E : \E n \in lo..hi : e = n * s

LEMMA WindowIs ==
  ASSUME NEW s \in Nat, s > 0, NEW q \in Int, NEW L \in Nat \ {0}, NEW E,
         E = {q * s - i * s : i \in 0..(L - 1)}
  PROVE  /\ Multiples(E, s, q - (L - 1), q)
         /\ \A n \in (q - (L - 1))..q : n * s \in E
         /\ IsFiniteSet(E)
<1>1. ASSUME NEW i \in 0..(L - 1)
      PROVE  q * s - i * s = (q - i) * s /\ q - i \in (q - (L - 1))..q
  BY ProductsAdd
<1>2. \A e \in E : \E n \in (q - (L - 1))..q : e = n * s
  BY <1>1
<1>3. ASSUME NEW n \in (q - (L - 1))..q
      PROVE  n * s \in E
  <2>1. q - n \in 0..(L - 1) /\ q - (q - n) = n
    OBVIOUS
  <2>2. q * s - (q - n) * s = n * s
    BY <1>1, <2>1
  <2> QED
    BY <2>1, <2>2
<1>4. IsFiniteSet(E)
  <2> DEFINE I == (q - (L - 1))..q
             f == [n \in I |-> n * s]
  <2>1. IsFiniteSet(I)
    BY FS_Interval
  <2> HIDE DEF I
  <2>2. f \in Surjection(I, E)
    BY <1>2, <1>3 DEF Surjection, I
  <2> HIDE DEF f
  <2> QED
    BY <2>1, <2>2, FS_Surjection
<1> QED
  BY <1>2, <1>3, <1>4 DEF Multiples

LEMMA GapFits ==
  ASSUME NEW s \in Nat, s > 0, NEW q \in Int, NEW L \in Nat \ {0}, NEW E, NEW K,
         E = {q * s - i * s : i \in 0..(L - 1)},
         NEW m \in (q - (L - 1))..q, NEW k \in Int, m < k, k <= q,
         \A n \in (m + 1)..(k - 1) : n * s \notin K
  PROVE  k - m - 1 <= Cardinality(E \ K)
<1> DEFINE I == (m + 1)..(k - 1)
           T == E \ K
           f == [n \in I |-> n * s]
<1>1. IsFiniteSet(T)
  BY WindowIs, FS_Subset
<1>2. IsFiniteSet(I) /\ Cardinality(I) = k - m - 1
  <2>1. m + 1 \in Int /\ k - 1 \in Int
    OBVIOUS
  <2>2. Cardinality(I) = IF m + 1 > k - 1 THEN 0 ELSE (k - 1) - (m + 1) + 1
    BY <2>1, FS_Interval
  <2>3. Cardinality(I) = k - m - 1
    BY <2>2
  <2> QED
    BY <2>1, <2>3, FS_Interval
<1>3. \A n \in I : n * s \in T
  <2> TAKE n \in I
  <2>1. n \in (q - (L - 1))..q
    OBVIOUS
  <2>2. n * s \in E
    BY <2>1, WindowIs
  <2> QED
    BY <2>2
<1>4. \A n, o \in I : n * s = o * s => n = o
  <2> TAKE n, o \in I
  <2>1. n \in Int /\ o \in Int /\ n * s \in Int /\ o * s \in Int
    BY ProductsAdd
  <2> QED
    BY <2>1, ProductsOrdered
<1> HIDE DEF I, T
<1>5. f \in Injection(I, T)
  BY <1>3, <1>4 DEF Injection, IsInjective
<1> HIDE DEF f
<1>6. Cardinality(I) <= Cardinality(T)
  BY <1>1, <1>5, FS_Injection
<1> QED
  BY <1>2, <1>6 DEF T

(* What fill_gaps does between two closed bars that have none in between.  *)
LEMMA GapIsFilled ==
  ASSUME BarsInv, NEW tf \in Timeframes,
         NEW m \in Int, NEW k \in Int, NEW n \in Int, m < n, n < k,
         m * Seconds[tf] \in Closed(tf), k * Seconds[tf] \in Closed(tf),
         \A j \in (m + 1)..(k - 1) : j * Seconds[tf] \notin Closed(tf),
         k - m - 1 <= MaxInterpolation
  PROVE  n * Seconds[tf] \in Filled(tf)
<1> DEFINE s == Seconds[tf]
           K == Closed(tf)
           x == m * s
           c == k * s
           H == {y \in K : y > x}
<1>1. s \in Nat /\ s > 0 /\ MaxInterpolation \in Nat
  BY AggregatorAssumption, MarketAssumption
<1>2. \A y \in K : y \in Nat /\ \E o \in Int : y = o * s
  BY BarsAligned, AggregatorAssumption DEF Times
<1> HIDE DEF s, K
<1>3. x \in Int /\ c \in Int /\ x < c /\ x \in K /\ c \in K
  <2>1. m < k
    OBVIOUS
  <2> QED
    BY <1>1, <2>1, ProductsAdd, ProductsOrdered DEF s, K
<1>4. c \in H /\ \A y \in H : c <= y
  <2>1. ASSUME NEW y \in H
        PROVE  c <= y
    <3>1. PICK o \in Int : y = o * s
      BY <1>2
    <3>2. m < o
      BY <1>1, <1>3, <3>1, ProductsOrdered
    <3>3. ~(o < k)
      <4>1. o < k => o \in (m + 1)..(k - 1)
        BY <3>2
      <4> QED
        BY <3>1, <4>1 DEF s, K
    <3>4. ~(o * s < k * s)
      BY <1>1, <3>3, ProductsOrdered
    <3> QED
      BY <1>2, <1>3, <3>1, <3>4
  <2> QED
    BY <1>3, <2>1
<1>5. Min(H) = c
  <2>1. H \in SUBSET Nat /\ H # {}
    BY <1>2, <1>4
  <2>2. Min(H) \in H /\ \A y \in H : Min(H) <= y
    BY <2>1, MinIsLeast
  <2>3. Min(H) \in Nat /\ Min(H) <= c /\ c <= Min(H)
    BY <1>4, <2>1, <2>2
  <2> QED
    BY <1>3, <2>3
<1>6. MissingBetween(tf, x, c) = k - m - 1
  <2>1. c - (x + s) = (k - (m + 1)) * s
    <3>1. (m + 1) * s = x + 1 * s /\ 1 * s = s
      BY <1>1, ProductsAdd
    <3>2. (k - (m + 1)) * s = c - (m + 1) * s
      BY <1>1, ProductsAdd
    <3> HIDE DEF x, c
    <3> QED
      BY <1>1, <1>3, <3>1, <3>2
  <2>2. ((k - (m + 1)) * s) \div s = k - (m + 1)
    BY <1>1, ProductsDivide
  <2>3. MissingBetween(tf, x, c) = (c - (x + s)) \div s
    BY DEF MissingBetween, s
  <2> HIDE DEF x, c
  <2> QED
    BY <2>1, <2>2, <2>3
<1>7. n * s = x + (n - m) * s /\ n - m \in 1..(k - m - 1)
  <2>1. (n - m) * s = n * s - m * s /\ n * s \in Int
    BY <1>1, ProductsAdd
  <2> QED
    BY <1>3, <2>1
<1> DEFINE After(b) == Min({y \in Closed(tf) : y > b})
           From == {y \in Closed(tf) : /\ \E z \in Closed(tf) : z > y
                                       /\ MissingBetween(tf, y, After(y)) <= MaxInterpolation}
           Fill(b) == {b + j * Seconds[tf] : j \in 1..MissingBetween(tf, b, After(b))}
<1>8. After(x) = c
  BY <1>5 DEF K
<1> HIDE DEF After
<1>9. x \in From
  BY <1>3, <1>6, <1>8 DEF K
<1>10. n * s \in Fill(x)
  BY <1>6, <1>7, <1>8 DEF s
<1> HIDE DEF From, Fill
<1>11. n * s \in UNION {Fill(b) : b \in From}
  BY <1>9, <1>10
<1> QED
  BY <1>11 DEF Filled, From, Fill, After, s

(* What the detector misses bounds every gap of a window that begins with  *)
(* a bar and has none after it.                                            *)
LEMMA FilledCovers ==
  ASSUME BarsInv, NEW tf \in Timeframes, NEW t \in Times,
         Cardinality(Expected(tf, t) \ Closed(tf)) <= MaxInterpolation,
         Min(Expected(tf, t)) \in Closed(tf),
         \A c \in Closed(tf) : c <= Bucket(tf, t),
         NEW b \in Expected(tf, t), NEW c0 \in Closed(tf), b <= c0
  PROVE  b \in Filled(tf)
<1> DEFINE s == Seconds[tf]
           q == t \div s
           K == Closed(tf)
           E == Expected(tf, t)
           lo == q - (Lookback - 1)
<1>1. /\ s \in Nat /\ s > 0 /\ q \in Int /\ Bucket(tf, t) = q * s
      /\ Lookback \in Nat \ {0} /\ MaxInterpolation \in Nat
  BY AggregatorAssumption, MarketAssumption DEF Bucket, Times
<1>2. E = {q * s - i * s : i \in 0..(Lookback - 1)}
  BY DEF Expected, Bucket
<1>3. \A y \in K : y \in 0..MaxTime /\ y \in Int /\ \E o \in Int : y = o * s
  BY BarsAligned, AggregatorAssumption DEF Times
<1>4. b \in K => b \in Filled(tf)
  BY DEF Filled
<1> HIDE DEF s, q, K, E
<1>5. /\ \A e \in E : \E n \in lo..q : e = n * s
      /\ \A n \in lo..q : n * s \in E
      /\ IsFiniteSet(E)
  <2>1. Multiples(E, s, lo, q)
    BY ONLY <1>1, <1>2, WindowIs
  <2>2. \A n \in lo..q : n * s \in E
    BY ONLY <1>1, <1>2, WindowIs
  <2>3. IsFiniteSet(E)
    BY ONLY <1>1, <1>2, WindowIs
  <2> QED
    BY <2>1, <2>2, <2>3 DEF Multiples
<1>6. PICK n \in lo..q : b = n * s
  BY <1>5 DEF E
<1>7. lo \in Int /\ lo * s \in K /\ lo <= n /\ lo <= q
  <2>1. lo \in Int /\ lo <= q
    BY <1>1
  <2>2. lo * s \in E /\ \A e \in E : lo * s <= e
    <3>1. ASSUME NEW e \in E
          PROVE  lo * s <= e
      <4>1. PICK o \in lo..q : e = o * s
        BY <1>5
      <4> HIDE DEF lo
      <4> QED
        BY <1>1, <2>1, <4>1, ProductsGrow
    <3>2. lo \in lo..q
      BY <1>1, <2>1
    <3> QED
      BY <1>5, <3>1, <3>2
  <2>3. Min(E) = lo * s
    <3>1. \A e \in E : e \in Int
      BY <1>1, <1>5, ProductsAdd
    <3>2. \A e \in E : (\A y \in E : e <= y) => e = lo * s
      <4> HIDE DEF lo
      <4> TAKE e \in E
      <4> HAVE \A y \in E : e <= y
      <4>1. e <= lo * s /\ lo * s <= e /\ e \in Int /\ lo * s \in Int
        BY <2>2, <3>1
      <4> QED
        BY <4>1
    <3> HIDE DEF lo
    <3> QED
      BY <2>2, <3>2, Zenon DEF Min
  <2> QED
    BY <1>1, <1>6, <2>1, <2>3 DEF E, K
<1> SUFFICES ASSUME b \notin K PROVE b \in Filled(tf)
  BY <1>4
<1> HIDE DEF lo
<1>8. b \in Int /\ n \in Int
  BY <1>1, <1>6, <1>7, ProductsAdd
(* The last closed bar before b and the first one after it.                *)
<1>9. PICK x \in {y \in K : y < b} : \A y \in {z \in K : z < b} : y <= x
  <2> DEFINE S == {y \in K : y < b}
  <2>1. S \in SUBSET (0..MaxTime) /\ MaxTime \in Nat
    BY <1>3, AggregatorAssumption
  <2>2. lo * s \in S
    <3>1. lo * s <= b /\ lo * s \in Int
      BY <1>1, <1>6, <1>7, ProductsGrow
    <3>2. lo * s # b
      BY <1>7
    <3> QED
      BY <1>7, <1>8, <3>1, <3>2
  <2> HIDE DEF S
  <2>3. \E y \in S : \A z \in S : z <= y
    BY <2>1, <2>2, GreatestExists
  <2> QED
    BY <2>3 DEF S
<1>10. PICK c \in {y \in K : b < y} : \A y \in {z \in K : b < z} : c <= y
  <2> DEFINE S == {y \in K : b < y}
  <2>1. S \in SUBSET Nat
    BY <1>3
  <2>2. c0 \in S
    <3>1. c0 # b /\ c0 \in Int /\ c0 \in K
      BY <1>3 DEF K
    <3> QED
      BY <1>8, <3>1
  <2> HIDE DEF S
  <2>3. \E y \in S : \A z \in S : y <= z
    BY <2>1, <2>2, LeastExists
  <2> QED
    BY <2>3 DEF S
<1>11. PICK m \in Int, k \in Int : x = m * s /\ c = k * s
  BY <1>3, <1>9, <1>10
<1>12. m < n /\ n < k
  BY <1>1, <1>6, <1>8, <1>9, <1>10, <1>11, ProductsOrdered
<1>13. lo <= m
  <2>1. lo * s <= x
    <3>1. lo * s <= b /\ lo * s \in Int
      BY <1>1, <1>6, <1>7, ProductsGrow
    <3>2. lo * s < b
      <4>1. lo * s # b
        BY <1>7
      <4> QED
        BY <1>8, <3>1, <4>1
    <3> QED
      BY <1>7, <1>9, <3>2
  <2>2. ~(m * s < lo * s)
    BY <1>1, <1>7, <1>11, <2>1, ProductsAdd
  <2> QED
    BY <1>1, <1>7, <1>11, <2>2, ProductsOrdered
<1>14. k <= q
  <2>1. k * s <= q * s
    BY <1>1, <1>10, <1>11 DEF K
  <2>2. k * s \in Int /\ q * s \in Int
    BY <1>1, <1>11, ProductsAdd
  <2>3. ~(q * s < k * s)
    BY <2>1, <2>2
  <2> QED
    BY <1>1, <1>11, <2>3, ProductsOrdered
<1>15. \A j \in (m + 1)..(k - 1) : j * s \notin K
  <2> TAKE j \in (m + 1)..(k - 1)
  <2>1. j \in Int /\ m < j /\ j < k
    BY <1>11
  <2>2. x < j * s /\ j * s < c /\ j * s \in Int
    BY <1>1, <1>11, <2>1, ProductsOrdered, ProductsAdd
  <2>3. x \in Int /\ c \in Int
    BY <1>3, <1>9, <1>10
  <2>4. CASE j * s < b
    <3>1. ~(j * s <= x)
      BY <2>2, <2>3
    <3> QED
      BY <1>9, <2>4, <3>1
  <2>5. CASE b < j * s
    <3>1. ~(c <= j * s)
      BY <2>2, <2>3
    <3> QED
      BY <1>10, <2>5, <3>1
  <2>6. j * s = b \/ j * s < b \/ b < j * s
    BY <1>8, <2>2
  <2> QED
    BY <2>4, <2>5, <2>6
<1>16. k - m - 1 <= MaxInterpolation
  <2>1. m \in lo..q /\ m < k
    BY <1>1, <1>7, <1>8, <1>11, <1>12, <1>13, <1>14
  <2>2. k - m - 1 <= Cardinality(E \ K)
    BY <1>1, <1>2, <1>11, <1>14, <1>15, <2>1, GapFits DEF lo
  <2>3. Cardinality(E \ K) \in Nat
    BY <1>5, FS_Subset, FS_CardinalityType
  <2> QED
    BY <1>1, <1>11, <2>2, <2>3 DEF E, K
<1>17. x \in K /\ c \in K
  BY <1>9, <1>10
<1> QED
  BY <1>6, <1>8, <1>11, <1>12, <1>15, <1>16, <1>17, GapIsFilled DEF s, K

(* With ticks in order, of the buckets that have a bar up to the newest    *)
(* one only that one is open.                                              *)
LEMMA OpenIsMissing ==
  ASSUME BarsInv, NEW tf \in Timeframes, NEW t \in Times, InOrder,
         Expected(tf, t) \subseteq Existing(tf), Bucket(tf, Newest) = Bucket(tf, t)
  PROVE  Cardinality(Expected(tf, t) \ Closed(tf)) = 1
<1> DEFINE B == Bucket(tf, t)
<1>1. Ordered(ticks) /\ Bucket(tf, NewestOf(ticks)) = B
  BY DEF InOrder, Ordered, Newest, NewestOf
<1>2. \A b \in Times : BucketHolds(bars[tf], closes[tf], ticks, tf, B, b)
  BY <1>1 DEF BarsInv, TimeframeHolds
<1>3. B \in Expected(tf, t)
  <2>1. 0 \in 0..(Lookback - 1) /\ Seconds[tf] \in Nat /\ B \in Nat
    BY MarketAssumption, AggregatorAssumption, BucketStarts DEF Times
  <2>2. B = B - 0 * Seconds[tf]
    BY <2>1
  <2> QED
    BY <2>1, <2>2 DEF Expected
<1>4. \A b \in Expected(tf, t) : b \in Times /\ bars[tf][b] # NoBar
  BY DEF Existing
<1>5. ~bars[tf][B].is_closed
  <2>1. At(ticks, tf, B) # {}
    BY <1>2, <1>3, <1>4 DEF BucketHolds
  <2>2. ticks # <<>>
    BY <2>1 DEF At
  <2> QED
    BY <1>2, <1>3, <1>4, <2>2 DEF BucketHolds
<1>6. ASSUME NEW b \in Expected(tf, t), b # B
      PROVE  bars[tf][b].is_closed
  <2>1. b \in Int /\ B \in Int
    BY <1>3, <1>4, AggregatorAssumption DEF Times
  <2>2. b < B
    BY <1>2, <1>4, <1>6, <2>1 DEF BucketHolds
  <2> QED
    BY <1>1, <1>2, <1>4, <2>2 DEF BucketHolds
<1>7. Expected(tf, t) \ Closed(tf) = {B}
  BY <1>3, <1>4, <1>5, <1>6 DEF Closed, Existing
<1> HIDE DEF B
<1> QED
  BY <1>7, FS_Singleton

(* The answers are about the moment they were given at; nothing else is    *)
(* remembered from one action to the next.                                 *)
MarketInv == BarsInv /\ MarketSound

LEMMA NothingTold ==
  ASSUME usv' = NoAnswer, report' = NoAnswer
  PROVE  MarketSound'
BY DEF MarketSound, NoPeeking, WindowsFilled, OnlyOpenMissing

LEMMA SnapshotIsBlind == ASSUME NEW t \in Times, BuildUSV(t) PROVE MarketSound'
<1> DEFINE known == {tf \in Timeframes : Existing(tf) # {}}
<1>1. /\ usv' = [time |-> t, bars |-> [tf \in known |-> Guarded(tf, t)],
                 lockedBefore |-> lockOf]
      /\ report' = NoAnswer
  BY DEF BuildUSV
<1>2. ASSUME NEW tf \in known, Bucket(tf, t) = lockOf[tf]
      PROVE  Guarded(tf, t).close = 0
  <2>1. t \in Nat
    BY AggregatorAssumption DEF Times
  <2>2. Bucket(tf, t) \in Nat /\ t < Bucket(tf, t) + Seconds[tf]
    BY <2>1, BucketStarts
  <2>3. StillLocked(tf, t)
    BY <1>2, <2>2 DEF StillLocked
  <2> QED
    BY <2>3 DEF Guarded
<1> HIDE DEF known
<1>3. NoPeeking'
  BY <1>1, <1>2 DEF NoPeeking
<1> QED
  BY <1>1, <1>3 DEF MarketSound, WindowsFilled, OnlyOpenMissing

LEMMA ReportIsTrue ==
  ASSUME BarsInv, NEW tf \in Timeframes, NEW t \in Times, CheckDesync(tf, t)
  PROVE  MarketSound'
<1> DEFINE missing == Cardinality(Expected(tf, t) \ Closed(tf))
<1>1. /\ report' = [timeframe |-> tf, time |-> t, missing |-> missing,
                    severity |-> Severity(missing), reliability |-> Reliability(missing),
                    filled |-> Filled(tf)]
      /\ usv' = NoAnswer /\ bars' = bars /\ ticks' = ticks
  BY DEF CheckDesync, barVars
<1>2. Closed(tf)' = Closed(tf) /\ Existing(tf)' = Existing(tf) /\ InOrder' = InOrder
      /\ Newest' = Newest
  BY <1>1 DEF Closed, Existing, InOrder, Newest
<1>3. Reliability(missing) # "UNRELIABLE" => missing <= MaxInterpolation
  <2>1. Moderate \in Int /\ MaxInterpolation \in Int /\ Moderate <= MaxInterpolation
    BY MarketAssumption
  <2>2. missing \in Nat
    <3>1. IsFiniteSet(Expected(tf, t))
      <4> DEFINE q == t \div Seconds[tf]
      <4>1. /\ q \in Int /\ Seconds[tf] \in Nat /\ Seconds[tf] > 0
            /\ Lookback \in Nat \ {0}
        BY AggregatorAssumption, MarketAssumption DEF Times
      <4>2. Expected(tf, t) = {q * Seconds[tf] - i * Seconds[tf] : i \in 0..(Lookback - 1)}
        BY DEF Expected, Bucket
      <4> HIDE DEF q
      <4> QED
        BY ONLY <4>1, <4>2, WindowIs
    <3> QED
      BY <3>1, FS_Subset, FS_CardinalityType
  <2>3. CASE missing <= Moderate
    BY <2>1, <2>2, <2>3
  <2>4. CASE missing \in (Moderate + 1)..MaxInterpolation
    BY <2>1, <2>4
  <2> HIDE DEF missing
  <2> QED
    BY <2>3, <2>4 DEF Reliability
<1> HIDE DEF missing
<1>4. WindowsFilled'
  <2> SUFFICES ASSUME Reliability(missing) # "UNRELIABLE",
                      Min(Expected(tf, t)) \in Closed(tf),
                      \A c \in Closed(tf) : c <= Bucket(tf, t),
                      NEW b \in Expected(tf, t), NEW c \in Closed(tf), b <= c
               PROVE  b \in Filled(tf)
    BY <1>1, <1>2 DEF WindowsFilled
  <2> QED
    BY <1>3, FilledCovers DEF missing
<1>5. OnlyOpenMissing'
  <2> SUFFICES ASSUME InOrder, Expected(tf, t) \subseteq Existing(tf),
                      Bucket(tf, Newest) = Bucket(tf, t)
               PROVE  missing = 1
    BY <1>1, <1>2 DEF OnlyOpenMissing
  <2> QED
    BY OpenIsMissing DEF missing
<1>6. NoPeeking'
  BY <1>1 DEF NoPeeking
<1> QED
  BY <1>4, <1>5, <1>6 DEF MarketSound

LEMMA MarketStep == MarketInv /\ [MarketNext]_marketVars => MarketInv'
<1> SUFFICES ASSUME MarketInv, [MarketNext]_marketVars PROVE MarketInv'
  OBVIOUS
<1>1. BarsInv'
  <2>1. [BarsNext]_barVars
    BY DEF MarketNext, marketVars, MarketTick, LockTF, UnlockAll, BuildUSV, CheckDesync,
           BarsNext, barVars
  <2> QED
    BY <2>1, BarsStep DEF MarketInv
<1>2. MarketSound'
  <2>1. ASSUME NEW t \in Times, NEW p \in Prices, MarketTick(t, p)
        PROVE  MarketSound'
    BY <2>1, NothingTold DEF MarketTick
  <2>2. ASSUME NEW tf \in Timeframes, NEW b \in Existing(tf), LockTF(tf, b)
        PROVE  MarketSound'
    BY <2>2, NothingTold DEF LockTF
  <2>3. CASE UnlockAll
    BY <2>3, NothingTold DEF UnlockAll
  <2>4. ASSUME NEW t \in Times, BuildUSV(t)
        PROVE  MarketSound'
    BY <2>4, SnapshotIsBlind
  <2>5. ASSUME NEW tf \in Timeframes, NEW t \in Times, CheckDesync(tf, t)
        PROVE  MarketSound'
    BY <2>5, ReportIsTrue DEF MarketInv
  <2>6. CASE UNCHANGED marketVars
    BY <2>6 DEF marketVars, barVars, MarketInv, MarketSound, NoPeeking, WindowsFilled,
                OnlyOpenMissing, Closed, Existing, InOrder, Newest
  <2> QED
    BY <2>1, <2>2, <2>3, <2>4, <2>5, <2>6 DEF MarketNext
<1> QED
  BY <1>1, <1>2 DEF MarketInv

(* No snapshot shows how a locked bucket closes (LeakageGuard.apply_guard, *)
(* MTFSynchronizer.build_usv); no hole is left in a window that is not     *)
(* called unreliable, and of a full window only the open bar is missed     *)
(* (TimeframeDesyncDetector.check_desync, fill_gaps): for every set of     *)
(* timeframes, stream of ticks, lookback and thresholds, whatever is       *)
(* locked and asked between two ticks.                                     *)
THEOREM MarketAlwaysSound == MarketSpec => []MarketSound
<1>1. MarketInit => MarketInv
  BY BarsInitHolds
     DEF MarketInit, MarketInv, MarketSound, NoPeeking, WindowsFilled, OnlyOpenMissing
<1>2. MarketInv => MarketSound
  BY DEF MarketInv
<1> QED
  BY MarketStep, <1>1, <1>2, PTL DEF MarketSpec
=============================================================================
