------------------------------- MODULE TickQueue -------------------------------
(***************************************************************************)
(* core/ingestion/itq_queue.py: IncomingTickQueue, the bounded queue       *)
(* between the tick receivers and the aggregation, which sheds load by     *)
(* dropping the oldest tick when full and by skipping all but one of K     *)
(* ticks on dequeue, K depending on the depth.                             *)
(*                                                                         *)
(* A tick is its `sequence` number.  What the consumer received and what   *)
(* was thrown away are kept as history.                                    *)
(***************************************************************************)
EXTENDS Integers, Sequences, FiniteSets, SequencesExt, FiniteSetsExt

CONSTANTS
  MaxSize,    \* max_size (10000)
  Threshold,  \* sample_threshold (8000)
  DynamicK,   \* k_dynamic
  MaxK,       \* max_k (10)
  KPeriod,    \* K is recomputed every KPeriod-th enqueue (100)
  MaxTicks    \* bound: number of ticks enqueued in a behaviour

ASSUME QueueAssumption ==
  /\ MaxSize \in Nat \ {0} /\ Threshold \in Nat
  /\ MaxK \in Nat \ {0} /\ KPeriod \in Nat \ {0} /\ MaxTicks \in Nat
  /\ DynamicK \in BOOLEAN

VARIABLES
  queue,         \* _queue: sequence numbers, oldest first
  sequence,      \* _sequence
  totalEnqueued, \* _total_enqueued
  totalDequeued, \* _total_dequeued
  totalSampled,  \* _total_sampled
  isOverflow,    \* _is_overflow
  currentK,      \* _current_k
  delivered,     \* history: ticks returned to the consumer
  lost           \* history: ticks dropped or skipped

counters == <<totalEnqueued, totalDequeued, totalSampled>>
mode == <<isOverflow, currentK>>
vars == <<queue, sequence, counters, mode, delivered, lost>>

Init ==
  /\ queue = <<>> /\ sequence = 0
  /\ totalEnqueued = 0 /\ totalDequeued = 0 /\ totalSampled = 0
  /\ isOverflow = FALSE /\ currentK = 1
  /\ delivered = {} /\ lost = {}

(* _update_k: K for a queue of the given depth.                            *)
KForDepth(depth) ==
  IF depth >= MaxSize THEN MaxK
  ELSE IF depth >= Threshold
       THEN Max({1, 1 + ((depth - Threshold) * (MaxK - 1))
                          \div Max({MaxSize - Threshold, 1})})
       ELSE 1
OverflowAtDepth(depth) == depth >= MaxSize \/ depth >= Threshold

(* Mutant: a full queue drops its newest tick.                             *)
EnqueueInto(kept, gone) ==
  /\ totalEnqueued < MaxTicks
  /\ totalEnqueued' = totalEnqueued + 1
  /\ queue' = Append(kept, sequence)
  /\ sequence' = sequence + 1
  /\ lost' = lost \cup gone
  /\ totalSampled' = totalSampled + Cardinality(gone)
  /\ UNCHANGED <<totalDequeued, delivered, mode>>
EnqueueDropsNewest ==
  IF Len(queue) >= MaxSize THEN EnqueueInto(Front(queue), {Last(queue)})
                           ELSE EnqueueInto(queue, {})

(* enqueue: a full queue drops its oldest tick first.                      *)
Enqueue ==
  LET full == Len(queue) >= MaxSize
      kept == IF full THEN Tail(queue) ELSE queue
  IN
  /\ totalEnqueued < MaxTicks
  /\ totalEnqueued' = totalEnqueued + 1
  /\ queue' = Append(kept, sequence)
  /\ sequence' = sequence + 1
  /\ totalSampled' = totalSampled + (IF full THEN 1 ELSE 0)
  /\ lost' = IF full THEN lost \cup {Head(queue)} ELSE lost
  /\ IF DynamicK /\ totalEnqueued' % KPeriod = 0
     THEN /\ currentK' = KForDepth(Len(queue'))
          /\ isOverflow' = OverflowAtDepth(Len(queue'))
     ELSE UNCHANGED mode
  /\ UNCHANGED <<totalDequeued, delivered>>

(* Mutant: the newest tick is returned.                                    *)
DequeueNewest ==
  /\ queue # <<>>
  /\ queue' = Front(queue)
  /\ totalDequeued' = totalDequeued + 1
  /\ delivered' = delivered \cup {Last(queue)}
  /\ UNCHANGED <<sequence, totalEnqueued, totalSampled, mode, lost>>

(* dequeue: the oldest tick is returned, or, when K > 1, skipped (the      *)
(* random draw is a choice here); K itself is not recomputed.              *)
Dequeue ==
  /\ queue # <<>>
  /\ queue' = Tail(queue)
  /\ \/ /\ totalDequeued' = totalDequeued + 1
        /\ delivered' = delivered \cup {Head(queue)}
        /\ UNCHANGED <<totalSampled, lost>>
     \/ /\ currentK > 1
        /\ totalSampled' = totalSampled + 1
        /\ lost' = lost \cup {Head(queue)}
        /\ UNCHANGED <<totalDequeued, delivered>>
  /\ UNCHANGED <<sequence, totalEnqueued, mode>>

(* dequeue_all: dequeue until the queue is empty; any subset may come out  *)
(* when K > 1.                                                             *)
DequeueAll ==
  /\ queue # <<>>
  /\ \E out \in SUBSET ToSet(queue) :
       /\ currentK > 1 \/ out = ToSet(queue)
       /\ delivered' = delivered \cup out
       /\ lost' = lost \cup (ToSet(queue) \ out)
       /\ totalDequeued' = totalDequeued + Cardinality(out)
       /\ totalSampled' = totalSampled + Cardinality(ToSet(queue) \ out)
  /\ queue' = <<>>
  /\ UNCHANGED <<sequence, totalEnqueued, mode>>

(* Mutant: the queue is cleared and nothing is returned.                   *)
FlushDiscards ==
  /\ queue' = <<>>
  /\ totalDequeued' = totalDequeued + Len(queue)
  /\ UNCHANGED <<sequence, totalEnqueued, totalSampled, mode, delivered, lost>>

(* flush: everything is returned, whatever K is.                           *)
Flush ==
  /\ queue' = <<>>
  /\ totalDequeued' = totalDequeued + Len(queue)
  /\ delivered' = delivered \cup ToSet(queue)
  /\ UNCHANGED <<sequence, totalEnqueued, totalSampled, mode, lost>>

Next == Enqueue \/ Dequeue \/ DequeueAll \/ Flush

Spec == Init /\ [][Next]_vars

-----------------------------------------------------------------------------
(* Types of every variable.                                                *)
TypeOK ==
  /\ queue \in Seq(Nat) /\ sequence \in Nat
  /\ totalEnqueued \in Nat /\ totalDequeued \in Nat /\ totalSampled \in Nat
  /\ isOverflow \in BOOLEAN /\ currentK \in 1..MaxK
  /\ delivered \subseteq Nat /\ lost \subseteq Nat

(* stats: every tick ever enqueued is delivered, counted as sampled out,   *)
(* or still in the queue, which never outgrows max_size.                   *)
TicksAccounted ==
  /\ totalEnqueued = totalDequeued + totalSampled + Len(queue)
  /\ Len(queue) <= MaxSize

(* The queue holds the most recent ticks, without a gap: load is shed only *)
(* at the old end, so the consumer never sees an older price after a newer *)
(* one was thrown away.  (The docstring of enqueue has it the other way    *)
(* round: see FullQueueRefuses.)                                           *)
QueueIsWindow ==
  \A i \in 1..Len(queue) : queue[i] = sequence - Len(queue) + i - 1

(* Ticks reach the consumer in the order of their arrival, none twice.     *)
DeliveredInOrder ==
  [][\A new \in delivered' \ delivered, old \in delivered : old < new]_vars

(* Not so in the code.  The docstring of enqueue: a tick is dropped, and   *)
(* False returned, when the queue is full.                                 *)
FullQueueRefuses ==
  [][sequence' > sequence /\ Len(queue) = MaxSize => sequence \in lost']_vars

(* No tick is both thrown away and delivered, and no other tick is gone.   *)
NothingVanishes ==
  /\ delivered \cap lost = {}
  /\ 0..(sequence - 1) = delivered \cup lost \cup ToSet(queue)
=============================================================================
