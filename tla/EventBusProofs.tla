----------------------------- MODULE EventBusProofs -----------------------------
(***************************************************************************)
(* Proofs about EventBus for every set of types, handlers and once()       *)
(* wrappers, and every interleaving of publishers, handlers and shutdowns. *)
(***************************************************************************)
EXTENDS EventBus, SequenceTheorems, FiniteSetTheorems, WellFoundedInduction, TLAPS

(* A set of natural numbers that is not empty has a least element.         *)
LEMMA LeastNatural ==
  ASSUME NEW T, T \subseteq Nat, T # {}
  PROVE  \E x \in T : \A y \in T : x <= y
<1> DEFINE R == OpToRel(<, Nat)
<1>1. \E x \in T : \A y \in T : ~ (<<y, x>> \in R)
  BY NatLessThanWellFounded, WFMin
<1>2. \A x, y \in Nat : <<y, x>> \in R <=> y < x
  BY DEF OpToRel
<1> HIDE DEF R
<1>3. PICK x \in T : \A y \in T : ~ (<<y, x>> \in R)
  BY <1>1
<1>4. ASSUME NEW y \in T PROVE x <= y
  <2>1. ~ (<<y, x>> \in R)
    BY <1>3
  <2>2. ~ (y < x)
    BY <1>2, <2>1, Zenon
  <2> QED
    BY <2>2
<1> QED
  BY <1>4

(* The elements of a sequence are its values at 1..Len.                    *)
LEMMA Elements ==
  ASSUME NEW S, NEW s \in Seq(S)
  PROVE  /\ ToSet(s) = {s[i] : i \in 1..Len(s)}
         /\ \A i \in 1..Len(s) : s[i] \in S
         /\ Len(s) \in Nat
<1>1. DOMAIN s = 1..Len(s)
  BY SMT
<1> QED
  BY <1>1 DEF ToSet

(* list.remove finds a first occurrence, and leaves a list.                *)
LEMMA WithoutType ==
  ASSUME NEW S, NEW list \in Seq(S), NEW x
  PROVE  Without(list, x) \in Seq(S)
<1>1. CASE x \notin ToSet(list)
  BY <1>1 DEF Without
<1>2. CASE x \in ToSet(list)
  <2> DEFINE first(i) == list[i] = x /\ \A j \in 1..i - 1 : list[j] # x
             where == {i \in 1..Len(list) : list[i] = x}
             c == CHOOSE i \in 1..Len(list) : first(i)
  <2>1. where # {} /\ where \subseteq Nat
    BY <1>2, Elements
  <2>2. PICK i \in where : \A k \in where : i <= k
    BY <2>1, LeastNatural
  <2>3. first(i) /\ i \in 1..Len(list)
    <3>1. \A j \in 1..i - 1 : j \in 1..Len(list) /\ ~(i <= j)
      BY <2>2
    <3> QED
      BY <2>2, <3>1
  <2>4. c \in 1..Len(list)
    BY <2>3
  <2> HIDE DEF c
  <2>5. SubSeq(list, 1, c - 1) \in Seq(S) /\ SubSeq(list, c + 1, Len(list)) \in Seq(S)
    BY <2>4, SMT
  <2>6. SubSeq(list, 1, c - 1) \o SubSeq(list, c + 1, Len(list)) \in Seq(S)
    BY <2>5, ConcatProperties
  <2>7. Without(list, x) = RemoveAt(list, c)
    BY <1>2 DEF Without, c
  <2> QED
    BY <2>6, <2>7 DEF RemoveAt
<1> QED
  BY <1>1, <1>2

(* publish() makes one delivery for each entry of the list, numbered on    *)
(* from the last.                                                          *)
LEMMA DeliveriesMade ==
  ASSUME BusTypeOK, NEW t \in Types, NEW e \in Events
  PROVE  /\ Deliveries(t, e) \in Seq(Task)
         /\ Len(Deliveries(t, e)) = Len(handlers[t]) /\ Len(handlers[t]) \in Nat
         /\ \A i \in 1..Len(handlers[t]) :
              /\ Deliveries(t, e)[i] = [n |-> created + i, entry |-> handlers[t][i],
                                        type |-> t, event |-> e]
              /\ handlers[t][i] \in ToSet(handlers[t])
<1>1. handlers[t] \in Seq(Entries) /\ created \in Nat
  BY DEF BusTypeOK
<1>2. /\ ToSet(handlers[t]) = {handlers[t][i] : i \in 1..Len(handlers[t])}
      /\ \A i \in 1..Len(handlers[t]) : handlers[t][i] \in Entries
      /\ Len(handlers[t]) \in Nat
  BY <1>1, Elements
<1>3. ASSUME NEW i \in 1..Len(handlers[t])
      PROVE  [n |-> created + i, entry |-> handlers[t][i], type |-> t, event |-> e] \in Task
  BY <1>1, <1>2 DEF Task
<1>4. Deliveries(t, e) \in [1..Len(handlers[t]) -> Task]
  BY <1>3 DEF Deliveries
<1>5. Deliveries(t, e) \in Seq(Task) /\ Len(Deliveries(t, e)) = Len(handlers[t])
  BY <1>2, <1>4, SMT
<1>6. ASSUME NEW i \in 1..Len(handlers[t])
      PROVE  Deliveries(t, e)[i] = [n |-> created + i, entry |-> handlers[t][i],
                                    type |-> t, event |-> e]
  BY DEF Deliveries
<1> QED
  BY <1>2, <1>5, <1>6

(* The account of the deliveries: made or skipped, and what became of them. *)
Balanced(c, s, q, r, p, t, e, a) == c + s = q + r + p + t + e + a

(* Its two sides move together.                                            *)
LEMMA Balance ==
  ASSUME NEW c \in Nat, NEW s \in Nat, NEW q \in Nat, NEW r \in Nat, NEW p \in Nat,
         NEW t \in Nat, NEW e \in Nat, NEW a \in Nat, Balanced(c, s, q, r, p, t, e, a)
  PROVE  /\ \A d \in Nat : /\ Balanced(c + d, s, q + d, r, p, t, e, a)
                          /\ Balanced(c, s + d, q, r, p + d, t, e, a)
         /\ Balanced(c, s, q - 1, r + 1, p, t, e, a)
         /\ Balanced(c, s, q - 1, r, p, t, e, a + 1)
         /\ Balanced(c, s, q, r - 1, p + 1, t, e, a)
         /\ Balanced(c, s, q, r - 1, p, t + 1, e, a)
         /\ Balanced(c, s, q, r - 1, p, t, e + 1, a)
         /\ Balanced(c, s, q, r - 1, p, t, e, a + 1)
  BY DEF Balanced

(* It is the account the invariant keeps.                                  *)
LEMMA AccountBalanced ==
  /\ DeliveriesAccounted <=> Balanced(created, skipped, Len(ready), Cardinality(running),
                                      processed, timeouts, errors, aborted)
  /\ DeliveriesAccounted' <=> Balanced(created', skipped', Len(ready'), Cardinality(running'),
                                       processed', timeouts', errors', aborted')
  BY DEF Balanced, DeliveriesAccounted

(* The oldest delivery and the others.                                     *)
LEMMA HeadAndTail ==
  ASSUME BusTypeOK, ready # <<>>
  PROVE  /\ Head(ready) = ready[1] /\ Head(ready) \in Task /\ Len(ready) \in Nat \ {0}
         /\ Tail(ready) \in Seq(Task) /\ Len(Tail(ready)) = Len(ready) - 1
         /\ \A i \in 1..Len(ready) - 1 : Tail(ready)[i] = ready[i + 1] /\ i + 1 \in 1..Len(ready)
<1>1. ready \in Seq(Task)
  BY DEF BusTypeOK
<1>2. Len(ready) \in Nat \ {0}
  BY <1>1, EmptySeq
<1>3. /\ Head(ready) \in Task /\ Tail(ready) \in Seq(Task)
      /\ Len(Tail(ready)) = Len(ready) - 1
      /\ \A i \in 1..Len(Tail(ready)) : Tail(ready)[i] = ready[i + 1]
  BY <1>1, HeadTailProperties
<1>4. Head(ready) = ready[1]
  BY <1>1, <1>2, SMT
<1> QED
  BY <1>2, <1>3, <1>4

-----------------------------------------------------------------------------
(* A step of the bus keeps the types.                                      *)
LEMMA StepType ==
  ASSUME BusTypeOK, [BusNext]_busVars
  PROVE  BusTypeOK'
<1>1. /\ handlers \in [Types -> Seq(Entries)] /\ ready \in Seq(Task)
      /\ running \subseteq Task /\ tracked \subseteq Task /\ cancels \subseteq Task
      /\ started \in [Entries -> Seq(Events)] /\ audience \in [Events -> SUBSET Entries]
      /\ published \in 0..MaxEvents /\ created \in Nat /\ processed \in Nat
      /\ timeouts \in Nat /\ errors \in Nat /\ skipped \in Nat /\ aborted \in Nat
      /\ used \subseteq Wrappers /\ Handlers \subseteq Entries /\ Wrappers \subseteq Entries
  BY DEF BusTypeOK, Entries
<1>2. CASE UNCHANGED busVars
  BY <1>2 DEF BusTypeOK, busVars, tasks, metrics
<1>3. ASSUME NEW t \in Types, Publish(t) PROVE BusTypeOK'
  <2> DEFINE e == published + 1
             new == Deliveries(t, e)
  <2>1. e \in Events /\ e \in 0..MaxEvents
    BY <1>1, <1>3, BusAssumption DEF Publish, Events
  <2>2. new \in Seq(Task) /\ Len(new) \in Nat
    BY <2>1, DeliveriesMade
  <2>3. ToSet(new) \subseteq Task
    BY <2>2, Elements
  <2>4. ToSet(handlers[t]) \subseteq Entries
    <3>1. handlers[t] \in Seq(Entries)
      BY <1>1
    <3>2. ToSet(handlers[t]) = {handlers[t][i] : i \in 1..Len(handlers[t])}
          /\ \A i \in 1..Len(handlers[t]) : handlers[t][i] \in Entries
      BY <3>1, Elements
    <3> QED
      BY <3>2
  <2>5. /\ published' = e /\ ready' = ready \o new /\ tracked' = tracked \cup ToSet(new)
        /\ created' = created + Len(new)
        /\ audience' = [audience EXCEPT ![e] = ToSet(handlers[t])]
        /\ UNCHANGED <<handlers, running, cancels, shutting, gathered, processed,
                       timeouts, errors, skipped, aborted, used, shut, started>>
    BY <1>3 DEF Publish
  <2> HIDE DEF new, e
  <2>6. ready' \in Seq(Task) /\ created' \in Nat /\ tracked' \subseteq Task
    BY <1>1, <2>2, <2>3, <2>5, ConcatProperties
  <2>7. audience' \in [Events -> SUBSET Entries]
    BY <1>1, <2>1, <2>4, <2>5
  <2> QED
    BY <2>1, <2>5, <2>6, <2>7 DEF BusTypeOK
<1>4. ASSUME NEW t \in Types, PublishSync(t) PROVE BusTypeOK'
  <2>1. Len(handlers[t]) \in Nat
    BY <1>1, LenProperties
  <2>2. published' \in 0..MaxEvents /\ processed' \in Nat /\ skipped' \in Nat
    BY <1>1, <1>4, <2>1, BusAssumption DEF PublishSync
  <2> QED
    BY <1>4, <2>2 DEF PublishSync, BusTypeOK, tasks
<1>5. ASSUME handlers' \in [Types -> Seq(Entries)], used' \subseteq Wrappers,
             UNCHANGED <<tasks, metrics, shut, started, audience>>
      PROVE  BusTypeOK'
  BY <1>5 DEF BusTypeOK, tasks, metrics
<1>6. ASSUME NEW t \in Types, NEW h \in Entries, NEW list,
             list = Append(handlers[t], h) \/ list = Without(handlers[t], h) \/ list = <<>>
      PROVE  list \in Seq(Entries)
  <2>1. handlers[t] \in Seq(Entries) /\ <<>> \in Seq(Entries)
    BY <1>1, EmptySeq
  <2>2. Append(handlers[t], h) \in Seq(Entries)
    BY <2>1, AppendProperties
  <2>3. Without(handlers[t], h) \in Seq(Entries)
    BY <2>1, WithoutType
  <2> QED
    BY <1>6, <2>1, <2>2, <2>3
<1>7. ASSUME NEW t \in Types, NEW h \in Handlers, Subscribe(t, h) \/ Unsubscribe(t, h)
      PROVE  BusTypeOK'
  <2>1. PICK list : /\ handlers' = [handlers EXCEPT ![t] = list]
                    /\ list = Append(handlers[t], h) \/ list = Without(handlers[t], h)
    BY <1>1, <1>7 DEF Subscribe, Unsubscribe
  <2>2. handlers' \in [Types -> Seq(Entries)]
    BY <1>1, <1>6, <2>1
  <2> QED
    BY <1>1, <1>5, <1>7, <2>2 DEF Subscribe, Unsubscribe
<1>8. ASSUME NEW t \in Types, NEW w \in Wrappers, Once(t, w) PROVE BusTypeOK'
  <2>1. handlers' = [handlers EXCEPT ![t] = Append(handlers[t], w)] /\ used' \subseteq Wrappers
    BY <1>1, <1>8 DEF Once
  <2>2. handlers' \in [Types -> Seq(Entries)]
    BY <1>1, <1>6, <2>1
  <2> QED
    BY <1>5, <1>8, <2>1, <2>2 DEF Once
<1>9. ASSUME NEW S, UnsubscribeAll(S) PROVE BusTypeOK'
  <2>1. handlers' = [t \in Types |-> IF t \in S THEN <<>> ELSE handlers[t]]
    BY <1>9 DEF UnsubscribeAll
  <2>2. <<>> \in Seq(Entries)
    BY EmptySeq
  <2>3. handlers' \in [Types -> Seq(Entries)]
    BY <1>1, <2>1, <2>2
  <2> QED
    BY <1>1, <1>5, <1>9, <2>3 DEF UnsubscribeAll
<1>10. CASE StartHandler
  <2>1. Head(ready) \in Task /\ Tail(ready) \in Seq(Task)
    BY <1>10, HeadAndTail DEF StartHandler
  <2> DEFINE k == Head(ready)
  <2>2. /\ ready' = Tail(ready)
        /\ \/ /\ aborted' = aborted + 1 /\ tracked' = tracked \ {k}
              /\ UNCHANGED <<running, started, cancels>>
           \/ /\ running' = running \cup {k} /\ cancels' = cancels \ {k}
              /\ started' = [started EXCEPT ![k.entry] = Append(@, k.event)]
              /\ UNCHANGED <<aborted, tracked>>
        /\ UNCHANGED <<handlers, shutting, gathered, created, published, processed,
                       timeouts, errors, skipped, used, shut, audience>>
    BY <1>10 DEF StartHandler
  <2>3. k.entry \in Entries /\ k.event \in Events
    BY <2>1 DEF Task
  <2> HIDE DEF k
  <2>4. [started EXCEPT ![k.entry] = Append(@, k.event)] \in [Entries -> Seq(Events)]
    <3>1. started[k.entry] \in Seq(Events)
      BY <1>1, <2>3
    <3>2. Append(started[k.entry], k.event) \in Seq(Events)
      BY <2>3, <3>1, AppendProperties
    <3> QED
      BY <1>1, <2>3, <3>2
  <2>5. k \in Task
    BY <2>1 DEF k
  <2>6. started' \in [Entries -> Seq(Events)]
    BY <1>1, <2>2, <2>4
  <2>7. running' \subseteq Task /\ tracked' \subseteq Task /\ cancels' \subseteq Task
    BY <1>1, <2>2, <2>5
  <2>8. aborted' \in Nat
    BY <1>1, <2>2
  <2> QED
    BY <2>1, <2>2, <2>6, <2>7, <2>8 DEF BusTypeOK
<1>11. ASSUME NEW k \in running, EndHandler(k) PROVE BusTypeOK'
  <2>1. k.type \in Types /\ k.entry \in Entries
    BY <1>1 DEF Task
  <2>2. handlers' \in [Types -> Seq(Entries)]
    <3>1. [handlers EXCEPT ![k.type] = Without(handlers[k.type], k.entry)] \in [Types -> Seq(Entries)]
      BY <1>1, <1>6, <2>1
    <3>2. \/ handlers' = handlers
          \/ handlers' = [handlers EXCEPT ![k.type] = Without(handlers[k.type], k.entry)]
      BY <1>11 DEF EndHandler, HandlerReturns, HandlerRaises, HandlerCancelled
    <3> QED
      BY <1>1, <3>1, <3>2
  <2>3. running' = running \ {k} /\ tracked' = tracked \ {k}
    BY <1>11 DEF EndHandler, HandlerReturns, HandlerRaises, HandlerCancelled, Ends
  <2>4. /\ processed' \in Nat /\ timeouts' \in Nat /\ errors' \in Nat /\ aborted' \in Nat
        /\ UNCHANGED <<ready, cancels, shutting, gathered, created, published, skipped,
                       used, shut, started, audience>>
    BY <1>1, <1>11 DEF EndHandler, HandlerReturns, HandlerRaises, HandlerCancelled
  <2> QED
    BY <2>2, <2>3, <2>4 DEF BusTypeOK
<1>12. CASE BeginShutdown
  BY <1>1, <1>12 DEF BeginShutdown, BusTypeOK, metrics
<1>13. CASE EndShutdown
  BY <1>1, <1>13 DEF EndShutdown, BusTypeOK, metrics
<1> QED
  BY <1>2, <1>3, <1>4, <1>7, <1>8, <1>9, <1>10, <1>11, <1>12, <1>13 DEF BusNext

-----------------------------------------------------------------------------
(* What makes DeliveriesSound inductive: deliveries wait in the order in   *)
(* which they were created, for entries of the audience of their event,    *)
(* behind every delivery that has been started, and before a shutdown the  *)
(* bus tracks every one that is alive.                                     *)
ReadyInOrder ==
  \A i, j \in 1..Len(ready) :
    i < j => ready[i].n < ready[j].n /\ ready[i].event <= ready[j].event

ReadyIsAddressed ==
  \A i \in 1..Len(ready) :
    /\ ready[i].n <= created /\ ready[i].event <= published
    /\ ready[i].entry \in audience[ready[i].event]

RunningIsOlder ==
  /\ IsFiniteSet(running)
  /\ \A k \in running : k.n <= created /\ \A i \in 1..Len(ready) : k.n < ready[i].n

StartedIsOlder ==
  \A x \in Entries : \A i \in 1..Len(started[x]) :
    /\ started[x][i] <= published
    /\ \A j \in 1..Len(ready) : started[x][i] <= ready[j].event

AliveIsTracked == ~shut => Alive \subseteq tracked

QueueInv == ReadyInOrder /\ ReadyIsAddressed /\ RunningIsOlder /\ StartedIsOlder

CallInv == CalledInOrder /\ CalledAsSubscribed

BusInv == BusTypeOK /\ QueueInv /\ CallInv /\ AliveIsTracked /\ DeliveriesAccounted

(* The invariant speaks of no subscriber list and no shutdown in progress. *)
LEMMA FrameKeeps ==
  ASSUME BusInv, BusTypeOK',
         UNCHANGED <<ready, running, tracked, created, published, processed, timeouts,
                     errors, skipped, aborted, shut, started, audience>>
  PROVE  BusInv'
BY DEF BusInv, QueueInv, CallInv, AliveIsTracked, ReadyInOrder, ReadyIsAddressed,
       RunningIsOlder, StartedIsOlder, CalledInOrder, CalledAsSubscribed, Alive,
       DeliveriesAccounted

(* The numbers of a task and of an event are natural numbers.              *)
LEMMA TaskFields ==
  ASSUME NEW k \in Task
  PROVE  k.n \in Nat /\ k.entry \in Entries /\ k.type \in Types /\ k.event \in Events
         /\ k.event \in Nat
BY BusAssumption DEF Task, Events

(* publish() adds deliveries of a new event, behind all others.            *)
LEMMA PublishKeeps ==
  ASSUME BusInv, BusTypeOK', NEW t \in Types, Publish(t)
  PROVE  BusInv'
<1> DEFINE e == published + 1
           new == Deliveries(t, e)
<1>1. /\ ready \in Seq(Task) /\ running \subseteq Task /\ created \in Nat /\ published \in Nat
      /\ started \in [Entries -> Seq(Events)] /\ audience \in [Events -> SUBSET Entries]
      /\ \A i \in 1..Len(ready) : ready[i] \in Task
      /\ Len(ready) \in Nat /\ e \in Events
  <2>1. BusTypeOK /\ published < MaxEvents
    BY DEF BusInv, Publish
  <2>2. ready \in Seq(Task)
    BY <2>1 DEF BusTypeOK
  <2>3. Len(ready) \in Nat /\ \A i \in 1..Len(ready) : ready[i] \in Task
    BY <2>2, Elements
  <2>4. published \in Nat /\ e \in Events
    BY <2>1, BusAssumption DEF BusTypeOK, Events
  <2> QED
    BY <2>1, <2>2, <2>3, <2>4 DEF BusTypeOK
<1>2. /\ new \in Seq(Task) /\ Len(new) \in Nat /\ Len(handlers[t]) = Len(new)
      /\ \A i \in 1..Len(new) :
           /\ new[i].n = created + i /\ new[i].event = e
           /\ new[i].entry \in ToSet(handlers[t])
  <2>1. BusTypeOK /\ e \in Events
    BY <1>1 DEF BusInv
  <2>2. /\ new \in Seq(Task)
        /\ Len(new) = Len(handlers[t]) /\ Len(handlers[t]) \in Nat
        /\ \A i \in 1..Len(handlers[t]) :
             /\ new[i] = [n |-> created + i, entry |-> handlers[t][i], type |-> t, event |-> e]
             /\ handlers[t][i] \in ToSet(handlers[t])
    BY <2>1, DeliveriesMade
  <2> HIDE DEF new, e
  <2>3. Len(new) \in Nat /\ Len(handlers[t]) = Len(new)
    BY <2>2
  <2>4. ASSUME NEW i \in 1..Len(new)
        PROVE  /\ new[i].n = created + i /\ new[i].event = e
               /\ new[i].entry \in ToSet(handlers[t])
    <3>1. /\ new[i] = [n |-> created + i, entry |-> handlers[t][i], type |-> t, event |-> e]
          /\ handlers[t][i] \in ToSet(handlers[t])
      BY <2>2, <2>3
    <3> QED
      BY <3>1
  <2> QED
    BY <2>2, <2>3, <2>4
<1>3. /\ published' = e /\ ready' = ready \o new /\ tracked' = tracked \cup ToSet(new)
      /\ created' = created + Len(new)
      /\ audience' = [audience EXCEPT ![e] = ToSet(handlers[t])]
      /\ UNCHANGED <<handlers, running, cancels, shutting, gathered, processed,
                     timeouts, errors, skipped, aborted, used, shut, started>>
  BY DEF Publish
<1> HIDE DEF new
<1>4. /\ ready' \in Seq(Task) /\ Len(ready') = Len(ready) + Len(new)
      /\ \A i \in 1..Len(ready') :
           \/ i \in 1..Len(ready) /\ ready'[i] = ready[i]
           \/ i - Len(ready) \in 1..Len(new) /\ ready'[i] = new[i - Len(ready)] /\ i > Len(ready)
  BY <1>1, <1>2, <1>3, ConcatProperties
<1>5. \A i \in 1..Len(ready) : ready[i].n \in Nat /\ ready[i].event \in Nat
                               /\ ready[i].event \in Events /\ ready[i].n <= created
                               /\ ready[i].event <= published
                               /\ ready[i].entry \in audience[ready[i].event]
  BY <1>1, TaskFields DEF BusInv, QueueInv, ReadyIsAddressed
<1>6. ReadyInOrder'
  <2> SUFFICES ASSUME NEW i \in 1..Len(ready'), NEW j \in 1..Len(ready'), i < j
               PROVE  ready'[i].n < ready'[j].n /\ ready'[i].event <= ready'[j].event
    BY DEF ReadyInOrder
  <2>1. CASE i \in 1..Len(ready) /\ j \in 1..Len(ready)
    <3>1. ready'[i] = ready[i] /\ ready'[j] = ready[j]
      BY <1>1, <1>4, <2>1
    <3> QED
      BY <2>1, <3>1 DEF BusInv, QueueInv, ReadyInOrder
  <2>2. CASE i \in 1..Len(ready) /\ j \notin 1..Len(ready)
    <3>1. ready'[i] = ready[i] /\ ready'[j] = new[j - Len(ready)] /\ j - Len(ready) \in 1..Len(new)
      BY <1>1, <1>4, <2>2
    <3>2. /\ ready[i].n \in Nat /\ ready[i].n <= created /\ ready[i].event <= published
          /\ ready[i].event \in Nat
      BY <1>5, <2>2
    <3>3. ready'[j].n = created + (j - Len(ready)) /\ ready'[j].event = e /\ j - Len(ready) >= 1
      BY <1>2, <3>1
    <3>4. created < created + (j - Len(ready))
      BY <1>1, <3>1, <3>3
    <3>5. published <= e /\ e \in Nat /\ published \in Nat
      BY <1>1
    <3>6. ready[i].n < created + (j - Len(ready)) /\ ready[i].event <= e
      <4>1. \A a, b \in Nat, c \in Int : a <= b /\ b < c => a < c
        OBVIOUS
      <4>2. \A a, b, c \in Nat : a <= b /\ b <= c => a <= c
        OBVIOUS
      <4>3. created \in Nat /\ created + (j - Len(ready)) \in Int
        BY <1>1, <3>1
      <4> QED
        BY <3>2, <3>4, <3>5, <4>1, <4>2, <4>3
    <3> QED
      BY <3>1, <3>3, <3>6
  <2>3. CASE i \notin 1..Len(ready)
    <3>1. /\ ready'[i] = new[i - Len(ready)] /\ i - Len(ready) \in 1..Len(new)
          /\ ready'[j] = new[j - Len(ready)] /\ j - Len(ready) \in 1..Len(new)
      BY <1>1, <1>4, <2>3
    <3>2. /\ ready'[i].n = created + (i - Len(ready)) /\ ready'[i].event = e
          /\ ready'[j].n = created + (j - Len(ready)) /\ ready'[j].event = e
      BY <1>2, <3>1
    <3> QED
      BY <1>1, <1>4, <3>2
  <2> QED
    BY <2>1, <2>2, <2>3
<1>7. ReadyIsAddressed'
  <2> SUFFICES ASSUME NEW i \in 1..Len(ready')
               PROVE  /\ ready'[i].n <= created' /\ ready'[i].event <= published'
                      /\ ready'[i].entry \in audience'[ready'[i].event]
    BY DEF ReadyIsAddressed
  <2>1. CASE i \in 1..Len(ready) /\ ready'[i] = ready[i]
    <3>1. audience'[ready[i].event] = audience[ready[i].event]
      BY <1>1, <1>3, <1>5, <2>1
    <3> QED
      BY <1>1, <1>2, <1>3, <1>5, <2>1, <3>1
  <2>2. CASE i - Len(ready) \in 1..Len(new) /\ ready'[i] = new[i - Len(ready)]
    <3>1. audience'[e] = ToSet(handlers[t])
      BY <1>1, <1>3
    <3> QED
      BY <1>1, <1>2, <1>3, <2>2, <3>1
  <2> QED
    BY <1>4, <2>1, <2>2
<1>8. RunningIsOlder'
  <2>1. ASSUME NEW k \in running, NEW i \in 1..Len(ready') PROVE k.n < ready'[i].n
    <3>1. k.n \in Nat /\ k.n <= created /\ \A j \in 1..Len(ready) : k.n < ready[j].n
      BY <1>1, TaskFields DEF BusInv, QueueInv, RunningIsOlder
    <3>2. CASE i \in 1..Len(ready) /\ ready'[i] = ready[i]
      BY <3>1, <3>2
    <3>3. CASE i - Len(ready) \in 1..Len(new) /\ ready'[i] = new[i - Len(ready)]
      <4> DEFINE m == i - Len(ready)
      <4>1. ready'[i].n = created + m /\ m \in 1..Len(new)
        BY <1>2, <3>3
      <4>2. created \in Nat /\ m \in Nat /\ m >= 1
        BY <1>1, <1>2, <4>1
      <4> HIDE DEF m
      <4> QED
        BY <3>1, <4>1, <4>2
    <3> QED
      BY <1>4, <3>2, <3>3
  <2>2. ASSUME NEW k \in running PROVE k.n <= created'
    <3>1. k.n \in Nat /\ k.n <= created
      BY <1>1, TaskFields DEF BusInv, QueueInv, RunningIsOlder
    <3> QED
      BY <1>1, <1>2, <1>3, <3>1
  <2> QED
    BY <1>3, <2>1, <2>2 DEF BusInv, QueueInv, RunningIsOlder
<1>9. ASSUME NEW x \in Entries, NEW i \in 1..Len(started[x])
      PROVE  started[x][i] \in Events /\ started[x][i] \in Nat /\ started[x][i] <= published
  <2>1. started[x] \in Seq(Events)
    BY <1>1
  <2>2. started[x][i] \in Events
    BY <2>1, Elements
  <2> QED
    BY <2>2, BusAssumption DEF Events, BusInv, QueueInv, StartedIsOlder
<1>10. StartedIsOlder'
  <2> SUFFICES ASSUME NEW x \in Entries, NEW i \in 1..Len(started[x])
               PROVE  /\ started[x][i] <= published'
                      /\ \A j \in 1..Len(ready') : started[x][i] <= ready'[j].event
    BY <1>3 DEF StartedIsOlder
  <2>1. started[x][i] \in Nat /\ started[x][i] <= published
    BY <1>9
  <2>2. \A j \in 1..Len(ready) : started[x][i] <= ready[j].event
    BY DEF BusInv, QueueInv, StartedIsOlder
  <2>3. published <= e /\ e \in Nat /\ published \in Nat
    BY <1>1
  <2>4. started[x][i] <= e
    BY <2>1, <2>3
  <2>5. ASSUME NEW j \in 1..Len(ready') PROVE started[x][i] <= ready'[j].event
    <3>1. CASE j \in 1..Len(ready) /\ ready'[j] = ready[j]
      BY <2>2, <3>1
    <3>2. CASE j - Len(ready) \in 1..Len(new) /\ ready'[j] = new[j - Len(ready)]
      <4>1. ready'[j].event = e
        BY <1>2, <3>2
      <4> QED
        BY <2>4, <4>1
    <3> QED
      BY <1>4, <3>1, <3>2
  <2> QED
    BY <1>3, <2>4, <2>5
<1>11. CallInv'
  <2>1. CalledInOrder'
    BY <1>3 DEF BusInv, CallInv, CalledInOrder
  <2>2. CalledAsSubscribed'
    <3> SUFFICES ASSUME NEW x \in Entries, NEW i \in 1..Len(started[x])
                 PROVE  x \in audience'[started[x][i]]
      BY <1>3 DEF CalledAsSubscribed
    <3>1. started[x][i] # e /\ started[x][i] \in Events
      BY <1>1, <1>9
    <3>2. audience'[started[x][i]] = audience[started[x][i]]
      BY <1>1, <1>3, <3>1
    <3> QED
      BY <3>2 DEF BusInv, CallInv, CalledAsSubscribed
  <2> QED
    BY <2>1, <2>2 DEF CallInv
<1>12. AliveIsTracked'
  <2>1. ToSet(ready') \subseteq ToSet(ready) \cup ToSet(new)
    <3>1. /\ ToSet(ready') = {ready'[i] : i \in 1..Len(ready')}
          /\ ToSet(ready) = {ready[i] : i \in 1..Len(ready)}
          /\ ToSet(new) = {new[i] : i \in 1..Len(new)}
      <4>1. \A s \in Seq(Task) : ToSet(s) = {s[i] : i \in 1..Len(s)}
        BY Elements
      <4> QED
        BY <1>1, <1>2, <1>4, <4>1
    <3> QED
      BY <1>4, <3>1
  <2> QED
    BY <1>3, <2>1 DEF BusInv, AliveIsTracked, Alive
<1>13. DeliveriesAccounted'
  <2>1. /\ Cardinality(running) \in Nat /\ Len(ready) \in Nat /\ created \in Nat
        /\ skipped \in Nat /\ processed \in Nat /\ timeouts \in Nat /\ errors \in Nat
        /\ aborted \in Nat /\ Len(new) \in Nat
    BY <1>1, <1>2, FS_CardinalityType DEF BusInv, BusTypeOK, QueueInv, RunningIsOlder
  <2>2. /\ created' = created + Len(new) /\ Len(ready') = Len(ready) + Len(new)
        /\ UNCHANGED <<skipped, running, processed, timeouts, errors, aborted>>
    BY <1>3, <1>4
  <2>3. Balanced(created, skipped, Len(ready), Cardinality(running), processed, timeouts,
                 errors, aborted)
    BY AccountBalanced DEF BusInv
  <2>4. Balanced(created + Len(new), skipped, Len(ready) + Len(new), Cardinality(running),
                 processed, timeouts, errors, aborted)
    BY <2>1, <2>3, Balance
  <2> QED
    BY <2>2, <2>4, AccountBalanced
<1> QED
  BY <1>6, <1>7, <1>8, <1>10, <1>11, <1>12, <1>13 DEF BusInv, QueueInv

(* The oldest delivery starts, or ends cancelled before it started.        *)
LEMMA StartKeeps ==
  ASSUME BusInv, BusTypeOK', StartHandler
  PROVE  BusInv'
<1> DEFINE k == Head(ready)
<1>1. /\ BusTypeOK /\ ready # <<>>
      /\ started \in [Entries -> Seq(Events)]
      /\ Cardinality(running) \in Nat /\ IsFiniteSet(running)
  BY FS_CardinalityType DEF BusInv, BusTypeOK, StartHandler, QueueInv, RunningIsOlder
<1>2. /\ k = ready[1] /\ k \in Task /\ Len(ready) \in Nat \ {0} /\ 1 \in 1..Len(ready)
      /\ ready' = Tail(ready) /\ ready' \in Seq(Task) /\ Len(ready') = Len(ready) - 1
      /\ \A i \in 1..Len(ready') : ready'[i] = ready[i + 1] /\ i + 1 \in 1..Len(ready)
  BY <1>1, HeadAndTail DEF StartHandler
<1>3. /\ \/ /\ aborted' = aborted + 1 /\ tracked' = tracked \ {k}
            /\ running' = running /\ started' = started
         \/ /\ running' = running \cup {k} /\ aborted' = aborted /\ tracked' = tracked
            /\ started' = [started EXCEPT ![k.entry] = Append(@, k.event)]
      /\ UNCHANGED <<created, published, processed, timeouts, errors, skipped, shut, audience>>
  BY DEF StartHandler
<1>4. /\ k.n \in Nat /\ k.entry \in Entries /\ k.event \in Events /\ k.event \in Nat
      /\ k.n <= created /\ k.event <= published /\ k.entry \in audience[k.event]
      /\ \A i \in 1..Len(ready') : k.n < ready'[i].n /\ k.event <= ready'[i].event
      /\ k \notin running
  <2>1. ASSUME NEW i \in 1..Len(ready')
        PROVE  k.n < ready'[i].n /\ k.event <= ready'[i].event
    <3>1. 1 < i + 1 /\ i + 1 \in 1..Len(ready) /\ ready'[i] = ready[i + 1]
      BY <1>2
    <3> QED
      BY <1>2, <3>1 DEF BusInv, QueueInv, ReadyInOrder
  <2>2. k \notin running
    <3>1. k \in running => k.n < ready[1].n
      BY <1>2 DEF BusInv, QueueInv, RunningIsOlder
    <3> QED
      BY <1>2, <3>1, TaskFields
  <2> QED
    BY <1>2, <2>1, <2>2, TaskFields DEF BusInv, QueueInv, ReadyIsAddressed
<1> HIDE DEF k
<1>5. ReadyInOrder'
  <2> SUFFICES ASSUME NEW i \in 1..Len(ready'), NEW j \in 1..Len(ready'), i < j
               PROVE  ready'[i].n < ready'[j].n /\ ready'[i].event <= ready'[j].event
    BY DEF ReadyInOrder
  <2>1. /\ ready'[i] = ready[i + 1] /\ i + 1 \in 1..Len(ready)
        /\ ready'[j] = ready[j + 1] /\ j + 1 \in 1..Len(ready) /\ i + 1 < j + 1
    BY <1>2
  <2> QED
    BY <2>1 DEF BusInv, QueueInv, ReadyInOrder
<1>6. ReadyIsAddressed'
  BY <1>2, <1>3 DEF BusInv, QueueInv, ReadyIsAddressed
<1>7. RunningIsOlder'
  <2>1. IsFiniteSet(running')
    <3>1. IsFiniteSet(running \cup {k})
      BY <1>1, FS_AddElement
    <3> QED
      BY <1>1, <1>3, <3>1
  <2>2. ASSUME NEW r \in running'
        PROVE  r.n <= created' /\ \A i \in 1..Len(ready') : r.n < ready'[i].n
    <3>1. CASE r \in running
      BY <1>2, <1>3, <3>1 DEF BusInv, QueueInv, RunningIsOlder
    <3>2. CASE r = k
      BY <1>3, <1>4, <3>2
    <3> QED
      BY <1>3, <3>1, <3>2
  <2> QED
    BY <2>1, <2>2 DEF RunningIsOlder
<1>8. ASSUME NEW x \in Entries, NEW i \in 1..Len(started'[x])
      PROVE  \/ i \in 1..Len(started[x]) /\ started'[x][i] = started[x][i]
             \/ x = k.entry /\ i = Len(started[x]) + 1 /\ started'[x][i] = k.event
  <2>1. started[x] \in Seq(Events) /\ Len(started[x]) \in Nat
    BY <1>1, LenProperties
  <2>2. CASE started'[x] = started[x]
    BY <2>1, <2>2
  <2>3. CASE x = k.entry /\ started'[x] = Append(started[x], k.event)
    <3>1. /\ Len(started'[x]) = Len(started[x]) + 1 /\ started'[x][Len(started[x]) + 1] = k.event
          /\ \A j \in 1..Len(started[x]) : started'[x][j] = started[x][j]
      BY <1>4, <2>1, <2>3, AppendProperties
    <3> QED
      BY <2>1, <2>3, <3>1
  <2> QED
    BY <1>1, <1>3, <2>2, <2>3
<1>9. ASSUME NEW x \in Entries, NEW i \in 1..Len(started[x])
      PROVE  /\ started[x][i] \in Nat /\ started[x][i] <= published
             /\ started[x][i] <= k.event
             /\ \A j \in 1..Len(ready') : started[x][i] <= ready'[j].event
  <2>1. started[x] \in Seq(Events)
    BY <1>1
  <2>2. started[x][i] \in Nat
    BY <2>1, Elements, BusAssumption DEF Events
  <2> QED
    BY <1>2, <2>2 DEF BusInv, QueueInv, StartedIsOlder
<1>10. StartedIsOlder'
  BY <1>3, <1>4, <1>8, <1>9 DEF StartedIsOlder
<1>11. CallInv'
  <2>1. CalledInOrder'
    <3> SUFFICES ASSUME NEW x \in Entries, NEW i \in 1..Len(started'[x]),
                        NEW j \in 1..Len(started'[x]), i < j
                 PROVE  started'[x][i] <= started'[x][j]
      BY DEF CalledInOrder
    <3>1. Len(started[x]) \in Nat
      BY <1>1, LenProperties
    <3>2. i \in 1..Len(started[x]) /\ started'[x][i] = started[x][i]
      BY <1>8, <3>1
    <3>3. CASE j \in 1..Len(started[x]) /\ started'[x][j] = started[x][j]
      BY <3>2, <3>3 DEF BusInv, CallInv, CalledInOrder
    <3>4. CASE started'[x][j] = k.event
      BY <1>9, <3>2, <3>4
    <3> QED
      BY <1>8, <3>3, <3>4
  <2>2. CalledAsSubscribed'
    BY <1>3, <1>4, <1>8 DEF CalledAsSubscribed, BusInv, CallInv
  <2> QED
    BY <2>1, <2>2 DEF CallInv
<1>12. AliveIsTracked'
  <2>1. ToSet(ready) = {ready[i] : i \in 1..Len(ready)}
        /\ ToSet(ready') = {ready'[i] : i \in 1..Len(ready')}
    <3>1. \A s \in Seq(Task) : ToSet(s) = {s[i] : i \in 1..Len(s)}
      BY Elements
    <3> QED
      BY <1>1, <1>2, <3>1 DEF BusTypeOK
  <2>2. ToSet(ready') \subseteq ToSet(ready) /\ k \in ToSet(ready)
    BY <1>2, <2>1
  <2>3. k \notin ToSet(ready')
    BY <1>4, <2>1
  <2> QED
    BY <1>3, <1>4, <2>2, <2>3 DEF BusInv, AliveIsTracked, Alive
<1>13. DeliveriesAccounted'
  <2>1. /\ Cardinality(running) \in Nat /\ Len(ready) \in Nat /\ created \in Nat
        /\ skipped \in Nat /\ processed \in Nat /\ timeouts \in Nat /\ errors \in Nat
        /\ aborted \in Nat
    BY <1>1, <1>2 DEF BusTypeOK
  <2>2. \/ Cardinality(running') = Cardinality(running) /\ aborted' = aborted + 1
        \/ Cardinality(running') = Cardinality(running) + 1 /\ aborted' = aborted
    BY <1>1, <1>3, <1>4, FS_AddElement
  <2>3. /\ created' = created /\ skipped' = skipped /\ processed' = processed
        /\ timeouts' = timeouts /\ errors' = errors /\ Len(ready') = Len(ready) - 1
    BY <1>2, <1>3
  <2>4. Balanced(created, skipped, Len(ready), Cardinality(running), processed, timeouts,
                 errors, aborted)
    BY AccountBalanced DEF BusInv
  <2>5. /\ Balanced(created, skipped, Len(ready) - 1, Cardinality(running) + 1, processed,
                    timeouts, errors, aborted)
        /\ Balanced(created, skipped, Len(ready) - 1, Cardinality(running), processed,
                    timeouts, errors, aborted + 1)
    BY <2>1, <2>4, Balance
  <2> QED
    BY <2>2, <2>3, <2>5, AccountBalanced
<1> QED
  BY <1>5, <1>6, <1>7, <1>10, <1>11, <1>12, <1>13 DEF BusInv, QueueInv

(* A handler ends, once.                                                   *)
LEMMA EndKeeps ==
  ASSUME BusInv, BusTypeOK', NEW k \in running, EndHandler(k)
  PROVE  BusInv'
<1>1. /\ BusTypeOK /\ IsFiniteSet(running) /\ Cardinality(running) \in Nat
      /\ ready \in Seq(Task) /\ Len(ready) \in Nat
  BY FS_CardinalityType, LenProperties DEF BusInv, BusTypeOK, QueueInv, RunningIsOlder
<1>2. /\ running' = running \ {k} /\ tracked' = tracked \ {k}
      /\ UNCHANGED <<ready, created, published, skipped, shut, started, audience>>
  BY DEF EndHandler, HandlerReturns, HandlerRaises, HandlerCancelled, Ends
<1>3. IsFiniteSet(running') /\ Cardinality(running') = Cardinality(running) - 1
  BY <1>1, <1>2, FS_RemoveElement
<1>4. QueueInv' /\ CallInv'
  BY <1>2, <1>3 DEF BusInv, QueueInv, CallInv, ReadyInOrder, ReadyIsAddressed,
     RunningIsOlder, StartedIsOlder, CalledInOrder, CalledAsSubscribed
<1>5. AliveIsTracked'
  <2>1. ToSet(ready) = {ready[i] : i \in 1..Len(ready)}
    BY <1>1, Elements
  <2>2. \A i \in 1..Len(ready) : ready[i] # k
    <3>1. \A i \in 1..Len(ready) : k.n < ready[i].n
      BY DEF BusInv, QueueInv, RunningIsOlder
    <3>2. k.n \in Nat
      BY <1>1, TaskFields DEF BusTypeOK
    <3> QED
      BY <3>1, <3>2
  <2> QED
    BY <1>2, <2>1, <2>2 DEF BusInv, AliveIsTracked, Alive
<1>6. DeliveriesAccounted'
  <2>1. /\ created \in Nat /\ skipped \in Nat /\ processed \in Nat
        /\ timeouts \in Nat /\ errors \in Nat /\ aborted \in Nat
    BY <1>1 DEF BusTypeOK
  <2>2. /\ created' = created /\ skipped' = skipped /\ Len(ready') = Len(ready)
        /\ \/ /\ processed' = processed + 1 /\ timeouts' = timeouts
              /\ errors' = errors /\ aborted' = aborted
           \/ /\ processed' = processed /\ timeouts' = timeouts + 1
              /\ errors' = errors /\ aborted' = aborted
           \/ /\ processed' = processed /\ timeouts' = timeouts
              /\ errors' = errors + 1 /\ aborted' = aborted
           \/ /\ processed' = processed /\ timeouts' = timeouts
              /\ errors' = errors /\ aborted' = aborted + 1
    BY <1>2 DEF EndHandler, HandlerReturns, HandlerRaises, HandlerCancelled
  <2>3. Balanced(created, skipped, Len(ready), Cardinality(running), processed, timeouts,
                 errors, aborted)
    BY AccountBalanced DEF BusInv
  <2>4. LET Now(p, t, e, a) == Balanced(created, skipped, Len(ready), Cardinality(running) - 1,
                                        p, t, e, a)
        IN  /\ Now(processed + 1, timeouts, errors, aborted)
            /\ Now(processed, timeouts + 1, errors, aborted)
            /\ Now(processed, timeouts, errors + 1, aborted)
            /\ Now(processed, timeouts, errors, aborted + 1)
    BY <1>1, <2>1, <2>3, Balance
  <2> QED
    BY <1>3, <2>2, <2>4, AccountBalanced
<1> QED
  BY <1>4, <1>5, <1>6 DEF BusInv

(* Every step of the bus keeps the invariant.                              *)
LEMMA StepKeeps ==
  ASSUME BusInv, [BusNext]_busVars
  PROVE  BusInv'
<1>1. BusTypeOK /\ BusTypeOK'
  BY StepType DEF BusInv
<1>2. CASE UNCHANGED busVars
  BY <1>1, <1>2, FrameKeeps DEF busVars, tasks, metrics
<1>3. ASSUME NEW t \in Types, Publish(t) PROVE BusInv'
  BY <1>1, <1>3, PublishKeeps
<1>4. ASSUME NEW t \in Types, PublishSync(t) PROVE BusInv'
  <2>1. /\ UNCHANGED <<ready, running, tracked, created, timeouts, errors, aborted, shut,
                       started, audience>>
        /\ published' = published + 1
        /\ processed' = processed + Len(handlers[t]) /\ skipped' = skipped + Len(handlers[t])
    BY <1>4 DEF PublishSync, tasks
  <2>2. /\ published \in Nat /\ Len(handlers[t]) \in Nat /\ skipped \in Nat /\ created \in Nat
        /\ processed \in Nat /\ timeouts \in Nat /\ errors \in Nat /\ aborted \in Nat
        /\ ready \in Seq(Task) /\ started \in [Entries -> Seq(Events)]
    BY <1>1, LenProperties, BusAssumption DEF BusTypeOK
  <2>3. QueueInv'
    <3>1. ASSUME NEW i \in 1..Len(ready) PROVE ready[i].event <= published'
      <4>1. ready[i].event \in Nat /\ ready[i].event <= published
        BY <2>2, Elements, TaskFields DEF BusInv, QueueInv, ReadyIsAddressed
      <4> QED
        BY <2>1, <2>2, <4>1
    <3>2. ASSUME NEW x \in Entries, NEW i \in 1..Len(started[x])
          PROVE  started[x][i] <= published'
      <4>1. started[x] \in Seq(Events)
        BY <2>2
      <4>2. started[x][i] \in Nat /\ started[x][i] <= published
        BY <4>1, Elements, BusAssumption DEF Events, BusInv, QueueInv, StartedIsOlder
      <4> QED
        BY <2>1, <2>2, <4>2
    <3> QED
      BY <2>1, <3>1, <3>2 DEF BusInv, QueueInv, ReadyInOrder, ReadyIsAddressed,
         RunningIsOlder, StartedIsOlder
  <2>4. CallInv' /\ AliveIsTracked'
    BY <2>1 DEF BusInv, CallInv, CalledInOrder, CalledAsSubscribed, AliveIsTracked, Alive
  <2>5. DeliveriesAccounted'
    <3>1. Cardinality(running) \in Nat /\ Len(ready) \in Nat
      BY <2>2, FS_CardinalityType, LenProperties DEF BusInv, QueueInv, RunningIsOlder
    <3>2. Balanced(created, skipped, Len(ready), Cardinality(running), processed, timeouts,
                   errors, aborted)
      BY AccountBalanced DEF BusInv
    <3>3. Balanced(created, skipped + Len(handlers[t]), Len(ready), Cardinality(running),
                   processed + Len(handlers[t]), timeouts, errors, aborted)
      BY <2>2, <3>1, <3>2, Balance
    <3> QED
      BY <2>1, <3>3, AccountBalanced
  <2> QED
    BY <1>1, <2>3, <2>4, <2>5 DEF BusInv
<1>5. ASSUME NEW t, NEW h, Subscribe(t, h) \/ Unsubscribe(t, h) \/ Once(t, h) PROVE BusInv'
  BY <1>1, <1>5, FrameKeeps DEF Subscribe, Unsubscribe, Once, tasks, metrics
<1>6. ASSUME NEW S, UnsubscribeAll(S) PROVE BusInv'
  BY <1>1, <1>6, FrameKeeps DEF UnsubscribeAll, tasks, metrics
<1>7. CASE BeginShutdown
  BY <1>1, <1>7, FrameKeeps DEF BeginShutdown, metrics
<1>8. CASE EndShutdown
  <2>1. /\ UNCHANGED <<ready, running, created, metrics, started, audience>>
        /\ shut' = TRUE
    BY <1>8 DEF EndShutdown
  <2> QED
    BY <1>1, <2>1 DEF BusInv, QueueInv, CallInv, AliveIsTracked, ReadyInOrder,
       ReadyIsAddressed, RunningIsOlder, StartedIsOlder, CalledInOrder, CalledAsSubscribed,
       DeliveriesAccounted, metrics
<1> QED
  BY <1>1, <1>2, <1>3, <1>4, <1>5, <1>6, <1>7, <1>8, StartKeeps, EndKeeps DEF BusNext

(* Without a subscriber, an event or a delivery the invariant holds.       *)
LEMMA InitKeeps == BusInit => BusInv
<1> SUFFICES ASSUME BusInit PROVE BusInv
  OBVIOUS
<1>1. BusTypeOK
  <2>1. <<>> \in Seq(Entries) /\ <<>> \in Seq(Events) /\ <<>> \in Seq(Task)
    BY EmptySeq
  <2>2. /\ handlers \in [Types -> Seq(Entries)] /\ started \in [Entries -> Seq(Events)]
        /\ ready \in Seq(Task) /\ audience \in [Events -> SUBSET Entries]
    BY <2>1 DEF BusInit
  <2>3. 0 \in Nat /\ 0 \in 0..MaxEvents
    BY BusAssumption
  <2> QED
    BY <2>2, <2>3 DEF BusInit, BusTypeOK
<1>2. /\ Len(ready) = 0 /\ running = {} /\ \A x \in Entries : Len(started[x]) = 0
      /\ Alive = {}
  BY DEF BusInit, Alive, ToSet
<1>3. QueueInv /\ CallInv /\ AliveIsTracked
  BY <1>2, FS_EmptySet DEF QueueInv, CallInv, AliveIsTracked, ReadyInOrder, ReadyIsAddressed,
     RunningIsOlder, StartedIsOlder, CalledInOrder, CalledAsSubscribed
<1>4. DeliveriesAccounted
  BY <1>2, FS_EmptySet DEF BusInit, DeliveriesAccounted
<1> QED
  BY <1>1, <1>3, <1>4 DEF BusInv

(* Every reachable state of the bus is well typed.                         *)
THEOREM BusTypeCorrect == BusSpec => []BusTypeOK
<1>1. BusInit => BusTypeOK
  BY InitKeeps DEF BusInv
<1>2. BusTypeOK /\ [BusNext]_busVars => BusTypeOK'
  BY StepType
<1> QED
  BY <1>1, <1>2, PTL DEF BusSpec

(* For every set of types, handlers and wrappers, every schedule of the    *)
(* handlers, every number of subscriptions and shutdowns, and both         *)
(* behaviours of wait_for: publish() delivers each event once to each of   *)
(* those subscribed at its call, in the order of the calls, and an empty   *)
(* _running_tasks means that nothing is under way.                         *)
THEOREM DeliveriesAlwaysSound == BusSpec => []DeliveriesSound
<1>1. BusInit => BusInv
  BY InitKeeps
<1>2. BusInv /\ [BusNext]_busVars => BusInv'
  BY StepKeeps
<1>3. BusInv => DeliveriesSound
  BY DEF BusInv, CallInv, AliveIsTracked, EmptyMeansDone, DeliveriesSound
<1> QED
  BY <1>1, <1>2, <1>3, PTL DEF BusSpec
=============================================================================
