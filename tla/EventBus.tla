------------------------------- MODULE EventBus -------------------------------
(***************************************************************************)
(* core/utils/events/bus.py: the publish/subscribe hub every component of  *)
(* the backend talks through.                                              *)
(*                                                                         *)
(* publish() is synchronous: it walks the subscribers of the event's type  *)
(* and creates one asyncio task per subscriber, each with a queue of its   *)
(* own that holds this one event.  The event loop starts the tasks in the  *)
(* order they were created; a handler may then suspend for as long as it   *)
(* likes, so started handlers end in any order.  Handlers, publishers and  *)
(* subscribers are the environment: any of them may act between two steps. *)
(***************************************************************************)
EXTENDS Naturals, Sequences, FiniteSets, SequencesExt

CONSTANTS
  Types,      \* event types
  Handlers,   \* functions given to subscribe()
  Wrappers,   \* wrappers created by calls of once(), one per call
  MaxEvents,  \* bound: number of publish() calls in a behaviour
  MaxSubs,    \* bound: length of a subscriber list
  Stubborn,   \* TRUE: a handler may suspend and never be resumed
  SwallowsCancel \* TRUE: asyncio.wait_for of Python 3.11, which drops a
                 \* cancellation that finds queue.get() already done

Entries == Handlers \cup Wrappers
Events == 1..MaxEvents

ASSUME BusAssumption ==
  /\ MaxEvents \in Nat /\ MaxSubs \in Nat
  /\ Handlers \cap Wrappers = {}
  /\ Stubborn \in BOOLEAN /\ SwallowsCancel \in BOOLEAN

VARIABLES
  handlers,   \* _handlers: the subscriber list of each type, in order
  ready,      \* delivery tasks created and not started, oldest first
  running,    \* delivery tasks whose handler has been called
  tracked,    \* _running_tasks
  cancels,  \* tasks on which shutdown() called cancel()
  shutting,   \* shutdown() is at `await asyncio.gather`
  gathered,   \* the tasks that gather awaits
  published,  \* _metrics["events_published"]
  processed,  \* _metrics["events_processed"]
  timeouts,   \* _metrics["handler_timeouts"]
  errors,     \* _metrics["handler_errors"]
  created,    \* number of delivery tasks created so far
  skipped,    \* deliveries not dispatched because no event loop runs
  aborted,    \* deliveries ended by cancellation
  used,       \* wrappers whose once() call has been made
  shut,       \* a shutdown() has returned
  started,    \* for each entry, the events its calls started with, in order
  audience    \* for each event, the entries subscribed when it was published

tasks == <<ready, running, tracked, cancels, shutting, gathered, created>>
metrics == <<published, processed, timeouts, errors, skipped, aborted>>
busVars == <<handlers, tasks, metrics, used, shut, started, audience>>

Task == [n : Nat, entry : Entries, type : Types, event : Events]

-----------------------------------------------------------------------------
BusInit ==
  /\ handlers = [t \in Types |-> <<>>]
  /\ ready = <<>> /\ running = {} /\ tracked = {} /\ cancels = {}
  /\ shutting = FALSE /\ gathered = {}
  /\ published = 0 /\ processed = 0 /\ timeouts = 0 /\ errors = 0
  /\ created = 0 /\ skipped = 0 /\ aborted = 0
  /\ used = {} /\ shut = FALSE
  /\ started = [x \in Entries |-> <<>>]
  /\ audience = [e \in Events |-> {}]

(* One task for each entry of the list.                                    *)
Deliveries(t, e) ==
  [i \in 1..Len(handlers[t]) |-> [n |-> created + i, entry |-> handlers[t][i],
                                  type |-> t, event |-> e]]

(* publish() inside the event loop: _queue_event puts the event in a fresh *)
(* queue, which is never full, and creates the task of each subscriber.    *)
Publish(t) ==
  LET new == Deliveries(t, published + 1) IN
  /\ published < MaxEvents
  /\ published' = published + 1
  /\ ready' = ready \o new
  /\ tracked' = tracked \cup ToSet(new)
  /\ created' = created + Len(new)
  /\ audience' = [audience EXCEPT ![published + 1] = ToSet(handlers[t])]
  /\ UNCHANGED <<handlers, running, cancels, shutting, gathered, processed,
                 timeouts, errors, skipped, aborted, used, shut, started>>

(* publish() from a thread without a running loop: nobody is called, and   *)
(* each subscriber counts as processed.                                    *)
PublishSync(t) ==
  /\ published < MaxEvents
  /\ published' = published + 1
  /\ processed' = processed + Len(handlers[t])
  /\ skipped' = skipped + Len(handlers[t])
  /\ UNCHANGED <<handlers, tasks, timeouts, errors, aborted, used, shut, started,
                 audience>>

(* Mutant (StartNewest): the newest task is started first.                 *)
StartTask(k) ==
  /\ k \notin cancels \/ SwallowsCancel
  /\ ready' = Remove(ready, k)
  /\ cancels' = cancels \ {k}
  /\ running' = running \cup {k}
  /\ started' = [started EXCEPT ![k.entry] = Append(@, k.event)]
  /\ UNCHANGED <<handlers, tracked, shutting, gathered, created, metrics, used, shut,
                 audience>>
StartNewest == ready # <<>> /\ StartTask(Last(ready))

(* The loop starts the oldest task: wait_for(queue.get()) finds the event  *)
(* at once and the handler is called.  A task cancelled before that never  *)
(* calls it, unless wait_for swallows the cancellation.                    *)
StartHandler ==
  /\ ready # <<>>
  /\ LET k == Head(ready) IN
     /\ ready' = Tail(ready)
     /\ \/ /\ k \in cancels
           /\ aborted' = aborted + 1
           /\ tracked' = tracked \ {k}
           /\ UNCHANGED <<running, started, cancels>>
        \/ /\ k \notin cancels \/ SwallowsCancel
           /\ cancels' = cancels \ {k}
           /\ running' = running \cup {k}
           /\ started' = [started EXCEPT ![k.entry] = Append(@, k.event)]
           /\ UNCHANGED <<aborted, tracked>>
  /\ UNCHANGED <<handlers, shutting, gathered, created, published, processed,
                 timeouts, errors, skipped, used, shut, audience>>

(* list.remove of the first occurrence; ValueError is ignored.             *)
Without(list, x) ==
  IF x \in ToSet(list)
  THEN RemoveAt(list, CHOOSE i \in 1..Len(list) :
                        list[i] = x /\ \A j \in 1..i - 1 : list[j] # x)
  ELSE list

(* A task ends: its done callback takes it out of _running_tasks.          *)
Ends(k) ==
  /\ k \in running
  /\ running' = running \ {k}
  /\ tracked' = tracked \ {k}

(* The handler returns.  The wrapper of once() unsubscribes itself only    *)
(* now, after the wrapped handler has returned.                            *)
HandlerReturns(k) ==
  /\ Ends(k) /\ k \notin cancels
  /\ processed' = processed + 1
  /\ IF k.entry \in Wrappers
     THEN handlers' = [handlers EXCEPT ![k.type] = Without(@, k.entry)]
     ELSE UNCHANGED handlers
  /\ UNCHANGED <<ready, cancels, shutting, gathered, created, published, timeouts,
                 errors, skipped, aborted, used, shut, started, audience>>

(* The handler raises, asyncio.TimeoutError or another Exception.          *)
HandlerRaises(k) ==
  /\ Ends(k) /\ k \notin cancels
  /\ \/ timeouts' = timeouts + 1 /\ UNCHANGED errors
     \/ errors' = errors + 1 /\ UNCHANGED timeouts
  /\ UNCHANGED <<handlers, ready, cancels, shutting, gathered, created, published,
                 processed, skipped, aborted, used, shut, started, audience>>

(* CancelledError is not an Exception: no counter of the bus moves.        *)
HandlerCancelled(k) ==
  /\ Ends(k) /\ k \in cancels
  /\ aborted' = aborted + 1
  /\ UNCHANGED <<handlers, ready, cancels, shutting, gathered, created, published,
                 processed, timeouts, errors, skipped, used, shut, started, audience>>

Subscribe(t, h) ==
  /\ Len(handlers[t]) < MaxSubs
  /\ handlers' = [handlers EXCEPT ![t] = Append(@, h)]
  /\ UNCHANGED <<tasks, metrics, used, shut, started, audience>>

Once(t, w) ==
  /\ w \notin used /\ Len(handlers[t]) < MaxSubs
  /\ used' = used \cup {w}
  /\ handlers' = [handlers EXCEPT ![t] = Append(@, w)]
  /\ UNCHANGED <<tasks, metrics, shut, started, audience>>

Unsubscribe(t, h) ==
  /\ handlers' = [handlers EXCEPT ![t] = Without(@, h)]
  /\ UNCHANGED <<tasks, metrics, used, shut, started, audience>>

(* unsubscribe_all(event_type) and unsubscribe_all()                       *)
UnsubscribeAll(S) ==
  /\ handlers' = [t \in Types |-> IF t \in S THEN <<>> ELSE handlers[t]]
  /\ UNCHANGED <<tasks, metrics, used, shut, started, audience>>

(* shutdown(): cancel every tracked task, then wait for them; publish()    *)
(* does not look at _shutdown.                                             *)
BeginShutdown ==
  /\ ~shutting
  /\ cancels' = cancels \cup tracked
  /\ gathered' = tracked
  /\ shutting' = TRUE
  /\ UNCHANGED <<handlers, ready, running, tracked, created, metrics, used, shut,
                 started, audience>>

Alive == ToSet(ready) \cup running

(* Mutant: shutdown() waits until no delivery is left, old or new.         *)
EndShutdownWhenEmpty ==
  /\ shutting /\ Alive = {}
  /\ tracked' = {} /\ gathered' = {} /\ shutting' = FALSE /\ shut' = TRUE
  /\ UNCHANGED <<handlers, ready, running, cancels, created, metrics, used, started,
                 audience>>

(* gather returns once its tasks are done; _running_tasks.clear() forgets  *)
(* whatever was published meanwhile.                                       *)
EndShutdown ==
  /\ shutting /\ gathered \cap Alive = {}
  /\ tracked' = {} /\ gathered' = {} /\ shutting' = FALSE /\ shut' = TRUE
  /\ UNCHANGED <<handlers, ready, running, cancels, created, metrics, used, started,
                 audience>>

EndHandler(k) == HandlerReturns(k) \/ HandlerRaises(k) \/ HandlerCancelled(k)

BusNext ==
  \/ \E t \in Types : Publish(t) \/ PublishSync(t)
  \/ \E t \in Types, h \in Handlers : Subscribe(t, h) \/ Unsubscribe(t, h)
  \/ \E t \in Types, w \in Wrappers : Once(t, w)
  \/ \E S \in {{t} : t \in Types} \cup {Types} : UnsubscribeAll(S)
  \/ StartHandler
  \/ \E k \in running : EndHandler(k)
  \/ BeginShutdown
  \/ EndShutdown

BusSpec == BusInit /\ [][BusNext]_busVars

(* The loop starts every ready task, delivers every cancellation and, when *)
(* handlers are not stubborn, resumes every suspended handler.             *)
BusFairness ==
  /\ WF_busVars(StartHandler)
  /\ WF_busVars(EndShutdown)
  /\ WF_busVars(\E k \in running : HandlerCancelled(k))
  /\ ~Stubborn => WF_busVars(\E k \in running : EndHandler(k))
BusFairSpec == BusSpec /\ BusFairness

-----------------------------------------------------------------------------
(* Types of every variable.                                                *)
BusTypeOK ==
  /\ handlers \in [Types -> Seq(Entries)]
  /\ ready \in Seq(Task) /\ running \subseteq Task /\ tracked \subseteq Task
  /\ cancels \subseteq Task /\ gathered \subseteq Task
  /\ shutting \in BOOLEAN /\ shut \in BOOLEAN
  /\ published \in 0..MaxEvents
  /\ processed \in Nat /\ timeouts \in Nat /\ errors \in Nat
  /\ created \in Nat /\ skipped \in Nat /\ aborted \in Nat
  /\ used \subseteq Wrappers
  /\ started \in [Entries -> Seq(Events)]
  /\ audience \in [Events -> SUBSET Entries]

(* Every delivery is accounted for once: alive, processed, failed, timed   *)
(* out or cancelled.  The metrics are what the operators watch.            *)
DeliveriesAccounted ==
  created + skipped = Len(ready) + Cardinality(running) + processed + timeouts
                        + errors + aborted

(* A handler is called with events in the order they were published.       *)
CalledInOrder ==
  \A x \in Entries : \A i, j \in 1..Len(started[x]) :
    i < j => started[x][i] <= started[x][j]

(* A handler is called only with events published while it was subscribed, *)
(* even if it has been unsubscribed, or subscribed again, before the call. *)
CalledAsSubscribed ==
  \A x \in Entries : \A i \in 1..Len(started[x]) : x \in audience[started[x][i]]

(* Until a shutdown, an empty _running_tasks (wait_until_empty returns     *)
(* True) means that no delivery is alive.                                  *)
EmptyMeansDone == ~shut /\ tracked = {} => Alive = {}

(* The four together: no delivery is lost, doubled, reordered or made to   *)
(* somebody who had not asked for it.                                      *)
DeliveriesSound ==
  DeliveriesAccounted /\ CalledInOrder /\ CalledAsSubscribed /\ EmptyMeansDone

(* shutdown() comes back: whatever it waits for has ended or is about to   *)
(* be cancelled, except a handler whose cancellation wait_for swallowed.   *)
ShutdownReturns ==
  shutting ~> (~shutting \/ \E k \in gathered \cap running : k \notin cancels)

(* A handler that never returns does not hold up the other deliveries:     *)
(* every created task is started (or cancelled).                           *)
NobodyStarves == \A n \in 1..MaxEvents :
  (\E i \in 1..Len(ready) : ready[i].event = n) ~>
     ~(\E i \in 1..Len(ready) : ready[i].event = n)

(* Neither deliveries nor shutdown() wait for a handler for ever.          *)
BusProgresses == ShutdownReturns /\ NobodyStarves

-----------------------------------------------------------------------------
(* What a docstring says, and the code does not do.                        *)

(* :203 "Dang ky handler chi chay mot lan": once() runs the handler once.  *)
OnceRunsOnce == \A w \in Wrappers : Len(started[w]) <= 1
=============================================================================
