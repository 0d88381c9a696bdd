------------------------------ MODULE MacroEngine ------------------------------
(***************************************************************************)
(* core/macro: the news guardrail.  VolatilityCountdown's one-second loop  *)
(* derives a macro state and a guardrail from the list of scheduled        *)
(* events; MacroEngine copies both to the event bus and refreshes the list *)
(* by scraping a calendar that changes in the world.                       *)
(*                                                                         *)
(* An event is its title and its time, which is also what its event_id is  *)
(* made of (calendar_scraper._generate_event_id): a rescheduled event has  *)
(* a new id.  The loop ticks between two whole seconds, and `now` is the   *)
(* later of them: int(scheduled - clock) is e.time - now, and an event at  *)
(* `now` is still in the future.                                           *)
(***************************************************************************)
EXTENDS Integers, FiniteSets, FiniteSetsExt

CONSTANTS
  High,       \* titles of HIGH impact events, the others are MEDIUM
  Calendars,  \* the calendars the world may publish: sets of events
  Caches,     \* what economic_calendar.db may hold when the engine starts
  Pre,        \* pre_news_seconds (900)
  Window,     \* news_window_seconds (300)
  Post,       \* post_news_seconds (1800)
  Cluster,    \* the 1800 seconds of the cluster test
  Forget,     \* age at which a vanished event is not a cancellation (1 hour)
  MaxGap,     \* longest time between two ticks of the loop (1: never late)
  MaxTime,    \* bound: the time of the model stops here, long after all events
  MaxChanges  \* bound: number of changes of the published calendar

Listed == UNION (Calendars \cup Caches)
Impact(e) == IF e.title \in High THEN "HIGH" ELSE "MEDIUM"
Slots == {"start", "scheduler"}
NoEvent == [title |-> "none", time |-> -1]

ASSUME EngineAssumption ==
  /\ {Pre, Window, Post, Cluster, Forget, MaxTime, MaxChanges} \subseteq Nat
  /\ MaxGap \in Nat \ {0}
  /\ \A e \in Listed : e.time \in Nat

VARIABLES
  now,       \* time of the last tick
  calendar,  \* the calendar the world publishes
  changes,   \* how often it has changed
  events,    \* countdown._events
  known,     \* _known_event_times
  inWindow,  \* countdown._in_news_window
  active,    \* countdown._active_guardrail
  bridged,   \* the watcher has registered the engine's callback
  state,     \* engine._current_macro_state
  guard,     \* engine._guardrail_active
  heard,     \* the last guardrail event on the bus said "activated"
  fetched,   \* responses on their way in each scrape, {} when none is
  running,   \* engine._running
  punctual   \* history: no tick was late, nothing cached, nothing has moved

countdown == <<inWindow, active>>
world == <<calendar, changes, punctual>>
engine == <<bridged, state, guard, heard>>
vars == <<now, world, events, known, countdown, engine, fetched, running>>

-----------------------------------------------------------------------------
(* start() at its last await: _load_cache_from_db has filled the list, the *)
(* tasks are created, and the first scrape is on its way.                  *)
Init ==
  /\ now = 0
  /\ calendar \in Calendars /\ changes = 0
  /\ events \in Caches /\ known = events
  /\ inWindow = FALSE /\ active = FALSE
  /\ bridged = FALSE /\ state = "NORMAL" /\ guard = FALSE /\ heard = FALSE
  /\ fetched = [s \in Slots |-> IF s = "start" THEN calendar ELSE {}]
  /\ running = TRUE
  /\ punctual = (events = {})

(* _find_next_event: the first event of the sorted list that is not past.  *)
NextEvents(n) ==
  LET future == {e \in events : e.time >= n} IN
  IF future = {} THEN {NoEvent}
  ELSE {e \in future : \A f \in future : e.time <= f.time}

(* get_events_in_window                                                    *)
HighWithin(n, span) ==
  {e \in events : Impact(e) = "HIGH" /\ n <= e.time /\ e.time < n + span}

(* Mutants: the last Pre seconds exclude their first; they begin too early. *)
NearStateLate(d, e) ==
  IF d > 0 /\ d < Pre /\ Impact(e) = "HIGH"
  THEN IF d <= Window THEN "NEWS_WINDOW" ELSE "PRE_NEWS"
  ELSE "NORMAL"
NearStateEarly(d, e) ==
  IF d > 0 /\ d <= Pre + Window /\ Impact(e) = "HIGH"
  THEN IF d <= Window THEN "NEWS_WINDOW" ELSE "PRE_NEWS"
  ELSE "NORMAL"

(* _compute_state                                                          *)
PastState(n) ==
  IF \E e \in events : e.time < n /\ n - e.time <= Post + 1 THEN "POST_NEWS" ELSE "NORMAL"
NearState(d, e) ==
  IF d > 0 /\ d <= Pre /\ Impact(e) = "HIGH"
  THEN IF d <= Window THEN "NEWS_WINDOW" ELSE "PRE_NEWS"
  ELSE "NORMAL"
ComputeState(n, e) ==
  LET d == e.time - n IN
  IF Cardinality(HighWithin(n, Cluster)) >= 2 THEN "CLUSTER"
  ELSE IF e = NoEvent THEN PastState(n)
  ELSE IF inWindow /\ d > 0 THEN "NEWS_WINDOW"
  ELSE NearState(d, e)

(* _in_news_window is written only on the paths that come to look at it.   *)
ComputeWindow(n, e) ==
  IF ComputeState(n, e) = "CLUSTER" \/ e = NoEvent THEN inWindow
  ELSE ComputeState(n, e) = "NEWS_WINDOW"

(* Mutants: a deactivation is not published; only activations are handled. *)
HandleQuietly(newState, newActive) ==
  /\ guard' = (IF bridged THEN newActive ELSE guard)
  /\ heard' = (heard \/ guard')
  /\ state' = (IF bridged THEN newState ELSE state)
HandleActivation(newState, newActive) ==
  /\ guard' = (guard \/ (bridged /\ newActive))
  /\ heard' = guard'
  /\ state' = (IF bridged THEN newState ELSE state)

(* _handle_countdown_update, awaited by the loop after _tick; without a    *)
(* registered callback nobody is told.                                     *)
Handle(newState, newActive) ==
  IF bridged
  THEN /\ guard' = newActive
       /\ heard' = newActive
       /\ state' = newState
  ELSE UNCHANGED <<guard, heard, state>>

(* _loop: sleep, _tick, callback.  Time stands still at MaxTime.           *)
Tick ==
  \E d \in 1..MaxGap :
    LET n == Min({now + d, MaxTime}) IN
    \E e \in NextEvents(n) :
      LET s == ComputeState(n, e) IN
      /\ now' = n
      /\ inWindow' = ComputeWindow(n, e)
      /\ active' = (s \in {"PRE_NEWS", "NEWS_WINDOW"} /\ Impact(e) = "HIGH")
      /\ Handle(s, active')
      /\ punctual' = (punctual /\ d = 1)
      /\ UNCHANGED <<calendar, changes, events, known, bridged, fetched, running>>

(* The first step of _countdown_watcher.                                   *)
WatcherStarts ==
  /\ running /\ ~bridged
  /\ bridged' = TRUE
  /\ UNCHANGED <<now, world, events, known, countdown, state, guard, heard, fetched,
                 running>>

(* _scheduler_loop awaits scraper.scrape(), while start() may still await  *)
(* its own: the request is answered with the calendar of that moment.      *)
BeginScrape ==
  /\ running /\ fetched["scheduler"] = {}
  /\ fetched' = [fetched EXCEPT !["scheduler"] = calendar]
  /\ UNCHANGED <<now, world, events, known, countdown, engine, running>>

(* The request fails or is answered with nothing: the list stays.          *)
ScrapeFails(s) ==
  /\ fetched[s] # {}
  /\ fetched' = [fetched EXCEPT ![s] = {}]
  /\ UNCHANGED <<now, world, events, known, countdown, engine, running>>

(* _detect_cancellations: known events missing from the scrape, unless     *)
(* they are past for Forget.                                               *)
Vanished(new) == {k \in known \ new : k.time > now - Forget}

(* _scrape_and_update with a non-empty result.  The known times are        *)
(* overwritten before _detect_reschedule compares with them, so that call  *)
(* never finds a difference.  The first vanished event resets the engine   *)
(* if it is in PRE_NEWS or NEWS_WINDOW, whichever event it is about.       *)
EndScrape(s) ==
  LET new == fetched[s] IN
  /\ new # {}
  /\ events' = new
  /\ known' = (known \cup new) \ Vanished(new)
  /\ IF Vanished(new) # {} /\ state \in {"PRE_NEWS", "NEWS_WINDOW"}
     THEN guard' = FALSE /\ heard' = FALSE /\ state' = "NORMAL"
     ELSE UNCHANGED <<guard, heard, state>>
  /\ fetched' = [fetched EXCEPT ![s] = {}]
  /\ UNCHANGED <<now, world, countdown, bridged, running>>

(* stop() cancels the scheduler and the watcher, and closes the scraper;   *)
(* the countdown loop and its callback stay.                               *)
Stop ==
  /\ running /\ fetched["start"] = {}
  /\ running' = FALSE
  /\ fetched' = [fetched EXCEPT !["scheduler"] = {}]
  /\ UNCHANGED <<now, world, events, known, countdown, engine>>

(* The world adds, cancels or moves events.                                *)
CalendarChanges ==
  /\ changes < MaxChanges
  /\ calendar' \in Calendars \ {calendar}
  /\ changes' = changes + 1
  /\ punctual' = FALSE
  /\ UNCHANGED <<now, events, known, countdown, engine, fetched, running>>

Next ==
  \/ Tick
  \/ WatcherStarts
  \/ BeginScrape
  \/ \E s \in Slots : ScrapeFails(s)
  \/ \E s \in Slots : EndScrape(s)
  \/ Stop
  \/ CalendarChanges

Spec == Init /\ [][Next]_vars

(* The countdown loop goes on whatever happens in it.                      *)
FairSpec == Spec /\ WF_vars(Tick)

-----------------------------------------------------------------------------
States == {"NORMAL", "PRE_NEWS", "NEWS_WINDOW", "POST_NEWS", "CLUSTER"}

(* Types of every variable.                                                *)
TypeOK ==
  /\ now \in 0..MaxTime
  /\ calendar \in Calendars /\ changes \in 0..MaxChanges
  /\ events \subseteq Listed /\ known \subseteq Listed
  /\ inWindow \in BOOLEAN /\ active \in BOOLEAN
  /\ bridged \in BOOLEAN /\ guard \in BOOLEAN /\ heard \in BOOLEAN
  /\ state \in States
  /\ fetched \in [Slots -> SUBSET Listed]
  /\ running \in BOOLEAN /\ punctual \in BOOLEAN

(* The engine's guardrail is on only while the countdown's is, in a state  *)
(* that calls for it, and whoever listens to the bus knows: a cancellation *)
(* between two ticks cannot leave the three apart the wrong way.           *)
GuardrailExplained ==
  /\ guard => active /\ state \in {"PRE_NEWS", "NEWS_WINDOW"}
  /\ heard = guard

(* Every tick leaves the engine's guardrail on when the next event is a    *)
(* HIGH one at most Pre away that is not part of a cluster, whatever was   *)
(* scraped, cancelled or missed before.                                    *)
GuardrailCovers ==
  [][now' # now /\ bridged =>
       \A e \in NextEvents(now') :
         /\ NextEvents(now') = {e} /\ HighWithin(now', Cluster) = {e}
         /\ 0 < e.time - now' /\ e.time - now' <= Pre
         => guard']_vars

(* Every event the countdown counts down to is known to the engine, so its *)
(* disappearance from the calendar can be noticed.                         *)
ListedIsKnown == events \subseteq known

(* Once the last event is past the guardrail goes off and stays off.       *)
GuardrailEnds == <>[](~guard)

(* No two HIGH events of a calendar form a cluster.                        *)
Isolated(c) ==
  \A e, f \in c :
    e # f /\ Impact(e) = "HIGH" /\ Impact(f) = "HIGH" /\ e.time <= f.time
      => f.time - e.time >= Cluster

(* The guardrail is on only within Pre before a HIGH event.                *)
GuardrailNearNews ==
  guard => \E e \in calendar : Impact(e) = "HIGH" /\ 0 < e.time - now
                                 /\ e.time - now <= Pre

(* _in_news_window is up only just before an event the countdown knows.    *)
WindowIsShort ==
  inWindow => \E e \in events : Impact(e) = "HIGH" /\ 0 < e.time - now
                                  /\ e.time - now <= Window

(* As long as nothing is late, moved, left over in the cache or clustered, *)
(* the guardrail is on only just before a HIGH event, and the news window  *)
(* is up only just before one that the countdown knows, whatever scrapes   *)
(* fail and MEDIUM events come between (_compute_state, _tick).            *)
PunctualIsTight ==
  punctual /\ Isolated(calendar) => GuardrailNearNews /\ WindowIsShort

-----------------------------------------------------------------------------
(* What a comment says, and the code does not do.                          *)

(* volatility_countdown.py:308 "NEWS_WINDOW: actual vua xuat hien hoac     *)
(* < 5 phut": the engine is in NEWS_WINDOW only within Window of a HIGH    *)
(* event, before or after it.                                              *)
NewsWindowIsNow ==
  state = "NEWS_WINDOW" => \E e \in events : Impact(e) = "HIGH"
                                   /\ e.time - now \in -Window..Window
=============================================================================
