----------------------------- MODULE GuardrailProofs -----------------------------
(***************************************************************************)
(* Proofs about the guardrail, from the calendar to the screen.            *)
(* MacroEngine: for every calendar, every lateness of the countdown loop   *)
(* and every interleaving of scrapes with ticks.  StateFeed: for every     *)
(* list of sections and every pattern of events, throttling, connections,  *)
(* lost connections and restarts.                                          *)
(***************************************************************************)
EXTENDS MacroEngine, StateFeed, FiniteSetTheorems, SequenceTheorems, TLAPS

(* What makes GuardrailExplained inductive: the engine's guardrail cannot  *)
(* be on before the engine has registered its callback.                    *)
GuardInv == GuardrailExplained /\ (guard => bridged)

(* The countdown's guardrail after a tick is on only in a state of it.     *)
LEMMA TickGuard ==
  ASSUME Tick, GuardInv
  PROVE  GuardInv'
<1>1. PICK d \in 1..MaxGap : \E e \in NextEvents(Min({now + d, MaxTime})) :
        LET s == ComputeState(Min({now + d, MaxTime}), e) IN
        /\ active' = (s \in {"PRE_NEWS", "NEWS_WINDOW"} /\ Impact(e) = "HIGH")
        /\ Handle(s, active')
        /\ bridged' = bridged
  BY DEF Tick
<1>2. PICK s : /\ active' => s \in {"PRE_NEWS", "NEWS_WINDOW"}
               /\ Handle(s, active')
               /\ bridged' = bridged
  BY <1>1
<1>3. CASE bridged
  <2>1. guard' = active' /\ heard' = active' /\ state' = s
    BY <1>2, <1>3 DEF Handle
  <2> QED
    BY <1>2, <1>3, <2>1 DEF GuardInv, GuardrailExplained
<1>4. CASE ~bridged
  <2>1. guard' = guard /\ heard' = heard
    BY <1>2, <1>4 DEF Handle
  <2>2. ~guard
    BY <1>4 DEF GuardInv
  <2>3. heard = guard
    BY DEF GuardInv, GuardrailExplained
  <2> QED
    BY <2>1, <2>2, <2>3 DEF GuardInv, GuardrailExplained
<1> QED
  BY <1>3, <1>4

(* A scrape can only switch the guardrail off, and tells the bus.          *)
LEMMA ScrapeGuard ==
  ASSUME NEW s \in Slots, EndScrape(s), GuardInv
  PROVE  GuardInv'
<1>1. active' = active /\ bridged' = bridged
  BY DEF EndScrape, countdown
<1>2. CASE guard' = FALSE /\ heard' = FALSE
  BY <1>2 DEF GuardInv, GuardrailExplained
<1>3. CASE UNCHANGED <<guard, heard, state>>
  BY <1>1, <1>3 DEF GuardInv, GuardrailExplained
<1> QED
  BY <1>2, <1>3 DEF EndScrape

LEMMA GuardStep == GuardInv /\ [Next]_vars => GuardInv'
<1> SUFFICES ASSUME GuardInv, [Next]_vars PROVE GuardInv'
  OBVIOUS
<1>1. CASE Tick
  BY <1>1, TickGuard
<1>2. CASE WatcherStarts
  BY <1>2 DEF WatcherStarts, countdown, GuardInv, GuardrailExplained
<1>3. CASE BeginScrape
  BY <1>3 DEF BeginScrape, countdown, engine, GuardInv, GuardrailExplained
<1>4. ASSUME NEW s \in Slots, ScrapeFails(s) PROVE GuardInv'
  BY <1>4 DEF ScrapeFails, countdown, engine, GuardInv, GuardrailExplained
<1>5. ASSUME NEW s \in Slots, EndScrape(s) PROVE GuardInv'
  BY <1>5, ScrapeGuard
<1>6. CASE Stop
  BY <1>6 DEF Stop, countdown, engine, GuardInv, GuardrailExplained
<1>7. CASE CalendarChanges
  BY <1>7 DEF CalendarChanges, countdown, engine, GuardInv, GuardrailExplained
<1>8. CASE UNCHANGED vars
  BY <1>8 DEF vars, countdown, engine, GuardInv, GuardrailExplained
<1> QED
  BY <1>1, <1>2, <1>3, <1>4, <1>5, <1>6, <1>7, <1>8 DEF Next

(* The engine's guardrail is on only while the countdown's is, in a state  *)
(* that calls for it, and the bus knows.                                   *)
THEOREM GuardrailExplainedAlways == Spec => []GuardrailExplained
<1>1. Init => GuardInv
  BY DEF Init, GuardInv, GuardrailExplained
<1>2. GuardInv => GuardrailExplained
  BY DEF GuardInv
<1> QED
  BY <1>1, <1>2, GuardStep, PTL DEF Spec

(* Every event counted down to can be noticed when it disappears: only a   *)
(* scrape writes the two lists, and it keeps what it just read.            *)
THEOREM ListedIsKnownAlways == Spec => []ListedIsKnown
<1>1. Init => ListedIsKnown
  BY DEF Init, ListedIsKnown
<1>2. ListedIsKnown /\ [Next]_vars => ListedIsKnown'
  <2> SUFFICES ASSUME ListedIsKnown, [Next]_vars PROVE ListedIsKnown'
    OBVIOUS
  <2>1. ASSUME NEW s \in Slots, EndScrape(s) PROVE ListedIsKnown'
    <3>1. events' = fetched[s]
          /\ known' = (known \cup fetched[s]) \ Vanished(fetched[s])
      BY <2>1 DEF EndScrape
    <3>2. Vanished(fetched[s]) \cap fetched[s] = {}
      BY DEF Vanished
    <3> QED
      BY <3>1, <3>2 DEF ListedIsKnown
  <2>2. CASE UNCHANGED <<events, known>>
    BY <2>2 DEF ListedIsKnown
  <2>3. Tick => UNCHANGED <<events, known>>
    BY DEF Tick
  <2>4. WatcherStarts \/ BeginScrape \/ Stop \/ CalendarChanges
          => UNCHANGED <<events, known>>
    BY DEF WatcherStarts, BeginScrape, Stop, CalendarChanges
  <2>5. ASSUME NEW s \in Slots, ScrapeFails(s) PROVE UNCHANGED <<events, known>>
    BY <2>5 DEF ScrapeFails
  <2>6. UNCHANGED vars => UNCHANGED <<events, known>>
    BY DEF vars
  <2> QED
    BY <2>1, <2>2, <2>3, <2>4, <2>5, <2>6 DEF Next
<1> QED
  BY <1>1, <1>2, PTL DEF Spec

(* The state computed for a lone HIGH event less than Pre ahead.           *)
LEMMA LoneHighState ==
  ASSUME NEW n \in Int, NEW e, e.time \in Int, Pre \in Nat, n \in Nat,
         HighWithin(n, Cluster) = {e}, 0 < e.time - n, e.time - n <= Pre
  PROVE  ComputeState(n, e) \in {"PRE_NEWS", "NEWS_WINDOW"} /\ Impact(e) = "HIGH"
<1>1. Cardinality(HighWithin(n, Cluster)) = 1
  BY FS_Singleton
<1>2. Impact(e) = "HIGH"
  BY DEF HighWithin
<1>3. e # NoEvent
  BY DEF NoEvent
<1>4. NearState(e.time - n, e) \in {"PRE_NEWS", "NEWS_WINDOW"}
  BY <1>2 DEF NearState
<1>5. ComputeState(n, e) \in {"NEWS_WINDOW", NearState(e.time - n, e)}
  BY <1>1, <1>3 DEF ComputeState
<1> QED
  BY <1>2, <1>4, <1>5

(* The time of a tick.                                                     *)
LEMMA MinOfTwo ==
  ASSUME NEW a \in Nat, NEW b \in Nat
  PROVE  Min({a, b}) \in {a, b} /\ Min({a, b}) <= a /\ Min({a, b}) <= b
<1>1. \E x \in {a, b} : \A y \in {a, b} : x <= y
  <2>1. CASE a <= b
    BY <2>1
  <2>2. CASE b <= a
    BY <2>2
  <2> QED
    BY <2>1, <2>2
<1> QED
  BY <1>1 DEF Min

LEMMA TickTime ==
  ASSUME NEW d \in 1..MaxGap, now \in 0..MaxTime
  PROVE  Min({now + d, MaxTime}) \in 0..MaxTime
<1>1. MaxGap \in Nat /\ MaxTime \in Nat
  BY EngineAssumption
<1>2. now + d \in Nat
  BY <1>1
<1> QED
  BY <1>1, <1>2, MinOfTwo

(* The state, and the guardrail, at every tick are among those declared.   *)
LEMMA StateRange ==
  ASSUME NEW n, NEW e
  PROVE  ComputeState(n, e) \in States
BY DEF ComputeState, PastState, NearState, States

LEMMA WindowRange ==
  ASSUME NEW n, NEW e, inWindow \in BOOLEAN
  PROVE  ComputeWindow(n, e) \in BOOLEAN
BY DEF ComputeWindow

LEMMA TickTypes ==
  ASSUME Tick, TypeOK
  PROVE  TypeOK'
<1>1. PICK d \in 1..MaxGap : \E e \in NextEvents(Min({now + d, MaxTime})) :
        LET n == Min({now + d, MaxTime})
            s == ComputeState(n, e) IN
        /\ now' = n
        /\ inWindow' = ComputeWindow(n, e)
        /\ active' = (s \in {"PRE_NEWS", "NEWS_WINDOW"} /\ Impact(e) = "HIGH")
        /\ Handle(s, active')
  BY DEF Tick
<1>2. PICK e : LET n == Min({now + d, MaxTime})
                   s == ComputeState(n, e) IN
               /\ now' = n
               /\ inWindow' = ComputeWindow(n, e)
               /\ active' = (s \in {"PRE_NEWS", "NEWS_WINDOW"} /\ Impact(e) = "HIGH")
               /\ Handle(s, active')
  BY <1>1
<1>3. now' \in 0..MaxTime
  BY <1>2, TickTime DEF TypeOK
<1>4. inWindow' \in BOOLEAN
  BY <1>2, WindowRange DEF TypeOK
<1>5. active' \in BOOLEAN
  BY <1>2
<1>6. guard' \in BOOLEAN /\ heard' \in BOOLEAN
  BY <1>2, <1>5 DEF Handle, TypeOK
<1>7. state' \in States
  BY <1>2, StateRange DEF Handle, TypeOK
<1>8. UNCHANGED <<calendar, changes, events, known, bridged, fetched, running>>
  BY DEF Tick
<1>9. punctual' \in BOOLEAN
  BY DEF Tick, TypeOK
<1> QED
  BY <1>3, <1>4, <1>5, <1>6, <1>7, <1>8, <1>9 DEF TypeOK

LEMMA TypeStep == TypeOK /\ [Next]_vars => TypeOK'
<1> SUFFICES ASSUME TypeOK, [Next]_vars PROVE TypeOK'
  OBVIOUS
<1>1. CASE Tick
  BY <1>1, TickTypes
<1>2. CASE WatcherStarts
  BY <1>2 DEF WatcherStarts, TypeOK, world, countdown
<1>3. \A c \in Calendars : c \subseteq Listed
  BY DEF Listed
<1>4. CASE BeginScrape
  <2>1. fetched' \in [Slots -> SUBSET Listed]
    BY <1>3, <1>4 DEF BeginScrape, TypeOK
  <2> QED
    BY <1>4, <2>1 DEF BeginScrape, TypeOK, world, countdown, engine
<1>5. ASSUME NEW s \in Slots, ScrapeFails(s) PROVE TypeOK'
  <2>1. fetched' \in [Slots -> SUBSET Listed]
    BY <1>5 DEF ScrapeFails, TypeOK
  <2> QED
    BY <1>5, <2>1 DEF ScrapeFails, TypeOK, world, countdown, engine
<1>6. ASSUME NEW s \in Slots, EndScrape(s) PROVE TypeOK'
  <2>1. fetched[s] \subseteq Listed
    BY DEF TypeOK
  <2>2. fetched' \in [Slots -> SUBSET Listed]
    BY <1>6 DEF EndScrape, TypeOK
  <2>3. events' \subseteq Listed /\ known' \subseteq Listed
    BY <1>6, <2>1 DEF EndScrape, TypeOK
  <2>4. guard' \in BOOLEAN /\ heard' \in BOOLEAN /\ state' \in States
    BY <1>6 DEF EndScrape, TypeOK, States
  <2>5. UNCHANGED <<now, world, countdown, bridged, running>>
    BY <1>6 DEF EndScrape
  <2> QED
    BY <2>2, <2>3, <2>4, <2>5 DEF TypeOK, world, countdown
<1>7. CASE Stop
  <2>1. fetched' \in [Slots -> SUBSET Listed]
    BY <1>7 DEF Stop, TypeOK
  <2> QED
    BY <1>7, <2>1 DEF Stop, TypeOK, world, countdown, engine
<1>8. CASE CalendarChanges
  <2>1. changes' \in 0..MaxChanges
    BY <1>8, EngineAssumption DEF CalendarChanges, TypeOK
  <2> QED
    BY <1>8, <2>1 DEF CalendarChanges, TypeOK, countdown, engine
<1>9. CASE UNCHANGED vars
  BY <1>9 DEF vars, TypeOK, world, countdown, engine
<1> QED
  BY <1>1, <1>2, <1>4, <1>5, <1>6, <1>7, <1>8, <1>9 DEF Next

LEMMA InitTypes == Init => TypeOK
<1> SUFFICES ASSUME Init PROVE TypeOK
  OBVIOUS
<1>1. now \in 0..MaxTime /\ changes \in 0..MaxChanges
  BY EngineAssumption DEF Init
<1>2. calendar \subseteq Listed /\ events \subseteq Listed
  BY DEF Init, Listed
<1>3. fetched \in [Slots -> SUBSET Listed]
  BY <1>2 DEF Init
<1>4. state \in States
  BY DEF Init, States
<1> QED
  BY <1>1, <1>2, <1>3, <1>4 DEF Init, TypeOK

(* Types are kept.                                                         *)
THEOREM TypeCorrect == Spec => []TypeOK
  BY InitTypes, TypeStep, PTL DEF Spec

(* Every tick leaves the guardrail on before a lone HIGH event.            *)
LEMMA TickCovers ==
  ASSUME Tick, TypeOK, bridged, NEW e \in NextEvents(now'),
         NextEvents(now') = {e}, HighWithin(now', Cluster) = {e},
         0 < e.time - now', e.time - now' <= Pre
  PROVE  guard'
<1>1. PICK d \in 1..MaxGap :
        /\ now' = Min({now + d, MaxTime})
        /\ \E x \in NextEvents(now') :
             /\ active' = (ComputeState(now', x) \in {"PRE_NEWS", "NEWS_WINDOW"}
                             /\ Impact(x) = "HIGH")
             /\ Handle(ComputeState(now', x), active')
  BY DEF Tick
<1>2. /\ active' = (ComputeState(now', e) \in {"PRE_NEWS", "NEWS_WINDOW"}
                      /\ Impact(e) = "HIGH")
      /\ Handle(ComputeState(now', e), active')
  BY <1>1
<1>3. now' \in Nat /\ now' \in Int
  <2>1. now \in 0..MaxTime
    BY DEF TypeOK
  <2>2. now' \in 0..MaxTime
    BY <1>1, <2>1, TickTime
  <2>3. MaxTime \in Nat
    BY EngineAssumption
  <2> QED
    BY <2>2, <2>3
<1>4. e.time \in Int /\ Pre \in Nat
  <2>1. e \in events
    BY DEF HighWithin
  <2> QED
    BY <2>1, EngineAssumption DEF TypeOK
<1>5. active'
  BY <1>2, <1>3, <1>4, LoneHighState
<1> QED
  BY <1>2, <1>5 DEF Handle

(* Whatever was scraped, cancelled or missed before.                       *)
THEOREM GuardrailCoversAlways == Spec => GuardrailCovers
<1>1. TypeOK /\ [Next]_vars =>
        [now' # now /\ bridged =>
           \A e \in NextEvents(now') :
             /\ NextEvents(now') = {e} /\ HighWithin(now', Cluster) = {e}
             /\ 0 < e.time - now' /\ e.time - now' <= Pre
             => guard']_vars
  <2> SUFFICES ASSUME TypeOK, Next, now' # now, bridged,
                      NEW e \in NextEvents(now'),
                      NextEvents(now') = {e}, HighWithin(now', Cluster) = {e},
                      0 < e.time - now', e.time - now' <= Pre
               PROVE  guard'
    OBVIOUS
  <2>1. Tick
    BY DEF Next, WatcherStarts, BeginScrape, ScrapeFails, EndScrape, Stop,
           CalendarChanges
  <2> QED
    BY <2>1, TickCovers
<1> QED
  BY <1>1, TypeCorrect, PTL DEF Spec, GuardrailCovers

(* While all is punctual.  The news window is up only before an event that  *)
(* would switch on the guardrail, too; the list is that of the calendar or *)
(* still empty.                                                            *)
WindowIsGuarded ==
  inWindow => \E e \in events : /\ Impact(e) = "HIGH" /\ 0 < e.time - now
                                /\ e.time - now <= Window /\ e.time - now <= Pre
Tight ==
  /\ events \in {{}, calendar} /\ \A s \in Slots : fetched[s] \in {{}, calendar}
  /\ GuardrailNearNews /\ WindowIsGuarded
PunctualInv ==
  /\ TypeOK /\ GuardInv
  /\ punctual /\ Isolated(calendar) => Tight

(* There is never a cluster.                                               *)
LEMMA NoCluster ==
  ASSUME Isolated(calendar), TypeOK, events \in {{}, calendar}, NEW n \in Nat
  PROVE  ~(Cardinality(HighWithin(n, Cluster)) >= 2)
<1>1. \A e \in events : e.time \in Nat
  BY EngineAssumption DEF TypeOK
<1>2. Cluster \in Nat
  BY EngineAssumption
<1>3. ASSUME NEW e \in HighWithin(n, Cluster), NEW f \in HighWithin(n, Cluster), e # f
      PROVE  FALSE
  <2>1. /\ e \in calendar /\ f \in calendar /\ calendar \in Calendars
        /\ Impact(e) = "HIGH" /\ Impact(f) = "HIGH"
        /\ e.time \in Nat /\ f.time \in Nat
        /\ n <= e.time /\ e.time < n + Cluster /\ n <= f.time /\ f.time < n + Cluster
    BY <1>1, <1>3 DEF HighWithin, TypeOK
  <2>2. /\ e.time <= f.time => f.time - e.time >= Cluster
        /\ f.time <= e.time => e.time - f.time >= Cluster
    BY <1>3, <2>1 DEF Isolated
  <2> QED
    BY <1>2, <2>1, <2>2
<1>4. HighWithin(n, Cluster) = {} \/ \E e : HighWithin(n, Cluster) = {e}
  BY <1>3
<1>5. CASE HighWithin(n, Cluster) = {}
  BY <1>5, FS_EmptySet
<1>6. ASSUME NEW e, HighWithin(n, Cluster) = {e}
      PROVE  ~(Cardinality(HighWithin(n, Cluster)) >= 2)
  <2>1. Cardinality(HighWithin(n, Cluster)) = 1
    BY <1>6, FS_Singleton
  <2> QED
    BY <2>1
<1> QED
  BY <1>4, <1>5, <1>6

(* What a tick of the punctual loop finds: the next event is no later than *)
(* the one the window or the guardrail stands for.                         *)
LEMMA NextIsNearer ==
  ASSUME TypeOK, NEW n \in Nat, NEW h \in events, h.time >= n, NEW e \in NextEvents(n)
  PROVE  e \in events /\ e # NoEvent /\ e.time \in Nat /\ n <= e.time /\ e.time <= h.time
<1>1. \A x \in events : x.time \in Nat
  BY EngineAssumption DEF TypeOK
<1>2. e \in events /\ e.time >= n /\ e.time <= h.time
  BY DEF NextEvents
<1> QED
  BY <1>1, <1>2 DEF NoEvent

LEMMA TickTight ==
  ASSUME Isolated(calendar), TypeOK, GuardInv, Tight, Tick, punctual'
  PROVE  GuardrailNearNews' /\ WindowIsGuarded'
<1>t. /\ TypeOK /\ GuardInv /\ events \in {{}, calendar}
      /\ GuardrailNearNews /\ WindowIsGuarded /\ Isolated(calendar)
  BY DEF Tight
<1>1. PICK d \in 1..MaxGap : \E e \in NextEvents(Min({now + d, MaxTime})) :
        LET n == Min({now + d, MaxTime}) IN
        /\ now' = n
        /\ inWindow' = ComputeWindow(n, e)
        /\ active' = (ComputeState(n, e) \in {"PRE_NEWS", "NEWS_WINDOW"}
                        /\ Impact(e) = "HIGH")
        /\ Handle(ComputeState(n, e), active')
        /\ d = 1
        /\ UNCHANGED <<calendar, events, bridged>>
  BY DEF Tick
<1> DEFINE n == now'
<1>2. PICK e \in NextEvents(n) :
        /\ inWindow' = ComputeWindow(n, e)
        /\ active' = (ComputeState(n, e) \in {"PRE_NEWS", "NEWS_WINDOW"}
                        /\ Impact(e) = "HIGH")
        /\ Handle(ComputeState(n, e), active')
  BY <1>1
<1>3. now \in Nat /\ n \in Nat /\ n \in {now, now + 1}
  <2>1. now \in 0..MaxTime /\ MaxTime \in Nat /\ d = 1
    BY <1>t, <1>1, EngineAssumption DEF TypeOK
  <2>2. n \in {now + 1, MaxTime} /\ n <= now + 1 /\ n \in 0..MaxTime
    BY <1>1, <2>1, MinOfTwo, TickTime
  <2> QED
    BY <2>1, <2>2
<1>4. events' = events /\ calendar' = calendar /\ bridged' = bridged
  BY <1>1
<1>5. /\ \A x \in events : x.time \in Nat /\ x \in calendar
      /\ Pre \in Nat /\ Window \in Nat
  BY <1>t, EngineAssumption DEF TypeOK
<1> HIDE DEF n
(* The event the window stands for has not come yet, or comes just now.    *)
<1>6. ASSUME inWindow
      PROVE  \E h \in events : /\ Impact(h) = "HIGH" /\ n <= h.time /\ h.time - n <= Window
                               /\ h.time - n <= Pre
                               /\ e \in events /\ e # NoEvent /\ n <= e.time
                               /\ e.time <= h.time
  <2>1. PICK h \in events : /\ Impact(h) = "HIGH" /\ 0 < h.time - now
                            /\ h.time - now <= Window /\ h.time - now <= Pre
    BY <1>t, <1>6 DEF WindowIsGuarded
  <2>2. n <= h.time /\ h.time - n <= Window /\ h.time - n <= Pre
    BY <1>3, <1>5, <2>1
  <2> QED
    BY <1>t, <1>3, <2>1, <2>2, NextIsNearer
<1>7. /\ e \in events \/ e = NoEvent
      /\ ComputeState(n, e) # "CLUSTER"
  <2>1. e \in events \/ e = NoEvent
    BY DEF NextEvents
  <2>2. ~(Cardinality(HighWithin(n, Cluster)) >= 2)
    BY <1>t, <1>3, NoCluster
  <2> QED
    BY <2>1, <2>2 DEF ComputeState, PastState, NearState
(* What a state that calls for the guardrail says of the next event.       *)
<1>8. ASSUME ComputeState(n, e) \in {"PRE_NEWS", "NEWS_WINDOW"}
      PROVE  /\ e \in events /\ 0 < e.time - n
             /\ \/ /\ Impact(e) = "HIGH" /\ e.time - n <= Pre
                   /\ ComputeState(n, e) = "NEWS_WINDOW" => e.time - n <= Window
                \/ inWindow
  <2>1. ~(Cardinality(HighWithin(n, Cluster)) >= 2)
    BY <1>t, <1>3, NoCluster
  <2>2. e # NoEvent
    BY <1>8, <2>1 DEF ComputeState, PastState
  <2>3. \/ inWindow /\ e.time - n > 0
        \/ /\ ComputeState(n, e) = NearState(e.time - n, e)
           /\ ~(inWindow /\ e.time - n > 0)
    BY <2>1, <2>2 DEF ComputeState
  <2>4. CASE inWindow /\ e.time - n > 0
    BY <1>3, <1>5, <1>7, <2>2, <2>4
  <2>5. CASE ComputeState(n, e) = NearState(e.time - n, e)
    BY <1>3, <1>5, <1>7, <1>8, <2>2, <2>5 DEF NearState
  <2> QED
    BY <2>3, <2>4, <2>5
<1>9. GuardrailNearNews'
  <2>1. CASE ~guard'
    BY <2>1 DEF GuardrailNearNews
  <2>2. CASE guard'
    <3>1. bridged
      BY <1>t, <1>2, <2>2 DEF Handle, GuardInv
    <3>2. active'
      BY <1>2, <2>2, <3>1 DEF Handle
    <3>3. ComputeState(n, e) \in {"PRE_NEWS", "NEWS_WINDOW"} /\ Impact(e) = "HIGH"
      BY <1>2, <3>2
    <3>4. e \in events /\ 0 < e.time - n /\ e.time - n <= Pre
      <4>1. CASE inWindow
        BY <1>3, <1>5, <1>6, <1>8, <3>3, <4>1
      <4>2. CASE ~inWindow
        BY <1>8, <3>3, <4>2
      <4> QED
        BY <4>1, <4>2
    <3> QED
      BY <1>4, <1>5, <3>3, <3>4 DEF GuardrailNearNews, n, Impact
  <2> QED
    BY <2>1, <2>2
<1>10. WindowIsGuarded'
  <2>1. CASE e = NoEvent
    <3>1. ~inWindow
      BY <1>6, <2>1
    <3> QED
      BY <1>2, <2>1, <3>1 DEF WindowIsGuarded, ComputeWindow
  <2>2. CASE e # NoEvent /\ ComputeState(n, e) # "NEWS_WINDOW"
    BY <1>2, <1>7, <2>2 DEF WindowIsGuarded, ComputeWindow
  <2>3. CASE ComputeState(n, e) = "NEWS_WINDOW"
    <3>1. \E h \in events : /\ Impact(h) = "HIGH" /\ 0 < h.time - n
                            /\ h.time - n <= Window /\ h.time - n <= Pre
      <4>1. e \in events /\ 0 < e.time - n
        BY <1>8, <2>3
      <4>2. CASE inWindow
        BY <1>3, <1>5, <1>6, <4>1, <4>2
      <4>3. CASE ~inWindow
        BY <1>8, <2>3, <4>3
      <4> QED
        BY <4>2, <4>3
    <3> QED
      BY <1>4, <3>1 DEF WindowIsGuarded, n, Impact
  <2> QED
    BY <2>1, <2>2, <2>3
<1> QED
  BY <1>9, <1>10

LEMMA TightStep ==
  ASSUME Isolated(calendar), TypeOK, GuardInv, Tight, [Next]_vars, punctual'
  PROVE  Tight'
<1>t. /\ TypeOK /\ GuardInv /\ events \in {{}, calendar}
      /\ \A s \in Slots : fetched[s] \in {{}, calendar}
      /\ GuardrailNearNews /\ WindowIsGuarded
  BY DEF Tight
<1>2. fetched \in [Slots -> SUBSET Listed]
  BY <1>t DEF TypeOK
<1> DEFINE Lists == /\ events' \in {{}, calendar'}
                    /\ \A s \in Slots : fetched'[s] \in {{}, calendar'}
           Near == GuardrailNearNews' /\ WindowIsGuarded'
<1> SUFFICES Lists /\ Near
  BY DEF Tight
<1>3. UNCHANGED <<now, calendar, events, guard, inWindow>> => Near
  BY <1>t DEF GuardrailNearNews, WindowIsGuarded, Impact
<1>4. CASE Tick
  <2>1. Lists
    BY <1>t, <1>4 DEF Tick
  <2> QED
    BY <1>4, <2>1, TickTight
<1>5. CASE WatcherStarts
  BY <1>t, <1>3, <1>5 DEF WatcherStarts, world, countdown
<1>6. CASE BeginScrape
  BY <1>t, <1>2, <1>3, <1>6 DEF BeginScrape, world, countdown, engine
<1>7. ASSUME NEW s \in Slots, ScrapeFails(s) PROVE Lists /\ Near
  BY <1>t, <1>2, <1>3, <1>7 DEF ScrapeFails, world, countdown, engine
<1>8. ASSUME NEW s \in Slots, EndScrape(s) PROVE Lists /\ Near
  <2>1. /\ events' = calendar /\ calendar' = calendar /\ now' = now /\ inWindow' = inWindow
        /\ fetched' = [fetched EXCEPT ![s] = {}]
        /\ guard' => guard
    BY <1>t, <1>8 DEF EndScrape, world, countdown
  <2>2. Lists
    BY <1>t, <1>2, <2>1
  <2>3. GuardrailNearNews'
    BY <1>t, <2>1 DEF GuardrailNearNews, Impact
  <2>4. WindowIsGuarded'
    <3>1. CASE ~inWindow
      BY <2>1, <3>1 DEF WindowIsGuarded
    <3>2. CASE inWindow
      <4>1. events = calendar
        BY <1>t, <3>2 DEF WindowIsGuarded
      <4> QED
        BY <1>t, <2>1, <4>1 DEF WindowIsGuarded, Impact
    <3> QED
      BY <3>1, <3>2
  <2> QED
    BY <2>2, <2>3, <2>4
<1>9. CASE Stop
  BY <1>t, <1>2, <1>3, <1>9 DEF Stop, world, countdown, engine
<1>10. CASE CalendarChanges
  BY <1>10 DEF CalendarChanges
<1>11. CASE UNCHANGED vars
  BY <1>t, <1>3, <1>11 DEF vars, world, countdown, engine
<1> QED
  BY <1>4, <1>5, <1>6, <1>7, <1>8, <1>9, <1>10, <1>11 DEF Next

(* What is punctual after a step was so before, with the same calendar.    *)
LEMMA PunctualBefore ==
  ASSUME TypeOK, [Next]_vars, punctual'
  PROVE  punctual /\ calendar' = calendar
<1>1. ASSUME Tick PROVE punctual /\ calendar' = calendar
  BY <1>1 DEF Tick
<1>2. ASSUME NEW s \in Slots, ScrapeFails(s) \/ EndScrape(s)
      PROVE  punctual /\ calendar' = calendar
  BY <1>2 DEF ScrapeFails, EndScrape, world
<1>3. ASSUME WatcherStarts \/ BeginScrape \/ Stop \/ UNCHANGED vars
      PROVE  punctual /\ calendar' = calendar
  BY <1>3 DEF WatcherStarts, BeginScrape, Stop, vars, world
<1>4. ~CalendarChanges
  BY DEF CalendarChanges
<1> QED
  BY <1>1, <1>2, <1>3, <1>4 DEF Next

LEMMA PunctualStep == PunctualInv /\ [Next]_vars => PunctualInv'
<1> SUFFICES ASSUME PunctualInv, [Next]_vars PROVE PunctualInv'
  OBVIOUS
<1>1. TypeOK /\ GuardInv
  BY DEF PunctualInv
<1>2. TypeOK' /\ GuardInv'
  BY <1>1, TypeStep, GuardStep
<1>3. ASSUME punctual', Isolated(calendar)' PROVE Tight'
  <2>1. punctual /\ calendar' = calendar
    BY <1>1, <1>3, PunctualBefore
  <2>2. Isolated(calendar)
    BY <1>3, <2>1 DEF Isolated, Impact
  <2>3. Tight
    BY <2>1, <2>2 DEF PunctualInv
  <2> QED
    BY <1>1, <1>3, <2>2, <2>3, TightStep
<1> QED
  BY <1>2, <1>3 DEF PunctualInv

(* As long as nothing is late, moved, left over in the cache or clustered, *)
(* the guardrail is on only just before a HIGH event and the news window   *)
(* is up only just before one that the countdown knows (_compute_state,    *)
(* _tick), MEDIUM events among them, and whatever scrapes fail: for every  *)
(* calendar and every lateness that comes later.                           *)
THEOREM PunctualAlwaysTight == Spec => []PunctualIsTight
<1>1. Init => PunctualInv
  <2> SUFFICES ASSUME Init PROVE PunctualInv
    OBVIOUS
  <2>1. TypeOK
    BY InitTypes
  <2>2. fetched = [s \in Slots |-> IF s = "start" THEN calendar ELSE {}]
        /\ (punctual => events = {})
    BY DEF Init
  <2>3. GuardInv /\ GuardrailNearNews /\ WindowIsGuarded
    BY DEF Init, GuardInv, GuardrailExplained, GuardrailNearNews, WindowIsGuarded
  <2> QED
    BY <2>1, <2>2, <2>3 DEF PunctualInv, Tight
<1>2. PunctualInv => PunctualIsTight
  BY DEF PunctualInv, Tight, PunctualIsTight, WindowIsGuarded, WindowIsShort
<1> QED
  BY <1>1, <1>2, PunctualStep, PTL DEF Spec

-----------------------------------------------------------------------------
(* The feed.                                                               *)
On == Countdown(TRUE)
Off == Countdown(FALSE)
Versions == [Parts -> Nat]
Message ==
  {Other, On, Off}
    \cup [type : {"update"}, part : Parts, version : Nat]
    \cup [type : {"snapshot"}, holds : Versions]

(* Types of what the invariants look at.                                   *)
FeedTypeOK ==
  /\ server \in {"down", "up", "elsewhere", "stopping"}
  /\ conns \in 0..MaxConns /\ clients \subseteq Conns /\ alive \subseteq 1..conns
  /\ handler \in [Conns -> {"none", "reading", "building", "done"}]
  /\ seen \in [Conns -> Versions] /\ stored \in Versions
  /\ outbox \in [Conns -> Seq(Message)] /\ told \in [Conns -> BOOLEAN]
  /\ guardrailOn \in BOOLEAN /\ mounted \in BOOLEAN
  /\ sock \in {"none", "connecting", "open"} /\ cur \in 0..conns /\ timers \in Nat

(* The hook knows its connection exactly while its socket is open.         *)
CurIsOpen == sock # "open" <=> cur = 0

(* A connection is known to the server as long as its handler runs, and    *)
(* has and had messages only if it was.                                    *)
HandledIsClient ==
  \A c \in Conns :
    /\ c > conns => handler[c] = "none"
    /\ handler[c] = "none" => outbox[c] = <<>> /\ ~told[c] /\ c \notin clients
    /\ c \in alive => handler[c] # "done"
    /\ c \in alive /\ handler[c] # "none" => c \in clients

(* While the server is down there is nobody.                               *)
DownIsEmpty == server = "down" => alive = {}

(* No beginning of a guardrail that has ended is the last word.            *)
EndIn(s) == \E i \in 1..Len(s) : s[i] = Off
Followed(s) ==
  \A i \in 1..Len(s) : s[i] = On => \E j \in 1..Len(s) : j > i /\ s[j] = Off
Ends(c) == Followed(outbox[c]) /\ (told[c] => EndIn(outbox[c]))
EndIsTold == ~guardrailOn => \A c \in alive : Ends(c)

ClientsInv == HandledIsClient /\ DownIsEmpty /\ EndIsTold
FeedInv == FeedTypeOK /\ CurIsOpen /\ HookIsSingle /\ ClientsInv

-----------------------------------------------------------------------------
LEMMA MessageKinds ==
  /\ Other \in Message /\ On \in Message /\ Off \in Message /\ On # Off
  /\ Other # On /\ Other # Off
  /\ \A m \in Message : /\ m.type = "countdown" <=> m \in {On, Off}
                        /\ m.type = "countdown" => m.is_active = (m = On)
  /\ \A s \in Parts : stored[s] \in Nat => /\ Update(s) \in Message
                                           /\ Update(s) # On /\ Update(s) # Off
  /\ \A h \in Versions : LET m == [type |-> "snapshot", holds |-> h]
                         IN m \in Message /\ m # On /\ m # Off
<1>1. /\ Other.type = "other" /\ On.type = "countdown" /\ Off.type = "countdown"
      /\ On.is_active = TRUE /\ Off.is_active = FALSE
  BY DEF Other, On, Off, Countdown
<1>2. On # Off /\ Other # On /\ Other # Off
  BY <1>1
<1>3. \A m \in [type : {"update"}, part : Parts, version : Nat] :
        m.type = "update" /\ m # On /\ m # Off
  BY <1>1
<1>4. \A m \in [type : {"snapshot"}, holds : Versions] :
        m.type = "snapshot" /\ m # On /\ m # Off
  BY <1>1
<1>5. \A s \in Parts : stored[s] \in Nat =>
        Update(s) \in [type : {"update"}, part : Parts, version : Nat]
  BY DEF Update
<1>6. \A h \in Versions :
        [type |-> "snapshot", holds |-> h] \in [type : {"snapshot"}, holds : Versions]
  OBVIOUS
<1>7. \A m \in Message : /\ m.type = "countdown" <=> m \in {On, Off}
                         /\ m.type = "countdown" => m.is_active = (m = On)
  BY <1>1, <1>2, <1>3, <1>4 DEF Message
<1>8. \A s \in Parts : stored[s] \in Nat => /\ Update(s) \in Message
                                            /\ Update(s) # On /\ Update(s) # Off
  BY <1>3, <1>5 DEF Message
<1>9. \A h \in Versions : LET m == [type |-> "snapshot", holds |-> h]
                          IN m \in Message /\ m # On /\ m # Off
  BY <1>4, <1>6 DEF Message
<1> QED
  BY <1>2, <1>7, <1>8, <1>9 DEF Message

(* What sending one more message does to what is under way.                *)
LEMMA OnAppend ==
  ASSUME NEW s \in Seq(Message), NEW m \in Message
  PROVE  /\ Append(s, m) \in Seq(Message) /\ Append(s, m) # <<>>
         /\ EndIn(s) \/ m = Off => EndIn(Append(s, m))
         /\ m = Off \/ (m # On /\ Followed(s)) => Followed(Append(s, m))
<1> DEFINE t == Append(s, m)
<1>1. /\ t \in Seq(Message) /\ Len(s) \in Nat /\ Len(t) = Len(s) + 1
      /\ \A i \in 1..Len(s) : t[i] = s[i]
      /\ t[Len(s) + 1] = m
  BY AppendProperties, LenProperties
<1> HIDE DEF t
<1>2. \A i \in 1..Len(t) : (i \in 1..Len(s) /\ t[i] = s[i]) \/ (i = Len(s) + 1 /\ t[i] = m)
  BY <1>1
<1>3. \A i \in 1..Len(s) : i \in 1..Len(t) /\ i < Len(s) + 1
  BY <1>1
<1>4. Len(s) + 1 \in 1..Len(t) /\ ~(Len(s) + 1 < Len(s) + 1)
  BY <1>1
<1>5. t # <<>>
  BY <1>1, EmptySeq
<1>6. EndIn(s) \/ m = Off => EndIn(t)
  BY <1>1, <1>3, <1>4 DEF EndIn
<1>7. m = Off => Followed(t)
  <2> SUFFICES ASSUME m = Off, NEW i \in 1..Len(t), t[i] = On
               PROVE  \E j \in 1..Len(t) : j > i /\ t[j] = Off
    BY DEF Followed
  <2>1. i \in 1..Len(s)
    BY <1>2, MessageKinds
  <2>2. Len(s) + 1 > i
    BY <1>1, <2>1
  <2> QED
    BY <1>1, <1>4, <2>2
<1>8. m # On /\ Followed(s) => Followed(t)
  <2> SUFFICES ASSUME m # On, Followed(s), NEW i \in 1..Len(t), t[i] = On
               PROVE  \E j \in 1..Len(t) : j > i /\ t[j] = Off
    BY DEF Followed
  <2>1. i \in 1..Len(s) /\ s[i] = On
    BY <1>2
  <2>2. PICK j \in 1..Len(s) : j > i /\ s[j] = Off
    BY <2>1 DEF Followed
  <2> QED
    BY <1>1, <1>3, <2>2
<1> QED
  BY <1>1, <1>5, <1>6, <1>7, <1>8 DEF t

(* What the arrival of the oldest does.                                    *)
LEMMA OnTail ==
  ASSUME NEW s \in Seq(Message), s # <<>>
  PROVE  /\ Head(s) \in Message /\ Tail(s) \in Seq(Message)
         /\ Followed(s) => Followed(Tail(s))
         /\ EndIn(s) /\ Head(s) # Off => EndIn(Tail(s))
         /\ Followed(s) /\ Head(s) = On => EndIn(Tail(s))
<1> DEFINE t == Tail(s)
<1>1. /\ Head(s) \in Message /\ t \in Seq(Message) /\ Len(s) \in Nat /\ Len(t) = Len(s) - 1
      /\ \A i \in 1..Len(t) : t[i] = s[i + 1]
  BY HeadTailProperties, LenProperties
<1>2. Len(s) > 0 /\ Head(s) = s[1]
  BY <1>1, EmptySeq
<1> HIDE DEF t
<1>3. /\ \A i \in 1..Len(t) : i + 1 \in 1..Len(s) /\ t[i] = s[i + 1]
      /\ \A i \in 1..Len(s) : i # 1 => i - 1 \in 1..Len(t) /\ t[i - 1] = s[i]
      /\ 1 \in 1..Len(s)
  BY <1>1, <1>2
<1>4. ASSUME Followed(s) PROVE Followed(t)
  <2> SUFFICES ASSUME NEW i \in 1..Len(t), t[i] = On
               PROVE  \E j \in 1..Len(t) : j > i /\ t[j] = Off
    BY DEF Followed
  <2>1. PICK j \in 1..Len(s) : j > i + 1 /\ s[j] = Off
    BY <1>3, <1>4 DEF Followed
  <2>2. j - 1 \in 1..Len(t) /\ j - 1 > i /\ t[j - 1] = Off
    BY <1>1, <1>3, <2>1
  <2> QED
    BY <2>2
<1>5. EndIn(s) /\ Head(s) # Off => EndIn(t)
  BY <1>2, <1>3 DEF EndIn
<1>6. ASSUME Followed(s), Head(s) = On PROVE EndIn(t)
  <2>1. PICK j \in 1..Len(s) : j > 1 /\ s[j] = Off
    BY <1>2, <1>3, <1>6 DEF Followed
  <2>2. j # 1
    BY <2>1
  <2>3. j - 1 \in 1..Len(t) /\ t[j - 1] = Off
    BY <1>3, <2>1, <2>2
  <2> QED
    BY <2>3 DEF EndIn
<1> QED
  BY <1>1, <1>4, <1>5, <1>6 DEF t

LEMMA OnEmpty == <<>> \in Seq(Message) /\ Followed(<<>>)
<1>1. Len(<<>>) = 0
  OBVIOUS
<1> QED
  BY <1>1, EmptySeq DEF Followed

LEMMA AliveIsNumbered ==
  ASSUME FeedTypeOK
  PROVE  alive \subseteq Conns /\ 0 \notin alive /\ conns \in Nat
<1>1. conns \in 0..MaxConns /\ alive \subseteq 1..conns /\ MaxConns \in Nat
  BY FeedAssumption DEF FeedTypeOK
<1> QED
  BY <1>1 DEF Conns

-----------------------------------------------------------------------------
(* What the steps leave alone: an event, the server, the hook.             *)
Event == OnBarUpdate \/ OnGuardrailActivated \/ OnGuardrailDeactivated \/ OnOther
Idle == FeedTick \/ (\E s \in Parts : Write(s)) \/ StartServer \/ StopServer
        \/ UNCHANGED feedVars

LEMMA NextCases ==
  ASSUME [FeedNext]_feedVars
  PROVE  Event \/ Idle \/ Stopped \/ (\E c \in Conns : Serve(c)) \/ Hook
  BY DEF FeedNext, Event, Idle

(* An event sends one message, or none, to every client.                   *)
Sends(m) ==
  /\ outbox' = outbox \/ Broadcast(m)
  /\ m = Off => Broadcast(m)
  /\ guardrailOn' = (IF m = On THEN TRUE ELSE IF m = Off THEN FALSE ELSE guardrailOn)

LEMMA EventSends ==
  ASSUME FeedTypeOK, Event
  PROVE  /\ server = "up"
         /\ UNCHANGED <<serverVars, stored, hookVars, counters, alive, told>>
         /\ \E m \in Message : Sends(m)
<1>1. /\ server = "up"
      /\ UNCHANGED <<serverVars, stored, hookVars, counters, alive, told>>
  BY DEF Event, OnBarUpdate, OnGuardrailActivated, OnGuardrailDeactivated, OnOther, Publish
<1>2. CASE OnBarUpdate
  <2>1. Sends(Other)
    BY <1>2, MessageKinds DEF OnBarUpdate, Sends
  <2> QED
    BY <1>1, <2>1, MessageKinds
<1>3. CASE OnGuardrailActivated
  <2>1. /\ outbox' = outbox \/ Broadcast(On)
        /\ guardrailOn' = TRUE
    BY <1>3 DEF OnGuardrailActivated, On
  <2>2. Sends(On)
    BY <2>1, MessageKinds DEF Sends
  <2> QED
    BY <1>1, <2>2, MessageKinds
<1>4. CASE OnGuardrailDeactivated
  <2>1. Broadcast(Off) /\ guardrailOn' = FALSE
    BY <1>4 DEF OnGuardrailDeactivated, Off
  <2>2. Sends(Off)
    BY <2>1, MessageKinds DEF Sends
  <2> QED
    BY <1>1, <2>2, MessageKinds
<1>5. CASE OnOther
  <2>1. guardrailOn' = guardrailOn
        /\ (Broadcast(Other) \/ \E s \in Parts : Broadcast(Update(s)))
    BY <1>5 DEF OnOther
  <2>2. CASE Broadcast(Other)
    BY <1>1, <2>1, <2>2, MessageKinds DEF Sends
  <2>3. CASE \E s \in Parts : Broadcast(Update(s))
    <3>1. PICK s \in Parts : Broadcast(Update(s))
      BY <2>3
    <3>2. stored[s] \in Nat
      BY DEF FeedTypeOK, Versions
    <3>3. Update(s) \in Message /\ Update(s) # On /\ Update(s) # Off
      BY <3>2, MessageKinds
    <3> QED
      BY <1>1, <2>1, <3>1, <3>3 DEF Sends
  <2> QED
    BY <2>1, <2>2, <2>3
<1> QED
  BY <1>1, <1>2, <1>3, <1>4, <1>5 DEF Event

LEMMA BroadcastReaches ==
  ASSUME FeedTypeOK, NEW m \in Message, Broadcast(m)
  PROVE  /\ outbox' \in [Conns -> Seq(Message)]
         /\ \A c \in Conns : outbox'[c] = IF c \in clients THEN Append(outbox[c], m)
                                          ELSE outbox[c]
<1>1. \A c \in Conns : outbox[c] \in Seq(Message) /\ Append(outbox[c], m) \in Seq(Message)
  BY OnAppend DEF FeedTypeOK
<1> QED
  BY <1>1 DEF Broadcast

-----------------------------------------------------------------------------
(* Types.                                                                  *)
LEMMA EventTypes ==
  ASSUME FeedTypeOK, Event
  PROVE  FeedTypeOK'
<1>1. PICK m \in Message : Sends(m)
  BY EventSends
<1>2. UNCHANGED <<serverVars, stored, hookVars, counters, alive, told>>
  BY EventSends
<1>3. outbox' \in [Conns -> Seq(Message)]
  <2>1. CASE outbox' = outbox
    BY <2>1 DEF FeedTypeOK
  <2>2. CASE Broadcast(m)
    BY <2>2, BroadcastReaches
  <2> QED
    BY <1>1, <2>1, <2>2 DEF Sends
<1>4. guardrailOn' \in BOOLEAN
  BY <1>1, MessageKinds DEF Sends, FeedTypeOK
<1> QED
  BY <1>2, <1>3, <1>4 DEF FeedTypeOK, serverVars, hookVars, counters

LEMMA NothingRead == Nothing \in Versions
BY DEF Missing, Nothing, Versions

LEMMA IdleTypes ==
  ASSUME FeedTypeOK, Idle
  PROVE  FeedTypeOK'
<1>1. CASE FeedTick
  BY <1>1 DEF FeedTick, FeedTypeOK, serverVars, hookVars, counters
<1>2. CASE \E s \in Parts : Write(s)
  <2>1. PICK s \in Parts : Write(s)
    BY <1>2
  <2>2. stored' \in Versions
    BY <2>1 DEF Write, FeedTypeOK, Versions
  <2> QED
    BY <2>1, <2>2 DEF Write, FeedTypeOK, serverVars, hookVars, counters
<1>3. CASE StartServer
  BY <1>3 DEF StartServer, FeedTypeOK, hookVars, counters
<1>4. CASE StopServer
  BY <1>4 DEF StopServer, FeedTypeOK, busVars, hookVars
<1>5. CASE UNCHANGED feedVars
  BY <1>5 DEF FeedTypeOK, feedVars, serverVars, busVars, hookVars, counters
<1> QED
  BY <1>1, <1>2, <1>3, <1>4, <1>5 DEF Idle

LEMMA StoppedTypes ==
  ASSUME FeedTypeOK, Stopped
  PROVE  FeedTypeOK'
<1>1. handler' \in [Conns -> {"none", "reading", "building", "done"}]
  BY DEF Stopped
<1>2. outbox' \in [Conns -> Seq(Message)]
  BY OnEmpty DEF Stopped
<1>3. seen' \in [Conns -> Versions]
  BY NothingRead DEF Stopped
<1>4. /\ server' = "down" /\ clients' = {} /\ alive' = {}
      /\ UNCHANGED <<busVars, hookVars, counters, told>>
  BY DEF Stopped
<1> QED
  BY <1>1, <1>2, <1>3, <1>4 DEF FeedTypeOK, busVars, hookVars, counters

(* What arrives: a countdown that says On or Off, or nothing about it.     *)
LEMMA Arrives ==
  ASSUME FeedTypeOK, NEW c \in Conns, Deliver(c)
  PROVE  LET m == Head(outbox[c])
         IN /\ outbox[c] \in Seq(Message) /\ outbox[c] # <<>> /\ m \in Message
            /\ UNCHANGED <<server, handler, seen, busVars, hookVars, counters, alive>>
            /\ outbox' = [outbox EXCEPT ![c] = IF c \in alive THEN Tail(@) ELSE <<>>]
            /\ clients' = IF c \in alive THEN clients ELSE clients \ {c}
            /\ told' = [told EXCEPT ![c] = IF c \in alive /\ m \in {On, Off} THEN m = On ELSE @]
<1> DEFINE m == Head(outbox[c])
<1>1. outbox[c] \in Seq(Message) /\ outbox[c] # <<>> /\ told \in [Conns -> BOOLEAN]
  BY DEF Deliver, FeedTypeOK
<1>2. m \in Message
  BY <1>1, OnTail
<1>3. /\ UNCHANGED <<server, handler, seen, busVars, hookVars, counters, alive>>
      /\ outbox' = [outbox EXCEPT ![c] = IF c \in alive THEN Tail(@) ELSE <<>>]
      /\ clients' = IF c \in alive THEN clients ELSE clients \ {c}
  BY DEF Deliver
<1>4. IF c \in alive /\ m.type = "countdown" THEN told' = [told EXCEPT ![c] = m.is_active]
                                           ELSE told' = told
  BY DEF Deliver
<1> HIDE DEF m
<1>5. /\ m.type = "countdown" <=> m \in {On, Off}
      /\ m.type = "countdown" => m.is_active = (m = On)
  BY <1>2, MessageKinds
<1>6. told' = [told EXCEPT ![c] = IF c \in alive /\ m \in {On, Off} THEN m = On ELSE @]
  <2>1. CASE c \in alive /\ m \in {On, Off}
    BY <1>4, <1>5, <2>1
  <2>2. CASE ~(c \in alive /\ m \in {On, Off})
    BY <1>1, <1>4, <1>5, <2>2
  <2> QED
    BY <2>1, <2>2
<1> QED
  BY <1>1, <1>2, <1>3, <1>6 DEF m

LEMMA ServeTypes ==
  ASSUME FeedTypeOK, NEW c \in Conns, Serve(c)
  PROVE  FeedTypeOK'
<1>1. CASE HandlerStart(c)
  BY <1>1 DEF HandlerStart, FeedTypeOK, busVars, hookVars, counters
<1>2. CASE HandlerEnd(c)
  BY <1>2 DEF HandlerEnd, FeedTypeOK, busVars, hookVars, counters
<1>3. CASE RequestFullState(c)
  BY <1>3 DEF RequestFullState, FeedTypeOK, busVars, hookVars
<1>4. CASE ReadSection(c)
  <2> DEFINE s == Head(left[c])
  <2>1. seen' = seen \/ seen' = [seen EXCEPT ![c][s] = stored[s]]
    BY <1>4 DEF ReadSection
  <2>2. UNCHANGED <<server, clients, handler, busVars, hookVars, conns, alive, outbox, told>>
    BY <1>4 DEF ReadSection
  <2> HIDE DEF s
  <2>3. [seen[c] EXCEPT ![s] = stored[s]] \in Versions
    <3>1. seen[c] \in Versions /\ (s \in Parts => stored[s] \in Nat)
      BY DEF FeedTypeOK, Versions
    <3> QED
      BY <3>1 DEF Versions
  <2>4. seen' \in [Conns -> Versions]
    BY <2>1, <2>3 DEF FeedTypeOK
  <2> QED
    BY <2>2, <2>4 DEF FeedTypeOK, busVars, hookVars
<1>5. CASE NoRedis(c)
  BY <1>5 DEF NoRedis, FeedTypeOK, busVars, hookVars
<1>6. CASE SendFullState(c)
  <2> DEFINE m == [type |-> "snapshot", holds |-> seen[c]]
  <2>1. m \in Message
    BY MessageKinds DEF FeedTypeOK
  <2>2. outbox' = [outbox EXCEPT ![c] = Append(@, m)] \/ outbox' = outbox
    BY <1>6 DEF SendFullState
  <2> HIDE DEF m
  <2>3. outbox[c] \in Seq(Message) /\ Append(outbox[c], m) \in Seq(Message)
    BY <2>1, OnAppend DEF FeedTypeOK
  <2>4. outbox' \in [Conns -> Seq(Message)]
    BY <2>2, <2>3 DEF FeedTypeOK
  <2>5. clients' \subseteq clients
    BY <1>6 DEF SendFullState
  <2>6. seen' \in [Conns -> Versions]
    BY <1>6, NothingRead DEF SendFullState, FeedTypeOK
  <2>7. handler' \in [Conns -> {"none", "reading", "building", "done"}]
    BY <1>6 DEF SendFullState, FeedTypeOK
  <2>8. UNCHANGED <<server, busVars, hookVars, counters, alive, told>>
    BY <1>6 DEF SendFullState
  <2> QED
    BY <2>4, <2>5, <2>6, <2>7, <2>8 DEF FeedTypeOK, busVars, hookVars, counters
<1>7. CASE Deliver(c)
  <2> DEFINE m == Head(outbox[c])
  <2>1. /\ outbox[c] \in Seq(Message) /\ outbox[c] # <<>>
        /\ UNCHANGED <<server, handler, seen, busVars, hookVars, counters, alive>>
        /\ outbox' = [outbox EXCEPT ![c] = IF c \in alive THEN Tail(@) ELSE <<>>]
        /\ clients' = IF c \in alive THEN clients ELSE clients \ {c}
        /\ told' = [told EXCEPT ![c] = IF c \in alive /\ m \in {On, Off} THEN m = On ELSE @]
    BY <1>7, Arrives
  <2> HIDE DEF m
  <2>2. Tail(outbox[c]) \in Seq(Message)
    BY <2>1, OnTail
  <2>3. outbox' \in [Conns -> Seq(Message)] /\ told' \in [Conns -> BOOLEAN]
    BY <2>1, <2>2, OnEmpty DEF FeedTypeOK
  <2>4. clients' \subseteq clients
    BY <2>1
  <2> QED
    BY <2>1, <2>3, <2>4 DEF FeedTypeOK, busVars, hookVars, counters
<1>8. CASE Heartbeat(c)
  BY <1>8 DEF Heartbeat, FeedTypeOK, busVars, hookVars, counters
<1> QED
  BY <1>1, <1>2, <1>3, <1>4, <1>5, <1>6, <1>7, <1>8 DEF Serve

(* The hook changes its own variables, alive and conns.                    *)
LEMMA HookTypes ==
  ASSUME FeedTypeOK, Hook
  PROVE  FeedTypeOK'
<1>1. CASE Mount
  BY <1>1 DEF Mount, Connect, FeedTypeOK, serverVars, busVars
<1>2. CASE Fire
  BY <1>2 DEF Fire, Connect, FeedTypeOK, serverVars, busVars, counters
<1>3. CASE Open
  BY <1>3, FeedAssumption DEF Open, FeedTypeOK, serverVars, busVars
<1>4. CASE OnClose
  BY <1>4 DEF OnClose, FeedTypeOK, serverVars, busVars, counters
<1>5. CASE Drop
  BY <1>5 DEF Drop, FeedTypeOK, serverVars, busVars, hookVars, counters
<1>6. CASE Unmount
  <2>1. /\ mounted' = FALSE /\ timers' = 0 /\ sock' = "none" /\ cur' = 0
        /\ alive' = alive \ {cur}
        /\ UNCHANGED <<serverVars, busVars, counters, outbox, told>>
    BY <1>6 DEF Unmount
  <2>2. alive' \subseteq 1..conns /\ cur' \in 0..conns
    BY <2>1 DEF FeedTypeOK
  <2> QED
    BY <2>1, <2>2 DEF FeedTypeOK, serverVars, busVars, counters
<1> QED
  BY <1>1, <1>2, <1>3, <1>4, <1>5, <1>6 DEF Hook

LEMMA FeedTypes ==
  ASSUME FeedTypeOK, [FeedNext]_feedVars
  PROVE  FeedTypeOK'
BY NextCases, EventTypes, IdleTypes, StoppedTypes, ServeTypes, HookTypes

-----------------------------------------------------------------------------
(* The hook.  Only its own steps, and the stop of the server, which closes *)
(* every connection, concern CurIsOpen and HookIsSingle.                   *)
LEMMA HookSingle ==
  ASSUME FeedTypeOK, CurIsOpen, HookIsSingle, [FeedNext]_feedVars
  PROVE  CurIsOpen' /\ HookIsSingle'
<1>1. CASE alive' \subseteq alive /\ UNCHANGED hookVars
  BY <1>1 DEF CurIsOpen, HookIsSingle, hookVars
<1>2. CASE Hook
  <2> USE DEF FeedTypeOK, CurIsOpen, HookIsSingle
  <2>1. CASE Mount
    BY <1>2, <2>1 DEF Mount, Connect
  <2>2. CASE Fire
    BY <1>2, <2>2 DEF Fire, Connect
  <2>3. CASE Open
    BY <1>2, <2>3 DEF Open
  <2>4. CASE OnClose
    BY <1>2, <2>4 DEF OnClose
  <2>5. CASE Drop
    BY <1>2, <2>5 DEF Drop, hookVars
  <2>6. CASE Unmount
    BY <1>2, <2>6 DEF Unmount
  <2> QED
    BY <1>2, <2>1, <2>2, <2>3, <2>4, <2>5, <2>6 DEF Hook
<1>3. Event => alive' \subseteq alive /\ UNCHANGED hookVars
  BY EventSends
<1>4. Idle \/ Stopped => alive' \subseteq alive /\ UNCHANGED hookVars
  BY DEF Idle, Stopped, FeedTick, Write, StartServer, StopServer, feedVars
<1>5. ASSUME NEW c \in Conns, Serve(c) PROVE alive' \subseteq alive /\ UNCHANGED hookVars
  BY <1>5 DEF Serve, HandlerStart, HandlerEnd, RequestFullState, ReadSection, NoRedis,
              SendFullState, Deliver, Heartbeat
<1> QED
  BY <1>1, <1>2, <1>3, <1>4, <1>5, NextCases

-----------------------------------------------------------------------------
(* The clients.  An event reaches every connection that anything has ever  *)
(* reached.                                                                *)
LEMMA ClientsEvent ==
  ASSUME FeedTypeOK, ClientsInv, Event
  PROVE  ClientsInv'
<1>1. PICK m \in Message : Sends(m)
  BY EventSends
<1>2. UNCHANGED <<server, clients, handler, conns, alive, told>>
  BY EventSends DEF serverVars, counters
<1>3. \A c \in Conns :
         /\ outbox[c] \in Seq(Message)
         /\ outbox'[c] = outbox[c] \/ (c \in clients /\ outbox'[c] = Append(outbox[c], m))
  BY <1>1, BroadcastReaches DEF Sends, FeedTypeOK
<1>4. HandledIsClient' /\ DownIsEmpty'
  BY <1>2, <1>3 DEF ClientsInv, HandledIsClient, DownIsEmpty
<1>5. EndIsTold'
  <2> SUFFICES ASSUME ~guardrailOn', NEW c \in alive PROVE Ends(c)'
    BY <1>2 DEF EndIsTold
  <2>1. c \in Conns
    BY AliveIsNumbered
  <2>2. m # On
    BY <1>1 DEF Sends
  <2>3. CASE m = Off /\ c \in clients
    <3>1. outbox'[c] = Append(outbox[c], Off)
      BY <1>1, <2>1, <2>3, BroadcastReaches DEF Sends
    <3> QED
      BY <1>3, <2>1, <2>3, <3>1, OnAppend DEF Ends
  <2>4. CASE m = Off /\ c \notin clients
    <3>1. outbox[c] = <<>> /\ ~told[c]
      BY <2>1, <2>4 DEF ClientsInv, HandledIsClient
    <3>2. outbox'[c] = outbox[c]
      BY <1>3, <2>1, <2>4
    <3> QED
      BY <1>2, <3>1, <3>2, OnEmpty DEF Ends
  <2>5. CASE m # Off
    <3>1. ~guardrailOn
      BY <1>1, <2>2, <2>5 DEF Sends
    <3>2. Ends(c)
      BY <3>1 DEF ClientsInv, EndIsTold
    <3> QED
      BY <1>2, <1>3, <2>1, <2>2, <3>2, OnAppend DEF Ends
  <2> QED
    BY <2>3, <2>4, <2>5
<1> QED
  BY <1>4, <1>5 DEF ClientsInv

LEMMA ClientsIdle ==
  ASSUME FeedTypeOK, ClientsInv, Idle \/ Stopped
  PROVE  ClientsInv'
<1> USE DEF ClientsInv, HandledIsClient, DownIsEmpty, EndIsTold, Ends
<1>1. CASE /\ UNCHANGED <<clients, handler, conns, alive, told, outbox>>
           /\ server' = "down" => server = "down"
           /\ guardrailOn' = guardrailOn
  BY <1>1
<1>2. CASE StartServer
  <2>1. /\ UNCHANGED <<clients, handler, conns, alive, told, outbox>>
        /\ server = "down" /\ server' # "down"
    BY <1>2 DEF StartServer, counters
  <2> QED
    BY <2>1
<1>3. CASE Stopped
  <2>1. /\ clients' = {} /\ alive' = {} /\ conns' = conns /\ told' = told
        /\ \A c \in Conns : outbox'[c] = <<>> /\ (handler'[c] = "none" <=> handler[c] = "none")
    BY <1>3 DEF Stopped, counters
  <2> QED
    BY <2>1
<1>4. CASE FeedTick
  BY <1>1, <1>4 DEF FeedTick, serverVars, counters
<1>5. CASE \E s \in Parts : Write(s)
  BY <1>1, <1>5 DEF Write, serverVars, counters
<1>6. CASE StopServer
  BY <1>1, <1>6 DEF StopServer, busVars
<1>7. CASE UNCHANGED feedVars
  BY <1>1, <1>7 DEF feedVars, serverVars, busVars, counters
<1> QED
  BY <1>2, <1>3, <1>4, <1>5, <1>6, <1>7 DEF Idle

(* Delivery.  A guardrail that arrives and has ended is followed by its    *)
(* end; what is lost was on its way to a connection that is lost.          *)
LEMMA ClientsDeliver ==
  ASSUME FeedTypeOK, ClientsInv, NEW c \in Conns, Deliver(c)
  PROVE  ClientsInv'
<1> DEFINE m == Head(outbox[c])
<1>1. /\ outbox[c] \in Seq(Message) /\ outbox[c] # <<>> /\ m \in Message
      /\ UNCHANGED <<server, handler, conns, alive, guardrailOn>>
      /\ outbox' = [outbox EXCEPT ![c] = IF c \in alive THEN Tail(@) ELSE <<>>]
      /\ clients' = IF c \in alive THEN clients ELSE clients \ {c}
      /\ told' = [told EXCEPT ![c] = IF c \in alive /\ m \in {On, Off} THEN m = On ELSE @]
  BY Arrives DEF busVars, counters
<1>2. /\ Followed(outbox[c]) => Followed(Tail(outbox[c]))
      /\ EndIn(outbox[c]) /\ m # Off => EndIn(Tail(outbox[c]))
      /\ Followed(outbox[c]) /\ m = On => EndIn(Tail(outbox[c]))
  BY <1>1, OnTail
<1> HIDE DEF m
<1>3. /\ \A d \in Conns : d # c => outbox'[d] = outbox[d] /\ told'[d] = told[d]
      /\ outbox'[c] = (IF c \in alive THEN Tail(outbox[c]) ELSE <<>>)
      /\ told'[c] = (IF c \in alive /\ m \in {On, Off} THEN m = On ELSE told[c])
  BY <1>1 DEF FeedTypeOK
<1>4. handler[c] # "none"
  BY <1>1 DEF ClientsInv, HandledIsClient
<1>5. HandledIsClient' /\ DownIsEmpty'
  BY <1>1, <1>3, <1>4 DEF ClientsInv, HandledIsClient, DownIsEmpty
<1>6. EndIsTold'
  <2> SUFFICES ASSUME ~guardrailOn, NEW d \in alive PROVE Ends(d)'
    BY <1>1 DEF EndIsTold
  <2>1. d \in Conns /\ Ends(d)
    BY AliveIsNumbered DEF ClientsInv, EndIsTold
  <2>2. CASE d # c
    BY <1>3, <2>1, <2>2 DEF Ends
  <2>3. CASE d = c
    BY <1>2, <1>3, <2>1, <2>3, MessageKinds DEF Ends
  <2> QED
    BY <2>2, <2>3
<1> QED
  BY <1>5, <1>6 DEF ClientsInv

LEMMA ClientsServe ==
  ASSUME FeedTypeOK, ClientsInv, NEW c \in Conns, Serve(c)
  PROVE  ClientsInv'
<1> DEFINE Calm == UNCHANGED <<server, conns, alive, told, guardrailOn>>
<1>1. ASSUME Calm, outbox' = outbox, HandledIsClient' PROVE ClientsInv'
  BY <1>1 DEF ClientsInv, DownIsEmpty, EndIsTold, Ends
<1>2. CASE HandlerStart(c)
  <2>1. Calm /\ outbox' = outbox
    BY <1>2 DEF HandlerStart, busVars, counters
  <2>2. /\ ~(c > conns) /\ clients' = clients \cup {c}
        /\ handler' = [handler EXCEPT ![c] = "reading"]
    BY <1>2 DEF HandlerStart, FeedTypeOK, Conns
  <2>3. /\ handler'[c] = "reading" /\ c \in clients'
        /\ \A d \in Conns : d # c => /\ handler'[d] = handler[d]
                                    /\ d \in clients' <=> d \in clients
    BY <2>2 DEF FeedTypeOK
  <2>4. HandledIsClient'
    BY <2>1, <2>2, <2>3 DEF ClientsInv, HandledIsClient
  <2> QED
    BY <1>1, <2>1, <2>4
<1>3. CASE HandlerEnd(c) \/ RequestFullState(c) \/ ReadSection(c) \/ NoRedis(c) \/ Heartbeat(c)
  <2>1. Calm /\ outbox' = outbox
    BY <1>3 DEF HandlerEnd, RequestFullState, ReadSection, NoRedis, Heartbeat,
                busVars, counters
  <2>2. /\ \A d \in Conns : d # c => handler'[d] = handler[d]
        /\ handler'[c] = "none" <=> handler[c] = "none"
        /\ c \in alive => handler'[c] # "done" \/ handler'[c] = handler[c]
        /\ clients' = clients \/ (c \notin alive /\ clients' = clients \ {c})
    BY <1>3 DEF HandlerEnd, RequestFullState, ReadSection, NoRedis, Heartbeat, FeedTypeOK
  <2>3. HandledIsClient'
    BY <2>1, <2>2 DEF ClientsInv, HandledIsClient
  <2> QED
    BY <1>1, <2>1, <2>3
<1>4. CASE SendFullState(c)
  <2> DEFINE m == [type |-> "snapshot", holds |-> seen[c]]
  <2>1. m \in Message /\ m # On /\ m # Off
    BY MessageKinds DEF FeedTypeOK
  <2>2. /\ Calm
        /\ outbox' = outbox \/ outbox' = [outbox EXCEPT ![c] = Append(@, m)]
        /\ clients' = clients \/ (c \notin alive /\ clients' = clients \ {c})
        /\ handler[c] = "building" /\ handler' = [handler EXCEPT ![c] = "reading"]
    BY <1>4 DEF SendFullState, busVars, counters
  <2> HIDE DEF m
  <2>3. \A d \in Conns : outbox'[d] = outbox[d] \/ (d = c /\ outbox'[d] = Append(outbox[d], m))
    BY <2>2 DEF FeedTypeOK
  <2>4. \A d \in Conns : /\ Followed(outbox[d]) => Followed(outbox'[d])
                         /\ EndIn(outbox[d]) => EndIn(outbox'[d])
    BY <2>1, <2>3, OnAppend DEF FeedTypeOK
  <2>5. HandledIsClient'
    BY <2>2, <2>3 DEF ClientsInv, HandledIsClient, FeedTypeOK
  <2>6. EndIsTold'
    BY <2>2, <2>4, AliveIsNumbered DEF ClientsInv, EndIsTold, Ends
  <2> QED
    BY <2>2, <2>5, <2>6 DEF ClientsInv, DownIsEmpty
<1>5. CASE Deliver(c)
  BY <1>5, ClientsDeliver
<1> QED
  BY <1>2, <1>3, <1>4, <1>5 DEF Serve

(* The hook leaves the messages alone; a new connection has had none.      *)
LEMMA ClientsHook ==
  ASSUME FeedTypeOK, CurIsOpen, HookIsSingle, ClientsInv, Hook
  PROVE  ClientsInv'
<1>1. UNCHANGED <<server, clients, handler, outbox, told, guardrailOn>>
  BY DEF Hook, Mount, Fire, Open, OnClose, Drop, Unmount, serverVars, busVars
<1>2. CASE Mount \/ Fire \/ OnClose \/ Drop \/ Unmount
  <2>1. conns' = conns /\ alive' \subseteq alive
    BY <1>2 DEF Mount, Fire, OnClose, Drop, Unmount, Connect, counters
  <2> QED
    BY <1>1, <2>1 DEF ClientsInv, HandledIsClient, DownIsEmpty, EndIsTold, Ends
<1>3. CASE Open
  <2>1. /\ conns' = conns + 1 /\ alive' = alive \cup {conns + 1}
        /\ server = "up" /\ conns < MaxConns
    BY <1>3 DEF Open
  <2>2. conns + 1 \in Conns /\ conns \in Nat
    BY <2>1, FeedAssumption, AliveIsNumbered DEF Conns
  <2>3. handler[conns + 1] = "none" /\ outbox[conns + 1] = <<>> /\ ~told[conns + 1]
    BY <2>2 DEF ClientsInv, HandledIsClient
  <2>4. HandledIsClient'
    BY <1>1, <2>1, <2>2, <2>3 DEF ClientsInv, HandledIsClient, Conns
  <2>5. EndIsTold'
    BY <1>1, <2>1, <2>3, OnEmpty DEF ClientsInv, EndIsTold, Ends
  <2> QED
    BY <1>1, <2>1, <2>4, <2>5 DEF ClientsInv, DownIsEmpty
<1> QED
  BY <1>2, <1>3 DEF Hook

-----------------------------------------------------------------------------
(* All of it.                                                              *)
LEMMA FeedInitHolds ==
  ASSUME FeedInit
  PROVE  FeedInv
<1>1. FeedTypeOK
  <2>1. outbox \in [Conns -> Seq(Message)] /\ told \in [Conns -> BOOLEAN]
    BY OnEmpty DEF FeedInit
  <2>2. seen \in [Conns -> Versions] /\ stored \in Versions
    BY NothingRead DEF FeedInit, Versions
  <2>3. conns \in 0..MaxConns
    BY FeedAssumption DEF FeedInit
  <2>4. handler \in [Conns -> {"none", "reading", "building", "done"}]
    BY DEF FeedInit
  <2>5. /\ server = "down" /\ clients = {} /\ alive = {} /\ sock = "none" /\ cur = 0
        /\ timers = 0 /\ conns = 0
    BY DEF FeedInit
  <2>6. guardrailOn \in BOOLEAN /\ mounted \in BOOLEAN
    BY DEF FeedInit
  <2>7. server \in {"down", "up", "elsewhere", "stopping"}
        /\ sock \in {"none", "connecting", "open"}
    BY <2>5
  <2>8. clients \subseteq Conns /\ alive \subseteq 1..conns /\ cur \in 0..conns /\ timers \in Nat
    BY <2>5
  <2> QED
    BY <2>1, <2>2, <2>3, <2>4, <2>6, <2>7, <2>8 DEF FeedTypeOK
<1>2. CurIsOpen /\ HookIsSingle
  BY DEF FeedInit, CurIsOpen, HookIsSingle
<1>3. ClientsInv
  BY DEF FeedInit, ClientsInv, HandledIsClient, DownIsEmpty, EndIsTold
<1> QED
  BY <1>1, <1>2, <1>3 DEF FeedInv

(* The property of every connection, in these terms.                       *)
LEMMA EndIsToldHere ==
  ASSUME FeedTypeOK
  PROVE  GuardrailEndIsTold <=> EndIsTold
<1>1. \A c \in alive : DOMAIN outbox[c] = 1..Len(outbox[c])
  BY AliveIsNumbered, LenProperties DEF FeedTypeOK
<1>2. \A c \in alive : EndFollows(c) <=> Ends(c)
  BY <1>1 DEF EndFollows, Ends, EndIn, Followed, On, Off
<1> QED
  BY <1>2 DEF GuardrailEndIsTold, EndIsTold

(* The invariant of the feed: who is a client of whom, what is on its way  *)
(* to each, and which connections, attempts and timers the hook has.       *)
THEOREM FeedInvariant == FeedSpec => []FeedInv
<1>1. FeedInit => FeedInv
  BY FeedInitHolds
<1>2. FeedInv /\ [FeedNext]_feedVars => FeedInv'
  <2> SUFFICES ASSUME FeedInv, [FeedNext]_feedVars PROVE FeedInv'
    OBVIOUS
  <2>1. FeedTypeOK' /\ CurIsOpen' /\ HookIsSingle'
    BY FeedTypes, HookSingle DEF FeedInv
  <2>2. ClientsInv'
    BY NextCases, ClientsEvent, ClientsIdle, ClientsServe, ClientsHook DEF FeedInv
  <2> QED
    BY <2>1, <2>2 DEF FeedInv
<1> QED
  BY <1>1, <1>2, PTL DEF FeedSpec

(* What the UI may rely on: the end of a guardrail is the last word to     *)
(* every connection that was told of it, however events, the throttle,     *)
(* sends, reconnections and restarts fall; and one connection or attempt   *)
(* at most carries it.                                                     *)
THEOREM FeedAlwaysSound == FeedSpec => []FeedSound
<1>1. FeedInv => FeedSound
  BY EndIsToldHere DEF FeedInv, ClientsInv, FeedSound
<1> QED
  BY <1>1, FeedInvariant, PTL

=============================================================================
