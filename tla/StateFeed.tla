------------------------------ MODULE StateFeed ------------------------------
(***************************************************************************)
(* The way of a state change to the screen: BroadcastDispatcher and        *)
(* WebSocketServer (core/ipc) and the hook useWebSocket of the UI.         *)
(*                                                                         *)
(* The handlers of the dispatcher do not await, so an event is throttled   *)
(* and handed to the clients in one step; the sends are tasks, which run   *)
(* in the order they were created.  A connection is numbered when the UI   *)
(* opens it.  What the reducers make of a message is not modelled, only    *)
(* whether a guardrail is shown as active.  A client may ask for the full  *)
(* state, although the hook itself never does.                             *)
(***************************************************************************)
EXTENDS Naturals, Sequences, FiniteSets, SequencesExt

CONSTANTS
  Sections,     \* parts of Redis the snapshot reads and sends, in that order
                \* (the macro state is read too, and never sent)
  BarGap,       \* _bar_min_interval_ms (100 ms)
  AlertGap,     \* _countdown_guardrail_interval_ms (1000 ms)
  InitialBackoff, MaxBackoff,   \* of the hook
  MaxConns,     \* bound: connections accepted
  MaxEvents,    \* bound: events published
  MaxWrites,    \* bound: writes to Redis
  MaxFaults,    \* bound: stops of the server, and failures of Redis
  MaxMounts,    \* bound: times the component is mounted
  MaxRequests   \* bound: requests of the full state

Parts == {Sections[i] : i \in DOMAIN Sections}
Missing == 99    \* a part that was not read; no version has this number

ASSUME FeedAssumption ==
  /\ Sections \in Seq(Parts) /\ IsInjective(Sections)
  /\ InitialBackoff \in Nat \ {0} /\ MaxBackoff >= InitialBackoff
  /\ MaxConns \in Nat /\ MaxWrites \in 0..Missing - 1

VARIABLES
  server,    \* "down", "up" on the port the UI knows, "elsewhere", "stopping"
  clients,   \* _clients
  alive,     \* connections whose transport is open
  handler,   \* of each connection: "none", "reading", "building", "done"
  left,      \* sections the snapshot has still to read
  seen,      \* what it has read
  outbox,    \* messages sent to each connection and not received
  barAge, alertAge,   \* time since the last one sent, up to the gap
  guardrailOn,     \* a guardrail is active in the backend
  stored,    \* version of each section in Redis
  mounted, sock, cur, timers, backoff,   \* the hook; cur: its connection
  told,      \* history: the last countdown a connection received was active
  shown,     \* the guardrail is active on the screen
  conns, announced, writes, faults, mounts, requests

serverVars == <<server, clients, handler, left, seen>>
busVars == <<barAge, alertAge, guardrailOn, stored, announced, writes>>
hookVars == <<mounted, sock, cur, timers, backoff>>
counters == <<conns, faults, mounts, requests>>
feedVars == <<serverVars, busVars, hookVars, counters, alive, outbox, told, shown>>

Conns == 1..MaxConns
Nothing == [s \in Parts |-> Missing]

Reachable == sock = "open" /\ cur \in alive \cap clients

FeedInit ==
  /\ server = "down" /\ clients = {} /\ alive = {}
  /\ handler = [c \in Conns |-> "none"]
  /\ left = [c \in Conns |-> <<>>]
  /\ seen = [c \in Conns |-> Nothing]
  /\ outbox = [c \in Conns |-> <<>>]
  /\ barAge = BarGap /\ alertAge = AlertGap
  /\ guardrailOn = FALSE /\ stored = [s \in Parts |-> 0]
  /\ mounted = FALSE /\ sock = "none" /\ cur = 0 /\ timers = 0
  /\ backoff = InitialBackoff
  /\ told = [c \in Conns |-> FALSE] /\ shown = FALSE
  /\ conns = 0 /\ announced = 0 /\ writes = 0 /\ faults = 0 /\ mounts = 0 /\ requests = 0

-----------------------------------------------------------------------------
(* BroadcastDispatcher                                                     *)

(* _broadcast_to_all: one task for each client of the moment.              *)
Broadcast(m) ==
  outbox' = [c \in Conns |-> IF c \in clients THEN Append(outbox[c], m) ELSE outbox[c]]

(* Messages: a CountdownUpdateMessage; a message that says which version   *)
(* of a part Redis holds; one that says neither.                           *)
Countdown(active) == [type |-> "countdown", is_active |-> active]
Update(s) == [type |-> "update", part |-> s, version |-> stored[s]]
Other == [type |-> "other"]

(* While the server listens elsewhere it has no client to tell.            *)
Publish ==
  /\ server = "up" /\ announced < MaxEvents
  /\ announced' = announced + 1
  /\ UNCHANGED <<serverVars, stored, writes, hookVars, counters, alive, told, shown>>

(* _on_bar_update: one throttle for every symbol and timeframe, of closed  *)
(* and open bars.  BAR_CLOSE itself is not subscribed to.                  *)
OnBarUpdate ==
  /\ Publish
  /\ IF barAge < BarGap THEN UNCHANGED <<outbox, barAge>>
     ELSE Broadcast(Other) /\ barAge' = 0
  /\ UNCHANGED <<alertAge, guardrailOn>>

(* _on_guardrail_activated: throttled, and not sent again later.           *)
OnGuardrailActivated ==
  /\ Publish
  /\ guardrailOn' = TRUE
  /\ IF alertAge < AlertGap THEN UNCHANGED <<outbox, alertAge>>
     ELSE Broadcast(Countdown(TRUE)) /\ alertAge' = 0
  /\ UNCHANGED barAge

(* Mutant: the end of a guardrail goes through the same throttle.          *)
OffThrottled ==
  /\ Publish
  /\ guardrailOn' = FALSE
  /\ IF alertAge < AlertGap THEN UNCHANGED <<outbox, alertAge>>
     ELSE Broadcast(Countdown(FALSE)) /\ alertAge' = 0
  /\ UNCHANGED barAge

(* _on_guardrail_deactivated: never throttled.                             *)
OnGuardrailDeactivated ==
  /\ Publish
  /\ guardrailOn' = FALSE
  /\ Broadcast(Countdown(FALSE))
  /\ UNCHANGED <<barAge, alertAge>>

(* The other eight: zone, prediction and consensus, which tell of a part   *)
(* that has been written to Redis before; system, model, feed and news.    *)
OnOther ==
  /\ Publish
  /\ \/ Broadcast(Other)
     \/ \E s \in Parts : stored[s] > 0 /\ Broadcast(Update(s))
  /\ UNCHANGED <<barAge, alertAge, guardrailOn>>

FeedTick ==
  /\ \/ barAge < BarGap \/ alertAge < AlertGap
  /\ barAge' = IF barAge < BarGap THEN barAge + 1 ELSE barAge
  /\ alertAge' = IF alertAge < AlertGap THEN alertAge + 1 ELSE alertAge
  /\ UNCHANGED <<serverVars, guardrailOn, stored, announced, writes, hookVars, counters, alive,
                 outbox, told, shown>>

(* A component writes its part of Redis, at a time when it matters.        *)
Write(s) ==
  /\ \E c \in Conns : handler[c] = "building"
  /\ writes < MaxWrites /\ writes' = writes + 1
  /\ stored' = [stored EXCEPT ![s] = @ + 1]
  /\ UNCHANGED <<serverVars, barAge, alertAge, guardrailOn, announced, hookVars, counters,
                 alive, outbox, told, shown>>

-----------------------------------------------------------------------------
(* WebSocketServer                                                         *)

(* start, in a new process: the first free port of ten, of which the UI    *)
(* knows only the first.  The dispatcher is new, with open throttles, and  *)
(* so is the macro engine, with no guardrail.                              *)
StartServer ==
  /\ server = "down"
  /\ server' \in {"up", "elsewhere"}
  /\ barAge' = BarGap /\ alertAge' = AlertGap /\ guardrailOn' = FALSE
  /\ UNCHANGED <<clients, handler, left, seen, stored,
                 announced, writes, hookVars, counters, alive, outbox, told, shown>>

(* stop: no more events; each client is closed, then the port.             *)
StopServer ==
  /\ server \in {"up", "elsewhere"} /\ faults < MaxFaults
  /\ server' = "stopping" /\ faults' = faults + 1
  /\ UNCHANGED <<clients, handler, left, seen, busVars, hookVars,
                 conns, mounts, requests, alive, outbox, told, shown>>
Stopped ==
  /\ server = "stopping"
  /\ server' = "down" /\ clients' = {} /\ alive' = {}
  /\ handler' = [c \in Conns |-> IF handler[c] = "none" THEN "none" ELSE "done"]
  /\ outbox' = [c \in Conns |-> <<>>]
  /\ left' = [c \in Conns |-> <<>>]
  /\ seen' = [c \in Conns |-> Nothing]
  /\ UNCHANGED <<busVars, hookVars, counters, told, shown>>

(* _handler begins; it may be later than the UI's onopen.                  *)
HandlerStart(c) ==
  /\ server \in {"up", "stopping"} /\ handler[c] = "none" /\ c <= conns
  /\ handler' = [handler EXCEPT ![c] = "reading"]
  /\ clients' = clients \cup {c}
  /\ UNCHANGED <<server, left, seen, busVars, hookVars, counters,
                 alive, outbox, told, shown>>

(* _handler ends when the connection does: its finally clause.             *)
HandlerEnd(c) ==
  /\ handler[c] = "reading" /\ c \notin alive
  /\ handler' = [handler EXCEPT ![c] = "done"]
  /\ clients' = clients \ {c}
  /\ UNCHANGED <<server, left, seen, busVars, hookVars, counters,
                 alive, outbox, told, shown>>

(* _handle_message: request_full_state.  The messages of a connection are  *)
(* handled one after the other.                                            *)
RequestFullState(c) ==
  /\ handler[c] = "reading" /\ c \in alive /\ requests < MaxRequests
  /\ requests' = requests + 1
  /\ handler' = [handler EXCEPT ![c] = "building"]
  /\ left' = [left EXCEPT ![c] = Sections]
  /\ UNCHANGED <<server, clients, seen, busVars, hookVars, conns, faults, mounts,
                 alive, outbox, told, shown>>

(* _build_full_state: the next section; one that raises keeps what it had  *)
(* read before: nothing, or some of what is stored.                        *)
ReadSection(c) ==
  /\ handler[c] = "building" /\ left[c] # <<>>
  /\ left' = [left EXCEPT ![c] = Tail(@)]
  /\ LET s == Head(left[c]) IN
       \/ /\ seen' = [seen EXCEPT ![c][s] = stored[s]]
          /\ UNCHANGED faults
       \/ /\ faults < MaxFaults /\ faults' = faults + 1
          /\ seen' \in {seen, [seen EXCEPT ![c][s] = stored[s]]}
  /\ UNCHANGED <<server, clients, handler, busVars, hookVars, conns,
                 mounts, requests, alive, outbox, told, shown>>

(* is_connected is false: every section stays empty.                       *)
NoRedis(c) ==
  /\ handler[c] = "building" /\ left[c] = Sections /\ faults < MaxFaults
  /\ faults' = faults + 1
  /\ left' = [left EXCEPT ![c] = <<>>]
  /\ UNCHANGED <<server, clients, handler, seen, busVars, hookVars, conns,
                 mounts, requests, alive, outbox, told, shown>>

(* _send_full_state: a client that is gone leaves _clients.                *)
SendFullState(c) ==
  /\ handler[c] = "building" /\ left[c] = <<>>
  /\ handler' = [handler EXCEPT ![c] = "reading"]
  /\ seen' = [seen EXCEPT ![c] = Nothing]
  /\ IF c \in alive
     THEN /\ outbox' = [outbox EXCEPT ![c] =
               Append(@, [type |-> "snapshot", holds |-> seen[c]])]
          /\ UNCHANGED clients
     ELSE clients' = clients \ {c} /\ UNCHANGED outbox
  /\ UNCHANGED <<server, left, busVars, hookVars, counters,
                 alive, told, shown>>

(* A field of a message as JavaScript tests it: undefined where it is not. *)
Truth(m, field) == field \in DOMAIN m /\ m[field]

(* _send_raw, the arrival of what it sends, and dispatchMessage, which     *)
(* looks for active_guardrail in a countdown.                              *)
Deliver(c) ==
  /\ outbox[c] # <<>>
  /\ IF c \in alive
     THEN LET m == Head(outbox[c]) IN
          /\ outbox' = [outbox EXCEPT ![c] = Tail(@)]
          /\ IF m.type = "countdown"
             THEN /\ told' = [told EXCEPT ![c] = m.is_active]
                  /\ shown' = Truth(m, "active_guardrail")
             ELSE UNCHANGED <<told, shown>>
          /\ UNCHANGED clients
     ELSE /\ outbox' = [outbox EXCEPT ![c] = <<>>]
          /\ clients' = clients \ {c}
          /\ UNCHANGED <<told, shown>>
  /\ UNCHANGED <<server, handler, left, seen, busVars, hookVars, counters, alive>>

(* _heartbeat_loop, every 30 seconds: a client that cannot be pinged goes. *)
Heartbeat(c) ==
  /\ server \in {"up", "elsewhere"} /\ c \in clients \ alive
  /\ clients' = clients \ {c}
  /\ UNCHANGED <<server, handler, left, seen, busVars, hookVars,
                 counters, alive, outbox, told, shown>>

-----------------------------------------------------------------------------
(* useWebSocket                                                            *)

(* connect: the old socket loses its callbacks and is closed.  new         *)
(* WebSocket may raise, which sets a timer.                                *)
Connect(pending) ==
  /\ alive' = alive \ {cur} /\ cur' = 0
  /\ \/ sock' = "connecting" /\ timers' = pending
     \/ sock' = "none" /\ timers' = pending + 1

Mount ==
  /\ ~mounted /\ mounts < MaxMounts
  /\ mounted' = TRUE /\ mounts' = mounts + 1
  /\ Connect(timers)
  /\ UNCHANGED <<serverVars, busVars, backoff, conns, faults, requests, outbox,
                 told, shown>>

(* The timer of a reconnection fires.                                      *)
Fire ==
  /\ timers > 0
  /\ Connect(timers - 1)
  /\ backoff' = IF 2 * backoff < MaxBackoff THEN 2 * backoff ELSE MaxBackoff
  /\ UNCHANGED <<serverVars, busVars, mounted, counters, outbox, told, shown>>

(* The connection is accepted: onopen.                                     *)
Open ==
  /\ sock = "connecting" /\ server = "up" /\ conns < MaxConns
  /\ conns' = conns + 1
  /\ sock' = "open" /\ cur' = conns + 1
  /\ alive' = alive \cup {conns + 1}
  /\ backoff' = InitialBackoff
  /\ UNCHANGED <<serverVars, busVars, mounted, timers, faults, mounts, requests,
                 outbox, told, shown>>

(* Mutant: only a connection that was open is tried again.                 *)
CloseOnce ==
  /\ \/ sock = "connecting" /\ server # "up" /\ timers' = timers
     \/ sock = "open" /\ cur \notin alive /\ timers' = timers + 1
  /\ sock' = "none" /\ cur' = 0
  /\ UNCHANGED <<serverVars, busVars, mounted, backoff, counters, alive, outbox,
                 told, shown>>

(* onclose: of a connection that was refused, or that has ended.           *)
OnClose ==
  /\ \/ sock = "connecting" /\ server # "up"
     \/ sock = "open" /\ cur \notin alive
  /\ sock' = "none" /\ cur' = 0
  /\ timers' = timers + 1
  /\ UNCHANGED <<serverVars, busVars, mounted, backoff, counters, alive, outbox,
                 told, shown>>

(* The network drops the connection; what was under way is lost.           *)
Drop ==
  /\ cur \in alive /\ conns < MaxConns
  /\ alive' = alive \ {cur}
  /\ UNCHANGED <<serverVars, busVars, hookVars, counters, outbox, told, shown>>

(* The cleanup of the effect.                                              *)
Unmount ==
  /\ mounted
  /\ mounted' = FALSE /\ timers' = 0
  /\ sock' = "none" /\ cur' = 0 /\ alive' = alive \ {cur}
  /\ UNCHANGED <<serverVars, busVars, backoff, counters, outbox, told, shown>>

-----------------------------------------------------------------------------
Serve(c) ==
  \/ HandlerStart(c) \/ HandlerEnd(c)
  \/ RequestFullState(c) \/ ReadSection(c) \/ NoRedis(c) \/ SendFullState(c)
  \/ Deliver(c) \/ Heartbeat(c)
Hook == Mount \/ Fire \/ Open \/ OnClose \/ Drop \/ Unmount
FeedNext ==
  \/ OnBarUpdate \/ OnGuardrailActivated \/ OnGuardrailDeactivated \/ OnOther
  \/ FeedTick \/ \E s \in Parts : Write(s)
  \/ StartServer \/ StopServer \/ Stopped
  \/ \E c \in Conns : Serve(c)
  \/ Hook

(* Timers fire, a connection attempt is answered, and tasks run.           *)
FeedFairness ==
  /\ WF_feedVars(Fire) /\ WF_feedVars(Open) /\ WF_feedVars(OnClose)
  /\ WF_feedVars(Stopped)
  /\ \A c \in Conns : WF_feedVars(HandlerStart(c)) /\ WF_feedVars(HandlerEnd(c))
                      /\ WF_feedVars(ReadSection(c)) /\ WF_feedVars(SendFullState(c))

FeedSpec == FeedInit /\ [][FeedNext]_feedVars /\ FeedFairness

-----------------------------------------------------------------------------
(* Once a guardrail has ended, every connection that was told of it, or is *)
(* about to be, has its end on the way as the last word: no throttle       *)
(* suppresses it, none overtakes it, and no client that can be reached is  *)
(* forgotten.                                                              *)
EndFollows(c) ==
  /\ told[c] => \E i \in DOMAIN outbox[c] : outbox[c][i] = Countdown(FALSE)
  /\ \A i \in DOMAIN outbox[c] : outbox[c][i] = Countdown(TRUE) =>
        \E j \in DOMAIN outbox[c] : j > i /\ outbox[c][j] = Countdown(FALSE)
GuardrailEndIsTold == ~guardrailOn => \A c \in alive : EndFollows(c)

(* The hook has at most one connection or one attempt to come, and none    *)
(* once the component is gone.                                             *)
HookIsSingle ==
  /\ alive \subseteq {cur}
  /\ timers + (IF sock = "none" THEN 0 ELSE 1) = (IF mounted THEN 1 ELSE 0)

(* What the UI may rely on: to be told that a guardrail is over, over the  *)
(* one connection it has.                                                  *)
FeedSound == GuardrailEndIsTold /\ HookIsSingle

(* Not so in the code.  The UI's types give a countdown_update the field   *)
(* active_guardrail: a guardrail that was announced to the UI is shown.    *)
GuardrailIsShown == cur \in alive /\ told[cur] => shown

(* Not so in the code.  FullStateSnapshotMessage is documented as the      *)
(* whole current state: a snapshot is not older than an update that the    *)
(* same client is sent before it.                                          *)
SnapshotIsCurrent ==
  \A c \in Conns : \A i, j \in DOMAIN outbox[c] :
    LET u == outbox[c][i]
        m == outbox[c][j]
    IN i < j /\ u.type = "update" /\ m.type = "snapshot" /\ m.holds[u.part] # Missing
         => m.holds[u.part] >= u.version

OutOfBound == sock = "connecting" /\ conns = MaxConns
(* When the server stays on the port the UI knows and the component stays  *)
(* mounted, the UI ends up connected and registered with the server,       *)
(* whatever was refused or dropped before.                                 *)
Reconnects ==
  <>[](server = "up" /\ mounted /\ ~OutOfBound) => <>[]Reachable
=============================================================================
