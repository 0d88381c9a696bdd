----------------------------- MODULE TickReceivers -----------------------------
(***************************************************************************)
(* The feed of the MT5 terminal: mt5_connector.py, which polls the newest  *)
(* tick of the terminal and pushes it, and tick_receiver.py, which pulls   *)
(* and publishes it, both in core/ingestion, over a ZeroMQ pipe.           *)
(*                                                                         *)
(* A tick is its number at the terminal.  Time counts in the waits of the  *)
(* receiver, in units of its receive timeout.  ZeroMQ is external: it      *)
(* keeps the order of messages, blocks a sender that has no receiver, and  *)
(* forgets the messages of a socket that is closed.                        *)
(***************************************************************************)
EXTENDS Integers, Sequences, SequencesExt

CONSTANTS
  Loops,        \* identities of tick loops
  StaleAfter,   \* receive timeouts of silence before an alert
  MaxDelay,     \* _max_reconnect_delay
  PipeMax,      \* bound: messages in the pipe
  MaxTick,      \* bound: ticks of the terminal
  MaxStops,     \* bound: stops of either end
  MaxErrors     \* bound: errors of the receiver's socket

ASSUME ReceiverAssumption ==
  /\ {StaleAfter, MaxDelay, PipeMax} \subseteq Nat \ {0}
  /\ {MaxTick, MaxStops, MaxErrors} \subseteq Nat

NoLoop == "no loop"

VARIABLES
  market,       \* the newest tick of the terminal, 0 before the first
  attached,     \* MT5Connector._connected
  pushing,      \* its _running, and its socket is bound
  task,         \* its _task
  loops,        \* its tick loops: "none", "poll" or "send"
  sends,        \* <<loop, tick>> of the sends that wait, in order
  pipe,         \* messages under way to the receiver's open socket
  receiver,     \* where the receive loop is: "off", "connect", "recv", "wait"
  delay,        \* _reconnect_delay
  silence,      \* timeouts since the last tick received, -1 before the first
  got,          \* history: the tick the receiver published last
  alerted,      \* history: an alert has been published in this silence
  stops, faults \* counters of the bounds

connectorVars == <<attached, pushing, task, loops, sends>>
receiverVars == <<receiver, delay, silence, got, alerted>>
feedVars == <<market, connectorVars, pipe, receiverVars, stops, faults>>

TickReceiversInit ==
  /\ market = 0 /\ attached = FALSE /\ pushing = FALSE /\ task = NoLoop
  /\ loops = [l \in Loops |-> "none"] /\ sends = <<>> /\ pipe = <<>>
  /\ receiver = "off" /\ delay = 1 /\ silence = -1 /\ got = 0 /\ alerted = FALSE
  /\ stops = 0 /\ faults = 0

NewTick ==
  /\ market < MaxTick /\ market' = market + 1
  /\ UNCHANGED <<connectorVars, pipe, receiverVars, stops, faults>>

-----------------------------------------------------------------------------
(* MT5Connector.connect, when the terminal lets it.                        *)
Attach ==
  /\ ~attached /\ attached' = TRUE
  /\ UNCHANGED <<market, pushing, task, loops, sends, pipe, receiverVars, stops, faults>>

(* MT5Connector.start.  (Before a stop it would fail in bind.)             *)
StartPushing ==
  /\ attached /\ ~pushing /\ pushing' = TRUE
  /\ \E l \in Loops :
       /\ loops[l] = "none"
       /\ loops' = [loops EXCEPT ![l] = "poll"] /\ task' = l
  /\ UNCHANGED <<market, attached, sends, pipe, receiverVars, stops, faults>>

(* _tick_loop: the newest tick, an old one too, is sent after a sleep of a *)
(* millisecond, an interval or a second, if the connector still runs.      *)
Poll(l) ==
  /\ loops[l] = "poll"
  /\ \/ /\ ~pushing
        /\ loops' = [loops EXCEPT ![l] = "none"] /\ UNCHANGED sends
     \/ /\ pushing /\ market # 0
        /\ loops' = [loops EXCEPT ![l] = "send"]
        /\ sends' = Append(sends, <<l, market>>)
  /\ UNCHANGED <<market, attached, pushing, task, pipe, receiverVars, stops, faults>>

(* A send that waits is done when there is a receiver with room.  (The     *)
(* connector's own events go to no other component of the feed.)           *)
Send ==
  /\ sends # <<>> /\ receiver = "recv" /\ Len(pipe) < PipeMax
  /\ pipe' = Append(pipe, Head(sends)[2])
  /\ loops' = [loops EXCEPT ![Head(sends)[1]] = "poll"]
  /\ sends' = Tail(sends)
  /\ UNCHANGED <<market, attached, pushing, task, receiverVars, stops, faults>>

(* Closing the socket cancels the sends that wait in it, and with them the *)
(* loops; a loop that sleeps finds out later, and goes on if the connector *)
(* runs again by then.                                                     *)
Sending == {sends[i][1] : i \in DOMAIN sends}
Detach(L) ==
  /\ stops < MaxStops /\ stops' = stops + 1
  /\ attached' = FALSE /\ pushing' = FALSE
  /\ loops' = [l \in Loops |-> IF l \in L \cup Sending THEN "none" ELSE loops[l]]
  /\ sends' = <<>>
  /\ UNCHANGED <<market, pipe, receiverVars, faults>>

(* disconnect() leaves the task alone, stop() cancels it first.            *)
Disconnect == attached /\ Detach({}) /\ UNCHANGED task
StopPushing == attached /\ Detach({task}) /\ UNCHANGED task

-----------------------------------------------------------------------------
(* TickReceiver.start, and stop, which closes the socket.                  *)
StartReceiver ==
  /\ receiver = "off" /\ receiver' = "connect"
  /\ UNCHANGED <<market, connectorVars, pipe, delay, silence, got, alerted, stops, faults>>

StopReceiver ==
  /\ receiver # "off" /\ receiver' = "off" /\ pipe' = <<>>
  /\ stops < MaxStops /\ stops' = stops + 1
  /\ UNCHANGED <<market, connectorVars, delay, silence, got, alerted, faults>>

(* _connect: it succeeds whether or not anyone is there.                   *)
ConnectReceiver ==
  /\ receiver = "connect" /\ receiver' = "recv" /\ delay' = 1
  /\ UNCHANGED <<market, connectorVars, pipe, silence, got, alerted, stops, faults>>

(* _process_tick of a message.                                             *)
Receive ==
  /\ receiver = "recv" /\ pipe # <<>>
  /\ got' = Head(pipe) /\ pipe' = Tail(pipe)
  /\ silence' = 0 /\ alerted' = FALSE
  /\ UNCHANGED <<market, connectorVars, receiver, delay, stops, faults>>

(* The silence after one more wait, counted up to where it no longer       *)
(* matters.                                                                *)
Longer == IF silence \in {-1, StaleAfter + 1} THEN silence ELSE silence + 1

(* zmq.Again: nothing has come for the receive timeout; _check_staleness.  *)
ReceiveTimeout ==
  /\ receiver = "recv" /\ pipe = <<>>
  /\ silence' = Longer
  /\ alerted' = (alerted \/ Longer > StaleAfter)
  /\ UNCHANGED <<market, connectorVars, pipe, receiver, delay, got, stops, faults>>

(* Mutant: the receive loop is left after an error.                        *)
AfterErrorStops == "gone"

AfterError == "wait"

(* Any other exception, of _connect or of _recv_forever: the socket goes.  *)
ReceiverError ==
  /\ faults < MaxErrors /\ faults' = faults + 1
  /\ receiver \in {"connect", "recv"} /\ receiver' = AfterError
  /\ pipe' = <<>>
  /\ UNCHANGED <<market, connectorVars, delay, silence, got, alerted, stops>>

(* _wait_before_reconnect                                                  *)
Waited ==
  /\ receiver = "wait" /\ receiver' = "connect"
  /\ delay' = IF 2 * delay < MaxDelay THEN 2 * delay ELSE MaxDelay
  /\ silence' = Longer
  /\ UNCHANGED <<market, connectorVars, pipe, got, alerted, stops, faults>>

-----------------------------------------------------------------------------
ReceiverStep == ConnectReceiver \/ Receive \/ ReceiveTimeout \/ Waited

TickReceiversNext ==
  \/ NewTick
  \/ Attach \/ StartPushing \/ Send \/ Disconnect \/ StopPushing
  \/ \E l \in Loops : Poll(l)
  \/ StartReceiver \/ StopReceiver \/ ReceiverStep \/ ReceiverError

(* The event loop runs every task that can go on; nobody has to connect,   *)
(* start or stop anything, and the terminal may have no more ticks.        *)
TickReceiversFairness ==
  /\ \A l \in Loops : WF_feedVars(Poll(l))
  /\ WF_feedVars(Send)
  /\ WF_feedVars(ReceiverStep)

TickReceiversSpec ==
  TickReceiversInit /\ [][TickReceiversNext]_feedVars /\ TickReceiversFairness

-----------------------------------------------------------------------------
(* The receiver never publishes a tick older than one before, whatever is  *)
(* stopped, started and lost, and though a tick loop of before a           *)
(* disconnect() may run beside the next one.                               *)
NeverOlder == [][got' >= got]_feedVars

(* If both ends run for good, the newest tick is published in the end,     *)
(* whatever errors lost: the connector repeats it (_tick_loop).            *)
Running == pushing /\ receiver # "off"
NewestArrives == \A n \in 1..MaxTick : <>[](Running /\ market = n) => <>[](got = n)

(* If no one pushes any more, a receiver that has had a tick and is not    *)
(* stopped raises the alert (_check_staleness), errors or not.             *)
SilenceIsReported ==
  <>[](~pushing /\ silence >= 0 /\ receiver # "off") => <>[]alerted

FeedFlows == NeverOlder /\ NewestArrives /\ SilenceIsReported
=============================================================================
