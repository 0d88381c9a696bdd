---------------------------- MODULE OHLCVAggregator ----------------------------
(***************************************************************************)
(* core/ingestion/ohlcv_aggregator.py: OHLCVAggregator.process_tick, which *)
(* turns the ticks of one symbol into bars of every timeframe at once      *)
(* (symbols share nothing).                                                *)
(*                                                                         *)
(* Time is in units of the smallest timeframe's tick resolution.  A tick's *)
(* timestamp is the sender's: the MT5 terminal's or TradingView's clock,   *)
(* so it may be older than the previous tick's by up to Late.  The volume  *)
(* of every tick is 1: a bar's volume is its tick_count.                   *)
(***************************************************************************)
EXTENDS Integers, Sequences, FiniteSets, SequencesExt, FiniteSetsExt, Functions

CONSTANTS
  Timeframes, \* self.timeframes
  Base,       \* the timeframe whose closing starts the cascade ("M1")
  Seconds,    \* TIMEFRAME_SECONDS
  Prices,     \* bound: prices of ticks
  MaxTime,    \* bound: largest timestamp
  MaxBarTicks,   \* bound: number of ticks in a behaviour
  Late,       \* how far a tick's timestamp may lie behind an earlier one's
  NoBar       \* stands for a bucket that is not in _active_bars

Times == 0..MaxTime

ASSUME AggregatorAssumption ==
  /\ Base \in Timeframes
  /\ Seconds \in [Timeframes -> Nat \ {0}]
  /\ Prices \subseteq Nat
  /\ MaxTime \in Nat /\ MaxBarTicks \in Nat /\ Late \in Nat

BarState == [open : Prices, high : Prices, low : Prices, close : Prices,
             tick_count : Nat \ {0}, is_closed : BOOLEAN]

ASSUME NoBarAssumption == NoBar \notin BarState

VARIABLES
  bars,   \* _active_bars of the symbol: timeframe -> bucket -> bar
  closes, \* history: BAR_CLOSE events of each timeframe, with their bucket
  ticks   \* history: the ticks processed

barVars == <<bars, closes, ticks>>

BarClose == [bucket : Times, bar : BarState]

-----------------------------------------------------------------------------
BarsInit ==
  /\ bars = [tf \in Timeframes |-> [b \in Times |-> NoBar]]
  /\ closes = [tf \in Timeframes |-> <<>>]
  /\ ticks = <<>>

(* _compute_bucket                                                         *)
Bucket(tf, t) == (t \div Seconds[tf]) * Seconds[tf]

(* _create_bar                                                             *)
CreateBar(p) ==
  [open |-> p, high |-> p, low |-> p, close |-> p, tick_count |-> 1,
   is_closed |-> FALSE]

(* BarState.update: a high or low of 0.0 counts as not set yet.            *)
Updated(bar, p) ==
  [bar EXCEPT !.tick_count = @ + 1, !.close = p,
              !.high = IF @ = 0 \/ p > @ THEN p ELSE @,
              !.low = IF @ = 0 \/ p < @ THEN p ELSE @]

Open(f) == {b \in Times : f[b] # NoBar /\ ~f[b].is_closed}

(* The buckets for which _update_tf calls _close_bar when a tick of bucket *)
(* b arrives: b itself if its bar is closed already, or, when b has no     *)
(* bar, the newest open bucket if it is older than b.                      *)
Closing(f, b) ==
  IF f[b] # NoBar THEN {x \in {b} : f[x].is_closed}
                  ELSE {x \in Open(f) : x < b /\ \A y \in Open(f) : y <= x}

(* Mutant: a late tick is added to the closed bar.                         *)
UpdateTFReopens(f, b, p) ==
  [x \in Times |->
     IF x = b
     THEN IF f[x] = NoBar THEN CreateBar(p) ELSE Updated(f[x], p)
     ELSE IF x \in Closing(f, b) THEN [f[x] EXCEPT !.is_closed = TRUE] ELSE f[x]]

(* _update_tf: the bars of a timeframe after the tick.                     *)
UpdateTF(f, b, p) ==
  [x \in Times |->
     IF x = b
     THEN IF x \in Open(f) THEN Updated(f[x], p) ELSE CreateBar(p)
     ELSE IF x \in Closing(f, b) THEN [f[x] EXCEPT !.is_closed = TRUE] ELSE f[x]]

(* _check_and_close_tf, called for every larger timeframe when a bar of    *)
(* Base was closed: the bucket of the tick's own timestamp never is over.  *)
Cascade(f, tf, t) ==
  {x \in {Bucket(tf, t)} : x \in Open(f) /\ t >= x + Seconds[tf]}

(* process_tick                                                            *)
ProcessTick(t, p) ==
  LET closing == [tf \in Timeframes |-> Closing(bars[tf], Bucket(tf, t))]
      updated == [tf \in Timeframes |-> UpdateTF(bars[tf], Bucket(tf, t), p)]
      cascade == [tf \in Timeframes |->
                    IF closing[Base] # {} /\ tf # Base
                    THEN Cascade(updated[tf], tf, t) ELSE {}]
      events(tf) == {[bucket |-> b, bar |-> [bars[tf][b] EXCEPT !.is_closed = TRUE]] :
                       b \in closing[tf]}
      late(tf) == {[bucket |-> b, bar |-> [updated[tf][b] EXCEPT !.is_closed = TRUE]] :
                       b \in cascade[tf]}
  IN
  /\ bars' = [tf \in Timeframes |->
                [b \in Times |-> IF b \in cascade[tf]
                                 THEN [updated[tf][b] EXCEPT !.is_closed = TRUE]
                                 ELSE updated[tf][b]]]
  /\ closes' = [tf \in Timeframes |->
                  closes[tf] \o SetToSeq(events(tf)) \o SetToSeq(late(tf))]
  /\ ticks' = Append(ticks, [time |-> t, price |-> p])

Newest == Max({0} \cup {ticks[i].time : i \in DOMAIN ticks})

BarsNext ==
  /\ Len(ticks) < MaxBarTicks
  /\ \E t \in Times, p \in Prices :
       /\ t + Late >= Newest
       /\ ProcessTick(t, p)

BarsSpec == BarsInit /\ [][BarsNext]_barVars

-----------------------------------------------------------------------------
(* Types of every variable.                                                *)
BarsTypeOK ==
  /\ bars \in [Timeframes -> [Times -> BarState \cup {NoBar}]]
  /\ closes \in [Timeframes -> Seq(BarClose)]
  /\ ticks \in Seq([time : Times, price : Prices])

(* The ticks of a bucket, by their place in the stream, and the bar they   *)
(* make.                                                                   *)
TicksOf(tf, b) == {i \in 1..Len(ticks) : Bucket(tf, ticks[i].time) = b}
IsBarOf(bar, tf, b) ==
  LET S == TicksOf(tf, b) IN
  /\ bar.tick_count = Cardinality(S)
  /\ \E i \in S : bar.open = ticks[i].price /\ \A j \in S : i <= j
  /\ \E i \in S : bar.close = ticks[i].price /\ \A j \in S : j <= i
  /\ \E i \in S : bar.high = ticks[i].price
  /\ \E i \in S : bar.low = ticks[i].price
  /\ \A i \in S : bar.low <= ticks[i].price /\ ticks[i].price <= bar.high

(* The BAR_CLOSE events of a bucket, by their place among the events.      *)
SentFor(tf, b) == {i \in 1..Len(closes[tf]) : closes[tf][i].bucket = b}

InOrder == \A i, j \in 1..Len(ticks) : i < j => ticks[i].time <= ticks[j].time

(* While ticks are in order, every bar of every timeframe, open or closed, *)
(* is the OHLCV of exactly the ticks of its bucket.                        *)
BarsMatchTicks ==
  InOrder =>
    \A tf \in Timeframes, b \in Times :
      IF TicksOf(tf, b) = {} THEN bars[tf][b] = NoBar
      ELSE bars[tf][b] # NoBar /\ IsBarOf(bars[tf][b], tf, b)

(* While ticks are in order, a bucket that is over has had exactly one     *)
(* BAR_CLOSE on every timeframe, with the final bar, and a bucket that is  *)
(* not over none: what triggers the AI engine is complete and final.       *)
ClosedOnceFinal ==
  InOrder =>
    \A tf \in Timeframes, b \in Times :
      IF TicksOf(tf, b) # {} /\ b < Bucket(tf, Newest)
      THEN \E i \in SentFor(tf, b) :
             SentFor(tf, b) = {i} /\ closes[tf][i].bar = bars[tf][b]
      ELSE SentFor(tf, b) = {}

(* Late ticks included, every tick is in the bar its bucket announced or   *)
(* in the open bar that replaced it when a late tick came.                 *)
TicksConserved ==
  \A tf \in Timeframes, b \in Times :
    LET open == IF b \in Open(bars[tf]) THEN bars[tf][b].tick_count ELSE 0 IN
    /\ SentFor(tf, b) = {} => Cardinality(TicksOf(tf, b)) = open
    /\ \A i \in SentFor(tf, b) :
         Cardinality(TicksOf(tf, b)) = closes[tf][i].bar.tick_count + open

(* Late ticks included, a bucket is announced at most twice, the second    *)
(* time with the same bar: the ticks of a bar begun by a late tick are     *)
(* never announced, and a consumer may drop the repetition.                *)
RepeatsAreEqual ==
  \A tf \in Timeframes, b \in Times :
    /\ Cardinality(SentFor(tf, b)) <= 2
    /\ \A i, j \in SentFor(tf, b) : closes[tf][i].bar = closes[tf][j].bar

(* What is announced and kept of the ticks, in order or late.              *)
BarsSound == BarsMatchTicks /\ ClosedOnceFinal /\ TicksConserved /\ RepeatsAreEqual
=============================================================================
