------------------------------ MODULE MarketState ------------------------------
(***************************************************************************)
(* What is made of the bars: core/ingestion/mtf_synchronizer.py, with its  *)
(* leakage guard, and desync_detector.py.  After every tick the newest bar *)
(* of each timeframe is handed to the synchronizer (update_bar), as        *)
(* test_module1_integration.py does; a snapshot or a report is asked for   *)
(* at any moment.                                                          *)
(*                                                                         *)
(* Volumetrics, ATR and macro context of the state vector are carried      *)
(* along by the code and left out.                                         *)
(***************************************************************************)
EXTENDS OHLCVAggregator

CONSTANTS
  Lookback,             \* lookback_buckets
  Minor, Moderate, MaxInterpolation, \* the detector's thresholds
  NoAnswer              \* stands for no snapshot or report

ASSUME MarketAssumption ==
  /\ Lookback \in Nat \ {0}
  /\ {Minor, Moderate, MaxInterpolation} \subseteq Nat
  /\ Minor <= Moderate /\ Moderate <= MaxInterpolation

VARIABLES
  lockOf,     \* _lock_boundaries of the forward-locked timeframes, -1 else
  usv,        \* the snapshot just built
  report      \* the desync report just made

marketVars == <<barVars, lockOf, usv, report>>

MarketInit ==
  /\ BarsInit
  /\ lockOf = [tf \in Timeframes |-> -1]
  /\ usv = NoAnswer /\ report = NoAnswer

Existing(tf) == {b \in Times : bars[tf][b] # NoBar}
Closed(tf) == {b \in Existing(tf) : bars[tf][b].is_closed}

(* A tick, and update_bar of get_latest_bar.                               *)
MarketTick(t, p) ==
  /\ ProcessTick(t, p)
  /\ usv' = NoAnswer /\ report' = NoAnswer /\ UNCHANGED lockOf

(* lock_tf and unlock_all                                                  *)
LockTF(tf, b) ==
  /\ lockOf' = [lockOf EXCEPT ![tf] = b]
  /\ usv' = NoAnswer /\ report' = NoAnswer /\ UNCHANGED barVars

UnlockAll ==
  /\ lockOf' = [tf \in Timeframes |-> -1]
  /\ usv' = NoAnswer /\ report' = NoAnswer /\ UNCHANGED barVars

StillLocked(tf, t) == lockOf[tf] # -1 /\ t < lockOf[tf] + Seconds[tf]

(* apply_guard: of the bars handed over; a lock that is over goes, the bar *)
(* of one that is not loses its close.                                     *)
Guarded(tf, t) ==
  LET bar == bars[tf][Max(Existing(tf))] IN
  [bucket |-> Max(Existing(tf)), is_closed |-> bar.is_closed,
   is_forward_locked |-> StillLocked(tf, t),
   close |-> IF StillLocked(tf, t) THEN 0 ELSE bar.close]

(* build_usv for a tick of time t, with the closed bars its reader gets.   *)
BuildUSV(t) ==
  LET known == {tf \in Timeframes : Existing(tf) # {}} IN
  /\ lockOf' = [tf \in Timeframes |->
                  IF tf \in known /\ ~StillLocked(tf, t) THEN -1 ELSE lockOf[tf]]
  /\ usv' = [time |-> t, bars |-> [tf \in known |-> Guarded(tf, t)],
             lockedBefore |-> lockOf]
  /\ report' = NoAnswer /\ UNCHANGED barVars

-----------------------------------------------------------------------------
(* check_desync at reference_time t: a bar counts when it is closed, and   *)
(* the bucket of t itself is expected too.                                 *)
Expected(tf, t) == {Bucket(tf, t) - i * Seconds[tf] : i \in 0..(Lookback - 1)}

Severity(missing) ==
  CASE missing = 0         -> "NONE"
    [] missing \in 1..Minor -> "MINOR"
    [] missing \in (Minor + 1)..MaxInterpolation -> "MODERATE"
    [] OTHER               -> "SEVERE"

Reliability(missing) ==
  CASE missing <= Moderate -> "RELIABLE"
    [] missing \in (Moderate + 1)..MaxInterpolation -> "INTERPOLATED"
    [] OTHER               -> "UNRELIABLE"

(* Mutant: the gap is measured from bar to bar.                            *)
MissingBetweenTooMany(tf, b, c) == (c - b) \div Seconds[tf]

(* fill_gaps: what it measures between two neighbours, and the buckets     *)
(* that have a bar afterwards.                                             *)
MissingBetween(tf, b, c) == (c - (b + Seconds[tf])) \div Seconds[tf]

Filled(tf) ==
  LET After(b) == Min({c \in Closed(tf) : c > b}) IN
  Closed(tf) \cup UNION {
    {b + j * Seconds[tf] : j \in 1..MissingBetween(tf, b, After(b))} :
      b \in {x \in Closed(tf) : /\ \E c \in Closed(tf) : c > x
                                /\ MissingBetween(tf, x, After(x)) <= MaxInterpolation}}

(* check_desync, and fill_gaps of the same bars.                           *)
CheckDesync(tf, t) ==
  LET missing == Cardinality(Expected(tf, t) \ Closed(tf)) IN
  /\ report' = [timeframe |-> tf, time |-> t, missing |-> missing,
                severity |-> Severity(missing), reliability |-> Reliability(missing),
                filled |-> Filled(tf)]
  /\ usv' = NoAnswer /\ UNCHANGED <<barVars, lockOf>>

-----------------------------------------------------------------------------
MarketNext ==
  \/ /\ Len(ticks) < MaxBarTicks
     /\ \E t \in Times, p \in Prices : t + Late >= Newest /\ MarketTick(t, p)
  \/ \E tf \in Timeframes : \E b \in Existing(tf) : LockTF(tf, b)
  \/ UnlockAll
  \/ \E t \in Times : BuildUSV(t)
  \/ \E tf \in Timeframes, t \in Times : CheckDesync(tf, t)

MarketSpec == MarketInit /\ [][MarketNext]_marketVars

-----------------------------------------------------------------------------
(* A snapshot whose time lies in the bucket that is locked does not show   *)
(* how that bucket closes, whatever ticks have come since.                 *)
NoPeeking ==
  usv # NoAnswer =>
    \A tf \in DOMAIN usv.bars :
      Bucket(tf, usv.time) = usv.lockedBefore[tf] => usv.bars[tf].close = 0

(* In a window that the detector does not call unreliable, whose first     *)
(* bucket has a bar and after which there is none, fill_gaps leaves no     *)
(* hole up to the newest closed bar.  (A gap that begins before the window *)
(* or ends after it may be too long to be filled.)                         *)
WindowsFilled ==
  report # NoAnswer =>
    LET tf == report.timeframe
        window == Expected(tf, report.time) IN
    /\ report.reliability # "UNRELIABLE" /\ Min(window) \in Closed(tf)
    /\ \A c \in Closed(tf) : c <= Bucket(tf, report.time)
    => \A b \in window, c \in Closed(tf) : b <= c => b \in report.filled

(* A feed with ticks in every bucket, in order, lacks exactly the bar that *)
(* is still open: it is never worse than the first severity.               *)
OnlyOpenMissing ==
  report # NoAnswer =>
    LET tf == report.timeframe
        window == Expected(tf, report.time) IN
    InOrder /\ window \subseteq Existing(tf) /\ Bucket(tf, Newest) = Bucket(tf, report.time)
      => report.missing = 1

(* What readers of the bars are told.                                      *)
MarketSound == NoPeeking /\ WindowsFilled /\ OnlyOpenMissing

(* Not so in the code.  "Neu thieu <= 5 bars: noi suy" (when at most 5 bars *)
(* are missing, interpolate; desync_detector.py:47): every bucket of such a *)
(* window that lies between two closed bars is filled.                     *)
FewMissingAreFilled ==
  report # NoAnswer /\ report.missing <= MaxInterpolation =>
    LET tf == report.timeframe IN
    \A b \in Expected(tf, report.time), c, d \in Closed(tf) :
      c <= b /\ b <= d /\ d <= Bucket(tf, report.time) => b \in report.filled
=============================================================================
