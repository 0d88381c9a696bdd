------------------------------- MODULE Outcomes -------------------------------
(***************************************************************************)
(* core/memory/outcome_determinator.py over the table predictions of       *)
(* SQLiteHistoryStore, for one symbol.                                     *)
(*                                                                         *)
(* Reads see the committed table; inserts and updates wait in the write    *)
(* queue (FIFO, see HistoryStore), so a prediction may be invisible when   *)
(* its first bars close and still be pending after its outcome is known.   *)
(* The handler of a bar ends before the next M1 bar closes; commits and    *)
(* new predictions happen between its steps.  A minute without ticks closes *)
(* no bar, so bars may be any number of minutes apart.  PriceBar as        *)
(* declared has no field symbol: bars are objects that have one, as        *)
(* on_bar_close requires.                                                  *)
(***************************************************************************)
EXTENDS Naturals, Sequences, FiniteSets, SequencesExt, FiniteSetsExt

CONSTANTS
  Kinds,         \* kinds of bars: which levels they reach, closed in the zone or not
  Gaps,          \* minutes from one bar to the next
  Horizon,       \* MAX_HORIZON_MS, in minutes (240)
  ZoneHoldBars,  \* ZONE_HOLD_BARS (3)
  CacheMax,      \* bars kept in _bars_cache (300)
  Limit,         \* limit of get_pending_predictions (100)
  MaxBars,       \* bound: bars in a behaviour
  MaxPreds,      \* bound: predictions inserted
  MaxBackfills,  \* bound: calls of determine_outcomes_for_symbol
  MaxZoneMoves   \* bound: changes of the zone in Redis

ASSUME OutcomeAssumption ==
  /\ Kinds \subseteq [bsl : BOOLEAN, ssl : BOOLEAN, inZone : BOOLEAN]
  /\ Gaps \subseteq Nat \ {0}
  /\ {Horizon, ZoneHoldBars, CacheMax, Limit} \subseteq Nat \ {0}
  /\ Horizon < CacheMax
  /\ {MaxBars, MaxPreds, MaxBackfills, MaxZoneMoves} \subseteq Nat

VARIABLES
  bars,       \* every bar so far, with the minute of its close
  windowStart, \* index of the oldest bar in _bars_cache
  seen,       \* index of the oldest bar in the series of the handler
  zone,       \* an active zone of the symbol is in Redis
  moves, backfills,
  table,      \* outcome of each committed prediction, by the bar it was made at
  writes,      \* write jobs not committed yet
  examining,       \* predictions the handler has still to examine
  handled,        \* index of the bar that is handled
  published,  \* OUTCOME_CONFIRMED events, in order
  late,       \* history: predictions not examined at every bar they were
              \* open, or examined by a backfill
  checked     \* history: the handler of the last bar has run to its end

outcomeVars == <<bars, windowStart, seen, zone, moves, backfills, table, writes, examining,
                 handled, published, late, checked>>

NoOutcome == "none"        \* no row
Pending == "pending"  \* outcome_determined = 0
OutcomeType == {"BSL_HIT", "SSL_HIT", "TIMEOUT", "ZONE_HOLD"}  \* LATERAL is never used
Times == 0..MaxBars   \* bars, and the time before the first

(* Minutes from the close of a prediction's bar to that of bar b.          *)
CloseTime(b) == IF b = 0 THEN 0 ELSE bars[b].at
Elapsed(p, b) == CloseTime(b) - CloseTime(p)

OutcomesInit ==
  /\ bars = <<>> /\ windowStart = 1 /\ seen = 1 /\ zone = FALSE /\ moves = 0 /\ backfills = 0
  /\ table = [p \in Times |-> NoOutcome]
  /\ writes = <<>> /\ examining = <<>> /\ handled = 0 /\ published = <<>>
  /\ late = {} /\ checked = TRUE

(* insert_prediction at the current bar: INSERT OR REPLACE with            *)
(* outcome_determined = 0.                                                 *)
InsertPrediction ==
  LET p == Len(bars) IN
  /\ Cardinality({i \in Times : table[i] # NoOutcome} \cup {writes[i].p : i \in 1..Len(writes)}) < MaxPreds
  /\ table[p] = NoOutcome /\ ~ \E i \in 1..Len(writes) : writes[i].p = p
  /\ writes' = Append(writes, [p |-> p, set |-> Pending])
  /\ UNCHANGED <<bars, windowStart, seen, zone, moves, backfills, table, examining, handled, published, late, checked>>

(* The flush loop commits the oldest job; update_prediction_outcome does   *)
(* nothing when the row is not there.                                      *)
CommitOutcome ==
  /\ writes # <<>>
  /\ LET j == Head(writes) IN
     table' = IF j.set = Pending \/ table[j.p] # NoOutcome
              THEN [table EXCEPT ![j.p] = j.set] ELSE table
  /\ writes' = Tail(writes)
  /\ UNCHANGED <<bars, windowStart, seen, zone, moves, backfills, examining, handled, published, late, checked>>

(* get_pending_predictions: the newest n.                                  *)
GetPending(n) ==
  LET S == {p \in Times : table[p] = Pending}
      k == IF Cardinality(S) < n THEN Cardinality(S) ELSE n IN
  {ids \in [1..k -> S] :
     /\ \A i, j \in 1..k : i < j => ids[i] > ids[j]
     /\ \A p \in S : (\E i \in 1..k : ids[i] = p) \/ \A i \in 1..k : ids[i] > p}

Open == {p \in Times : table[p] = Pending
                       \/ \E i \in 1..Len(writes) : writes[i] = [p |-> p, set |-> Pending]}

(* on_bar_close: the bar is appended, the cache is replaced by its newest  *)
(* bars, which leaves the series of this call as it is, and the pending    *)
(* predictions are read.                                                   *)
OnBarClose ==
  /\ examining = <<>> /\ Len(bars) < MaxBars
  /\ \E k \in Kinds, g \in Gaps :
       bars' = Append(bars, [bsl |-> k.bsl, ssl |-> k.ssl, inZone |-> k.inZone,
                             at |-> CloseTime(Len(bars)) + g])
  /\ handled' = Len(bars) + 1
  /\ seen' = windowStart
  /\ windowStart' = IF handled' - windowStart + 1 > CacheMax THEN handled' - CacheMax + 1 ELSE windowStart
  /\ examining' \in GetPending(Limit)
  /\ checked' = (examining' = <<>>)
  /\ late' = late \cup (Open \ ToSet(examining'))
  /\ UNCHANGED <<zone, moves, backfills, table, writes, published>>

(* determine_outcomes_for_symbol over all bars of the past, limit 1000.    *)
Backfill ==
  /\ examining = <<>> /\ bars # <<>>
  /\ backfills < MaxBackfills /\ backfills' = backfills + 1
  /\ windowStart' = 1 /\ seen' = 1 /\ handled' = Len(bars)
  /\ examining' \in GetPending(MaxPreds) /\ examining' # <<>>
  /\ checked' = FALSE
  /\ late' = late \cup ToSet(examining')
  /\ UNCHANGED <<bars, zone, moves, table, writes, published>>

Since(p) == {b \in seen..Len(bars) : b > p}
High(S) == \E b \in S : bars[b].bsl   \* high_since_prediction >= predicted_bsl_level
Low(S) == \E b \in S : bars[b].ssl    \* low_since_prediction <= predicted_ssl_level

(* _check_zone_hold: an active zone in which enough bars have closed.      *)
ZoneHold(p) == zone /\ Cardinality({b \in windowStart..Len(bars) : b > p /\ bars[b].inZone}) >= ZoneHoldBars

(* _determine_outcome, in the order of its checks.                         *)
DetermineOutcome(p) ==
  IF Since(p) = {} THEN NoOutcome
  ELSE IF ZoneHold(p) THEN "ZONE_HOLD"
  ELSE IF High(Since(p)) THEN "BSL_HIT"
  ELSE IF Low(Since(p)) THEN "SSL_HIT"
  ELSE IF Elapsed(p, handled) > Horizon THEN "TIMEOUT" ELSE NoOutcome

(* Mutant: the update is put at the head of the queue.                     *)
UpdateJumpsQueue(p, o) ==
  /\ writes' = <<[p |-> p, set |-> o]>> \o writes
  /\ published' = Append(published, [p |-> p, outcome |-> o, at |-> handled])

(* _update_and_publish.                                                    *)
UpdateAndPublish(p, o) ==
  /\ writes' = Append(writes, [p |-> p, set |-> o])
  /\ published' = Append(published, [p |-> p, outcome |-> o, at |-> handled])

(* One prediction of the list read at the start.                           *)
Examine ==
  /\ examining # <<>>
  /\ LET p == Head(examining)  o == DetermineOutcome(p) IN
     IF o = NoOutcome THEN UNCHANGED <<writes, published>> ELSE UpdateAndPublish(p, o)
  /\ examining' = Tail(examining)
  /\ checked' = (examining' = <<>>)
  /\ UNCHANGED <<bars, windowStart, seen, zone, moves, backfills, table, handled, late>>
(* The registry adds, mitigates or loses the zone (see ZoneRegistry).      *)
ZoneMoves ==
  /\ moves < MaxZoneMoves /\ moves' = moves + 1 /\ zone' = ~zone
  /\ UNCHANGED <<bars, windowStart, seen, backfills, table, writes, examining, handled, published, late, checked>>

OutcomesNext ==
  \/ InsertPrediction \/ CommitOutcome \/ OnBarClose \/ Backfill
  \/ Examine \/ ZoneMoves

OutcomesFairness == WF_outcomeVars(CommitOutcome) /\ WF_outcomeVars(Examine)

OutcomesSpec == OutcomesInit /\ [][OutcomesNext]_outcomeVars /\ OutcomesFairness

-----------------------------------------------------------------------------
(* Types of every variable.                                                *)
OutcomesTypeOK ==
  /\ bars \in Seq([bsl : BOOLEAN, ssl : BOOLEAN, inZone : BOOLEAN, at : Nat])
  /\ windowStart \in 1..MaxBars + 1 /\ handled \in Times
  /\ table \in [Times -> OutcomeType \cup {NoOutcome, Pending}]
  /\ ToSet(examining) \subseteq Times /\ late \subseteq Times
  /\ \A i \in 1..Len(published) : published[i].outcome \in OutcomeType

(* What happened first to prediction p, among the bars up to b: the        *)
(* definition that the determinator should agree with.                     *)
Decisive(p, b) == \E k \in p + 1..b : bars[k].bsl \/ bars[k].ssl
IsFirst(i) == \A j \in 1..i - 1 : published[j].p # published[i].p
IsLast(i) == \A j \in i + 1..Len(published) : published[j].p # published[i].p

(* The first outcome announced for a prediction that was examined at every *)
(* bar is decided by the first bar that reached a level or closed beyond   *)
(* the horizon, unless a hold came before.  That bar may do both: after a  *)
(* gap, a level it reaches counts however late it closed, the upper one    *)
(* first; a timeout says that none was reached up to and with that bar.    *)
FirstEventDecides ==
  \A i \in 1..Len(published) :
    LET e == published[i] IN
    IsFirst(i) /\ e.p \notin late =>
      /\ ~Decisive(e.p, e.at - 1) /\ Elapsed(e.p, e.at - 1) <= Horizon
      /\ e.outcome = "BSL_HIT" => bars[e.at].bsl
      /\ e.outcome = "SSL_HIT" => bars[e.at].ssl /\ ~bars[e.at].bsl
      /\ e.outcome = "TIMEOUT" => ~Decisive(e.p, e.at) /\ Elapsed(e.p, e.at) > Horizon

(* With the writes flushed and the last bar handled, a prediction that is  *)
(* still pending is within its horizon and has met no level, unless at     *)
(* some bar it was not in the table yet or Limit newer ones were pending:  *)
(* the newest-first limit is the one way to starve.                        *)
NoneOverlooked ==
  writes = <<>> /\ examining = <<>> /\ checked =>
    \A p \in Times : table[p] = Pending /\ p \notin late =>
      Elapsed(p, Len(bars)) <= Horizon /\ ~Decisive(p, Len(bars))

(* The table ends with the last outcome announced, though a prediction     *)
(* may be judged again, and differently, before its first update is        *)
(* committed.                                                              *)
StoredIsLastAnnounced ==
  writes = <<>> =>
    \A i \in 1..Len(published) :
      IsLast(i) => table[published[i].p] = published[i].outcome

(* Every prediction is judged by what happened first, none is overlooked,  *)
(* and the table agrees with what was announced.                           *)
OutcomesSound == FirstEventDecides /\ NoneOverlooked /\ StoredIsLastAnnounced

(* Overview_document.md:1525-1526 takes only the predictions made less     *)
(* than MAX_HORIZON ago: no later bar may make one a hit.                  *)
HitsWithinHorizon ==
  \A i \in 1..Len(published) :
    LET e == published[i] IN
    e.p \notin late /\ e.outcome \in {"BSL_HIT", "SSL_HIT"} => Elapsed(e.p, e.at) <= Horizon

(* Only predictions with outcome_determined = 0 are taken                  *)
(* (outcome_determinator.py:108): none is confirmed a second time.         *)
ConfirmedOnce == \A i \in 1..Len(published) : IsFirst(i)
=============================================================================
