-------------------------- MODULE StructurePipeline --------------------------
(* The feature pipeline of one symbol and timeframe: each closed bar goes   *)
(* through FeatureEngineeringPipeline.process_bar, that is the swing-point  *)
(* detector (SwingPointDetector), the structure map (ICTStructureMapper),   *)
(* the gap scanner (FVGOBScanner), the displacement engine and the          *)
(* liquidity vector (BSLSSLRegistry, LiquidityPoolIndexer).  The arrays     *)
(* the caller passes hold the last Window bars, newest first; prices are    *)
(* small integers, ratios are pairs <<numerator, denominator>>.             *)
(*                                                                          *)
(* A pivot is one object that several lists of the detector share: piv     *)
(* holds its fields, the lists hold its id <<bar, side>>.  The times of the *)
(* arrays differ from bar to bar, so no two pivots compare equal.           *)
EXTENDS Integers, Sequences, FiniteSets, SequencesExt, FiniteSetsExt, TLC

CONSTANTS
    Days,        \* the days explored: sequences of bars [o, h, l, c]
    Window,      \* bars handed to process_bar
    MaxBuffer,   \* MAX_BUFFER, pivots kept in _st
    MergeVI      \* FeatureEngineeringConfig.fvg_merge_vi

ASSUME PipelineAssumption ==
    /\ Window \in Nat /\ Window >= 3
    /\ MaxBuffer \in Nat \ {0}
    /\ MergeVI \in BOOLEAN
    (* A bar closes within its range. *)
    /\ Days \subseteq Seq([o : Int, h : Int, l : Int, c : Int])
    /\ \A d \in Days : \A n \in DOMAIN d :
          d[n].l <= d[n].c /\ d[n].c <= d[n].h

VARIABLES
    day,        \* the bars of this behaviour, oldest first
    pos,        \* bars processed
    guardrail,  \* _news_guardrail_active
    piv,        \* fields of every pivot ever made, by id
    st,         \* _st: ids newest first
    level,      \* level[side][term]: _sth.._ltl, ids newest first
    smap,       \* the mapper's StructureMap
    gaps,       \* the scanner's collection: fvgs and ifvgs
    result      \* what the last process_bar returned, or that it raised

vars == <<day, pos, guardrail, piv, st, level, smap, gaps, result>>

Sides == {"high", "low"}
Terms == {"ST", "IT", "LT"}

Abs(n) == IF n < 0 THEN -n ELSE n
MinOf(a, b) == IF a < b THEN a ELSE b
MaxOf(a, b) == IF a > b THEN a ELSE b

(* The members of a sequence that are in a set, in their order.             *)
Picked(s, S) ==
    LET picked[i \in 0..Len(s)] ==
            IF i = 0 THEN <<>>
            ELSE IF s[i] \in S THEN Append(picked[i - 1], s[i])
            ELSE picked[i - 1]
    IN  picked[Len(s)]

(* Beyond(side, a, b): a sticks out further than b on that side.            *)
Beyond(side, a, b) == IF side = "high" THEN a > b ELSE a < b
Extreme(side, bar) == IF side = "high" THEN bar.h ELSE bar.l

(* The arrays of a call: index 0 of the code is element 1 here.             *)
Arrays(n) == [i \in 1..MinOf(n, Window) |-> day[n - i + 1]]

-----------------------------------------------------------------------------
(* Swing points.                                                            *)

(* First position from i on whose value differs from its predecessor's,     *)
(* or the last one.                                                         *)
SkipEqual(i, s) ==
    LET differ == {j \in i..Len(s) : s[j] # s[j - 1]}
    IN  IF i > Len(s) \/ differ = {} THEN Len(s) ELSE Min(differ)

(* The bar before the newest is a swing on this side.                       *)
IsSwing(side, w) ==
    LET s == [i \in DOMAIN w |-> Extreme(side, w[i])]
    IN  /\ Len(w) >= 3
        /\ Beyond(side, s[2], s[SkipEqual(3, s)])
        /\ Beyond(side, s[2], s[1])

NewPivot(side, price, prev) ==
    [price |-> price, side |-> side, term |-> "ST", claimed |-> FALSE,
     last |-> 0,
     s |-> \A last \in prev : ~Beyond(side, last, price),
     i |-> FALSE, l |-> FALSE]

(* The detector's state is passed as a record d = [piv, st, level].         *)
AddSwing(side, d, n, w) ==
    LET full  == Len(d.st) >= MaxBuffer
        old   == IF full THEN d.st[Len(d.st)] ELSE <<0, side>>
        kept  == IF full THEN Front(d.st) ELSE d.st
        list  == IF full
                   THEN Picked(d.level[side]["ST"], DOMAIN d.piv \ {old})
                   ELSE d.level[side]["ST"]
        id    == <<n - 1, side>>
        prev  == {d.piv[list[k]].price : k \in {1} \cap DOMAIN list}
        new   == NewPivot(side, Extreme(side, w[2]), prev)
    IN  IF ~IsSwing(side, w) THEN d
        ELSE [piv   |-> [p \in DOMAIN d.piv \cup {id} |->
                            IF p = id THEN new ELSE d.piv[p]],
              st    |-> <<id>> \o kept,
              level |-> [d.level EXCEPT ![side]["ST"] = <<id>> \o list]]

(* The second of the prices, newest first, sticks out of the first and of   *)
(* the one at position older.                                               *)
Peaks(side, price, older) ==
    /\ Beyond(side, price[2], price[older])
    /\ Beyond(side, price[2], price[1])

(* Promotion of the second newest pivot of a list when it sticks out of its *)
(* neighbours.  A flagged pivot is not promoted again; one that does not    *)
(* extend the upper list stays unflagged.                                   *)
Promote(side, from, to, d) ==
    LET s      == d.level[side][from]
        price  == [k \in DOMAIN s |-> d.piv[s[k]].price]
        needed == IF from = "ST" /\ side = "high" THEN 4 ELSE 3
        older  == IF from = "ST" THEN SkipEqual(3, price) ELSE 3
        p      == s[2]
        flag   == IF to = "IT" THEN d.piv[p].i ELSE d.piv[p].l
        upper  == d.level[side][to]
        grows  == upper = <<>>
                  \/ ~Beyond(side, d.piv[upper[1]].price, price[2])
    IN  IF /\ Len(s) >= needed
           /\ Peaks(side, price, older)
           /\ ~flag
          THEN [d EXCEPT
                  !.piv[p] = IF to = "IT"
                               THEN [@ EXCEPT !.term = to, !.i = grows]
                               ELSE [@ EXCEPT !.term = to, !.l = grows],
                  !.level[side][to] = IF Contains(upper, p)
                                        THEN upper ELSE <<p>> \o upper]
          ELSE d

FindST(d, n, w) == AddSwing("low", AddSwing("high", d, n, w), n, w)
FindIT(d) == Promote("low", "ST", "IT", Promote("high", "ST", "IT", d))
FindLT(d) == Promote("low", "IT", "LT", Promote("high", "IT", "LT", d))

(* A pivot is claimed by the first bar that trades beyond it.  Only the     *)
(* pivots still in _st are looked at.                                       *)
SweptAgain(d, bar) ==                   \* mutant: claimed pivots are not skipped
    {p \in ToSet(d.st) : Beyond(d.piv[p].side, Extreme(d.piv[p].side, bar),
                                d.piv[p].price)}

SweptNow(d, bar) ==
    {p \in ToSet(d.st) :
        /\ ~d.piv[p].claimed
        /\ Beyond(d.piv[p].side, Extreme(d.piv[p].side, bar), d.piv[p].price)}

CheckClaimed(d, n, w) ==
    LET hit == SweptNow(d, w[1])
    IN  [d EXCEPT !.piv =
            [p \in DOMAIN @ |->
                IF p \in hit THEN [@[p] EXCEPT !.claimed = TRUE, !.last = n]
                ELSE @[p]]]

Detect(d, n, w) == CheckClaimed(FindLT(FindIT(FindST(d, n, w))), n, w)

-----------------------------------------------------------------------------
(* Structure map.  The mapper keeps the equilibrium, the fib levels and the *)
(* zones of an earlier bar when the pivots at hand do not give new ones.    *)

OfSide(d, ids, side) == Picked(ids, {p \in DOMAIN d.piv : d.piv[p].side = side})
OfTerms(d, terms) == {p \in DOMAIN d.piv : d.piv[p].term \in terms}
Prices(d, ids) == {d.piv[p].price : p \in ToSet(ids)}

(* Twice the equilibrium, 0 when a side is missing.                         *)
Equilibrium(d, ids) ==
    LET highs == OfSide(d, ids, "high")
        lows  == OfSide(d, ids, "low")
    IN  IF highs = <<>> \/ lows = <<>> THEN 0
        ELSE Max(Prices(d, highs)) + Min(Prices(d, lows))

(* The levels eq - 0.382 r, eq, eq + 0.618 r and eq + 0.786 r, times 2000.  *)
FibLevels(old, eq2, range) ==
    IF range <= 0 THEN old
    ELSE [ratio \in {382, 500, 618, 786} |->
            1000 * eq2 + CASE ratio = 382 -> -(2 * 382 * range)
                           [] ratio = 500 -> 0
                           [] OTHER       -> 2 * ratio * range]

(* Pivots whose adjacent older neighbour they exceed and the price exceeds  *)
(* them: a shift of market structure.                                       *)
ShiftsOf(d, ids, side, price) ==
    LET s == Picked(OfSide(d, ids, side), OfTerms(d, {"ST", "IT"}))
    IN  {s[k] : k \in {j \in 1..(Len(s) - 1) :
            /\ Beyond(side, d.piv[s[j]].price, d.piv[s[j + 1]].price)
            /\ Beyond(side, price, d.piv[s[j]].price)}}

(* A break of structure needs two broken pivots; the oldest is reported.    *)
BreakOf(d, ids, side, price) ==
    LET s == Picked(OfSide(d, ids, side),
                    {p \in OfTerms(d, {"ST", "IT"}) :
                        Beyond(side, price, d.piv[p].price)})
    IN  IF Len(s) < 2 THEN {} ELSE {[pivot |-> s[Len(s)], broken |-> Len(s)]}

(* get_structure_map: the equilibrium it stores is stale when a side is     *)
(* missing, while the zones are cut with 0.                                 *)
StructureMapOf(old, d, ids, price) ==
    LET eq2    == Equilibrium(d, ids)
        both   == eq2 # 0
        highs  == Prices(d, OfSide(d, ids, "high"))
        lows   == Prices(d, OfSide(d, ids, "low"))
        fibs   == IF both THEN FibLevels(old.fibs, eq2, Max(highs) - Min(lows))
                  ELSE old.fibs
    IN  [eq2      |-> IF both THEN eq2 ELSE old.eq2,
         fibs     |-> fibs,
         premium  |-> {r \in DOMAIN fibs : fibs[r] >= 1000 * eq2},
         discount |-> {r \in DOMAIN fibs : fibs[r] < 1000 * eq2},
         mss      |-> [side \in Sides |-> ShiftsOf(d, ids, side, price)],
         bos      |-> [side \in Sides |-> BreakOf(d, ids, side, price)]]

-----------------------------------------------------------------------------
(* Fair value gaps.  The scanner reads the same arrays as if the oldest bar *)
(* came first; an index below zero is Python's, from the end.               *)

At(w, i) == w[(i % Len(w)) + 1]
BodyMin(b) == MinOf(b.o, b.c)
BodyMax(b) == MaxOf(b.o, b.c)

IsGap(w, i) ==
    /\ i >= 1
    /\ \/ At(w, i).l > At(w, i - 1).h
       \/ At(w, i).h < At(w, i - 1).l

BullishFVG(w, i) == At(w, i).l > At(w, i - 2).h
BearishFVG(w, i) == At(w, i).h < At(w, i - 2).l

(* The gap between bars i - 2 and i, widened to the bodies under merge_vi.  *)
CreateFVG(w, i) ==
    LET up    == BodyMin(At(w, i - 1)) > BodyMax(At(w, i - 2))
        down  == BodyMax(At(w, i - 1)) < BodyMin(At(w, i - 2))
        older == BodyMin(At(w, i - 2)) > BodyMax(At(w, i - 3))
    IN  [at |-> i, inverted |-> FALSE] @@
        (IF BullishFVG(w, i)
           THEN [top    |-> IF MergeVI /\ up THEN BodyMin(At(w, i - 1))
                            ELSE At(w, i).l,
                 bottom |-> IF MergeVI /\ older THEN BodyMax(At(w, i - 2))
                            ELSE At(w, i - 2).h]
           ELSE [top    |-> IF MergeVI /\ older THEN BodyMin(At(w, i - 2))
                            ELSE At(w, i - 2).l,
                 bottom |-> IF MergeVI /\ down THEN BodyMax(At(w, i - 1))
                            ELSE At(w, i).h])

ScanFVG(w) ==
    LET found == {i \in 2..(Len(w) - 1) :
                    /\ ~IsGap(w, i)
                    /\ ~IsGap(w, i - 1)
                    /\ BullishFVG(w, i) \/ BearishFVG(w, i)}
        order == SetToSortSeq(found, <)
    IN  [k \in DOMAIN order |-> CreateFVG(w, order[k])]

(* Imbalance.is_bullish: the edges decide, not the direction of the bars.   *)
IsBullish(f) == f.top < f.bottom

(* detect_ifvg marks every gap but the last as invertable or not; reading   *)
(* the mark of the last raises AttributeError, after the earlier ones have  *)
(* been inverted.                                                           *)
DetectIFVG(fvgs, bar) ==
    LET through(f) == \/ IsBullish(f) /\ bar.c < bar.o /\ bar.c < f.bottom
                      \/ ~IsBullish(f) /\ bar.c > bar.o /\ bar.c > f.top
        flips == {k \in 1..(Len(fvgs) - 1) :
                    /\ IsBullish(fvgs[k]) # IsBullish(fvgs[k + 1])
                    /\ through(fvgs[k])}
    IN  [fvgs   |-> [k \in DOMAIN fvgs |->
                       [fvgs[k] EXCEPT !.inverted = k \in flips]],
         ifvgs  |-> [k \in 1..Cardinality(flips) |->
                       LET f == fvgs[SetToSortSeq(flips, <)[k]]
                       IN  IF IsBullish(f)
                             THEN [top |-> f.bottom, bottom |-> f.top]
                             ELSE [top |-> f.top, bottom |-> f.bottom]],
         raised |-> fvgs # <<>>]

-----------------------------------------------------------------------------
(* Displacement and feature vectors.                                        *)

Zero == <<0, 1>>
Whole(n) == <<n, 1>>
Zeros(n) == [i \in 1..n |-> Zero]

(* The body of the bar before the newest against the standard deviation of  *)
(* all bodies; strength is kept as its square.                              *)
Displacement(w, factor, requireFVG) ==
    LET n     == Len(w)
        body  == [i \in DOMAIN w |-> Abs(w[i].o - w[i].c)]
        total == FoldSeq(LAMBDA x, acc : acc + x, 0, body)
        sq    == FoldSeq(LAMBDA x, acc : acc + x * x, 0, body)
        var   == n * sq - total * total        \* n^2 times the variance
        mine  == body[2] * body[2] * n * n
        fvg   == w[2].l > w[3].h \/ w[2].h < w[3].l
    IN  IF n < 3 THEN [displaced |-> FALSE, bullish |-> FALSE, sq |-> Zero]
        ELSE [displaced |-> mine > factor * factor * var
                            /\ (requireFVG => fvg),
              bullish   |-> w[2].o < w[2].c,
              sq        |-> IF var > 0 /\ factor > 0
                              THEN <<mine, factor * factor * var>> ELSE Zero]

StrengthVector(w) ==
    [k \in 1..5 |-> Displacement(w, <<1, 2, 3, 1, 2>>[k], k > 3).sq]

(* Equal levels need two pivots of different index closer than the spacing; *)
(* every pivot has the index 1 of the bar it was found at, and no caller    *)
(* computes a spacing.                                                      *)
PivotIndex(p) == 1
Spacing == 0
EqualLevels(d, ids) ==
    {pq \in ToSet(ids) \X ToSet(ids) :
        /\ PivotIndex(pq[1]) # PivotIndex(pq[2])
        /\ Abs(d.piv[pq[1]].price - d.piv[pq[2]].price) < Spacing}

(* get_pivots_by_term: only the high side of the upper tiers.               *)
Tier(d, i) == IF i = 0 THEN d.st
              ELSE d.level["high"][IF i = 1 THEN "IT" ELSE "LT"]

AnyOfTier(d, i, side) ==                \* mutant: claimed pivots count too
    Picked(Tier(d, i), {p \in DOMAIN d.piv : d.piv[p].side = side})

Unclaimed(d, i, side) ==
    Picked(Tier(d, i), {p \in DOMAIN d.piv :
                          d.piv[p].side = side /\ ~d.piv[p].claimed})

(* The nearest of a non-empty list, the first one among equals.             *)
Nearest(d, ids, price) ==
    LET dist  == [k \in DOMAIN ids |-> Abs(d.piv[ids[k]].price - price)]
        least == {k \in DOMAIN ids : \A j \in DOMAIN ids : dist[k] <= dist[j]}
    IN  ids[Min(least)]

ClaimedRatio(d, ids) ==
    LET recent == SubSeq(ids, 1, MinOf(Len(ids), 50))
    IN  IF ids = <<>> THEN Zero
        ELSE <<Len(Picked(recent, {p \in DOMAIN d.piv : d.piv[p].claimed})),
               Len(recent)>>

MaxCount == <<20, 10, 5>>

(* How far the nearest of the pivots lies ahead of the price on their side. *)
Distance(d, ids, side, price) ==
    LET at == d.piv[Nearest(d, ids, price)].price
    IN  IF ids = <<>> THEN Zero
        ELSE Whole(IF side = "high" THEN at - price ELSE price - at)

(* The 24 liquidity features, distances in units of a positive ATR; the     *)
(* caller passes no time, so an age is 100 where there is a pivot.          *)
FLiq(d, price) ==
    LET open(side)  == [i \in 1..3 |-> Unclaimed(d, i - 1, side)]
        away(side)  == [i \in 1..3 |-> Distance(d, open(side)[i], side, price)]
        age(side)   == [i \in 1..3 |->
                          Whole(IF open(side)[i] = <<>> THEN 200 ELSE 100)]
        count(side) == [i \in 1..3 |-> <<Len(open(side)[i]), MaxCount[i]>>]
    IN  away("high") \o away("low") \o age("high") \o age("low") \o Zeros(4)
        \o count("high") \o count("low")
        \o <<ClaimedRatio(d, Tier(d, 1)), ClaimedRatio(d, Tier(d, 2))>>

CountGaps(fvgs, Test(_)) == Len(SelectSeq(fvgs, Test))

(* build_symbolic_feature_map: what the two vectors are made of.            *)
FeatureMap(d, m, g, eqs, w, fliq) ==
    [f_liq    |-> fliq,
     mssBull  |-> Cardinality(m.mss["high"]), mssBear |-> Cardinality(m.mss["low"]),
     bosBull  |-> Cardinality(m.bos["high"]), bosBear |-> Cardinality(m.bos["low"]),
     premium  |-> Cardinality(m.premium),     discount |-> Cardinality(m.discount),
     fvgBull  |-> CountGaps(g.fvgs, LAMBDA f : IsBullish(f) /\ ~f.inverted),
     fvgBear  |-> CountGaps(g.fvgs, LAMBDA f : ~IsBullish(f) /\ ~f.inverted),
     ifvg     |-> Len(g.ifvgs),
     eq       |-> Cardinality(eqs),
     strength |-> Displacement(w, 2, TRUE).sq,
     price2   |-> 2 * w[1].c, eq2 |-> m.eq2]

Score(f) == 2 * (f.mssBull + f.mssBear) + f.bosBull + f.bosBear
ZoneWeight(f) == IF f.premium > f.discount THEN <<3, 2>> ELSE Whole(1)

FStruct(f) ==
    LET dist == IF f.eq2 > 0 THEN <<f.price2 - f.eq2, f.eq2>> ELSE Zero
        mss  == f.mssBull + f.mssBear
        bos  == f.bosBull + f.bosBear
        half == <<1, 2>>                       \* times a session weight of 1
    IN  f.f_liq
        \o <<Whole(f.mssBull), Whole(f.mssBear),
             Whole(f.bosBull), Whole(f.bosBear), Whole(Score(f))>>
        \o Zeros(5)
        \o <<dist, Whole(IF dist[1] > 0 THEN 1 ELSE 0),
             Whole(IF dist[1] < 0 THEN 1 ELSE 0),
             <<Score(f), MaxOf(mss, 1)>>, <<Score(f), MaxOf(bos, 1)>>, Zero>>
        \o <<Whole(f.fvgBull), Whole(f.fvgBear), Zero, Zero, Zero, half,
             Zero, Zero, Zero, half, Whole(f.ifvg), Zero, f.strength,
             ZoneWeight(f), ZoneWeight(f), Zero>>
        \o <<Whole(f.eq), Whole(f.eq)>> \o Zeros(6)

FAgg(f) ==
    <<Whole(f.fvgBull + f.fvgBear),
      Whole(2 * (f.mssBull - f.mssBear) + f.bosBull - f.bosBear),
      f.strength, Zero, Zero, Whole(f.premium - f.discount),
      Whole(1), Whole(1), Whole(1), Zero, Zero, Zero,
      Whole(f.mssBull + f.mssBear), Zero, Zero, Zero>>

(* Zones to be registered: every gap that is not mitigated.                 *)
ZoneList(g) ==
    {[type |-> IF IsBullish(f) THEN "FVG_BULL" ELSE "FVG_BEAR",
      top |-> f.top, bottom |-> f.bottom] : f \in ToSet(g.fvgs)}
    \cup {[type |-> IF IsBullish(f) THEN "VI_BULL" ELSE "VI_BEAR",
           top |-> f.top, bottom |-> f.bottom] : f \in ToSet(g.ifvgs)}

-----------------------------------------------------------------------------
NoMap == [eq2 |-> 0, fibs |-> <<>>, premium |-> {}, discount |-> {},
          mss |-> [side \in Sides |-> {}], bos |-> [side \in Sides |-> {}]]

Init ==
    /\ day \in Days
    /\ pos = 0
    /\ guardrail = FALSE
    /\ piv = <<>>
    /\ st = <<>>
    /\ level = [side \in Sides |-> [term \in Terms |-> <<>>]]
    /\ smap = NoMap
    /\ gaps = [fvgs |-> <<>>, ifvgs |-> <<>>]
    /\ result = [kind |-> "none"]

(* on_news_alert: the pipeline, its configuration and the scanner switch    *)
(* together.                                                                *)
OnNewsAlert ==
    /\ pos < Len(day)
    /\ guardrail' = ~guardrail
    /\ UNCHANGED <<day, pos, piv, st, level, smap, gaps, result>>

(* What every bar does first, guardrail or not: the swing points, then the  *)
(* structure map over the pivots ids that the mode looks at.                *)
Newest == Arrays(pos + 1)
Detector == [piv |-> piv, st |-> st, level |-> level]
Detected == Detect(Detector, pos + 1, Newest)

TakeBar(d, m) ==
    /\ pos' = pos + 1
    /\ piv' = d.piv
    /\ st' = d.st
    /\ level' = d.level
    /\ smap' = m
    /\ UNCHANGED <<day, guardrail>>

(* process_bar without a guardrail, on arrays without a gap.                *)
ProcessBar ==
    /\ pos < Len(day)
    /\ ~guardrail
    /\ LET w    == Newest
           d    == Detected
           m    == StructureMapOf(smap, d, d.st, w[1].c)
           g    == DetectIFVG(ScanFVG(w), w[1])
           eqs  == EqualLevels(d, d.level["high"]["ST"])
                   \cup EqualLevels(d, d.level["low"]["ST"])
           fmap == FeatureMap(d, m, g, eqs, w, FLiq(d, w[1].c))
       IN  /\ ~g.raised
           /\ TakeBar(d, m)
           /\ gaps' = [fvgs |-> g.fvgs, ifvgs |-> g.ifvgs]
           /\ result' = [kind       |-> "full",
                         d_strength |-> StrengthVector(w),
                         f_struct   |-> FStruct(fmap),
                         f_agg      |-> FAgg(fmap),
                         zones      |-> ZoneList(g),
                         claimed    |-> {p \in ToSet(d.st) : d.piv[p].claimed}]

(* process_bar on arrays with a gap: the caller gets an AttributeError, the *)
(* detector, the mapper and the scanner keep what they have taken in.       *)
ProcessBarRaises ==
    /\ pos < Len(day)
    /\ ~guardrail
    /\ LET w == Newest
           d == Detected
           g == DetectIFVG(ScanFVG(w), w[1])
       IN  /\ g.raised
           /\ TakeBar(d, StructureMapOf(smap, d, d.st, w[1].c))
           /\ gaps' = [fvgs |-> g.fvgs, ifvgs |-> g.ifvgs]
    /\ result' = [kind |-> "raised"]

(* _compute_htf_only: pivots and the structure of the higher terms; every   *)
(* vector is zero.                                                          *)
ProcessBarGuarded ==
    /\ pos < Len(day)
    /\ guardrail
    /\ LET d == Detected
           higher == Picked(d.st, OfTerms(d, {"IT", "LT"}))
       IN  TakeBar(d, StructureMapOf(smap, d, higher, Newest[1].c))
    /\ result' = [kind |-> "htf", zones |-> {}]
    /\ UNCHANGED gaps

Next == OnNewsAlert \/ ProcessBar \/ ProcessBarRaises \/ ProcessBarGuarded

Spec == Init /\ [][Next]_vars

-----------------------------------------------------------------------------
(* The first n bars of a day after pivot p's that traded beyond it.         *)
Sweeps(d, p, n, bars) ==
    {m \in (p[1] + 1)..n :
        Beyond(p[2], Extreme(p[2], bars[m]), d.piv[p].price)}

(* A pivot in the buffer is claimed exactly when some bar since has traded  *)
(* beyond it, with the time of the first such bar, whatever the bars in     *)
(* between were processed under (guardrail, a bar that raised).             *)
(* Code: SwingPointDetector.check_claimed and its callers.                  *)
ClaimedIffSwept ==
    \A p \in ToSet(st) :
        LET sweeps == Sweeps(Detector, p, pos, day)
        IN  /\ piv[p].claimed <=> sweeps # {}
            /\ piv[p].claimed =>
                 /\ piv[p].last \in sweeps
                 /\ \A m \in sweeps : piv[p].last <= m

(* A pivot that a reported shift or break of structure names is one the     *)
(* detector has marked as claimed by then.                                  *)
(* Code: process_bar detects before it maps the structure.                  *)
BrokenIsClaimed ==
    \A side \in Sides :
        /\ \A p \in smap.mss[side] : piv[p].claimed
        /\ \A b \in smap.bos[side] : piv[b.pivot].claimed

(* What is marked, and what is reported, agrees with the bars.              *)
PivotsClaimed == ClaimedIffSwept /\ BrokenIsClaimed

(* The liquidity the features point at lies where it still can be taken: the*)
(* nearest unclaimed buy side of a tier is not below the price, the nearest *)
(* unclaimed sell side not above it, as long as no pivot of the tier has    *)
(* been evicted from the buffer (an evicted one is never claimed again).    *)
(* Code: BSLSSLRegistry.get_f_liq_vector against check_claimed.             *)
LiquidityAhead ==
    result.kind = "full" =>
        \A i \in 0..2 :
            ToSet(Tier(Detector, i)) \subseteq ToSet(st) =>
                /\ result.f_struct[i + 1][1] >= 0
                /\ result.f_struct[i + 4][1] >= 0

(* check_claimed marks the pivots that the price has swept                  *)
(* (smc_detector.py:33): what is taken for unclaimed still lies ahead, in   *)
(* tiers with an evicted pivot too.                                         *)
LiquidityNotTaken ==
    result.kind = "full" =>
        \A i \in 0..2 :
            /\ result.f_struct[i + 1][1] >= 0
            /\ result.f_struct[i + 4][1] >= 0

(* Pivots of one side that have reached a term, the evicted ones included.  *)
Reached(d, side, term) ==
    {p \in DOMAIN d.piv : p[2] = side /\ (term = "ST" \/ d.piv[p].term # "ST")}

(* The list of short-term pivots of a side has no hole: whatever is newer   *)
(* than one it holds is in it as well.  An eviction leaves a hole when the  *)
(* oldest pivot gave way to one of the other side, which keeps it in the    *)
(* list, and later ones to some of its own side.                            *)
Unbroken(d, side) ==
    \A p \in ToSet(d.level[side]["ST"]) : \A q \in Reached(d, side, "ST") :
        q[1] > p[1] => q \in ToSet(d.level[side]["ST"])

(* The pivot sticks out of both neighbours among those of its side that have*)
(* reached the term; on the older side, equal short-term ones are skipped.  *)
SticksOut(d, side, term, p) ==
    LET those == Reached(d, side, term)
        lower(q) == Beyond(side, d.piv[p].price, d.piv[q].price)
    IN  /\ p \in those
        /\ \E q \in those : /\ q[1] > p[1] /\ lower(q)
                            /\ ~ \E r \in those : p[1] < r[1] /\ r[1] < q[1]
        /\ \E q \in those : /\ q[1] < p[1] /\ lower(q)
                            /\ \A r \in those : q[1] < r[1] /\ r[1] < p[1] =>
                                 term = "ST" /\ d.piv[r].price = d.piv[p].price

(* Every promoted pivot sticks out of its neighbours of the term below,     *)
(* counting the pivots already evicted: an intermediate one while the list  *)
(* it was taken from has no hole, a long-term one always.                   *)
(* Code: SwingPointDetector.find_it and find_lt.                            *)
PromotedIsExtreme ==
    \A side \in Sides :
        /\ Unbroken(Detector, side) =>
             \A p \in ToSet(level[side]["IT"]) : SticksOut(Detector, side, "ST", p)
        /\ \A p \in ToSet(level[side]["LT"]) : SticksOut(Detector, side, "IT", p)

(* The pivots the features are made of.                                      *)
PivotsSound == PivotsClaimed /\ PromotedIsExtreme
=============================================================================
