----------------------------- MODULE TechnicalBrief -----------------------------
(***************************************************************************)
(* core/ai_engine/multi_agent/technical_brief.py: the brief that the       *)
(* agents of a debate read.                                                *)
(*                                                                         *)
(* A section is known by its number of lines, all of them Width characters *)
(* long; what stands in them is left out.  The features are those of one   *)
(* prediction, NoFeatures when there is none; of the lists in them only    *)
(* the lengths count.                                                      *)
(***************************************************************************)
EXTENDS Integers, Sequences, FiniteSetsExt

CONSTANTS
  Features,   \* the features that may come, NoFeatures apart
  Macros,     \* the macro contexts: [upcoming, surprise]
  PrecedentCounts, \* numbers of precedents
  Widths,     \* characters in a line
  Limits      \* max_safe_chars (27200)

ASSUME BriefAssumption ==
  /\ Features \subseteq [eq : BOOLEAN, price : BOOLEAN, map : BOOLEAN,
                         bsl : Nat, ssl : Nat, zones : BOOLEAN, bull : Nat, bear : Nat,
                         modelA : BOOLEAN, modelB : Nat \cup {-1}, conf : BOOLEAN]
  /\ Macros \subseteq [upcoming : Nat, surprise : BOOLEAN]
  /\ PrecedentCounts \subseteq Nat /\ Widths \subseteq Nat \ {0} /\ Limits \subseteq Nat

VARIABLES
  given,  \* what build() is given, with the width and the limit
  brief   \* what it has returned: the sections whole, the characters of a
          \* section cut short, the length of the text, truncated

briefVars == <<given, brief>>

NoFeatures == [eq |-> FALSE, price |-> FALSE, map |-> FALSE, bsl |-> 0, ssl |-> 0, zones |-> FALSE,
               bull |-> 0, bear |-> 0, modelA |-> FALSE, modelB |-> -2, conf |-> FALSE]
NoMacro == [upcoming |-> -1, surprise |-> FALSE]
NoBrief == [whole |-> 0, part |-> 0, length |-> -1, truncated |-> FALSE]

Least(m, n) == IF m < n THEN m ELSE n
When(c, n) == IF c THEN n ELSE 0

(* A heading and a list of at most n, when there is anything to list.      *)
Listing(count, n) == When(count > 0, 1 + Least(count, n))

(* _build_htf_structure: heading, timeframe, then the equilibrium, the     *)
(* price against it and the structure map.                                 *)
HTFStructure(f) ==
  IF f = NoFeatures THEN 3
  ELSE 3 + When(f.price /\ f.eq, 2) + When(f.map, 2)

(* _build_liquidity_targets: the nearest of each side need a price.        *)
LiquidityTargets(f) ==
  IF f = NoFeatures THEN 2
  ELSE 3 + When(f.price /\ f.bsl > 0, 1) + When(f.price /\ f.ssl > 0, 1)

(* _build_active_zones: of the zones that are not mitigated, three of each *)
(* side.                                                                   *)
ActiveZones(f) ==
  IF f = NoFeatures THEN 2 ELSE IF ~f.zones THEN 2
  ELSE 4 + Listing(f.bull, 3) + Listing(f.bear, 3)

(* _build_model_outputs: the zones of model B have a line also when there  *)
(* are none, but not (-1) when they are not given.                         *)
ModelOutputs(f) ==
  IF f = NoFeatures THEN 2
  ELSE 2 + When(f.modelA, 2) + When(f.modelB >= 0, 1 + Least(f.modelB, 3)) + When(f.conf, 1)

(* _build_macro_context: five upcoming events.                             *)
MacroContext(m) ==
  IF m = NoMacro THEN 2 ELSE 3 + Listing(m.upcoming, 5) + When(m.surprise, 1)

(* _build_precedents: five of them; one that cannot be written has a line  *)
(* that says so.                                                           *)
PrecedentLines(n) == IF n = 0 THEN 2 ELSE 2 + Least(n, 5)

(* The sections of build(), the least important last, in characters.       *)
BriefSections(a) ==
  LET lines == <<HTFStructure(a.features), LiquidityTargets(a.features),
                 ActiveZones(a.features), ModelOutputs(a.features),
                 MacroContext(a.macro), PrecedentLines(a.precedents)>>
  IN  [i \in 1..Len(lines) |-> lines[i] * a.width + lines[i] - 1]

Separator == 44   \* two newlines, forty dashes, two newlines
Mark == 16        \* newline and "... [TRUNCATED]"

(* The first n sections of s, joined.                                      *)
JoinedLength(s, n) ==
  LET sum[k \in 0..Len(s)] == IF k = 0 THEN 0 ELSE sum[k - 1] + s[k]
  IN  sum[n] + Separator * (n - 1)

(* Mutant: no room is kept for the mark.                                   *)
CutToLimit(s, limit) ==
  IF limit > 100
  THEN [whole |-> 0, part |-> Least(limit, s[1]), length |-> Least(limit, s[1]) + Mark, truncated |-> TRUE]
  ELSE [whole |-> 0, part |-> 0, length |-> 0, truncated |-> TRUE]

(* The end of _assemble, for a first section longer than the limit: the    *)
(* loop over sections_copy, which holds only that one, leaves 50 free.     *)
CutFirst(s, limit) ==
  LET remaining == limit - 50 IN
  IF remaining > 100
  THEN [whole |-> 0, part |-> Least(remaining, s[1]), length |-> Least(remaining, s[1]) + Mark, truncated |-> TRUE]
  ELSE [whole |-> 0, part |-> 0, length |-> 0, truncated |-> TRUE]

(* _assemble: sections are dropped from the last until the rest fits.      *)
Assemble(s, limit) ==
  LET fitting == {n \in 1..Len(s) : JoinedLength(s, n) <= limit} IN
  IF fitting = {} THEN CutFirst(s, limit)
  ELSE LET n == Max(fitting) IN
       [whole |-> n, part |-> 0, length |-> JoinedLength(s, n), truncated |-> n < Len(s)]

BriefInit ==
  /\ given \in [features : Features \cup {NoFeatures}, macro : Macros \cup {NoMacro},
                precedents : PrecedentCounts, width : Widths, limit : Limits]
  /\ brief = NoBrief

BuildBrief ==
  /\ brief = NoBrief
  /\ brief' = Assemble(BriefSections(given), given.limit)
  /\ UNCHANGED given

BriefNext == BuildBrief

BriefSpec == BriefInit /\ [][BriefNext]_briefVars

-----------------------------------------------------------------------------
(* The brief never passes the limit, whatever lists it is made of, and a   *)
(* section is missing only if the text with it would not fit; only a limit *)
(* of 150 characters or less can leave it empty.                           *)
BriefFits ==
  brief # NoBrief =>
    LET s == BriefSections(given) IN
    /\ brief.length <= given.limit
    /\ brief.whole < Len(s) => JoinedLength(s, brief.whole + 1) > given.limit
    /\ brief.truncated <=> brief.whole < Len(s)
    /\ brief.length = 0 => given.limit <= 150
=============================================================================
