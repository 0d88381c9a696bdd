------------------------------ MODULE MCAnalysis ------------------------------
(* The feature pipeline over whole days of bars, the inference engines on   *)
(* the vectors that follow from them, and the precedents of a debate: one   *)
(* of the three per behaviour, as none reads the state of another.          *)
EXTENDS StructurePipeline, Inference, Retrieval

VARIABLE part    \* the component that runs in this behaviour

allVars == <<vars, inferenceVars, retrievalVars, part>>

(* The days explored: every short day over a handful of bars, gaps and      *)
(* equal highs among them; long zigzag days whose swing highs and lows      *)
(* vary, long enough for intermediate and long-term pivots and for the      *)
(* buffer to evict them unclaimed; and a slide with two gaps.               *)
Bar(o, h, l, c) == [o |-> o, h |-> h, l |-> l, c |-> c]

MCBars == {Bar(2, 3, 1, 3), Bar(3, 4, 2, 2), Bar(2, 4, 2, 4), Bar(5, 6, 5, 6),
           Bar(3, 3, 1, 1)}
ShortDays == [1..5 -> MCBars]

(* Swing highs h[1], h[2], ... with swing lows mirrored from them.          *)
Zigzag(h) ==
    [n \in 1..(2 * Len(h)) |->
        LET k == (n + 1) \div 2
        IN  IF n % 2 = 1 THEN Bar(4, h[k], 4, h[k])
                         ELSE Bar(5, 5, 9 - h[k], 9 - h[k])]

Flat(f, at) == \A k \in at : f[k] = 6
LongDays == {Zigzag(h) : h \in {f \in [1..9 -> 6..8] :
                Flat(f, {1, 2, 3, 5, 7}) \/ Flat(f, {1, 2, 4, 6, 8})}}

(* A slide with two gaps, the later one inverted by the widening.           *)
Slide == <<Bar(9, 10, 8, 8), Bar(8, 9, 7, 7), Bar(7, 7, 5, 5), Bar(4, 6, 3, 3)>>

MCDays == ShortDays \cup LongDays \cup {Slide}

P(b, s, l) == [b |-> b, s |-> s, l |-> l]
(* Around the limits 0.5, 0.65 and 0.85, with ties.                         *)
MCRawA == {P(9000, 500, 500), P(7000, 1000, 2000), P(5000, 4000, 1000),
           P(500, 8500, 1000), P(1000, 6500, 2500), P(3500, 3500, 3000),
           P(4000, 2000, 4000), P(0, 0, 10000)}
MCMarkets == {[momentum |-> m, volatility |-> v] : m \in {-1, 0, 1}, v \in {0, 1}}
S(p, y) == [p |-> p, y |-> y]
(* Up to 30, 3 of 6 are found with 3 wrong, and above 40 2 with none wrong: *)
(* the same F1, and the higher threshold is taken.                          *)
Equals == <<S(30, 1), S(30, 0), S(40, 0), S(40, 0), S(60, 1), S(60, 1)>>
          \o <<S(1, 1), S(1, 1), S(1, 1)>>
MCSamples == {<<S(20, 0), S(40, y), S(60, z), S(80, w)>> : y, z, w \in 0..1}
    \cup {<<S(20, 1), S(40, 0), S(60, 0), S(80, 1), S(80, 1), S(80, 1)>>}
    \cup {Equals}
MCBlocks == <<"z", "flow", "macro">>
MCDim == [z |-> 1, flow |-> 2, macro |-> 3]
MCGiven == {<<>>, <<1>>, <<1, 2>>, <<1, Bad, 3>>, <<1, 2, 3, 4>>}

(* Two symbols, of one of them more points than K; a point of the future    *)
(* and one without a time; below both thresholds, between them, above.      *)
MCIds == {<<"gold", 0>>, <<"gold", 1>>, <<"gold", 3>>, <<"euro", 2>>}
MCSimilarities == {-5, 85}
MCRagKeys == {<<"gold", "NORMAL">>}

MCInit ==
    /\ Init /\ InferenceInit /\ RetrievalInit
    /\ part \in {"pipeline", "inference", "retrieval"}
    /\ part # "pipeline" => day = Slide
    /\ part # "retrieval" => provider = "chromadb" /\ collection = "debates"

MCNext ==
    /\ UNCHANGED part
    /\ \/ /\ part = "pipeline" /\ Next
          /\ UNCHANGED <<inferenceVars, retrievalVars>>
       \/ /\ part = "inference" /\ InferenceNext
          /\ UNCHANGED <<vars, retrievalVars>>
       \/ /\ part = "retrieval" /\ RetrievalNext
          /\ UNCHANGED <<vars, inferenceVars>>

MCSpec == MCInit /\ [][MCNext]_allVars
=============================================================================
