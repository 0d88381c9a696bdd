------------------------------- MODULE Retrieval -------------------------------
(***************************************************************************)
(* core/memory/long_term: vectordb_adapter.py over ChromaDB or Qdrant, and *)
(* rag_retriever.py over it and a cache in Redis.                          *)
(*                                                                         *)
(* A stored point keeps its label (the macro regime of a debate, the type  *)
(* of a zone), its time in days and how similar it is to the one embedding *)
(* that is ever asked for, in percent: 1 - distance for Chroma, which may  *)
(* be negative, the score for Qdrant.  The stores are external: a query    *)
(* gives the n nearest points that pass its filter, ties in any order, and *)
(* a query with a filter may be refused.                                   *)
(***************************************************************************)
EXTENDS Integers, Sequences, FiniteSets, SequencesExt, FiniteSetsExt

CONSTANTS
  Ids,        \* points: <<symbol, time>>; time 0: none is recorded
  PointLabels, Similarities,
  K,          \* k of every search (RAG_DEFAULT_K)
  Initial, Lowered,  \* RAG_INITIAL_THRESHOLD, RAG_FALLBACK_THRESHOLD
  Today,
  RagKeys,    \* symbols and regimes the retriever is asked for
  MaxPoints   \* bound: points in a collection

ASSUME RetrievalAssumption ==
  /\ Ids \subseteq STRING \X Nat /\ Similarities \subseteq Int
  /\ K \in Nat \ {0} /\ Lowered \in Nat /\ Initial \in Nat /\ Lowered <= Initial
  /\ RagKeys \subseteq STRING \X STRING
  /\ Today \in Nat /\ MaxPoints \in Nat

VARIABLES
  provider, collection,  \* of this behaviour; a collection is independent
                         \* of the other one
  connected,
  stored,      \* the points of the collection
  question,    \* symbol, label and fate of a search that has just been made
  hits,        \* its answer
  cache        \* precedents under each key of the current 300 s

retrievalVars == <<provider, collection, connected, stored, question, hits, cache>>
storeVars == <<provider, collection, connected, stored>>

All == "ALL"            \* no regime or type is asked for
NoEntry == <<<<"no entry", 0>>>>
Symbols == {i[1] : i \in Ids}
NoQuestion == [symbol |-> All, label |-> All, filtered |-> TRUE]

(* VectorDBFactory.create: any other name of a provider means Chroma.      *)
RetrievalInit ==
  /\ provider \in {"chromadb", "qdrant"} /\ collection \in {"debates", "zones"}
  /\ connected = FALSE /\ stored = <<>>
  /\ question = NoQuestion /\ hits = <<>>
  /\ cache = [key \in RagKeys |-> NoEntry]

Forgotten == question' = NoQuestion /\ hits' = <<>>

(* connect: the client and get_or_create of the two collections, which     *)
(* keep what they hold.                                                    *)
Connect ==
  /\ ~connected /\ connected' = TRUE
  /\ Forgotten /\ UNCHANGED <<provider, collection, stored, cache>>

Close ==
  /\ connected /\ connected' = FALSE
  /\ Forgotten /\ UNCHANGED <<provider, collection, stored, cache>>

(* Qdrant's upsert replaces a point that is there, Chroma's add keeps it.  *)
Upserted(i, p) == [j \in DOMAIN stored \cup {i} |-> IF j = i THEN p ELSE stored[j]]
Added(i, p) == IF i \in DOMAIN stored THEN stored ELSE Upserted(i, p)

(* insert_debate and insert_zone_embedding, a RuntimeError when closed.    *)
Insert(i, p) ==
  /\ connected
  /\ i \in DOMAIN stored \/ Cardinality(DOMAIN stored) < MaxPoints
  /\ stored' = IF provider = "chromadb" THEN Added(i, p) ELSE Upserted(i, p)
  /\ Forgotten /\ UNCHANGED <<provider, collection, connected, cache>>

Sim(i) == stored[i].sim

(* _calc_days_since, 999 without a time, and never negative.               *)
DaysSince(i) == IF i[2] = 0 THEN 999 ELSE IF i[2] > Today THEN 0 ELSE Today - i[2]

(* _rerank, 0.7 * cosine + 0.3 / (1 + days), in thousandths.               *)
Reranked(i) == 7 * Sim(i) + 300 \div (1 + DaysSince(i))

Matching(sym, label) ==
  {i \in DOMAIN stored : i[1] = sym /\ label \in {All, stored[i].label}}

(* What the store answers: n nearest of S, of which Qdrant leaves out      *)
(* those below score_threshold.                                            *)
NearestPoints(S, n) ==
  LET V == {i \in S : provider = "qdrant" => Sim(i) >= 0} IN
  {T \in kSubset(IF Cardinality(V) < n THEN Cardinality(V) ELSE n, V) :
      \A i \in T, j \in V \ T : Sim(i) >= Sim(j)}

(* What a search works on, with the filter and in its except branch: of     *)
(* Chroma's answer without the filter the debates of another symbol or      *)
(* regime are dropped, the zones are not ...                                *)
ChromaZones(sym, label, filtered) ==
  NearestPoints(IF filtered THEN Matching(sym, label) ELSE DOMAIN stored, K)

ChromaDebates(sym, label, filtered) ==
  IF filtered THEN NearestPoints(Matching(sym, label), K)
  ELSE {T \cap Matching(sym, label) : T \in NearestPoints(DOMAIN stored, K)}

(* ... Qdrant's is three times as large for debates, with none dropped, and *)
(* empty for zones.                                                         *)
QdrantDebates(sym, label, filtered) ==
  IF filtered THEN NearestPoints(Matching(sym, label), K)
  ELSE NearestPoints(DOMAIN stored, 3 * K)

QdrantZones(sym, label, filtered) ==
  IF filtered THEN NearestPoints(Matching(sym, label), K) ELSE {{}}

(* hits.sort, stable over the order of the store, and hits[:k].            *)
Ranked(T) ==
  {SubSeq(s, 1, IF Len(s) < K THEN Len(s) ELSE K) : s \in
     {r \in SetToSeqs(T) : \A m, n \in 1..Len(r) : m < n =>
         \/ Reranked(r[m]) > Reranked(r[n])
         \/ Reranked(r[m]) = Reranked(r[n]) /\ Sim(r[m]) >= Sim(r[n])}}

(* search_similar_debates and search_similar_zones; [] when closed.        *)
Answers(sym, label, filtered) ==
  IF ~connected THEN {<<>>}
  ELSE UNION {Ranked(T) : T \in
         CASE provider = "chromadb" /\ collection = "debates" -> ChromaDebates(sym, label, filtered)
           [] provider = "chromadb" /\ collection = "zones" -> ChromaZones(sym, label, filtered)
           [] provider = "qdrant" /\ collection = "debates" -> QdrantDebates(sym, label, filtered)
           [] OTHER -> QdrantZones(sym, label, filtered)}

(* One search and its answer.                                              *)
Ask(sym, label) ==
  \E filtered \in BOOLEAN :
    /\ hits' \in Answers(sym, label, filtered)
    /\ question' = [symbol |-> sym, label |-> label, filtered |-> filtered]

Search(sym, label) == Ask(sym, label) /\ UNCHANGED <<storeVars, cache>>

(* No DebateRecord has an attribute outcome, so insert_debate stores "",   *)
(* and the record made of a hit has none again.                            *)
Outcome(i) == ""

(* The thresholds and the filters of retrieve_precedents; the order is     *)
(* that of the hits.                                                       *)
ValidPrecedents(answer) ==
  LET Above(t) == SelectSeq(answer, LAMBDA i : Sim(i) >= t)
      valid == IF Len(Above(Initial)) < 3 /\ Len(answer) >= 3 THEN Above(Lowered)
               ELSE Above(Initial) IN
  SelectSeq(valid, LAMBDA i : Outcome(i) # "")

(* `if cached:` of retrieve_precedents, which an empty list does not pass. *)
CacheHit(key) == cache[key] # NoEntry /\ cache[key] # <<>>

(* _store_in_cache; a failing Redis is only logged.                        *)
StoreInCache(key, precedents) ==
  \/ cache' = [cache EXCEPT ![key] = precedents]
  \/ UNCHANGED cache

(* retrieve_precedents: from the cache, or by a search whose precedents    *)
(* are cached.  (That Redis may not answer matters not: no entry is a hit.) *)
(* The orchestrator gives an empty embedding, which the store refuses with *)
(* the filter and without: the exception leaves.                           *)
Retrieve(key, embedding) ==
  /\ collection = "debates" /\ key \in RagKeys
  /\ IF CacheHit(key) \/ (connected /\ embedding = "empty")
     THEN Forgotten /\ UNCHANGED cache
     ELSE Ask(key[1], key[2]) /\ StoreInCache(key, ValidPrecedents(hits'))
  /\ UNCHANGED storeVars

(* invalidate_cache: the keys rag:{symbol}:* .                             *)
InvalidateCache(sym) ==
  /\ cache' = [key \in RagKeys |-> IF key[1] = sym THEN NoEntry ELSE cache[key]]
  /\ Forgotten
  /\ UNCHANGED storeVars

(* _build_cache_key: after 300 s, RAG_CACHE_BUCKET_SECONDS, every key is   *)
(* another one.                                                            *)
NextBucket ==
  /\ cache' = [key \in RagKeys |-> NoEntry]
  /\ Forgotten
  /\ UNCHANGED storeVars

RetrievalNext ==
  \/ Connect \/ Close
  \/ \E i \in Ids, p \in [label : PointLabels, sim : Similarities] : Insert(i, p)
  \/ \E sym \in Symbols, label \in PointLabels \cup {All} : Search(sym, label)
  \/ \E key \in RagKeys, e \in {"vector", "empty"} : Retrieve(key, e)
  \/ \E sym \in Symbols : InvalidateCache(sym)
  \/ NextBucket

RetrievalSpec == RetrievalInit /\ [][RetrievalNext]_retrievalVars

-----------------------------------------------------------------------------
(* A debate that Chroma's adapter gives belongs to the symbol and regime   *)
(* asked for, and fewer than K such debates are nearer to the embedding,   *)
(* also when the filtered query is refused and other symbols crowd the     *)
(* answer.  (Qdrant's fallback, and Chroma's for zones, look at nothing.)  *)
HitsAreNearest ==
  LET M == Matching(question.symbol, question.label) IN
  provider = "chromadb" /\ collection = "debates" =>
    \A n \in 1..Len(hits) :
      /\ hits[n] \in M
      /\ Cardinality({j \in M : Sim(j) > Sim(hits[n])}) < K

(* The top 3 of what is stored are taken (Extensive_documentation.md:1349):*)
(* a search gives K debates of the symbol and regime, or all there are.    *)
HitsAreEnough ==
  LET n == Cardinality(Matching(question.symbol, question.label)) IN
  connected /\ provider = "chromadb" /\ collection = "debates" /\ question # NoQuestion =>
    Len(hits) = IF n < K THEN n ELSE K
=============================================================================
