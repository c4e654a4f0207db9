------------------------------- MODULE Recall -------------------------------
(***************************************************************************)
(* Searching the memory (HybridSearcher, RecallTracker) while the index    *)
(* changes: chunks come and go and their vectors are stored later, between *)
(* any two awaits of a search.  A step is one access to the database, the  *)
(* call of the embedding provider, or one choice of the re-ranking.        *)
(*                                                                         *)
(* A text is the set of its words.  Scores are scaled to integers.         *)
(***************************************************************************)
EXTENDS Integers, Sequences, FiniteSets, Functions, FiniteSetsExt, SequencesExt

CONSTANTS
    Searchers,   \* calls of search
    QueryText,   \* the words each asks for
    Memo,        \* the texts of chunks
    Aged,        \* those in daily notes of one half-life ago
    Near,        \* searcher |-> text |-> cosine, in percent
    Limit,       \* results of a search
    NoText,
    MaxChunks,   \* bound: chunks ever inserted
    MaxSearches  \* bound: searches begun

ASSUME NearAssumption == Near \in [Searchers -> [Memo -> -100..100]]
ASSUME LimitAssumption == Limit \in Nat \ {0}
ASSUME BoundsAssumption == MaxChunks \in Nat
ASSUME MemoAssumption ==
    NoText \notin Memo /\ Aged \subseteq Memo /\ \A text \in Memo : IsFiniteSet(text)

Scale == 100000
DisabledAfter == 3  \* _CONSECUTIVE_FAILURE_LIMIT

VARIABLES
    chunk,     \* mem_chunks: [id, text]
    vector,    \* mem_chunks_vec: [id, of]
    recall,    \* mem_recalls: [id, text]; text: what the result said
    last,      \* sqlite_sequence of mem_chunks
    failures,  \* _consecutive_failures
    disabled,
    search,    \* the call each searcher is in
    begun      \* number of searches

recallVars == <<chunk, vector, recall, last, failures, disabled, search, begun>>
index == <<chunk, vector, recall, last>>
provider == <<failures, disabled>>

ChunkRow == [id : 1..MaxChunks, text : Memo]

(* fts: the ids found by words, in order; of: the text whose vector was    *)
(* compared, for the ids found by vector; rows: chunk_data; gone: the ids  *)
(* get_chunk did not find; found: the candidates; results; pc: the next    *)
(* await.                                                                  *)
Blank == [pc |-> "idle", fts |-> <<>>, of |-> <<>>, rows |-> {}, gone |-> {}, found |-> {},
          results |-> <<>>, noted |-> 0]

RecallTypeOK ==
    /\ chunk \subseteq ChunkRow
    /\ vector \subseteq [id : 1..MaxChunks, of : Memo]
    /\ recall \subseteq [id : 1..MaxChunks, text : Memo]
    /\ last \in 0..MaxChunks
    /\ failures \in Nat
    /\ disabled \in BOOLEAN
    /\ \A s \in Searchers :
          /\ search[s].pc \in {"idle", "embed", "vectors", "fetch", "rerank", "record", "done", "raised"}
          /\ Len(search[s].results) <= Limit
          /\ search[s].rows \subseteq ChunkRow

(* Indexing, which uses the same provider, may have met failures before.   *)
RecallStart ==
    /\ chunk = {} /\ vector = {} /\ recall = {} /\ last = 0
    /\ failures \in 0..(DisabledAfter - 1) /\ disabled = FALSE
    /\ search = [s \in Searchers |-> Blank]
    /\ begun = 0

-----------------------------------------------------------------------------
(* The index *)

Ids(rows) == {r.id : r \in rows}

(* Mutant of FreshId: without AUTOINCREMENT, SQLite gives the id of a      *)
(* deleted last row again.                                                 *)
HighestId == Max({0} \cup Ids(chunk)) + 1

FreshId == last + 1

AddChunk(text) ==
    /\ last < MaxChunks
    /\ chunk' = chunk \cup {[id |-> FreshId, text |-> text]}
    /\ last' = last + 1
    /\ UNCHANGED <<vector, recall, provider, search, begun>>

AddVector(c) ==
    /\ c.id \notin Ids(vector)
    /\ vector' = vector \cup {[id |-> c.id, of |-> c.text]}
    /\ UNCHANGED <<chunk, recall, last, provider, search, begun>>

(* Vectors and recalls go with their chunk.                                *)
DropChunk(c) ==
    /\ chunk' = chunk \ {c}
    /\ vector' = {v \in vector : v.id # c.id}
    /\ recall' = {r \in recall : r.id # c.id}
    /\ UNCHANGED <<last, provider, search, begun>>

-----------------------------------------------------------------------------
(* A search *)

(* fts_search: the chunks that have all the words, or if there is none,    *)
(* those that have any; the order bm25 gives them is not modelled.         *)
WordHits(s) ==
    LET all == {c \in chunk : QueryText[s] \subseteq c.text}
        any == {c \in chunk : QueryText[s] \cap c.text # {}}
    IN IF all # {} THEN all ELSE any

(* embed answers nothing once the provider is disabled.                    *)
Embedding == IF disabled THEN "fetch" ELSE "embed"

FtsSearch(s) ==
    LET hits == WordHits(s)
        k == Min({3 * Limit, Cardinality(hits)})
    IN /\ search[s].pc \in {"idle", "done", "raised"}
       /\ begun < MaxSearches
       /\ begun' = begun + 1
       /\ \E top \in kSubset(k, hits) : \E line \in SetToSeqs(top) :
            search' = [search EXCEPT ![s] =
                [Blank EXCEPT !.pc = Embedding, !.fts = [i \in 1..k |-> line[i].id], !.rows = top]]
       /\ UNCHANGED <<index, provider>>

(* The provider's answer to the query; after three failures in a row it is *)
(* disabled, while other calls may still be on their way.                  *)
EmbedQuery(s) ==
    /\ search[s].pc = "embed"
    /\ \/ /\ failures' = 0
          /\ search' = [search EXCEPT ![s].pc = "vectors"]
          /\ UNCHANGED disabled
       \/ /\ failures' = failures + 1
          /\ disabled' = (disabled \/ failures + 1 >= DisabledAfter)
          /\ search' = [search EXCEPT ![s].pc = "fetch"]
    /\ UNCHANGED <<index, begun>>

(* _batch_vector_search: the closest of all vectors; it fails over vectors *)
(* of two lengths, which a change of the embedding model leaves.           *)
VectorSearch(s) ==
    LET k == Min({3 * Limit, Cardinality(vector)})
        Cos(v) == Near[s][v.of]
    IN /\ search[s].pc = "vectors"
       /\ \/ \E top \in kSubset(k, vector) :
               /\ \A v \in top, w \in vector \ top : Cos(v) >= Cos(w)
               /\ search' = [search EXCEPT ![s].pc = "fetch",
                      ![s].of = [i \in Ids(top) |-> (CHOOSE v \in top : v.id = i).of]]
          \/ search' = [search EXCEPT ![s].pc = "fetch"]
       /\ UNCHANGED <<index, provider, begun>>

(* get_chunk for an id that only the vectors gave; it may be gone, and     *)
(* still counts among the scores.                                          *)
Unfetched(s) == DOMAIN search[s].of \ (Ids(search[s].rows) \cup search[s].gone)

Fetch(s, i) ==
    /\ search[s].pc = "fetch"
    /\ i \in Unfetched(s)
    /\ search' = [search EXCEPT
           ![s].rows = @ \cup {c \in chunk : c.id = i},
           ![s].gone = @ \cup ({i} \ Ids(chunk))]
    /\ UNCHANGED <<index, provider, begun>>

(* The scores of one row: by rank and by vector, weighted 3 to 7 if any    *)
(* vector was found, and halved if it is old (_apply_temporal_decay).      *)
RankScore(s, i) ==
    LET ranks == {r \in DOMAIN search[s].fts : search[s].fts[r] = i}
    IN IF ranks = {} THEN 0 ELSE Scale \div (60 + Max(ranks))

VectorScore(s, i) ==
    LET of == search[s].of
        top == Max({1} \cup {Near[s][of[j]] : j \in DOMAIN of})
    IN IF i \in DOMAIN of THEN Max({0, Scale * Near[s][of[i]]}) \div top ELSE 0

Fused(s, c) ==
    LET fts == RankScore(s, c.id)
        fused == IF search[s].of # <<>>
                 THEN (7 * VectorScore(s, c.id) + 3 * fts) \div 10 ELSE fts
    IN IF c.text \in Aged THEN fused \div 2 ELSE fused

Candidates(s) ==
    {[id |-> c.id, text |-> c.text, score |-> Fused(s, c),
      of |-> IF c.id \in DOMAIN search[s].of THEN search[s].of[c.id] ELSE NoText] :
        c \in search[s].rows}

Gather(s) ==
    /\ search[s].pc = "fetch"
    /\ Unfetched(s) = {}
    /\ search' = [search EXCEPT ![s].pc = "rerank", ![s].found = Candidates(s)]
    /\ UNCHANGED <<index, provider, begun>>

(* The likeness of a candidate to what is selected: the greatest share of  *)
(* common words.                                                           *)
Likeness(c, selected) ==
    Max({0} \cup {(Scale * Cardinality(c.text \cap r.text)) \div Cardinality(c.text \cup r.text) :
                    r \in {q \in Range(selected) : c.text \cup q.text # {}}})

(* Mutant of Marginal: likeness is a merit.                                *)
Alike(c, selected) == 7 * c.score + 3 * Likeness(c, selected)

(* The maximal marginal relevance, for mmr_lambda 0.7.                     *)
Marginal(c, selected) == 7 * c.score - 3 * Likeness(c, selected)

Open(s) == search[s].found \ Range(search[s].results)

(* _mmr_rerank: the next result.                                           *)
Select(s) ==
    LET results == search[s].results IN
    /\ search[s].pc = "rerank"
    /\ Open(s) # {}
    /\ Len(results) < Limit
    /\ \E c \in Open(s) :
         /\ \A d \in Open(s) : Marginal(c, results) >= Marginal(d, results)
         /\ search' = [search EXCEPT ![s].results = Append(@, c)]
    /\ UNCHANGED <<index, provider, begun>>

Selected(s) ==
    /\ search[s].pc = "rerank"
    /\ Open(s) = {} \/ Len(search[s].results) = Limit
    /\ search' = [search EXCEPT ![s].pc = IF search[s].results = <<>> THEN "done" ELSE "record"]
    /\ UNCHANGED <<index, provider, begun>>

(* RecallTracker.record: the next result; the insert fails when the chunk  *)
(* is gone, and the exception leaves search.                               *)
Record(s) ==
    LET r == search[s].results[search[s].noted + 1] IN
    /\ search[s].pc = "record"
    /\ IF r.id \in Ids(chunk)
       THEN /\ recall' = recall \cup {[id |-> r.id, text |-> r.text]}
            /\ search' = [search EXCEPT ![s].noted = @ + 1,
                   ![s].pc = IF search[s].noted + 1 = Len(search[s].results)
                             THEN "done" ELSE "record"]
       ELSE search' = [search EXCEPT ![s].pc = "raised"] /\ UNCHANGED recall
    /\ UNCHANGED <<chunk, vector, last, provider, begun>>

RecallNext ==
    \/ \E text \in Memo : AddChunk(text)
    \/ \E c \in chunk : AddVector(c) \/ DropChunk(c)
    \/ \E s \in Searchers :
          \/ FtsSearch(s) \/ EmbedQuery(s) \/ VectorSearch(s)
          \/ \E i \in Unfetched(s) : Fetch(s, i)
          \/ Gather(s) \/ Select(s) \/ Selected(s) \/ Record(s)

RecallSpec == RecallStart /\ [][RecallNext]_recallVars

-----------------------------------------------------------------------------
(* Properties *)

(* A search joins three reads by chunk id alone, and its recalls are       *)
(* written by id after it, with the index changing in between.  Still, the *)
(* vector that scored a result is that of its text, no chunk comes twice,  *)
(* and a recall counts for the text that was shown.                        *)
IdsMeanOneText ==
    /\ \A s \in Searchers :
         /\ \A c \in search[s].found : c.of \in {NoText, c.text}
         /\ IsInjective(search[s].results)
         /\ \A i, j \in DOMAIN search[s].results :
              search[s].results[i].id = search[s].results[j].id => i = j
    /\ \A r \in recall : \E c \in chunk : c.id = r.id /\ c.text = r.text

(* The re-ranking drops a better candidate for a worse result only if it   *)
(* shares words with a result before that one, and fills the limit.        *)
DroppedForLikeness ==
    \A s \in Searchers :
        LET results == search[s].results IN
        search[s].pc \in {"record", "done"} =>
            /\ Len(results) = Min({Limit, Cardinality(search[s].found)})
            /\ \A c \in Open(s), i \in DOMAIN results :
                 c.score > results[i].score =>
                     \E j \in 1..(i - 1) : c.text \cap results[j].text # {}

(* What IdsMeanOneText needs besides: an id is given to one text for good, *)
(* so whatever a search q keeps of a chunk, its row or the text behind its *)
(* score, is true of the chunk as long as it is there, and of each other.  *)
Scored(q) == {[id |-> i, text |-> q.of[i]] : i \in DOMAIN q.of}

SearchInv(q) ==
    LET known == q.rows \cup Scored(q) IN
    /\ q.rows \subseteq [id : 1..last, text : Memo]
    /\ DOMAIN q.of \subseteq 1..last
    /\ \A c \in known, d \in known \cup chunk : c.id = d.id => c.text = d.text
    /\ \A f \in q.found : /\ f.of \in {NoText, f.text}
                          /\ \E c \in q.rows : c.id = f.id /\ c.text = f.text
    /\ \A f, g \in q.found : f.id = g.id => f = g
    /\ q.results \in Seq(q.found) /\ IsInjective(q.results)
    /\ q.pc \in {"embed", "vectors", "fetch"} => q.results = <<>>
    /\ q.pc \in {"embed", "vectors", "fetch", "rerank"} => q.noted = 0
    /\ q.pc = "record" => q.noted \in 0..(Len(q.results) - 1)

(* What DroppedForLikeness needs besides: every candidate has a score, a   *)
(* search stops selecting when nothing is open or the limit is reached,    *)
(* and what is open has been passed over for its likeness only.            *)
RankInv(q) ==
    LET open == q.found \ Range(q.results) IN
    /\ q.fts \in Seq(Int)
    /\ \A i \in DOMAIN q.of : q.of[i] \in Memo
    /\ IsFiniteSet(q.rows) /\ IsFiniteSet(q.found)
    /\ \A c \in q.found : c.score \in Int
    /\ Len(q.results) =< Limit
    /\ q.pc \in {"record", "done"} => open = {} \/ Len(q.results) = Limit
    /\ \A c \in open, i \in DOMAIN q.results :
          c.score > q.results[i].score =>
              \E j \in 1..(i - 1) : c.text \cap q.results[j].text # {}

RecallInv ==
    /\ last \in Nat
    /\ chunk \subseteq [id : 1..last, text : Memo] /\ IsFiniteSet(chunk)
    /\ \A c, d \in chunk : c.id = d.id => c = d
    /\ \A v \in vector : \E c \in chunk : c.id = v.id /\ c.text = v.of
    /\ \A r \in recall : \E c \in chunk : c.id = r.id /\ c.text = r.text
    /\ \A s \in Searchers : SearchInv(search[s]) /\ RankInv(search[s])
=============================================================================
