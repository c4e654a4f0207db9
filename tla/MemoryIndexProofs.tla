-------------------------- MODULE MemoryIndexProofs --------------------------
(***************************************************************************)
(* Proofs about MemoryIndex, for any files, texts and calls of tools and   *)
(* any likeness of texts: a stored vector is the embedding of the text of  *)
(* its chunk.  A call of index_file carries the ids of its chunks over     *)
(* several awaits; another call may delete those chunks meanwhile, but as  *)
(* an id is never given twice, what is still found under an id is the      *)
(* chunk that was inserted.  And light sleep, which reads the chunks, has  *)
(* them embedded and compares what it read in two nested loops, leaves no  *)
(* two of them that are near-duplicates, whatever others do meanwhile.     *)
(***************************************************************************)
EXTENDS MemoryIndex, FiniteSetTheorems, WellFoundedInduction, TLAPS

-----------------------------------------------------------------------------
(* The invariant *)

(* The types of all but what light sleep has read and found.               *)
IndexTypes ==
    /\ content \in [Files -> Contents \cup {None}]
    /\ events \in Nat
    /\ files \in [Files -> FileRow \cup {None}]
    /\ chunks \in SUBSET Chunk
    /\ vectors \in SUBSET Embedding
    /\ cache \in SUBSET Cached
    /\ lastId \in [{"file", "chunk"} -> Nat]
    /\ job \in [Tasks -> Job]
    /\ walk \in [Walkers -> SUBSET Files]
    /\ mode \in {"starting", "on", "off"}
    /\ dirty \in SUBSET Files
    /\ sleep \in {"no", "indexing", "embedding", "deleting"}

(* Chunks are finitely many, an id was given to one, and the next to none. *)
IdsInv ==
    /\ IsFiniteSet(chunks)
    /\ \A c, d \in chunks : c.id = d.id => c = d
    /\ \A c \in chunks : c.id =< lastId["chunk"]

CacheInv == \A e \in cache : e.of = e.text

(* What is still found under the ids has the texts at their places.        *)
Holds(ids, texts) ==
    \A k \in 1..Len(ids), c \in chunks : c.id = ids[k] => c.text = texts[k]

JobInv(j) ==
    /\ j.pc # "idle" => j.file \in Files
    /\ \A k \in 1..Len(j.ids) : j.ids[k] =< lastId["chunk"]
    /\ j.pc \in {"lookup", "upsert", "delete"} => j.ids = <<>>
    /\ j.pc = "insert" => Len(j.ids) < Len(j.text) /\ Holds(j.ids, j.text)
    /\ j.pc = "embed" =>
          j.ids # <<>> /\ Len(j.ids) = Len(j.text) /\ Holds(j.ids, j.text)
    /\ j.pc = "store" =>
          j.ids # <<>> /\ Len(j.ids) = Len(j.blobs) /\ Holds(j.ids, j.blobs)

IndexInv ==
    /\ IndexTypes
    /\ IdsInv
    /\ CacheInv
    /\ VectorMatchesText
    /\ \A t \in Tasks : JobInv(job[t])

-----------------------------------------------------------------------------
(* Texts and calls *)

LEMMA ContentsAreSeqs ==
  /\ <<>> \in Contents
  /\ \A text \in Contents : /\ text \in Seq(Texts)
                            /\ Len(text) = 0 => text = <<>>
  <1>1. <<>> \in [1..0 -> Texts] /\ 0 \in 0..MaxLen
    <2>1. 1..0 = {}
      OBVIOUS
    <2>2. DOMAIN <<>> = {} /\ <<>> = [i \in {} |-> None]
      OBVIOUS
    <2>3. QED
      BY <2>1, <2>2, BoundsAssumption
  <1>2. \A n \in 0..MaxLen : [1..n -> Texts] \subseteq Seq(Texts)
    BY BoundsAssumption
  <1>3. \A text \in Seq(Texts) : Len(text) = 0 => text = <<>>
    OBVIOUS
  <1>4. QED
    BY <1>1, <1>2, <1>3 DEF Contents

LEMMA AppendIsContents ==
  ASSUME NEW text \in Contents, Len(text) < MaxLen, NEW x \in Texts
  PROVE  Append(text, x) \in Contents
  <1>1. text \in Seq(Texts)
    BY ContentsAreSeqs
  <1>2. Append(text, x) \in [1..(Len(text) + 1) -> Texts]
    <2>1. PICK longer : longer = Append(text, x)
      OBVIOUS
    <2>2. longer \in Seq(Texts) /\ Len(longer) = Len(text) + 1
      BY <1>1, <2>1
    <2>3. longer \in [1..Len(longer) -> Texts]
      BY <2>2
    <2>4. QED
      BY <2>1, <2>2, <2>3
  <1>3. Len(text) + 1 \in 0..MaxLen
    BY <1>1, BoundsAssumption
  <1>4. QED
    BY <1>2, <1>3 DEF Contents

LEMMA IdleIsFine == Idle \in Job /\ JobInv(Idle) /\ JobInv(Idle)'
  <1>1. Idle \in Job
    BY ContentsAreSeqs DEF Idle, Job
  <1>2. Len(Idle.ids) = 0 /\ Idle.pc = "idle"
    BY DEF Idle
  <1>3. JobInv(Idle)
    BY <1>2 DEF JobInv
  <1>4. JobInv(Idle)'
    BY <1>2 DEF JobInv
  <1>5. QED
    BY <1>1, <1>3, <1>4

LEMMA OpenedIsFine ==
  ASSUME NEW f \in Files, NEW text \in Contents \cup {None}
  PROVE  Opened(f, text) \in Job /\ JobInv(Opened(f, text))'
  <1>1. CASE text = None
    BY <1>1, IdleIsFine DEF Opened
  <1>2. CASE text # None
    <2>1. Opened(f, text) = [Idle EXCEPT !.pc = "lookup", !.file = f, !.text = text]
      BY <1>2 DEF Opened
    <2>2. PICK j : j = Opened(f, text)
      OBVIOUS
    <2>3. j = [pc |-> "lookup", file |-> f, text |-> text, row |-> 0,
               ids |-> <<>>, blobs |-> <<>>]
      BY <2>1, <2>2 DEF Idle
    <2>4. j \in Job
      BY <1>2, <2>3 DEF Job
    <2>5. JobInv(j)'
      BY <2>3 DEF JobInv
    <2>6. QED
      BY <2>2, <2>4, <2>5
  <1>3. QED
    BY <1>1, <1>2

(* Chunks only go, or come under an id that no call has yet.               *)
Fresh ==
    /\ lastId' \in [{"file", "chunk"} -> Nat]
    /\ lastId["chunk"] =< lastId'["chunk"]
    /\ \A c \in chunks' : c \in chunks \/ c.id > lastId["chunk"]

LEMMA CallsKept ==
  ASSUME IndexInv, Fresh, chunks' \in SUBSET Chunk, NEW j \in Job, JobInv(j)
  PROVE  JobInv(j)'
  <1>1. j.ids \in Seq(Nat) /\ lastId["chunk"] \in Nat /\ lastId'["chunk"] \in Nat
    BY DEF IndexInv, IndexTypes, Job, Fresh
  <1>2. \A k \in 1..Len(j.ids) : j.ids[k] \in Nat /\ j.ids[k] =< lastId["chunk"]
    BY <1>1 DEF JobInv
  <1>3. \A k \in 1..Len(j.ids) : j.ids[k] =< lastId'["chunk"]
    BY <1>1, <1>2 DEF Fresh
  <1>4. \A k \in 1..Len(j.ids), c \in chunks' : c.id = j.ids[k] => c \in chunks
    BY <1>1, <1>2 DEF Fresh
  <1>5. \A texts : Holds(j.ids, texts) => Holds(j.ids, texts)'
    BY <1>4 DEF Holds
  <1>6. QED
    BY <1>3, <1>5 DEF JobInv

(* The step of a call that leads to next.                                  *)
LEMMA JobsKept ==
  ASSUME IndexInv, Fresh, chunks' \in SUBSET Chunk,
         NEW t \in Tasks, NEW next \in Job, JobInv(next)',
         job' = [job EXCEPT ![t] = next]
  PROVE  job' \in [Tasks -> Job] /\ \A u \in Tasks : JobInv(job[u])'
  <1>1. job \in [Tasks -> Job] /\ \A u \in Tasks : JobInv(job[u])
    BY DEF IndexInv, IndexTypes
  <1>2. job' \in [Tasks -> Job]
    BY <1>1
  <1>3. ASSUME NEW u \in Tasks PROVE JobInv(job[u])'
    <2>1. PICK j : j = job'[u]
      OBVIOUS
    <2>2. JobInv(j)'
      <3>1. CASE u = t
        BY <1>1, <2>1, <3>1
      <3>2. CASE u # t
        BY <1>1, <2>1, <3>2, CallsKept
      <3>3. QED
        BY <3>1, <3>2
    <2>3. QED
      BY <2>1, <2>2 DEF JobInv, Holds
  <1>4. QED
    BY <1>2, <1>3

LEMMA CallStep ==
  ASSUME IndexInv, Fresh, chunks' \in SUBSET Chunk, NEW t \in Tasks,
         \/ Return(t)
         \/ Fail(t)
         \/ \E next \in Job : Proceed(t, next) /\ JobInv(next)'
  PROVE  /\ job' \in [Tasks -> Job]
         /\ \A u \in Tasks : JobInv(job[u])'
         /\ walk' \in [Walkers -> SUBSET Files]
         /\ mode' \in {"starting", "on", "off"}
         /\ sleep' \in {"no", "indexing", "embedding", "deleting"}
  <1>1. \E next \in Job : job' = [job EXCEPT ![t] = next] /\ JobInv(next)'
    BY IdleIsFine DEF Return, Fail, Proceed
  <1>2. job' \in [Tasks -> Job] /\ \A u \in Tasks : JobInv(job[u])'
    BY <1>1, JobsKept
  <1>3. /\ walk' \in [Walkers -> SUBSET Files]
        /\ mode' \in {"starting", "on", "off"}
        /\ sleep' \in {"no", "indexing", "embedding", "deleting"}
    BY DEF IndexInv, IndexTypes, Return, Fail, Proceed
  <1>4. QED
    BY <1>2, <1>3

LEMMA NothingFresh ==
  ASSUME IndexInv, UNCHANGED <<chunks, lastId>>
  PROVE  Fresh /\ chunks' \in SUBSET Chunk
  BY DEF Fresh, IndexInv, IndexTypes
(* What a call in progress is known to be.                                 *)
LEMMA CallFacts ==
  ASSUME IndexInv, NEW t \in Tasks, job[t].pc # "idle"
  PROVE  /\ job[t] \in Job /\ JobInv(job[t]) /\ job[t].file \in Files
         /\ job[t].text \in Contents /\ job[t].text \in Seq(Texts)
         /\ job[t].ids \in Seq(Nat) /\ job[t].blobs \in Seq(Texts)
         /\ files[job[t].file] \in FileRow \cup {None}
  <1>1. job[t] \in Job /\ JobInv(job[t]) /\ files \in [Files -> FileRow \cup {None}]
    BY DEF IndexInv, IndexTypes
  <1>2. job[t].file \in Files
    BY <1>1 DEF JobInv
  <1>3. /\ job[t].text \in Contents
        /\ job[t].ids \in Seq(Nat) /\ job[t].blobs \in Seq(Texts)
    BY <1>1 DEF Job
  <1>4. QED
    BY <1>1, <1>2, <1>3, ContentsAreSeqs

-----------------------------------------------------------------------------
(* index_file *)

LEMMA LookupKeeps ==
  ASSUME IndexInv, NEW t \in Tasks, Lookup(t)
  PROVE  IndexInv'
  <1>1. UNCHANGED <<disk, tables, dirty, dedup>> /\ job[t].pc = "lookup"
    BY DEF Lookup
  <1>2. PICK next : next = [job[t] EXCEPT !.pc = "upsert"]
    OBVIOUS
  <1>3. /\ next \in Job /\ next.pc = "upsert" /\ next.file = job[t].file
        /\ next.ids = job[t].ids
    BY <1>1, <1>2, CallFacts DEF Job
  <1>4. next.ids = <<>> /\ next.file \in Files
    BY <1>1, <1>3, CallFacts DEF JobInv
  <1>5. JobInv(next)'
    BY <1>3, <1>4 DEF JobInv
  <1>6. Return(t) \/ Proceed(t, next)
    BY <1>2 DEF Lookup
  <1>7. Fresh /\ chunks' \in SUBSET Chunk
    BY <1>1, NothingFresh DEF tables
  <1>8. QED
    BY <1>1, <1>3, <1>5, <1>6, <1>7, CallStep
    DEF IndexInv, IndexTypes, IdsInv, CacheInv, VectorMatchesText, disk, tables

LEMMA UpsertKeeps ==
  ASSUME IndexInv, NEW t \in Tasks, Upsert(t)
  PROVE  IndexInv'
  <1>1. /\ UNCHANGED <<disk, chunks, vectors, cache, dirty, dedup>>
        /\ job[t].pc = "upsert" /\ job[t].ids = <<>> /\ job[t].file \in Files
        /\ job[t] \in Job /\ job[t].text \in Contents
        /\ lastId \in [{"file", "chunk"} -> Nat]
    BY CallFacts DEF Upsert, JobInv, IndexInv, IndexTypes
  <1>2. /\ files' \in [Files -> FileRow \cup {None}]
        /\ lastId' \in [{"file", "chunk"} -> Nat] /\ lastId'["chunk"] = lastId["chunk"]
        /\ \E n \in Nat : Proceed(t, [job[t] EXCEPT !.pc = "delete", !.row = n])
    <2> DEFINE f == job[t].file
               new == lastId["file"] + 1
    <2>1. files \in [Files -> FileRow \cup {None}] /\ new \in Nat
      BY <1>1 DEF IndexInv, IndexTypes
    <2>2. CASE files[f] = None
      <3>1. /\ files' = [files EXCEPT ![f] = [id |-> new, hash |-> job[t].text]]
            /\ lastId' = [lastId EXCEPT !["file"] = new]
            /\ Proceed(t, [job[t] EXCEPT !.pc = "delete", !.row = new])
        BY <2>2 DEF Upsert
      <3>2. [id |-> new, hash |-> job[t].text] \in FileRow
        BY <1>1, <2>1 DEF FileRow
      <3>3. QED
        BY <1>1, <2>1, <3>1, <3>2
    <2>3. CASE files[f] # None
      <3>1. /\ files' = [files EXCEPT ![f].hash = job[t].text]
            /\ \E n \in 0..MaxRow :
                  Proceed(t, [job[t] EXCEPT !.pc = "delete", !.row = n])
            /\ lastId' = lastId
        BY <2>3 DEF Upsert
      <3>2. [files[f] EXCEPT !.hash = job[t].text] \in FileRow
        BY <1>1, <2>1, <2>3 DEF FileRow
      <3>3. 0..MaxRow \subseteq Nat
        OBVIOUS
      <3>4. QED
        BY <1>1, <2>1, <3>1, <3>2, <3>3
    <2>4. QED
      BY <2>2, <2>3
  <1>3. PICK n \in Nat : Proceed(t, [job[t] EXCEPT !.pc = "delete", !.row = n])
    BY <1>2
  <1>4. PICK next : next = [job[t] EXCEPT !.pc = "delete", !.row = n]
    OBVIOUS
  <1>5. /\ next \in Job /\ next.pc = "delete" /\ next.file \in Files
        /\ next.ids = <<>>
    BY <1>1, <1>4 DEF Job
  <1>6. JobInv(next)'
    BY <1>5 DEF JobInv
  <1>7. Fresh /\ chunks' \in SUBSET Chunk
    BY <1>1, <1>2 DEF Fresh, IndexInv, IndexTypes
  <1>8. QED
    BY <1>1, <1>2, <1>3, <1>4, <1>5, <1>6, <1>7, CallStep
    DEF IndexInv, IndexTypes, IdsInv, CacheInv, VectorMatchesText, disk

(* When chunks are deleted their vectors go too, and the rest is as it was.*)
LEMMA DeletionKeeps ==
  ASSUME IndexInv, NEW kept \in SUBSET chunks, KeepChunks(kept), UNCHANGED lastId
  PROVE  /\ Fresh /\ chunks' \in SUBSET Chunk /\ vectors' \in SUBSET Embedding
         /\ IdsInv' /\ VectorMatchesText'
  <1>1. chunks' = kept /\ vectors' = {v \in vectors : \E c \in kept : c.id = v.chunk}
    BY DEF KeepChunks
  <1>2. VectorMatchesText'
    <2> SUFFICES ASSUME NEW v \in vectors'
                 PROVE  \E c \in chunks' : c.id = v.chunk /\ c.text = v.of
      BY DEF VectorMatchesText
    <2>1. PICK c \in kept : c.id = v.chunk
      BY <1>1
    <2>2. PICK d \in chunks : d.id = v.chunk /\ d.text = v.of
      BY <1>1 DEF IndexInv, VectorMatchesText
    <2>3. c = d
      BY <2>1, <2>2 DEF IndexInv, IdsInv
    <2>4. QED
      BY <1>1, <2>1, <2>2, <2>3
  <1>3. Fresh
    BY <1>1 DEF Fresh, IndexInv, IndexTypes
  <1>4. IdsInv'
    <2>1. IsFiniteSet(chunks')
      BY <1>1, FS_Subset DEF IndexInv, IdsInv
    <2>2. QED
      BY <1>1, <2>1 DEF IndexInv, IdsInv
  <1>5. QED
    BY <1>1, <1>2, <1>3, <1>4 DEF IndexInv, IndexTypes

LEMMA DeleteOldKeeps ==
  ASSUME IndexInv, NEW t \in Tasks, DeleteOld(t)
  PROVE  IndexInv'
  <1>1. /\ job[t].pc = "delete" /\ UNCHANGED <<disk, files, cache, lastId, dirty, dedup>>
        /\ KeepChunks({c \in chunks : c.file # job[t].row})
    BY DEF DeleteOld
  <1>2. PICK kept \in SUBSET chunks : kept = {c \in chunks : c.file # job[t].row}
    OBVIOUS
  <1>3. /\ Fresh /\ chunks' \in SUBSET Chunk /\ vectors' \in SUBSET Embedding
        /\ IdsInv' /\ VectorMatchesText'
    BY <1>1, <1>2, DeletionKeeps
  <1>4. PICK next : next = [job[t] EXCEPT !.pc = "insert"]
    OBVIOUS
  <1>5. /\ next \in Job /\ next.pc = "insert" /\ next.file \in Files
        /\ next.ids = <<>> /\ next.text = job[t].text
    BY <1>1, <1>4, CallFacts DEF JobInv, Job
  <1>6. job[t].text # <<>> => JobInv(next)'
    <2>1. Len(<<>>) = 0 /\ Len(job[t].text) \in Nat
          /\ (job[t].text # <<>> => Len(job[t].text) # 0)
      BY <1>1, CallFacts, ContentsAreSeqs
    <2>2. QED
      BY <1>5, <2>1 DEF JobInv, Holds
  <1>7. \/ Return(t)
        \/ Proceed(t, next) /\ JobInv(next)'
    BY <1>4, <1>6 DEF DeleteOld
  <1>8. QED
    BY <1>1, <1>3, <1>5, <1>7, CallStep DEF IndexInv, IndexTypes, CacheInv, disk
LEMMA InsertChunkKeeps ==
  ASSUME IndexInv, NEW t \in Tasks, InsertChunk(t)
  PROVE  IndexInv'
  <1>1. /\ UNCHANGED <<disk, files, vectors, cache, dirty, dedup>>
        /\ job[t].pc = "insert"
    BY DEF InsertChunk
  <1>2. PICK old \in Job : old = job[t]
    BY <1>1, CallFacts
  <1>3. PICK ids \in Seq(Nat), text \in Seq(Texts) : ids = old.ids /\ text = old.text
    BY <1>1, <1>2, CallFacts
  <1>4. PICK last \in Nat : last = lastId["chunk"]
    BY DEF IndexInv, IndexTypes
  <1>5. PICK i \in Nat, id \in Nat : i = Len(ids) + 1 /\ id = last + 1
    OBVIOUS
  <1>6. /\ old.file \in Files /\ old.row \in Nat
        /\ Len(ids) < Len(text)
        /\ Holds(ids, text)
        /\ \A k \in 1..Len(ids) : ids[k] =< last
    BY <1>1, <1>2, <1>3, <1>4, CallFacts DEF JobInv, Job
  <1>7. i \in 1..Len(text) /\ text[i] \in Texts /\ lastId \in [{"file", "chunk"} -> Nat]
    BY <1>5, <1>6 DEF IndexInv, IndexTypes
  <1>8. CASE Fail(t) /\ UNCHANGED <<chunks, lastId>>
    <2>1. Fresh /\ chunks' \in SUBSET Chunk
      BY <1>8, NothingFresh
    <2>2. QED
      BY <1>1, <1>8, <2>1, CallStep
      DEF IndexInv, IndexTypes, IdsInv, CacheInv, VectorMatchesText, disk
  <1>9. CASE /\ chunks' = chunks \cup {[id |-> id, file |-> old.row,
                                        index |-> i, text |-> text[i]]}
             /\ lastId' = [lastId EXCEPT !["chunk"] = id]
             /\ Proceed(t, [old EXCEPT
                               !.ids = Append(@, id),
                               !.pc = IF i = Len(text) THEN "embed" ELSE "insert"])
    <2>1. PICK chunk \in Chunk : chunk.id = id /\ chunk.text = text[i]
                                 /\ chunks' = chunks \cup {chunk}
      BY <1>6, <1>7, <1>9 DEF Chunk
    <2>2. /\ lastId' \in [{"file", "chunk"} -> Nat] /\ lastId'["chunk"] = id
          /\ chunks \in SUBSET Chunk
          /\ \A c \in chunks : c.id \in Nat /\ c.id =< last
      BY <1>4, <1>7, <1>9 DEF IndexInv, IndexTypes, IdsInv, Chunk
    <2>3. Fresh /\ chunks' \in SUBSET Chunk
      BY <1>4, <1>5, <2>1, <2>2 DEF Fresh
    <2>4. IdsInv'
      <3>1. IsFiniteSet(chunks')
        BY <2>1, FS_AddElement DEF IndexInv, IdsInv
      <3>2. QED
        BY <1>5, <2>1, <2>2, <3>1 DEF IndexInv, IdsInv
    <2>5. VectorMatchesText'
      BY <1>1, <2>1 DEF IndexInv, VectorMatchesText
    <2>6. PICK longer : longer \in Seq(Nat) /\ longer = Append(ids, id)
      <3>1. ids \in Seq(Nat) /\ id \in Nat => Append(ids, id) \in Seq(Nat)
        OBVIOUS
      <3>2. QED
        BY <3>1
    <2>7. /\ Len(longer) = i /\ longer # <<>> /\ longer[i] = id
          /\ \A k \in 1..Len(ids) : longer[k] = ids[k]
      BY <1>5, <2>6
    <2>8. \A k \in 1..i : longer[k] =< id
      BY <1>5, <1>6, <2>7
    <2>9. Holds(longer, text)'
      <3> SUFFICES ASSUME NEW k \in 1..i, NEW c \in chunks', c.id = longer[k]
                   PROVE  c.text = text[k]
        BY <2>7 DEF Holds
      <3>1. CASE k = i
        <4>1. c = chunk
          BY <1>5, <2>1, <2>2, <2>7, <3>1
        <4>2. QED
          BY <2>1, <3>1, <4>1
      <3>2. CASE k # i
        <4>1. k \in 1..Len(ids)
          BY <1>5, <3>2
        <4>2. c.id = ids[k] /\ c.id # id
          BY <1>5, <1>6, <2>7, <4>1
        <4>3. c \in chunks
          BY <2>1, <4>2
        <4>4. QED
          BY <1>6, <4>1, <4>2, <4>3 DEF Holds
      <3>3. QED
        BY <3>1, <3>2
    <2>10. PICK next : next = [old EXCEPT
                                 !.ids = Append(@, id),
                                 !.pc = IF i = Len(text) THEN "embed" ELSE "insert"]
      OBVIOUS
    <2>11. /\ next \in Job /\ next.file = old.file /\ next.text = text /\ next.ids = longer
           /\ next.pc = IF i = Len(text) THEN "embed" ELSE "insert"
      BY <1>3, <2>6, <2>10 DEF Job
    <2>12. JobInv(next)'
      <3>1. i < Len(text) \/ i = Len(text)
        BY <1>7
      <3>2. next.pc \in {"insert", "embed"} /\ Len(next.ids) = i
        BY <2>7, <2>11
      <3>3. QED
        BY <1>6, <2>2, <2>7, <2>8, <2>9, <2>11, <3>1, <3>2 DEF JobInv
    <2>13. Proceed(t, next)
      BY <1>9, <2>10
    <2>14. QED
      BY <1>1, <2>2, <2>3, <2>4, <2>5, <2>11, <2>12, <2>13, CallStep
      DEF IndexInv, IndexTypes, CacheInv, disk
  <1>10. QED
    BY <1>2, <1>3, <1>4, <1>5, <1>8, <1>9 DEF InsertChunk, NextChunkId

-----------------------------------------------------------------------------
(* _embed_and_store *)

(* Counting up to a later position gives more.                             *)
LEMMA PlacesGrow ==
  ASSUME NEW texts \in Seq(Texts)
  PROVE  /\ IsFiniteSet(Uncached(texts)) /\ Uncached(texts) \subseteq 1..Len(texts)
         /\ \A i \in Uncached(texts) :
               PlaceSent(texts, i) \in 1..Cardinality(Uncached(texts))
         /\ \A i, j \in Uncached(texts) :
               i < j => PlaceSent(texts, i) < PlaceSent(texts, j)
  <1> DEFINE U == Uncached(texts)
             UpTo(i) == {k \in U : k <= i}
  <1>1. U \subseteq 1..Len(texts) /\ IsFiniteSet(U)
    <2>1. U \in SUBSET (1..Len(texts))
      BY DEF Uncached
    <2>2. IsFiniteSet(1..Len(texts))
      BY FS_Interval
    <2>3. QED
      BY <2>1, <2>2, FS_Subset
  <1>2. \A i : PlaceSent(texts, i) = Cardinality(UpTo(i))
    BY DEF PlaceSent
  <1> HIDE DEF U
  <1>3. ASSUME NEW i \in U
        PROVE  /\ IsFiniteSet(UpTo(i)) /\ Cardinality(UpTo(i)) \in Nat
               /\ Cardinality(UpTo(i)) \in 1..Cardinality(U)
    <2>1. UpTo(i) \in SUBSET U /\ i \in UpTo(i)
      BY <1>1
    <2> HIDE DEF UpTo
    <2>2. IsFiniteSet(UpTo(i)) /\ Cardinality(UpTo(i)) <= Cardinality(U)
      BY <1>1, <2>1, FS_Subset
    <2>3. Cardinality(UpTo(i)) \in Nat /\ Cardinality(U) \in Nat
      BY <1>1, <2>2, FS_CardinalityType
    <2>4. Cardinality(UpTo(i)) # 0
      BY <2>1, <2>2, FS_EmptySet
    <2>5. QED
      BY <2>2, <2>3, <2>4
  <1>4. ASSUME NEW i \in U, NEW j \in U, i < j
        PROVE  Cardinality(UpTo(i)) < Cardinality(UpTo(j))
    <2>1. UpTo(i) \in SUBSET UpTo(j) /\ j \in UpTo(j) /\ j \notin UpTo(i)
      <3>1. \A k \in U : k \in Int
        BY <1>1
      <3>2. i \in Int /\ j \in Int
        BY <3>1
      <3>3. \A k \in U : k <= i => k <= j
        BY <1>4, <3>1, <3>2
      <3>4. j <= j /\ ~(j <= i)
        BY <1>4, <3>2
      <3>5. QED
        BY <3>3, <3>4
    <2> HIDE DEF UpTo
    <2>2. /\ IsFiniteSet(UpTo(j))
          /\ Cardinality(UpTo(i)) \in Nat /\ Cardinality(UpTo(j)) \in Nat
      BY <1>3
    <2>3. Cardinality(UpTo(i)) <= Cardinality(UpTo(j)) /\ UpTo(i) # UpTo(j)
      BY <2>1, <2>2, FS_Subset
    <2>4. Cardinality(UpTo(i)) # Cardinality(UpTo(j))
      BY <2>1, <2>2, <2>3, FS_Subset
    <2>5. QED
      BY <2>2, <2>3, <2>4
  <1>5. QED
    BY <1>1, <1>2, <1>3, <1>4 DEF U

LEMMA SentAtItsPlace ==
  ASSUME NEW texts \in Seq(Texts), NEW i \in Uncached(texts)
  PROVE  Sent(texts)[PlaceSent(texts, i)] = texts[i]
  <1> DEFINE n == PlaceSent(texts, i)
             At(k) == k \in Uncached(texts) /\ PlaceSent(texts, k) = n
  <1>1. n \in 1..Cardinality(Uncached(texts)) /\ i \in Nat
    BY PlacesGrow
  <1>2. ASSUME NEW j \in Uncached(texts), PlaceSent(texts, j) = n PROVE j = i
    <2>1. i \in Int /\ j \in Int /\ n \in Int
      BY <1>1, PlacesGrow
    <2>2. ~(i < j) /\ ~(j < i)
      BY <1>2, <2>1, PlacesGrow
    <2>3. QED
      BY <2>1, <2>2
  <1>3. (CHOOSE k \in Uncached(texts) : PlaceSent(texts, k) = n) = i
    BY <1>2
  <1> HIDE DEF n
  <1>4. Sent(texts)[n] = texts[i]
    BY <1>1, <1>3 DEF Sent
  <1>5. QED
    BY <1>4 DEF n

(* With what the cache has and what the provider gives for the rest, each  *)
(* chunk gets the embedding of its own text.                               *)
LEMMA BlobsAreOfTheTexts ==
  ASSUME CacheInv, NEW texts \in Seq(Texts)
  PROVE  Blobs(texts, Sent(texts)) = texts
  <1>1. ASSUME NEW i \in 1..Len(texts), CacheHit(texts[i])
        PROVE  Lookups(texts[i]) = texts[i]
    <2>1. \E e \in cache : e.text = texts[i]
      BY <1>1 DEF CacheHit
    <2>2. PICK e \in cache : e.text = texts[i] /\ e.of = Lookups(texts[i])
      BY <2>1 DEF Lookups
    <2>3. QED
      BY <2>2 DEF CacheInv
  <1>2. ASSUME NEW i \in 1..Len(texts), ~CacheHit(texts[i])
        PROVE  Sent(texts)[PlaceSent(texts, i)] = texts[i]
    BY <1>2, SentAtItsPlace DEF Uncached
  <1>3. Blobs(texts, Sent(texts)) = [i \in 1..Len(texts) |-> texts[i]]
    BY <1>1, <1>2 DEF Blobs
  <1>4. texts = [i \in 1..Len(texts) |-> texts[i]]
    OBVIOUS
  <1>5. QED
    BY <1>3, <1>4
LEMMA EmbedKeeps ==
  ASSUME IndexInv, NEW t \in Tasks, Embed(t)
  PROVE  IndexInv'
  <1>1. /\ UNCHANGED <<disk, files, chunks, vectors, lastId, dirty, dedup>>
        /\ job[t].pc = "embed"
    BY DEF Embed
  <1>2. PICK old \in Job : old = job[t]
    BY <1>1, CallFacts
  <1>3. PICK texts \in Seq(Texts) : texts = old.text
    BY <1>1, <1>2, CallFacts
  <1>4. /\ old.file \in Files /\ old.ids # <<>> /\ Len(old.ids) = Len(texts)
        /\ Holds(old.ids, texts)
        /\ \A k \in 1..Len(old.ids) : old.ids[k] =< lastId["chunk"]
    BY <1>1, <1>2, <1>3, CallFacts DEF JobInv
  <1>5. Blobs(texts, Sent(texts)) = texts
    BY BlobsAreOfTheTexts DEF IndexInv
  <1>6. Fresh /\ chunks' \in SUBSET Chunk
    BY <1>1, NothingFresh
  <1>7. PICK next : next = [old EXCEPT !.pc = "store", !.blobs = texts]
    OBVIOUS
  <1>8. /\ next \in Job /\ next.pc = "store" /\ next.file = old.file
        /\ next.ids = old.ids /\ next.blobs = texts
    BY <1>7 DEF Job
  <1>9. JobInv(next)'
    BY <1>1, <1>4, <1>8 DEF JobInv, Holds
  <1>10. /\ \/ Fail(t)
            \/ Proceed(t, next)
         /\ \/ cache' = cache
            \/ cache' = cache \cup {[text |-> texts[i], of |-> texts[i]] : i \in Uncached(texts)}
    BY <1>2, <1>3, <1>5, <1>7 DEF Embed
  <1>11. cache' \in SUBSET Cached /\ CacheInv'
    <2>1. cache \in SUBSET Cached /\ CacheInv
      BY DEF IndexInv, IndexTypes
    <2>2. \A i \in Uncached(texts) : texts[i] \in Texts
      BY DEF Uncached
    <2>3. \A e \in cache' : e \in cache \/ \E x \in Texts : e = [text |-> x, of |-> x]
      BY <1>10, <2>2
    <2>4. QED
      BY <2>1, <2>3 DEF Cached, CacheInv
  <1>12. QED
    BY <1>1, <1>6, <1>8, <1>9, <1>10, <1>11, CallStep
    DEF IndexInv, IndexTypes, IdsInv, VectorMatchesText, disk

LEMMA TailParts ==
  ASSUME NEW S, NEW line \in Seq(S), line # <<>>
  PROVE  /\ Tail(line) \in Seq(S) /\ Len(Tail(line)) = Len(line) - 1
         /\ \A k \in 1..(Len(line) - 1) : Tail(line)[k] = line[k + 1]
  OBVIOUS

LEMMA StoreVectorKeeps ==
  ASSUME IndexInv, NEW t \in Tasks, StoreVector(t)
  PROVE  IndexInv'
  <1>1. /\ UNCHANGED <<disk, files, chunks, cache, lastId, dirty, dedup>>
        /\ job[t].pc = "store"
    BY DEF StoreVector
  <1>2. PICK old \in Job : old = job[t]
    BY <1>1, CallFacts
  <1>3. PICK ids \in Seq(Nat), blobs \in Seq(Texts) : ids = old.ids /\ blobs = old.blobs
    BY <1>1, <1>2, CallFacts
  <1>4. /\ old.file \in Files /\ ids # <<>> /\ Len(ids) = Len(blobs)
        /\ Holds(ids, blobs)
        /\ \A k \in 1..Len(ids) : ids[k] =< lastId["chunk"]
    BY <1>1, <1>2, <1>3, CallFacts DEF JobInv
  <1>5. /\ 1 \in 1..Len(ids) /\ Head(ids) = ids[1] /\ Head(blobs) = blobs[1]
        /\ Head(ids) \in Nat /\ Head(blobs) \in Texts
    BY <1>4
  <1>6. Fresh /\ chunks' \in SUBSET Chunk
    BY <1>1, NothingFresh
  <1>7. CASE Fail(t) /\ UNCHANGED vectors
    BY <1>1, <1>6, <1>7, CallStep
    DEF IndexInv, IndexTypes, IdsInv, CacheInv, VectorMatchesText, disk
  <1>8. CASE /\ \E c \in chunks : c.id = Head(ids)
             /\ vectors' = {v \in vectors : v.chunk # Head(ids)}
                              \cup {[chunk |-> Head(ids), of |-> Head(blobs)]}
             /\ IF Len(ids) = 1
                THEN Return(t)
                ELSE Proceed(t, [old EXCEPT !.ids = Tail(@), !.blobs = Tail(@)])
    <2>1. vectors' \in SUBSET Embedding
      BY <1>5, <1>8 DEF IndexInv, IndexTypes, Embedding
    <2>2. VectorMatchesText'
      <3> SUFFICES ASSUME NEW v \in vectors'
                   PROVE  \E c \in chunks : c.id = v.chunk /\ c.text = v.of
        BY <1>1 DEF VectorMatchesText
      <3>1. CASE v \in vectors
        BY <3>1 DEF IndexInv, VectorMatchesText
      <3>2. CASE v = [chunk |-> Head(ids), of |-> Head(blobs)]
        <4>1. PICK c \in chunks : c.id = Head(ids)
          BY <1>8
        <4>2. c.text = blobs[1]
          BY <1>4, <1>5, <4>1 DEF Holds
        <4>3. QED
          BY <1>5, <3>2, <4>1, <4>2
      <3>3. QED
        BY <1>8, <3>1, <3>2
    <2>3. PICK next : next = [old EXCEPT !.ids = Tail(@), !.blobs = Tail(@)]
      OBVIOUS
    <2>4. ASSUME Len(ids) # 1
          PROVE  next \in Job /\ JobInv(next)'
      <3>1. PICK rest \in Seq(Nat), others \in Seq(Texts) :
               rest = Tail(ids) /\ others = Tail(blobs)
        <4>1. Len(ids) \in Nat /\ Len(ids) # 0 /\ Len(<<>>) = 0
          BY <1>4
        <4>2. blobs # <<>>
          BY <1>4, <4>1
        <4>3. Tail(ids) \in Seq(Nat) /\ Tail(blobs) \in Seq(Texts)
          BY <1>4, <4>2, TailParts
        <4>4. QED
          BY <4>3
      <3>2. /\ Len(rest) = Len(ids) - 1 /\ Len(others) = Len(rest) /\ rest # <<>>
            /\ \A k \in 1..Len(rest) : /\ k + 1 \in 1..Len(ids)
                                       /\ rest[k] = ids[k + 1]
                                       /\ others[k] = blobs[k + 1]
        <4>1. /\ Len(ids) \in Nat /\ Len(ids) # 0 /\ blobs # <<>>
              /\ Len(<<>>) = 0
          BY <1>4
        <4>2. /\ Len(rest) = Len(ids) - 1 /\ Len(others) = Len(ids) - 1
              /\ \A k \in 1..(Len(ids) - 1) : rest[k] = ids[k + 1] /\ others[k] = blobs[k + 1]
          BY <1>4, <3>1, <4>1, TailParts
        <4>3. Len(rest) # 0 /\ \A k \in 1..(Len(ids) - 1) : k + 1 \in 1..Len(ids)
          BY <2>4, <4>1, <4>2
        <4>4. QED
          BY <4>1, <4>2, <4>3
      <3>3. /\ next \in Job /\ next.pc = "store" /\ next.file = old.file
            /\ next.ids = rest /\ next.blobs = others
        <4>1. next = [old EXCEPT !.ids = rest, !.blobs = others]
          BY <1>3, <2>3, <3>1
        <4>2. QED
          BY <1>1, <1>2, <4>1 DEF Job
      <3>4. Holds(rest, others)'
        BY <1>1, <1>4, <3>2 DEF Holds
      <3>5. \A k \in 1..Len(rest) : rest[k] =< lastId'["chunk"]
        BY <1>1, <1>4, <3>2
      <3>6. QED
        BY <1>4, <3>2, <3>3, <3>4, <3>5 DEF JobInv
    <2>5. Return(t) \/ (Proceed(t, next) /\ next \in Job /\ JobInv(next)')
      BY <1>8, <2>3, <2>4
    <2>6. QED
      BY <1>1, <1>6, <2>1, <2>2, <2>5, CallStep
      DEF IndexInv, IndexTypes, IdsInv, CacheInv, disk
  <1>9. QED
    BY <1>2, <1>3, <1>7, <1>8 DEF StoreVector

-----------------------------------------------------------------------------
(* Who indexes, light sleep, and restarts *)

(* A step that starts a call, if any, and leaves the tables alone.         *)
LEMMA OpeningKeeps ==
  ASSUME IndexInv, UNCHANGED tables,
         content' \in [Files -> Contents \cup {None}], events' \in Nat,
         walk' \in [Walkers -> SUBSET Files], mode' \in {"starting", "on", "off"},
         dirty' \in SUBSET Files, sleep' \in {"no", "indexing", "embedding", "deleting"},
         \/ job' = job
         \/ \E t \in Tasks, f \in Files, text \in Contents \cup {None} :
               job' = [job EXCEPT ![t] = Opened(f, text)]
  PROVE  IndexInv'
  <1>1. Fresh /\ chunks' \in SUBSET Chunk
    BY NothingFresh DEF tables
  <1>2. job' \in [Tasks -> Job] /\ \A u \in Tasks : JobInv(job[u])'
    <2>1. CASE job' = job
      BY <2>1 DEF IndexInv, IndexTypes, JobInv, Holds, tables
    <2>2. ASSUME NEW t \in Tasks, NEW f \in Files, NEW text \in Contents \cup {None},
                 job' = [job EXCEPT ![t] = Opened(f, text)]
          PROVE  job' \in [Tasks -> Job] /\ \A u \in Tasks : JobInv(job[u])'
      <3>1. PICK next : next = Opened(f, text)
        OBVIOUS
      <3>2. next \in Job /\ JobInv(next)'
        BY <3>1, OpenedIsFine
      <3>3. job' = [job EXCEPT ![t] = next]
        BY <2>2, <3>1
      <3>4. QED
        BY <1>1, <3>2, <3>3, JobsKept
    <2>3. QED
      BY <2>1, <2>2
  <1>3. QED
    BY <1>2 DEF IndexInv, IndexTypes, IdsInv, CacheInv, VectorMatchesText, tables
LEMMA WalkersKeep ==
  ASSUME IndexInv,
         \/ \E w \in Walkers, f \in Files : WalkNext(w, f)
         \/ StartWatcher
         \/ \E f \in Files : WatcherNext(f) \/ Edit(f)
         \/ \E t \in Tools, f \in Files : AppendMemory(t, f)
  PROVE  IndexInv'
  <1>1. /\ content \in [Files -> Contents \cup {None}] /\ events \in Nat
        /\ walk \in [Walkers -> SUBSET Files] /\ mode \in {"starting", "on", "off"}
        /\ dirty \in SUBSET Files
        /\ sleep \in {"no", "indexing", "embedding", "deleting"}
    BY DEF IndexInv, IndexTypes
  <1>2. Walkers \subseteq Tasks /\ "watcher" \in Tasks /\ Tools \subseteq Tasks
    BY DEF Tasks
  <1>3. ASSUME NEW w \in Walkers, NEW f \in Files, WalkNext(w, f)
        PROVE  IndexInv'
    <2>1. /\ UNCHANGED <<disk, tables, mode, dirty, sleepVars>>
          /\ walk' = [walk EXCEPT ![w] = @ \ {f}]
          /\ job' = [job EXCEPT ![w] = Opened(f, content[f])]
      BY <1>3 DEF WalkNext
    <2>2. /\ content[f] \in Contents \cup {None} /\ w \in Tasks
          /\ walk' \in [Walkers -> SUBSET Files]
      BY <1>1, <1>2, <2>1
    <2>3. QED
      BY <1>1, <2>1, <2>2, OpeningKeeps DEF disk, sleepVars
  <1>4. CASE StartWatcher
    BY <1>1, <1>4, OpeningKeeps DEF StartWatcher, disk, sleepVars
  <1>5. ASSUME NEW f \in Files, WatcherNext(f)
        PROVE  IndexInv'
    <2>1. /\ UNCHANGED <<disk, tables, walk, mode, sleepVars>> /\ dirty' = dirty \ {f}
          /\ job' = [job EXCEPT !["watcher"] = Opened(f, content[f])]
      BY <1>5 DEF WatcherNext
    <2>2. content[f] \in Contents \cup {None}
      BY <1>1
    <2>3. QED
      BY <1>1, <1>2, <2>1, <2>2, OpeningKeeps DEF disk, sleepVars
  <1>6. ASSUME NEW f \in Files, NEW text \in Contents \cup {None}, Change(f, text)
        PROVE  /\ content' \in [Files -> Contents \cup {None}] /\ events' \in Nat
               /\ dirty' \in SUBSET Files
    BY <1>1, <1>6 DEF Change, Event
  <1>7. ASSUME NEW f \in Files, Edit(f)
        PROVE  IndexInv'
    BY <1>1, <1>6, <1>7, OpeningKeeps DEF Edit, sleepVars
  <1>8. ASSUME NEW t \in Tools, NEW f \in Files, AppendMemory(t, f)
        PROVE  IndexInv'
    <2>1. PICK x \in Texts :
             /\ Change(f, Append(content[f], x))
             /\ job' = [job EXCEPT ![t] = Opened(f, Append(content[f], x))]
      BY <1>8 DEF AppendMemory
    <2>2. content[f] \in Contents /\ Len(content[f]) < MaxLen
      BY <1>1, <1>8 DEF AppendMemory
    <2>3. PICK text \in Contents : text = Append(content[f], x)
      BY <2>2, AppendIsContents
    <2>4. UNCHANGED <<tables, walk, mode, sleepVars>> /\ t \in Tasks
      BY <1>2, <1>8 DEF AppendMemory
    <2>5. QED
      BY <1>1, <1>6, <2>1, <2>3, <2>4, OpeningKeeps DEF sleepVars
  <1>9. QED
    BY <1>3, <1>4, <1>5, <1>7, <1>8

LEMMA SleepKeeps ==
  ASSUME IndexInv, LightSleep
  PROVE  IndexInv'
  <1>1. /\ content \in [Files -> Contents \cup {None}] /\ events \in Nat
        /\ walk \in [Walkers -> SUBSET Files] /\ mode \in {"starting", "on", "off"}
        /\ dirty \in SUBSET Files
        /\ sleep \in {"no", "indexing", "embedding", "deleting"}
    BY DEF IndexInv, IndexTypes
  <1>2. CASE SleepStart
    <2>1. Present \in SUBSET Files
      BY DEF Present
    <2>2. QED
      <3>1. /\ walk' = [walk EXCEPT !["sleep"] = Present] /\ sleep' = "indexing"
            /\ events' = events + 1 /\ UNCHANGED <<content, tables, job, mode, dirty>>
        BY <1>2 DEF SleepStart, Event
      <3>2. walk' \in [Walkers -> SUBSET Files] /\ events' \in Nat
        <4>1. PICK all \in SUBSET Files : all = Present
          BY <2>1
        <4>2. walk' = [walk EXCEPT !["sleep"] = all]
          BY <3>1, <4>1
        <4>3. walk' \in [Walkers -> SUBSET Files]
          BY <1>1, <4>2
        <4>4. QED
          BY <1>1, <3>1, <4>3
      <3>3. /\ content' \in [Files -> Contents \cup {None}] /\ UNCHANGED tables
            /\ mode' \in {"starting", "on", "off"} /\ dirty' \in SUBSET Files
            /\ sleep' \in {"no", "indexing", "embedding", "deleting"} /\ job' = job
        BY <1>1, <3>1
      <3>4. QED
        BY <3>2, <3>3, OpeningKeeps
  <1>3. CASE SleepRead \/ SleepCompare
    <2>1. /\ UNCHANGED <<disk, tables, job, walk, mode, dirty>>
          /\ sleep' \in {"embedding", "deleting", "no"}
      BY <1>3 DEF SleepRead, SleepCompare
    <2>2. QED
      BY <1>1, <2>1, OpeningKeeps DEF disk
  <1>4. CASE SleepEnd
    BY <1>1, <1>4, OpeningKeeps DEF SleepEnd, disk
  <1>5. ASSUME NEW id \in doomed, SleepDelete(id)
        PROVE  IndexInv'
    <2>1. PICK kept \in SUBSET chunks : kept = {c \in chunks : c.id # id}
      OBVIOUS
    <2>2. /\ KeepChunks(kept)
          /\ UNCHANGED <<disk, files, cache, lastId, job, walk, mode, dirty, sleep>>
      BY <1>5, <2>1 DEF SleepDelete
    <2>3. /\ Fresh /\ chunks' \in SUBSET Chunk /\ vectors' \in SUBSET Embedding
          /\ IdsInv' /\ VectorMatchesText'
      BY <2>2, DeletionKeeps
    <2>4. \A j \in Job : JobInv(j) => JobInv(j)'
      BY <2>3, CallsKept
    <2>5. \A u \in Tasks : JobInv(job[u])'
      <3> TAKE u \in Tasks
      <3>1. PICK j \in Job : j = job[u] /\ JobInv(j)
        BY DEF IndexInv, IndexTypes
      <3>2. JobInv(j)' /\ job'[u] = j
        BY <2>2, <2>4, <3>1
      <3>3. QED
        BY <3>2 DEF JobInv, Holds
    <2>6. QED
      BY <2>2, <2>3, <2>5 DEF IndexInv, IndexTypes, CacheInv, disk
  <1>6. QED
    BY <1>2, <1>3, <1>4, <1>5 DEF LightSleep

LEMMA RestartKeeps ==
  ASSUME IndexInv, Restart
  PROVE  IndexInv'
  <1>1. /\ job' = [t \in Tasks |-> Idle]
        /\ walk' = [w \in Walkers |-> IF w = "startup" THEN Present ELSE {}]
        /\ mode' = "starting" /\ dirty' = {} /\ sleep' = "no"
        /\ content' = content /\ UNCHANGED tables /\ events' = events + 1
    BY DEF Restart, Event
  <1>2. walk' \in [Walkers -> SUBSET Files]
    BY <1>1 DEF Present
  <1>3. job' \in [Tasks -> Job] /\ \A u \in Tasks : JobInv(job[u])'
    BY <1>1, IdleIsFine DEF JobInv, Holds
  <1>4. QED
    BY <1>1, <1>2, <1>3
    DEF IndexInv, IndexTypes, IdsInv, CacheInv, VectorMatchesText, tables

-----------------------------------------------------------------------------
(* Loops over numbers *)

(* A set of numbers that is not empty has a least one.                     *)
LEMMA LeastNumber ==
  ASSUME NEW S \in SUBSET Nat, S # {}
  PROVE  \E m \in S : \A n \in S : m =< n
  <1>1. PICK R : R = OpToRel(<, Nat)
    OBVIOUS
  <1>2. IsWellFoundedOn(R, Nat)
    BY <1>1, NatLessThanWellFounded
  <1>3. PICK m \in S : \A n \in S : <<n, m>> \notin R
    BY <1>2, WFMin
  <1>4. ASSUME NEW n \in S, n < m
        PROVE  FALSE
    BY <1>1, <1>3, <1>4 DEF OpToRel
  <1>5. QED
    BY <1>3, <1>4

(* What is in the set at first and is carried on by each turn of a loop.   *)
LEMMA CarriedOn ==
  ASSUME NEW n \in Nat, NEW P \in SUBSET (0..n), 0 \in P,
         \A k \in 1..n : k - 1 \in P => k \in P
  PROVE  P = 0..n
  <1> SUFFICES ASSUME (0..n) \ P # {} PROVE FALSE
    OBVIOUS
  <1>1. (0..n) \ P \in SUBSET Nat
    OBVIOUS
  <1>2. PICK m \in (0..n) \ P : \A k \in (0..n) \ P : m =< k
    BY <1>1, LeastNumber
  <1>3. m \in 1..n /\ m - 1 \in 0..n /\ ~(m =< m - 1)
    BY <1>2
  <1>4. m - 1 \in P
    BY <1>2, <1>3
  <1>5. QED
    BY <1>2, <1>3, <1>4

(* f has the values of a loop: at first, and after each turn up to m.      *)
Goes(f, base, turn, m) ==
    f[0] = base /\ \A k \in 1..m : f[k] = turn[<<f[k - 1], k>>]

(* A loop that stays among the values of S has a value after each turn.    *)
LEMMA LoopGoes ==
  ASSUME NEW n \in Nat, NEW S, NEW base \in S, NEW turn \in [S \X (1..n) -> S]
  PROVE  \E f \in [0..n -> S] : Goes(f, base, turn, n)
  <1> DEFINE Runs(f, m) == f \in [0..n -> S] /\ Goes(f, base, turn, m)
             P == {m \in 0..n : \E f : Runs(f, m)}
  <1>1. 0 \in P
    <2>1. PICK f : f = [k \in 0..n |-> base]
      OBVIOUS
    <2>2. Runs(f, 0)
      BY <2>1 DEF Goes
    <2>3. 0 \in 0..n
      OBVIOUS
    <2> HIDE DEF Runs
    <2>4. QED
      BY <2>2, <2>3
  <1>2. ASSUME NEW m \in 1..n, m - 1 \in P
        PROVE  m \in P
    <2>1. PICK f : Runs(f, m - 1)
      BY <1>2
    <2>2. PICK v \in S : v = turn[<<f[m - 1], m>>]
      BY <2>1
    <2>3. PICK g : g = [f EXCEPT ![m] = v]
      OBVIOUS
    <2>4. g \in [0..n -> S] /\ g[m] = v /\ \A k \in 0..n : k # m => g[k] = f[k]
      BY <2>1, <2>3
    <2>5. \A k \in 1..m : g[k] = turn[<<g[k - 1], k>>]
      <3> TAKE k \in 1..m
      <3>1. k - 1 \in 0..n /\ k - 1 # m /\ k \in 0..n
        OBVIOUS
      <3>2. g[k - 1] = f[k - 1]
        BY <2>4, <3>1
      <3>3. CASE k = m
        BY <2>2, <2>4, <3>2, <3>3
      <3>4. CASE k # m
        BY <2>1, <2>4, <3>1, <3>2, <3>4 DEF Goes
      <3>5. QED
        BY <3>3, <3>4
    <2>6. Runs(g, m)
      BY <2>1, <2>4, <2>5 DEF Goes
    <2>7. QED
      BY <2>6
  <1> HIDE DEF P
  <1>3. P \in SUBSET (0..n)
    BY DEF P
  <1>4. P = 0..n
    BY <1>1, <1>2, <1>3, CarriedOn
  <1>5. n \in P
    BY <1>4
  <1>6. QED
    BY <1>5 DEF P

(* A set that no turn takes from only grows.                               *)
LEMMA LoopGrows ==
  ASSUME NEW n \in Nat, NEW f, \A k \in 1..n : f[k - 1] \subseteq f[k],
         NEW a \in 0..n, NEW b \in 0..n, a =< b
  PROVE  f[a] \subseteq f[b]
  <1> DEFINE P == {m \in 0..n : a =< m => f[a] \subseteq f[m]}
  <1>1. 0 \in P
    OBVIOUS
  <1>2. ASSUME NEW m \in 1..n, m - 1 \in P
        PROVE  m \in P
    <2>1. CASE a =< m - 1
      BY <1>2, <2>1
    <2>2. CASE a = m
      BY <2>2
    <2>3. CASE a > m
      BY <2>3
    <2>4. QED
      BY <2>1, <2>2, <2>3
  <1> HIDE DEF P
  <1>3. P \in SUBSET (0..n)
    BY DEF P
  <1>4. b \in P
    BY <1>1, <1>2, <1>3, CarriedOn
  <1>5. QED
    BY <1>4 DEF P

-----------------------------------------------------------------------------
(* Light sleep's comparison *)

IdsOf(line) == {line[k].id : k \in 1..Len(line)}

LEMMA ComparedIs ==
  ASSUME NEW line \in Seq(Chunk), NEW removed \in SUBSET IdsOf(line),
         NEW i \in 1..Len(line), NEW j \in 1..Len(line)
  PROVE  /\ Compared(line, removed, i, j) \in SUBSET IdsOf(line)
         /\ removed \subseteq Compared(line, removed, i, j)
         /\ <<line[i].text, line[j].text>> \in Similar
               => \/ line[i].id \in Compared(line, removed, i, j)
                  \/ line[j].id \in Compared(line, removed, i, j)
  BY DEF Compared, IdsOf

LEMMA ComparedOnIs ==
  ASSUME NEW line \in Seq(Chunk), NEW removed \in SUBSET IdsOf(line), NEW i \in 1..Len(line)
  PROVE  /\ ComparedOn(line, removed, i) \in SUBSET IdsOf(line)
         /\ removed \subseteq ComparedOn(line, removed, i)
         /\ \A j \in (i + 1)..Len(line) :
               <<line[i].text, line[j].text>> \in Similar
                  => \/ line[i].id \in ComparedOn(line, removed, i)
                     \/ line[j].id \in ComparedOn(line, removed, i)
  <1>1. PICK n, S : n \in Nat /\ n = Len(line) - i /\ S = SUBSET IdsOf(line)
    <2>1. Len(line) - i \in Nat
      OBVIOUS
    <2>2. QED
      BY <2>1
  <1>2. /\ \A k \in 1..n : i + k \in 1..Len(line) /\ k - 1 \in 0..n /\ k \in 0..n
        /\ n \in 0..n /\ 0 \in 0..n /\ removed \in S
    BY <1>1
  <1>3. \A r \in S, k \in 1..n :
           /\ Compared(line, r, i, i + k) \in S /\ r \subseteq Compared(line, r, i, i + k)
           /\ <<line[i].text, line[i + k].text>> \in Similar
                 => \/ line[i].id \in Compared(line, r, i, i + k)
                    \/ line[i + k].id \in Compared(line, r, i, i + k)
    BY <1>1, <1>2, ComparedIs
  <1>4. PICK turn : turn = [p \in S \X (1..n) |-> Compared(line, p[1], i, i + p[2])]
    OBVIOUS
  <1>5. turn \in [S \X (1..n) -> S]
    BY <1>3, <1>4
  <1>6. PICK g \in [0..n -> S] : Goes(g, removed, turn, n)
    BY <1>1, <1>2, <1>5, LoopGoes
  <1>7. \A k \in 1..n : g[k] = Compared(line, g[k - 1], i, i + k)
    <2> TAKE k \in 1..n
    <2>1. <<g[k - 1], k>> \in S \X (1..n)
      BY <1>2, <1>6
    <2>2. QED
      BY <1>4, <1>6, <2>1 DEF Goes
  <1>8. g = [k \in 0..n |-> IF k = 0 THEN removed
                            ELSE Compared(line, g[k - 1], i, i + k)]
    <2>1. \A k \in 0..n : k # 0 => k \in 1..n
      OBVIOUS
    <2>2. QED
      BY <1>6, <1>7, <2>1 DEF Goes
  <1>9. PICK f : /\ f = [k \in 0..n |-> IF k = 0 THEN removed
                                        ELSE Compared(line, f[k - 1], i, i + k)]
                 /\ ComparedOn(line, removed, i) = f[n]
    BY <1>1, <1>8 DEF ComparedOn
  <1>10. f[0] = removed /\ \A k \in 1..n : f[k] = Compared(line, f[k - 1], i, i + k)
    <2>1. \A k \in 1..n : k # 0 /\ k \in 0..n
      OBVIOUS
    <2>2. QED
      BY <1>2, <1>9, <2>1
  <1>11. \A k \in 0..n : f[k] \in S
    <2> DEFINE P == {k \in 0..n : f[k] \in S}
    <2>1. 0 \in P
      BY <1>2, <1>10
    <2>2. \A k \in 1..n : k - 1 \in P => k \in P
      BY <1>2, <1>3, <1>10
    <2> HIDE DEF P
    <2>3. P \in SUBSET (0..n)
      BY DEF P
    <2>4. P = 0..n
      BY <1>1, <2>1, <2>2, <2>3, CarriedOn
    <2>5. QED
      BY <2>4 DEF P
  <1>12. \A k \in 1..n : f[k - 1] \in S /\ f[k - 1] \subseteq f[k]
    <2> TAKE k \in 1..n
    <2>1. k - 1 \in 0..n
      BY <1>2
    <2>2. PICK r \in S : r = f[k - 1]
      BY <1>11, <2>1
    <2>3. f[k] = Compared(line, r, i, i + k)
      BY <1>10, <2>2
    <2>4. r \subseteq Compared(line, r, i, i + k)
      BY <1>3
    <2>5. QED
      BY <2>2, <2>3, <2>4
  <1>13. \A k \in 0..n : f[k] \subseteq f[n]
    <2> TAKE k \in 0..n
    <2>1. k =< n
      OBVIOUS
    <2>2. QED
      BY <1>1, <1>2, <1>12, <2>1, LoopGrows
  <1>14. ASSUME NEW j \in (i + 1)..Len(line), <<line[i].text, line[j].text>> \in Similar
         PROVE  line[i].id \in f[n] \/ line[j].id \in f[n]
    <2>1. PICK k \in 1..n : j = i + k
      <3>1. j - i \in 1..n /\ j = i + (j - i)
        BY <1>1
      <3>2. QED
        BY <3>1
    <2>2. line[i].id \in f[k] \/ line[j].id \in f[k]
      BY <1>3, <1>10, <1>12, <1>14, <2>1
    <2>3. QED
      BY <1>2, <1>13, <2>2
  <1>15. f[n] \in SUBSET IdsOf(line) /\ removed \subseteq f[n]
    BY <1>1, <1>2, <1>10, <1>11, <1>13
  <1>16. QED
    BY <1>9, <1>14, <1>15

LEMMA DuplicatesAre ==
  ASSUME NEW line \in Seq(Chunk)
  PROVE  /\ Duplicates(line) \in SUBSET IdsOf(line)
         /\ \A i, j \in 1..Len(line) :
               i < j /\ <<line[i].text, line[j].text>> \in Similar
                  => line[i].id \in Duplicates(line) \/ line[j].id \in Duplicates(line)
  <1> DEFINE Turn(r, i) == IF line[i].id \in r THEN r ELSE ComparedOn(line, r, i)
  <1>1. PICK n, S : n \in Nat /\ n = Len(line) /\ S = SUBSET IdsOf(line)
    <2>1. Len(line) \in Nat
      OBVIOUS
    <2>2. QED
      BY <2>1
  <1>2. /\ \A k \in 1..n : k - 1 \in 0..n /\ k \in 0..n /\ k # 0
        /\ n \in 0..n /\ 0 \in 0..n /\ {} \in S
    BY <1>1
  <1>3. ASSUME NEW r \in S, NEW i \in 1..n
        PROVE  /\ Turn(r, i) \in S /\ r \subseteq Turn(r, i)
               /\ \A j \in (i + 1)..n :
                     <<line[i].text, line[j].text>> \in Similar
                        => line[i].id \in Turn(r, i) \/ line[j].id \in Turn(r, i)
    <2>1. CASE line[i].id \in r
      BY <2>1
    <2>2. CASE line[i].id \notin r
      BY <1>1, <2>2, ComparedOnIs
    <2>3. QED
      BY <2>1, <2>2
  <1>4. PICK turn : turn = [p \in S \X (1..n) |-> Turn(p[1], p[2])]
    OBVIOUS
  <1>5. \A f : (f = [i \in 0..n |-> IF i = 0 THEN {} ELSE Turn(f[i - 1], i)])
                 => f[0] = {} /\ \A k \in 1..n : f[k] = Turn(f[k - 1], k)
    BY <1>2
  <1>6. Duplicates(line) = (CHOOSE f : f = [i \in 0..n |-> IF i = 0 THEN {}
                                                       ELSE Turn(f[i - 1], i)])[n]
    BY <1>1 DEF Duplicates
  <1> HIDE DEF Turn
  <1>7. turn \in [S \X (1..n) -> S]
    BY <1>3, <1>4
  <1>8. PICK g \in [0..n -> S] : Goes(g, {}, turn, n)
    BY <1>1, <1>2, <1>7, LoopGoes
  <1>9. \A k \in 1..n : g[k] = Turn(g[k - 1], k)
    <2> TAKE k \in 1..n
    <2>1. <<g[k - 1], k>> \in S \X (1..n)
      BY <1>2, <1>8
    <2>2. QED
      BY <1>4, <1>8, <2>1 DEF Goes
  <1>10. g = [k \in 0..n |-> IF k = 0 THEN {} ELSE Turn(g[k - 1], k)]
    <2>1. \A k \in 0..n : k # 0 => k \in 1..n
      OBVIOUS
    <2>2. QED
      BY <1>8, <1>9, <2>1 DEF Goes
  <1>11. PICK f : /\ f = [k \in 0..n |-> IF k = 0 THEN {} ELSE Turn(f[k - 1], k)]
                  /\ Duplicates(line) = f[n]
    BY <1>6, <1>10
  <1>12. f[0] = {} /\ \A k \in 1..n : f[k] = Turn(f[k - 1], k)
    BY <1>5, <1>11
  <1>13. \A k \in 0..n : f[k] \in S
    <2> DEFINE P == {k \in 0..n : f[k] \in S}
    <2>1. 0 \in P
      BY <1>2, <1>12
    <2>2. \A k \in 1..n : k - 1 \in P => k \in P
      BY <1>2, <1>3, <1>12
    <2> HIDE DEF P
    <2>3. P \in SUBSET (0..n)
      BY DEF P
    <2>4. P = 0..n
      BY <1>1, <2>1, <2>2, <2>3, CarriedOn
    <2>5. QED
      BY <2>4 DEF P
  <1>14. \A k \in 1..n : f[k - 1] \in S /\ f[k - 1] \subseteq f[k]
    <2> TAKE k \in 1..n
    <2>1. k - 1 \in 0..n
      BY <1>2
    <2>2. PICK r \in S : r = f[k - 1]
      BY <1>13, <2>1
    <2>3. f[k] = Turn(r, k)
      BY <1>12, <2>2
    <2>4. r \subseteq Turn(r, k)
      BY <1>3
    <2>5. QED
      BY <2>2, <2>3, <2>4
  <1>15. \A k \in 0..n : f[k] \subseteq f[n]
    <2> TAKE k \in 0..n
    <2>1. k =< n
      OBVIOUS
    <2>2. QED
      BY <1>1, <1>2, <1>14, <2>1, LoopGrows
  <1>16. ASSUME NEW i \in 1..n, NEW j \in 1..n, i < j,
                <<line[i].text, line[j].text>> \in Similar
         PROVE  line[i].id \in f[n] \/ line[j].id \in f[n]
    <2>1. PICK r \in S : r = f[i - 1] /\ f[i] = Turn(r, i)
      BY <1>12, <1>14
    <2>2. j \in (i + 1)..n
      BY <1>16
    <2>3. line[i].id \in f[i] \/ line[j].id \in f[i]
      BY <1>3, <1>16, <2>1, <2>2
    <2>4. QED
      BY <1>2, <1>15, <2>3
  <1>17. QED
    BY <1>1, <1>2, <1>11, <1>13, <1>16

(* By file, place and id, chunks are in one order.                         *)
LEMMA ChunksInOrder ==
  ASSUME IndexInv
  PROVE  /\ \A c \in chunks : ~Precedes(c, c)
         /\ \A c, d \in chunks : c = d \/ Precedes(c, d) \/ Precedes(d, c)
         /\ \A c, d, e \in chunks : Precedes(c, d) /\ Precedes(d, e) => Precedes(c, e)
  <1>1. \A c \in chunks : c.id \in Nat /\ c.file \in Nat /\ c.index \in Nat
    BY DEF IndexInv, IndexTypes, Chunk
  <1>2. \A c, d \in chunks : c.id = d.id => c = d
    BY DEF IndexInv, IdsInv
  <1>3. \A c \in chunks : ~Precedes(c, c)
    BY <1>1 DEF Precedes
  <1>4. \A c, d \in chunks : c = d \/ Precedes(c, d) \/ Precedes(d, c)
    BY <1>1, <1>2 DEF Precedes
  <1>5. \A c, d, e \in chunks : Precedes(c, d) /\ Precedes(d, e) => Precedes(c, e)
    BY <1>1 DEF Precedes
  <1>6. QED
    BY <1>3, <1>4, <1>5

(* What get_all_chunks returns has all chunks, once each.                  *)
LEMMA AllChunksAre ==
  ASSUME IndexInv
  PROVE  /\ AllChunks \in Seq(Chunk)
         /\ \A i \in 1..Len(AllChunks) : AllChunks[i] \in chunks
         /\ \A c \in chunks : \E i \in 1..Len(AllChunks) : AllChunks[i] = c
  <1> DEFINE Behind(c) == {d \in chunks : Precedes(d, c)}
  <1>1. IsFiniteSet(chunks) /\ chunks \in SUBSET Chunk
    BY DEF IndexInv, IndexTypes, IdsInv
  <1>2. PICK n \in Nat : n = Cardinality(chunks)
    BY <1>1, FS_CardinalityType
  <1>3. ASSUME NEW c \in chunks
        PROVE  /\ IsFiniteSet(Behind(c)) /\ Cardinality(Behind(c)) \in 0..(n - 1)
    <2>1. Behind(c) \in SUBSET chunks /\ Behind(c) # chunks
      BY ChunksInOrder
    <2> HIDE DEF Behind
    <2>2. /\ IsFiniteSet(Behind(c)) /\ Cardinality(Behind(c)) <= n
          /\ Cardinality(Behind(c)) # n
      BY <1>1, <1>2, <2>1, FS_Subset
    <2>3. Cardinality(Behind(c)) \in Nat
      BY <2>2, FS_CardinalityType
    <2>4. QED
      BY <2>2, <2>3
  <1>4. ASSUME NEW c \in chunks, NEW d \in chunks, Precedes(c, d)
        PROVE  Cardinality(Behind(c)) # Cardinality(Behind(d))
    <2>1. Behind(c) \in SUBSET Behind(d) /\ c \in Behind(d) /\ c \notin Behind(c)
      BY <1>4, ChunksInOrder
    <2> HIDE DEF Behind
    <2>2. IsFiniteSet(Behind(d)) /\ Behind(c) # Behind(d)
      BY <1>3, <2>1
    <2>3. QED
      BY <2>1, <2>2, FS_Subset
  <1>5. \A c, d \in chunks : Cardinality(Behind(c)) = Cardinality(Behind(d)) => c = d
    BY <1>4, ChunksInOrder
  <1> HIDE DEF Behind
  <1>6. PICK rank : rank = [c \in chunks |-> Cardinality(Behind(c))]
    OBVIOUS
  <1>7. rank \in Injection(chunks, 0..(n - 1))
    BY <1>3, <1>5, <1>6 DEF Injection, IsInjective
  <1>8. IsFiniteSet(0..(n - 1)) /\ Cardinality(0..(n - 1)) = n
    <2>1. n - 1 \in Int /\ 0 \in Int
      OBVIOUS
    <2>2. QED
      BY <2>1, FS_Interval
  <1>9. rank \in Surjection(chunks, 0..(n - 1))
    BY <1>2, <1>7, <1>8, FS_Injection
  <1>10. \A i \in 1..n : \E c \in chunks : Cardinality(Behind(c)) = i - 1
    BY <1>6, <1>9 DEF Surjection
  <1>11. /\ DOMAIN AllChunks = 1..n
         /\ \A i \in 1..n : AllChunks[i] = CHOOSE c \in chunks : Cardinality(Behind(c)) = i - 1
         /\ AllChunks = [i \in 1..n |-> AllChunks[i]]
    BY <1>2, SMTT(30) DEF AllChunks, Behind
  <1>12. \A i \in 1..n : AllChunks[i] \in chunks /\ Cardinality(Behind(AllChunks[i])) = i - 1
    BY <1>10, <1>11
  <1>13. AllChunks \in Seq(Chunk) /\ Len(AllChunks) = n
    BY <1>1, <1>11, <1>12
  <1>14. ASSUME NEW c \in chunks
         PROVE  \E i \in 1..n : AllChunks[i] = c
    <2>1. PICK i \in 1..n : i - 1 = Cardinality(Behind(c))
      BY <1>3
    <2>2. QED
      BY <1>5, <1>12, <2>1
  <1>15. QED
    BY <1>12, <1>13, <1>14

-----------------------------------------------------------------------------
(* The theorems *)

LEMMA StartsIndexed == Init => IndexInv
  <1> SUFFICES ASSUME Init PROVE IndexInv
    OBVIOUS
  <1>1. /\ content \in [Files -> Contents \cup {None}] /\ events = 0
        /\ files = [f \in Files |-> None] /\ chunks = {} /\ vectors = {} /\ cache = {}
        /\ lastId = [file |-> 0, chunk |-> 0]
        /\ job = [t \in Tasks |-> Idle]
        /\ walk = [w \in Walkers |-> IF w = "startup" THEN Present ELSE {}]
        /\ mode = "starting" /\ dirty = {} /\ sleep = "no"
    BY DEF Init, InitExceptContent
  <1>2. lastId \in [{"file", "chunk"} -> Nat]
    BY <1>1
  <1>3. walk \in [Walkers -> SUBSET Files]
    BY <1>1 DEF Present
  <1>4. job \in [Tasks -> Job] /\ \A u \in Tasks : JobInv(job[u])
    BY <1>1, IdleIsFine
  <1>5. IsFiniteSet(chunks)
    BY <1>1, FS_EmptySet
  <1>6. QED
    BY <1>1, <1>2, <1>3, <1>4, <1>5
    DEF IndexInv, IndexTypes, IdsInv, CacheInv, VectorMatchesText

(* Whatever calls of index_file interleave, whatever is deleted between    *)
(* them and wherever they fail or the process ends.                        *)
THEOREM IndexInductive == Spec => []IndexInv
  <1>1. IndexInv /\ [Next]_vars => IndexInv'
    <2> SUFFICES ASSUME IndexInv, [Next]_vars PROVE IndexInv'
      OBVIOUS
    <2>1. CASE UNCHANGED vars
      BY <2>1 DEF IndexInv, IndexTypes, IdsInv, CacheInv, VectorMatchesText, JobInv, Holds,
                  vars
    <2>2. ASSUME NEW t \in Tasks, IndexFile(t) PROVE IndexInv'
      BY <2>2, LookupKeeps, UpsertKeeps, DeleteOldKeeps, InsertChunkKeeps, EmbedKeeps,
         StoreVectorKeeps DEF IndexFile
    <2>3. QED
      BY <2>1, <2>2, WalkersKeep, SleepKeeps, RestartKeeps DEF Next
  <1>2. QED
    BY <1>1, StartsIndexed, PTL DEF Spec

(* A stored vector is the embedding of the text of the chunk it is stored  *)
(* under: what _embed_and_store writes under the ids insert_chunks gave it *)
(* goes to those chunks or nowhere, though an await stands before each.    *)
THEOREM VectorsMatchTexts == Spec => []VectorMatchesText
  <1>1. IndexInv => VectorMatchesText
    BY DEF IndexInv
  <1>2. QED
    BY <1>1, IndexInductive, PTL

(* What light sleep read, and what it has found: chunks that had their ids *)
(* when it read them, of which it leaves no two near-duplicates.           *)
SleepInv ==
    /\ snapshot \in Seq(Chunk)
    /\ doomed \in SUBSET Nat
    /\ \A c \in Range(snapshot) : c.id =< lastId["chunk"]
    /\ KeptAreDistinct

(* A chunk that a step adds has an id above all before.                    *)
LEMMA ChunksAreFresh ==
  ASSUME IndexInv, [Next]_vars
  PROVE  /\ lastId["chunk"] \in Nat /\ lastId'["chunk"] \in Nat
         /\ lastId["chunk"] =< lastId'["chunk"]
         /\ \A c \in chunks' : c \in chunks \/ c.id > lastId["chunk"]
  <1>1. lastId \in [{"file", "chunk"} -> Nat] /\ lastId["chunk"] \in Nat
    BY DEF IndexInv, IndexTypes
  <1>2. ASSUME NEW t \in Tasks, InsertChunk(t)
        PROVE  \/ UNCHANGED <<chunks, lastId>>
               \/ /\ lastId'["chunk"] = lastId["chunk"] + 1
                  /\ \A c \in chunks' : c \in chunks \/ c.id = lastId["chunk"] + 1
    BY <1>1, <1>2 DEF InsertChunk, NextChunkId
  <1>3. ASSUME NEW t \in Tasks, Upsert(t)
        PROVE  chunks' = chunks /\ lastId'["chunk"] = lastId["chunk"]
    BY <1>1, <1>3 DEF Upsert
  <1>4. ASSUME \A t \in Tasks : ~InsertChunk(t) /\ ~Upsert(t)
        PROVE  chunks' \subseteq chunks /\ lastId' = lastId
    BY <1>4 DEF Next, vars, tables, IndexFile, Lookup, DeleteOld, Embed, StoreVector, KeepChunks,
                WalkNext, StartWatcher, WatcherNext, Edit, AppendMemory, LightSleep, SleepStart,
                SleepRead, SleepCompare, SleepEnd, SleepDelete, Restart
  <1>5. QED
    BY <1>1, <1>2, <1>3, <1>4

(* How a step may concern what light sleep has read and found.             *)
LEMMA SleepMoves ==
  ASSUME [Next]_vars
  PROVE  \/ UNCHANGED dedup /\ (sleep' = "deleting" => sleep = "deleting")
         \/ snapshot' = <<>> /\ doomed' \subseteq doomed
         \/ SleepRead
         \/ SleepCompare /\ sleep' = "deleting"
         \/ \E id \in doomed : SleepDelete(id)
  <1> DEFINE Stays == UNCHANGED dedup /\ (sleep' = "deleting" => sleep = "deleting")
  <1>1. ASSUME NEW t \in Tasks, IndexFile(t)
        PROVE  Stays
    <2> DEFINE Awake == sleep' = "deleting" => sleep = "deleting"
    <2>1. Return(t) => Awake
      BY DEF Return
    <2>2. Fail(t) => Awake
      BY DEF Fail
    <2>3. \A next : Proceed(t, next) => Awake
      BY DEF Proceed
    <2> HIDE DEF Awake
    <2>4. UNCHANGED dedup
      <3>1. Lookup(t) \/ Upsert(t) => UNCHANGED dedup
        BY DEF Lookup, Upsert
      <3>2. DeleteOld(t) \/ InsertChunk(t) => UNCHANGED dedup
        BY DEF DeleteOld, InsertChunk
      <3>3. Embed(t) => UNCHANGED dedup
        BY DEF Embed
      <3>4. StoreVector(t) => UNCHANGED dedup
        BY DEF StoreVector
      <3>5. QED
        BY <1>1, <3>1, <3>2, <3>3, <3>4 DEF IndexFile
    <2>5. Lookup(t) \/ DeleteOld(t) => Awake
      BY <2>1, <2>3 DEF Lookup, DeleteOld
    <2>6. Upsert(t) => Awake
      BY <2>3 DEF Upsert
    <2>7. InsertChunk(t) => Awake
      BY <2>2, <2>3 DEF InsertChunk
    <2>8. Embed(t) => Awake
      BY <2>2, <2>3 DEF Embed
    <2>9. StoreVector(t) => Awake
      BY <2>1, <2>2, <2>3 DEF StoreVector
    <2>10. QED
      BY <1>1, <2>4, <2>5, <2>6, <2>7, <2>8, <2>9 DEF IndexFile, Awake
  <1>2. ASSUME \/ \E w \in Walkers, f \in Files : WalkNext(w, f)
               \/ StartWatcher
               \/ \E f \in Files : WatcherNext(f) \/ Edit(f)
               \/ \E t \in Tools, f \in Files : AppendMemory(t, f)
               \/ UNCHANGED vars
        PROVE  Stays
    BY <1>2, SMTT(30) DEF WalkNext, StartWatcher, WatcherNext, Edit, AppendMemory, vars, sleepVars,
                          dedup
  <1>3. CASE LightSleep
    BY <1>3 DEF LightSleep, SleepStart, SleepCompare, SleepEnd, dedup
  <1>4. CASE Restart
    BY <1>4 DEF Restart
  <1>5. QED
    BY <1>1, <1>2, <1>3, <1>4 DEF Next

LEMMA RangeIs ==
  ASSUME NEW line \in Seq(Chunk)
  PROVE  /\ Range(line) \subseteq Chunk
         /\ \A c \in Range(line) : \E i \in 1..Len(line) : line[i] = c
  BY DEF Range

(* A comparison leaves no two near-duplicates: the double loop meets each  *)
(* two in one order or the other, and what it has removed by then it never *)
(* puts back.                                                              *)
LEMMA ComparisonLeavesDistinct ==
  ASSUME NEW line \in Seq(Chunk), NEW c \in Range(line), NEW d \in Range(line),
         c.id \notin Duplicates(line), d.id \notin Duplicates(line), c # d
  PROVE  <<c.text, d.text>> \notin Similar
  <1>1. PICK i \in 1..Len(line), j \in 1..Len(line) : line[i] = c /\ line[j] = d
    BY RangeIs
  <1>2. i < j \/ j < i
    BY <1>1
  <1>3. <<c.text, d.text>> \in Similar => <<d.text, c.text>> \in Similar
    <2>1. c.text \in Texts /\ d.text \in Texts
      BY RangeIs DEF Chunk
    <2>2. QED
      BY <2>1, SimilarAssumption
  <1>4. QED
    BY <1>1, <1>2, <1>3, DuplicatesAre

(* What the comparison finds are ids.                                      *)
LEMMA DuplicatesAreIds ==
  ASSUME NEW line \in Seq(Chunk)
  PROVE  Duplicates(line) \in SUBSET Nat
  <1>1. IdsOf(line) \subseteq Nat
    <2>1. \A k \in 1..Len(line) : line[k] \in Chunk
      OBVIOUS
    <2>2. \A c \in Chunk : c.id \in Nat
      BY DEF Chunk
    <2>3. QED
      BY <2>1, <2>2 DEF IdsOf
  <1>2. QED
    BY <1>1, DuplicatesAre

LEMMA SleepInvKept == IndexInv /\ SleepInv /\ [Next]_vars => SleepInv'
  <1> SUFFICES ASSUME IndexInv, SleepInv, [Next]_vars PROVE SleepInv'
    OBVIOUS
  <1>1. /\ lastId["chunk"] \in Nat /\ lastId'["chunk"] \in Nat
        /\ lastId["chunk"] =< lastId'["chunk"]
        /\ \A c \in chunks' : c \in chunks \/ c.id > lastId["chunk"]
    BY ChunksAreFresh
  <1>2. /\ snapshot \in Seq(Chunk) /\ doomed \in SUBSET Nat
        /\ \A c \in Range(snapshot) : c.id \in Nat /\ c.id =< lastId["chunk"]
    BY RangeIs DEF SleepInv, Chunk
  <1>3. \A c \in Range(snapshot) : c.id =< lastId'["chunk"] /\ (c \in chunks' => c \in chunks)
    BY <1>1, <1>2
  <1>4. CASE UNCHANGED dedup /\ (sleep' = "deleting" => sleep = "deleting")
    BY <1>2, <1>3, <1>4 DEF SleepInv, KeptAreDistinct, dedup
  <1>5. CASE snapshot' = <<>> /\ doomed' \subseteq doomed
    <2>1. <<>> \in Seq(Chunk) /\ Range(<<>>) = {}
      BY DEF Range
    <2>2. QED
      BY <1>2, <1>5, <2>1 DEF SleepInv, KeptAreDistinct
  <1>6. CASE SleepRead
    <2>1. /\ snapshot' = AllChunks /\ UNCHANGED <<chunks, doomed, lastId>>
          /\ sleep' = IF Cardinality(chunks) > 1 THEN "embedding" ELSE "deleting"
      BY <1>6 DEF SleepRead, tables
    <2>2. PICK line \in Seq(Chunk) : line = AllChunks /\ \A i \in 1..Len(line) : line[i] \in chunks
      BY AllChunksAre
    <2>3. Range(line) \subseteq chunks
      BY <2>2, RangeIs
    <2>4. \A c \in Range(line) : c.id =< lastId["chunk"]
      BY <2>3 DEF IndexInv, IdsInv
    <2>5. ASSUME Cardinality(chunks) \leq 1, NEW c \in chunks, NEW d \in chunks PROVE c = d
      <3>1. IsFiniteSet(chunks) /\ {c, d} \in SUBSET chunks
        BY DEF IndexInv, IdsInv
      <3>2. Cardinality({c, d}) =< Cardinality(chunks) /\ Cardinality(chunks) \in Nat
        BY <3>1, FS_Subset, FS_CardinalityType
      <3>3. ASSUME c # d PROVE Cardinality({c, d}) = 2
        <4>1. PICK one : one = {c} /\ IsFiniteSet(one) /\ Cardinality(one) = 1
          BY FS_Singleton
        <4>2. Cardinality(one \cup {d}) = 2
          <5>1. d \notin one
            BY <3>3, <4>1
          <5>2. Cardinality(one \cup {d}) = Cardinality(one) + 1
            BY <4>1, <5>1, FS_AddElement
          <5>3. QED
            BY <4>1, <5>2
        <4>3. one \cup {d} = {c, d}
          BY <4>1
        <4>4. QED
          BY <4>2, <4>3
      <3>4. QED
        BY <2>5, <3>2, <3>3
    <2>6. Cardinality(chunks) \in Nat
      BY FS_CardinalityType DEF IndexInv, IdsInv
    <2>7. KeptAreDistinct'
      BY <2>1, <2>2, <2>3, <2>5, <2>6 DEF KeptAreDistinct
    <2>8. QED
      BY <1>2, <2>1, <2>2, <2>4, <2>7 DEF SleepInv
  <1>7. CASE SleepCompare /\ sleep' = "deleting"
    <2>1. snapshot' = snapshot /\ doomed' = Duplicates(snapshot)
      BY <1>7 DEF SleepCompare
    <2>2. KeptAreDistinct'
      BY <1>2, <2>1, ComparisonLeavesDistinct DEF KeptAreDistinct
    <2>3. doomed' \in SUBSET Nat
      BY <1>2, <2>1, DuplicatesAreIds
    <2>4. snapshot' \in Seq(Chunk) /\ \A c \in Range(snapshot') : c.id =< lastId'["chunk"]
      BY <1>2, <1>3, <2>1
    <2>5. QED
      BY <2>2, <2>3, <2>4 DEF SleepInv
  <1>8. ASSUME NEW id \in doomed, SleepDelete(id) PROVE SleepInv'
    <2>1. /\ UNCHANGED <<snapshot, sleep>> /\ doomed' = doomed \ {id}
          /\ \A c \in chunks' : c \in chunks /\ c.id # id
      BY <1>8 DEF SleepDelete, KeepChunks
    <2>2. KeptAreDistinct'
      BY <2>1 DEF SleepInv, KeptAreDistinct
    <2>3. QED
      BY <1>2, <1>3, <2>1, <2>2 DEF SleepInv
  <1>9. QED
    BY <1>4, <1>5, <1>6, <1>7, <1>8, SleepMoves

LEMMA StartsAsleep == Init => SleepInv
  <1>1. <<>> \in Seq(Chunk) /\ Range(<<>>) = {}
    BY DEF Range
  <1>2. QED
    BY <1>1 DEF Init, InitExceptContent, SleepInv, KeptAreDistinct

(* What light sleep has read and found stays as SleepInv says, in every    *)
(* phase and through every step of the other tasks.                        *)
THEOREM SleepInductive == Spec => []SleepInv
  BY StartsAsleep, SleepInvKept, IndexInductive, PTL DEF Spec

(* Every variable keeps its type; of what light sleep finds it follows     *)
(* from what its double loop can add.                                      *)
THEOREM MemoryTypes == Spec => []TypeOK
  <1>1. IndexInv /\ SleepInv => TypeOK
    BY DEF IndexInv, IndexTypes, SleepInv, TypeOK
  <1>2. QED
    BY <1>1, IndexInductive, SleepInductive, PTL

(* Of the chunks light sleep read, no two that it leaves in the table are  *)
(* near-duplicates, although others insert and delete chunks while it has  *)
(* them embedded: a chunk that comes later has an id that was never read.  *)
THEOREM LightSleepKeepsDistinct == Spec => []KeptAreDistinct
  <1>1. SleepInv => KeptAreDistinct
    BY DEF SleepInv
  <1>2. QED
    BY <1>1, SleepInductive, PTL
=============================================================================
