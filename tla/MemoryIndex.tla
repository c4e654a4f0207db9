----------------------------- MODULE MemoryIndex -----------------------------
(***************************************************************************)
(* The shadow index of the memory files (polarsclaw/memory): FileIndexer   *)
(* as it is driven by the start of the daemon, the file watcher, the       *)
(* memory_append tool and light sleep, and the tables it writes.           *)
(*                                                                         *)
(* A step is one access to the database or one call of the embedding       *)
(* provider; every one of them is awaited.  Reading and writing a file     *)
(* does not suspend.                                                       *)
(***************************************************************************)
EXTENDS Integers, Sequences, FiniteSets, Functions

CONSTANTS
    Files,    \* the .md files
    Texts,    \* chunk texts
    Similar,  \* the pairs of texts whose embeddings are near-duplicates
    Tools,    \* calls of memory_append
    MaxLen,   \* bound: chunks in a file
    MaxEvents,\* bound: changes of files, light sleeps, restarts
    MaxRow,   \* bound: row numbers of other tables
    None      \* no file, no row

ASSUME SimilarAssumption ==
    /\ Similar \in SUBSET (Texts \X Texts)
    /\ \A x, y \in Texts : <<x, x>> \in Similar
                           /\ (<<x, y>> \in Similar => <<y, x>> \in Similar)
ASSUME NoneAssumption == None \notin Files /\ None \notin Texts
ASSUME BoundsAssumption == MaxLen \in Nat /\ MaxEvents \in Nat /\ MaxRow \in Nat

(* A file is given by its chunks, and the hash of a file by the file.      *)
Contents == UNION {[1..n -> Texts] : n \in 0..MaxLen}

Walkers == {"startup", "sleep"}
Tasks == Walkers \cup {"watcher"} \cup Tools

VARIABLES
    content,  \* what each file holds
    events,   \* number of changes of files, light sleeps, restarts
    files,    \* mem_files
    chunks,   \* mem_chunks
    vectors,  \* mem_chunks_vec: chunk id and the text its embedding is of
    cache,    \* mem_embedding_cache: text and the text its embedding is of
    lastId,   \* sqlite_sequence: the last ids given to files and chunks
    job,      \* the call of index_file each task is in
    walk,     \* the files startup and light sleep have yet to index
    mode,     \* the memory subsystem: starting, on, or given up
    dirty,    \* changed files the watcher has yet to index
    sleep,    \* phase of light sleep
    snapshot, \* the chunks light sleep has read
    doomed    \* the duplicates light sleep has yet to delete

vars == <<content, events, files, chunks, vectors, cache, lastId, job, walk,
          mode, dirty, sleep, snapshot, doomed>>

disk == <<content, events>>
tables == <<files, chunks, vectors, cache, lastId>>
dedup == <<snapshot, doomed>>
sleepVars == <<sleep, dedup>>

FileRow == [id : Nat, hash : Contents]
Chunk == [id : Nat, file : Nat, index : Nat, text : Texts]
Embedding == [chunk : Nat, of : Texts]
Cached == [text : Texts, of : Texts]
Job == [pc : {"idle", "lookup", "upsert", "delete", "insert", "embed", "store"},
        file : Files \cup {None}, text : Contents, row : Nat,
        ids : Seq(Nat), blobs : Seq(Texts)]

TypeOK ==
    /\ content \in [Files -> Contents \cup {None}]
    /\ events \in Nat
    /\ files \in [Files -> FileRow \cup {None}]
    /\ chunks \in SUBSET Chunk
    /\ vectors \in SUBSET Embedding
    /\ cache \in SUBSET Cached
    /\ lastId \in [{"file", "chunk"} -> Nat]
    /\ job \in [Tasks -> Job]
    /\ walk \in [Walkers -> SUBSET Files]
    /\ mode \in {"starting", "on", "off"}
    /\ dirty \in SUBSET Files
    /\ sleep \in {"no", "indexing", "embedding", "deleting"}
    /\ snapshot \in Seq(Chunk)
    /\ doomed \in SUBSET Nat

Idle == [pc |-> "idle", file |-> None, text |-> <<>>, row |-> 0,
         ids |-> <<>>, blobs |-> <<>>]

Present == {f \in Files : content[f] # None}

Event == events < MaxEvents /\ events' = events + 1

InitExceptContent ==
    /\ events = 0
    /\ files = [f \in Files |-> None]
    /\ chunks = {}
    /\ vectors = {}
    /\ cache = {}
    /\ lastId = [file |-> 0, chunk |-> 0]
    /\ job = [t \in Tasks |-> Idle]
    /\ walk = [w \in Walkers |-> IF w = "startup" THEN Present ELSE {}]
    /\ mode = "starting"
    /\ dirty = {}
    /\ sleep = "no"
    /\ snapshot = <<>>
    /\ doomed = {}

Init == content \in [Files -> Contents \cup {None}] /\ InitExceptContent

-----------------------------------------------------------------------------
(* How a call of index_file begins and ends *)

(* A missing file is skipped; otherwise its text is read, once and for the *)
(* whole call.                                                             *)
Opened(f, text) ==
    IF text = None THEN Idle ELSE [Idle EXCEPT !.pc = "lookup", !.file = f, !.text = text]

Return(t) ==
    /\ job' = [job EXCEPT ![t] = Idle]
    /\ UNCHANGED <<walk, mode, sleep>>

(* An exception leaves index_file: at startup it takes the whole subsystem *)
(* down, in light sleep it ends the run; the watcher and the tool report   *)
(* it.                                                                     *)
Fail(t) ==
    /\ job' = [job EXCEPT ![t] = Idle]
    /\ walk' = IF t \in Walkers THEN [walk EXCEPT ![t] = {}] ELSE walk
    /\ mode' = IF t = "startup" THEN "off" ELSE mode
    /\ sleep' = IF t = "sleep" THEN "no" ELSE sleep

Proceed(t, next) ==
    /\ job' = [job EXCEPT ![t] = next]
    /\ UNCHANGED <<walk, mode, sleep>>

-----------------------------------------------------------------------------
(* index_file *)

(* get_file: an unchanged file is skipped.                                 *)
Lookup(t) ==
    LET row == files[job[t].file] IN
    /\ job[t].pc = "lookup"
    /\ IF row # None /\ row.hash = job[t].text
       THEN Return(t)
       ELSE Proceed(t, [job[t] EXCEPT !.pc = "upsert"])
    /\ UNCHANGED <<disk, tables, dirty, dedup>>

(* upsert_file gives the cursor's lastrowid.  After an insert that is the  *)
(* id of the row; an update by conflict leaves it as the connection's last *)
(* insert made it, which was into any of the tables, or 0 when there was   *)
(* none.                                                                   *)
Upsert(t) ==
    LET f   == job[t].file
        old == files[f]
        new == lastId["file"] + 1
    IN  /\ job[t].pc = "upsert"
        /\ IF old = None
           THEN /\ files' = [files EXCEPT ![f] = [id |-> new, hash |-> job[t].text]]
                /\ lastId' = [lastId EXCEPT !["file"] = new]
                /\ Proceed(t, [job[t] EXCEPT !.pc = "delete", !.row = new])
           ELSE /\ files' = [files EXCEPT ![f].hash = job[t].text]
                /\ \E n \in 0..MaxRow :
                      Proceed(t, [job[t] EXCEPT !.pc = "delete", !.row = n])
                /\ UNCHANGED lastId
        /\ UNCHANGED <<disk, chunks, vectors, cache, dirty, dedup>>

(* The vectors of a chunk go with it.                                      *)
KeepChunks(kept) ==
    /\ chunks' = kept
    /\ vectors' = {v \in vectors : \E c \in kept : c.id = v.chunk}

DeleteOld(t) ==
    /\ job[t].pc = "delete"
    /\ KeepChunks({c \in chunks : c.file # job[t].row})
    /\ IF job[t].text = <<>>
       THEN Return(t)
       ELSE Proceed(t, [job[t] EXCEPT !.pc = "insert"])
    /\ UNCHANGED <<disk, files, cache, lastId, dirty, dedup>>

(* Mutant of NextChunkId: without AUTOINCREMENT ids are used again.        *)
ReusedChunkId ==
    IF chunks = {} THEN 1
    ELSE 1 + CHOOSE n \in {c.id : c \in chunks} : \A c \in chunks : c.id <= n

NextChunkId == lastId["chunk"] + 1

(* The next chunk is inserted, unless its file has no row.                 *)
InsertChunk(t) ==
    LET i  == Len(job[t].ids) + 1
        id == NextChunkId
    IN  /\ job[t].pc = "insert"
        /\ IF \E f \in Files : files[f] # None /\ files[f].id = job[t].row
           THEN /\ chunks' = chunks \cup {[id |-> id, file |-> job[t].row,
                                           index |-> i, text |-> job[t].text[i]]}
                /\ lastId' = [lastId EXCEPT !["chunk"] = id]
                /\ Proceed(t, [job[t] EXCEPT
                                  !.ids = Append(@, id),
                                  !.pc = IF i = Len(job[t].text)
                                         THEN "embed" ELSE "insert"])
           ELSE Fail(t) /\ UNCHANGED <<chunks, lastId>>
        /\ UNCHANGED <<disk, files, vectors, cache, dirty, dedup>>

-----------------------------------------------------------------------------
(* _embed_and_store *)

CacheHit(x) == \E e \in cache : e.text = x

(* The positions of the texts the cache does not have.                     *)
Uncached(texts) == {i \in 1..Len(texts) : ~CacheHit(texts[i])}

(* They are sent in order: the place of position i.                        *)
PlaceSent(texts, i) == Cardinality({j \in Uncached(texts) : j <= i})

Sent(texts) ==
    [n \in 1..Cardinality(Uncached(texts)) |->
        texts[CHOOSE i \in Uncached(texts) : PlaceSent(texts, i) = n]]

Lookups(x) == (CHOOSE e \in cache : e.text = x).of

(* Mutant of Blobs: what the cache has is not carried over.                *)
BlobsSentOnly(texts, embeddings) ==
    [i \in 1..Len(texts) |->
        IF CacheHit(texts[i]) THEN None ELSE embeddings[PlaceSent(texts, i)]]

(* What is stored for each chunk: the cached embedding, or the one at the  *)
(* place its text had among those sent to the provider.                    *)
Blobs(texts, embeddings) ==
    [i \in 1..Len(texts) |->
        IF CacheHit(texts[i]) THEN Lookups(texts[i])
        ELSE embeddings[PlaceSent(texts, i)]]

(* The cache is read, the texts it lacks are embedded and put into it.     *)
(* The accesses are one step here: entries are never deleted, and two      *)
(* writers of one text write the same.  The provider may fail.             *)
Embed(t) ==
    LET texts == job[t].text
        blobs == Blobs(texts, Sent(texts))
    IN  /\ job[t].pc = "embed"
        /\ \/ /\ cache' = cache \cup {[text |-> texts[i], of |-> blobs[i]] :
                                         i \in Uncached(texts)}
              /\ Proceed(t, [job[t] EXCEPT !.pc = "store", !.blobs = blobs])
           \/ /\ Uncached(texts) # {}
              /\ Fail(t)
              /\ UNCHANGED cache
        /\ UNCHANGED <<disk, files, chunks, vectors, lastId, dirty, dedup>>

(* upsert_vectors, one chunk at a time; a chunk that is gone fails the     *)
(* foreign key.                                                            *)
StoreVector(t) ==
    LET id == Head(job[t].ids) IN
    /\ job[t].pc = "store"
    /\ IF \E c \in chunks : c.id = id
       THEN /\ vectors' = {v \in vectors : v.chunk # id}
                              \cup {[chunk |-> id, of |-> Head(job[t].blobs)]}
            /\ IF Len(job[t].ids) = 1
               THEN Return(t)
               ELSE Proceed(t, [job[t] EXCEPT !.ids = Tail(@), !.blobs = Tail(@)])
       ELSE Fail(t) /\ UNCHANGED vectors
    /\ UNCHANGED <<disk, files, chunks, cache, lastId, dirty, dedup>>

-----------------------------------------------------------------------------
(* Who indexes *)

(* _index_existing_files and, in light sleep, index_directory; the files   *)
(* are taken to be ones that both find, those under memory/.               *)
WalkNext(w, f) ==
    /\ job[w].pc = "idle"
    /\ f \in walk[w]
    /\ walk' = [walk EXCEPT ![w] = @ \ {f}]
    /\ job' = [job EXCEPT ![w] = Opened(f, content[f])]
    /\ UNCHANGED <<disk, tables, mode, dirty, sleepVars>>

(* initialize is through; the watcher sees what changes from here on, and  *)
(* nothing that changed before.                                            *)
StartWatcher ==
    /\ mode = "starting"
    /\ walk["startup"] = {}
    /\ job["startup"].pc = "idle"
    /\ mode' = "on"
    /\ UNCHANGED <<disk, tables, job, walk, dirty, sleepVars>>

WatcherNext(f) ==
    /\ mode = "on"
    /\ job["watcher"].pc = "idle"
    /\ f \in dirty
    /\ dirty' = dirty \ {f}
    /\ job' = [job EXCEPT !["watcher"] = Opened(f, content[f])]
    /\ UNCHANGED <<disk, tables, walk, mode, sleepVars>>

Change(f, text) ==
    /\ Event
    /\ content' = [content EXCEPT ![f] = text]
    /\ dirty' = IF mode = "on" THEN dirty \cup {f} ELSE dirty

(* Somebody edits or removes the file; the notes and reports of the sleep  *)
(* jobs are edits.                                                         *)
Edit(f) ==
    /\ \E text \in (Contents \cup {None}) \ {content[f]} : Change(f, text)
    /\ UNCHANGED <<tables, job, walk, mode, sleepVars>>

(* append_memory: an entry goes to the end of the file, which is then      *)
(* indexed.  (The first append of a day raises: there is no file to read.) *)
AppendMemory(t, f) ==
    /\ mode = "on"
    /\ job[t].pc = "idle"
    /\ content[f] # None
    /\ Len(content[f]) < MaxLen
    /\ \E x \in Texts :
          /\ Change(f, Append(content[f], x))
          /\ job' = [job EXCEPT ![t] = Opened(f, Append(content[f], x))]
    /\ UNCHANGED <<tables, walk, mode, sleepVars>>

-----------------------------------------------------------------------------
(* LightSleep.run *)

SleepStart ==
    /\ mode = "on"
    /\ sleep = "no"
    /\ sleep' = "indexing"
    /\ walk' = [walk EXCEPT !["sleep"] = Present]
    /\ Event
    /\ UNCHANGED <<content, tables, job, mode, dirty, dedup>>

(* get_all_chunks.  Paths are taken to sort as their rows' ids, and        *)
(* created_at to grow with the id.                                         *)
Precedes(c, d) ==
    \/ c.file < d.file
    \/ c.file = d.file /\ c.index < d.index
    \/ c.file = d.file /\ c.index = d.index /\ c.id < d.id

AllChunks ==
    [i \in 1..Cardinality(chunks) |->
        CHOOSE c \in chunks : Cardinality({d \in chunks : Precedes(d, c)}) = i - 1]

(* Mutant of Duplicates: each chunk is compared with the next one only.    *)
NextDuplicates(line) ==
    {line[j].id : j \in {k \in 2..Len(line) :
                            <<line[k - 1].text, line[k].text>> \in Similar}}

(* A chunk is compared with a later one that is still there; of two        *)
(* near-duplicates the older one is removed.                               *)
Compared(line, removed, i, j) ==
    IF line[j].id \in removed \/ <<line[i].text, line[j].text>> \notin Similar
    THEN removed
    ELSE removed \cup {IF line[i].id >= line[j].id THEN line[j].id ELSE line[i].id}

(* It is compared with all behind it, also when it is removed meanwhile.   *)
ComparedOn(line, removed, i) ==
    LET After[k \in 0..(Len(line) - i)] ==
            IF k = 0 THEN removed
            ELSE LET before == After[k - 1] IN Compared(line, before, i, i + k)
    IN  After[Len(line) - i]

(* The chunks in turn, but for those that were removed before.             *)
Duplicates(line) ==
    LET After[i \in 0..Len(line)] ==
            IF i = 0 THEN {}
            ELSE LET before == After[i - 1]
                 IN  IF line[i].id \in before THEN before
                     ELSE ComparedOn(line, before, i)
    IN  After[Len(line)]

(* The chunks are read, and embedded if there are two to compare.          *)
SleepRead ==
    /\ sleep = "indexing"
    /\ walk["sleep"] = {}
    /\ job["sleep"].pc = "idle"
    /\ snapshot' = AllChunks
    /\ sleep' = IF Cardinality(chunks) > 1 THEN "embedding" ELSE "deleting"
    /\ UNCHANGED <<disk, tables, job, walk, mode, dirty, doomed>>

(* The embeddings arrive, unless the provider fails, and what was read is  *)
(* compared, whatever has become of the chunks meanwhile.                  *)
SleepCompare ==
    /\ sleep = "embedding"
    /\ \/ sleep' = "deleting" /\ doomed' = Duplicates(snapshot) /\ UNCHANGED snapshot
       \/ sleep' = "no" /\ snapshot' = <<>> /\ UNCHANGED doomed
    /\ UNCHANGED <<disk, tables, job, walk, mode, dirty>>

(* delete_chunk, which does nothing for a chunk that is gone.              *)
SleepDelete(id) ==
    /\ id \in doomed
    /\ KeepChunks({c \in chunks : c.id # id})
    /\ doomed' = doomed \ {id}
    /\ UNCHANGED <<disk, files, cache, lastId, job, walk, mode, dirty, sleep, snapshot>>

SleepEnd ==
    /\ sleep = "deleting"
    /\ doomed = {}
    /\ sleep' = "no"
    /\ snapshot' = <<>>
    /\ UNCHANGED <<disk, tables, job, walk, mode, dirty, doomed>>

-----------------------------------------------------------------------------
(* The process ends at any point and is started again.                     *)
Restart ==
    /\ Event
    /\ job' = [t \in Tasks |-> Idle]
    /\ walk' = [w \in Walkers |-> IF w = "startup" THEN Present ELSE {}]
    /\ mode' = "starting"
    /\ dirty' = {}
    /\ sleep' = "no"
    /\ snapshot' = <<>>
    /\ doomed' = {}
    /\ UNCHANGED <<content, tables>>

IndexFile(t) ==
    \/ Lookup(t) \/ Upsert(t) \/ DeleteOld(t) \/ InsertChunk(t) \/ Embed(t)
    \/ StoreVector(t)

LightSleep ==
    \/ SleepStart \/ SleepRead \/ SleepCompare \/ SleepEnd
    \/ \E id \in doomed : SleepDelete(id)

Next ==
    \/ \E t \in Tasks : IndexFile(t)
    \/ \E w \in Walkers, f \in Files : WalkNext(w, f)
    \/ StartWatcher
    \/ \E f \in Files : WatcherNext(f) \/ Edit(f)
    \/ \E t \in Tools, f \in Files : AppendMemory(t, f)
    \/ LightSleep
    \/ Restart

Spec == Init /\ [][Next]_vars

-----------------------------------------------------------------------------
(* A vector is the embedding of the text of the chunk it is stored under:  *)
(* through the cache, the provider's answer for the rest, and a deletion   *)
(* of the chunk by another task between its insertion and its embedding.   *)
VectorMatchesText ==
    \A v \in vectors : \E c \in chunks : c.id = v.chunk /\ c.text = v.of

(* Of the chunks light sleep read, no two that it leaves in the table are  *)
(* near-duplicates: whatever the order and the ages it met them in, and    *)
(* whatever others insert and delete while it embeds and deletes.  What    *)
(* came after it read waits for the next run.                              *)
KeptAreDistinct ==
    sleep = "deleting" =>
        \A c, d \in chunks \cap Range(snapshot) :
            c.id \notin doomed /\ d.id \notin doomed /\ c # d
               => <<c.text, d.text>> \notin Similar

(* "Insert or update a tracked file. Returns the file row id."             *)
(* (upsert_file): what index_file goes on with is the row of its file.     *)
UpsertReturnsItsFile ==
    \A t \in Tasks :
        job[t].pc \in {"delete", "insert"} => job[t].row = files[job[t].file].id

=============================================================================
