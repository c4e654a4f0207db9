----------------------------- MODULE CronProofs -----------------------------
(***************************************************************************)
(* Proofs about Cron for any processes, callers, names and expressions:    *)
(* types, results that stay with their job, removed jobs that stay away    *)
(* from the process that removed them, successes that were answered, and   *)
(* memory jobs that come back at every start and are never sent to an      *)
(* agent.                                                                  *)
(***************************************************************************)
EXTENDS Cron, TLAPS

(* What the types of the variables of an application and its calls are.    *)
AppOK ==
    /\ phase \in [Process -> {"down", "failed", "loading", "memory", "agents", "up"}]
    /\ wish \in [Process -> Schedule \cup {None}]
    /\ left \in [Process -> Seq(RuntimeNames)]
    /\ memory \in [Process -> {"none", "on", "off"}]
    /\ call \in [Process -> [Thread -> Call]]
    /\ CallsInv

CallRow == [id : Nat, name : Name \cup {None},
            schedule : Schedule \cup {None}, task : Task]

LEMMA AppIs == TypeOK /\ CallsInv => AppOK
  BY DEF TypeOK, AppOK

LEMMA BootIsNoCaller == "boot" \notin Caller /\ "boot" \in Thread /\ Caller \subseteq Thread
  BY CallerAssumption DEF Thread

LEMMA IdleTypes == Idle \in Call /\ Idle.pc = "idle" /\ NoRow \in CallRow
  BY DEF Idle, NoRow, Call, CallRow, Task

-----------------------------------------------------------------------------
(* Calls *)

(* The call of c alone has changed.                                        *)
Only(p, c) ==
    \A q \in Process, d \in Thread : q # p \/ d # c => call'[q][d] = call[q][d]

(* No process has come up or gone down.                                    *)
Calm == \A q \in Process : phase[q] = "up" <=> phase'[q] = "up"

LEMMA SetIs ==
  ASSUME AppOK, NEW p \in Process, NEW c \in Thread, NEW pc, NEW row, Set(p, c, pc, row)
  PROVE  call'[p][c] = [pc |-> pc, row |-> row] /\ Only(p, c)
  BY DEF AppOK, Set, Only

LEMMA SetTypes ==
  ASSUME AppOK, NEW p \in Process, NEW c \in Thread,
         NEW pc \in {"idle", "update", "reget", "insert", "get", "added", "renewed", "delete"},
         NEW row \in CallRow, Set(p, c, pc, row)
  PROVE  call' \in [Process -> [Thread -> Call]]
  <1>1. [pc |-> pc, row |-> row] \in Call
    BY DEF Call, CallRow
  <1>2. QED
    BY <1>1 DEF AppOK, Set

LEMMA CallsKept ==
  ASSUME CallsInv, NEW p \in Process, NEW c \in Thread, Only(p, c), UNCHANGED wish,
         \A q \in Process : phase[q] \in {"down", "failed"} => phase'[q] \in {"down", "failed"},
         \A q \in Process : UNCHANGED <<phase[q], left[q]>> \/ (q = p /\ c = "boot"),
         call'[p][c].pc \notin {"idle", "delete"} => call'[p][c].row \in Row,
         c = "boot" => call'[p][c] = Idle \/ (phase'[p] = "memory" /\ left'[p] # <<>>),
         c \in Caller => call'[p][c].pc \in {"idle", "insert", "get", "added", "delete"}
  PROVE  CallsInv'
  <1> SUFFICES ASSUME NEW q \in Process
      PROVE  /\ phase'[q] \notin {"down", "failed"} => wish'[q] \in Schedule
             /\ call'[q]["boot"] # Idle => phase'[q] = "memory" /\ left'[q] # <<>>
             /\ \A d \in Thread :
                  call'[q][d].pc \notin {"idle", "delete"} => call'[q][d].row \in Row
             /\ \A d \in Caller :
                  call'[q][d].pc \in {"idle", "insert", "get", "added", "delete"}
    BY DEF CallsInv, Idle, NoRow
  <1>1. phase'[q] \notin {"down", "failed"} => wish'[q] \in Schedule
    BY DEF CallsInv
  <1>2. call'[q]["boot"] # Idle => phase'[q] = "memory" /\ left'[q] # <<>>
    <2>1. CASE q = p /\ c = "boot"
      BY <2>1
    <2>2. CASE ~(q = p /\ c = "boot")
      BY <2>2, BootIsNoCaller DEF CallsInv, Only
    <2>3. QED
      BY <2>1, <2>2
  <1>3. \A d \in Thread : call'[q][d].pc \notin {"idle", "delete"} => call'[q][d].row \in Row
    BY DEF CallsInv, Only
  <1>4. \A d \in Caller : call'[q][d].pc \in {"idle", "insert", "get", "added", "delete"}
    BY BootIsNoCaller DEF CallsInv, Only
  <1>5. QED
    BY <1>1, <1>2, <1>3, <1>4

LEMMA SetKeeps ==
  ASSUME AppOK, NEW p \in Process, NEW c \in Thread,
         NEW pc \in {"update", "reget", "insert", "get", "added", "renewed"},
         NEW row \in Row, Set(p, c, pc, row), UNCHANGED app,
         c = "boot" => phase[p] = "memory" /\ left[p] # <<>>,
         c # "boot" => pc \in {"insert", "get", "added"}
  PROVE  AppOK'
  <1>1. row \in CallRow
    BY DEF Row, CallRow
  <1>2. call' \in [Process -> [Thread -> Call]]
    BY <1>1, SetTypes
  <1>3. call'[p][c] = [pc |-> pc, row |-> row] /\ Only(p, c)
    BY SetIs
  <1>4. CallsInv'
    <2>1. UNCHANGED <<phase, wish, left>>
      BY DEF app
    <2>2. call'[p][c].pc = pc /\ call'[p][c].row = row
      BY <1>3
    <2>3. c \in Caller => pc \in {"insert", "get", "added"}
      BY BootIsNoCaller
    <2>4. QED
      BY <1>3, <2>1, <2>2, <2>3, CallsKept DEF AppOK
  <1>5. QED
    BY <1>2, <1>4 DEF AppOK, app

LEMMA FailKeeps ==
  ASSUME AppOK, NEW p \in Process, NEW c \in Thread, Fail(p, c),
         c = "boot" => phase[p] = "memory"
  PROVE  AppOK' /\ Calm /\ Only(p, c) /\ call'[p][c].pc = "idle"
  <1>1. call' \in [Process -> [Thread -> Call]]
    BY SetTypes, IdleTypes DEF Fail
  <1>2. call'[p][c] = Idle /\ Only(p, c)
    BY SetIs DEF Fail, Idle
  <1>3. phase' \in [Process -> {"down", "failed", "loading", "memory", "agents", "up"}]
        /\ memory' \in [Process -> {"none", "on", "off"}]
        /\ \A q \in Process : phase'[q] = phase[q] \/ (q = p /\ c = "boot" /\ phase'[q] = "agents")
    BY DEF Fail, AppOK
  <1>4. UNCHANGED <<wish, left>>
    BY DEF Fail
  <1>5. CallsInv'
    BY <1>2, <1>3, <1>4, IdleTypes, CallsKept, SMTT(30) DEF AppOK
  <1>6. QED
    BY <1>1, <1>2, <1>3, <1>4, <1>5, IdleTypes DEF AppOK, Calm

LEMMA ReturnKeeps ==
  ASSUME AppOK, NEW p \in Process, NEW c \in Thread, Return(p, c),
         c = "boot" => phase[p] = "memory" /\ left[p] # <<>>
  PROVE  AppOK' /\ Calm /\ Only(p, c) /\ call'[p][c].pc = "idle"
  <1>1. call' \in [Process -> [Thread -> Call]]
    BY SetTypes, IdleTypes DEF Return
  <1>2. call'[p][c] = Idle /\ Only(p, c)
    BY SetIs DEF Return, Idle
  <1>3. phase' \in [Process -> {"down", "failed", "loading", "memory", "agents", "up"}]
        /\ memory' \in [Process -> {"none", "on", "off"}]
        /\ \A q \in Process : phase'[q] = phase[q] \/ (q = p /\ c = "boot" /\ phase'[q] = "agents")
    BY DEF Return, AppOK
  <1>4. /\ left' \in [Process -> Seq(RuntimeNames)] /\ wish' = wish
        /\ \A q \in Process : left'[q] = left[q] \/ (q = p /\ c = "boot")
    <2>1. c = "boot" => Tail(left[p]) \in Seq(RuntimeNames)
      BY DEF AppOK
    <2>2. QED
      BY <2>1 DEF Return, AppOK
  <1>5. CallsInv'
    BY <1>2, <1>3, <1>4, IdleTypes, CallsKept, SMTT(30) DEF AppOK
  <1>6. QED
    BY <1>1, <1>2, <1>3, <1>4, <1>5, IdleTypes DEF AppOK, Calm

LEMMA ValidateKeeps ==
  ASSUME AppOK, NEW p \in Process, NEW c \in Thread, NEW name \in Name,
         NEW schedule \in Schedule, NEW task \in Task, Validate(p, c, name, schedule, task),
         c = "boot" => phase[p] = "memory" /\ left[p] # <<>>
  PROVE  AppOK' /\ Calm /\ Only(p, c) /\ call'[p][c].pc \notin Naming
  <1>1. CASE schedule \in CronValid
    <2>1. PICK row \in Row : Set(p, c, "insert", row) /\ UNCHANGED app
      <3>1. [id |-> 0, name |-> name, schedule |-> schedule, task |-> task] \in Row
        BY DEF Row
      <3>2. QED
        BY <1>1, <3>1 DEF Validate
    <2>2. AppOK'
      BY <2>1, SetKeeps
    <2>3. call'[p][c].pc = "insert" /\ Only(p, c)
      BY <2>1 DEF Set, Only, AppOK
    <2>4. QED
      BY <2>1, <2>2, <2>3 DEF Naming, Calm, app
  <1>2. CASE schedule \notin CronValid
    BY <1>2, FailKeeps DEF Validate, Naming
  <1>3. QED
    BY <1>1, <1>2

-----------------------------------------------------------------------------
(* Names *)

Meant(x) == \E y \in Mentions : x.id = y.id /\ x.name = y.name

LEMMA AllMeant ==
  ASSUME TypeOK
  PROVE  /\ \A x \in rows \cup results : Meant(x)
         /\ \A q \in Process : \A x \in jobs[q] : Meant(x)
         /\ \A q \in Process : \A r \in running[q] : Meant(r.job)
         /\ \A q \in Process, d \in Thread : call[q][d].pc \in Naming => Meant(call[q][d].row)
  <1>1. \A x \in rows \cup results : x \in Mentions
    BY DEF Mentions
  <1>2. \A q \in Process : \A x \in jobs[q] : x \in Mentions
    BY DEF Mentions, Scheduled
  <1>3. ASSUME NEW q \in Process, NEW r \in running[q] PROVE r.job \in Mentions
    <2>1. r \in UNION {running[o] : o \in Process}
      BY <1>3
    <2>2. r.job \in Executed
      BY <2>1 DEF Executed
    <2>3. QED
      BY <2>2 DEF Mentions
  <1>4. ASSUME NEW q \in Process, NEW d \in Thread, call[q][d].pc \in Naming
        PROVE  call[q][d].row \in Mentions
    <2> DEFINE T == {u \in Process \X Thread : call[u[1]][u[2]].pc \in Naming}
    <2>1. <<q, d>> \in T
      BY <1>4
    <2>2. call[q][d].row \in Handled
      BY <2>1 DEF Handled
    <2>3. QED
      BY <2>2 DEF Mentions
  <1>5. QED
    BY <1>1, <1>2, <1>3, <1>4 DEF Meant

(* A step after which nothing is known that was not before.                *)
NothingNew ==
    /\ \A x \in rows' \cup results' : Meant(x)
    /\ \A q \in Process : \A x \in jobs'[q] : Meant(x)
    /\ \A q \in Process : \A r \in running'[q] : Meant(r.job)
    /\ \A q \in Process, d \in Thread : call'[q][d].pc \in Naming => Meant(call'[q][d].row)

LEMMA MentionsNext ==
  ASSUME NEW x \in Mentions'
  PROVE  \/ x \in rows' \cup results'
         \/ \E q \in Process : x \in jobs'[q]
         \/ \E q \in Process : \E r \in running'[q] : x = r.job
         \/ \E q \in Process, d \in Thread : call'[q][d].pc \in Naming /\ x = call'[q][d].row
  <1>1. CASE x \in Handled'
    <2>1. PICK t \in Process \X Thread :
            call'[t[1]][t[2]].pc \in Naming /\ x = call'[t[1]][t[2]].row
      BY <1>1 DEF Handled, Naming
    <2>2. t[1] \in Process /\ t[2] \in Thread
      BY <2>1
    <2>3. QED
      BY <2>1, <2>2
  <1>2. CASE x \in Scheduled'
    BY <1>2 DEF Scheduled
  <1>3. CASE x \in Executed'
    BY <1>3 DEF Executed
  <1>4. QED
    BY <1>1, <1>2, <1>3 DEF Mentions

LEMMA NamesKept ==
  ASSUME NamesInv, NothingNew, lastId' = lastId
  PROVE  NamesInv'
  <1>1. \A x \in Mentions' : Meant(x)
    BY MentionsNext DEF NothingNew
  <1>2. QED
    BY <1>1 DEF NamesInv, Meant

-----------------------------------------------------------------------------
(* Removed jobs *)

(* Calls that create nothing that was removed.                             *)
LEMMA GoneKept ==
  ASSUME GoneInv, Calm, UNCHANGED <<gone, lastId, jobs>>,
         \A q \in Process : \A i \in Creating(q)' : i \notin gone[q]
  PROVE  GoneInv'
  BY DEF GoneInv, Calm, Ids

LEMMA CreatingNext ==
  ASSUME NEW p \in Process, NEW c \in Thread, Only(p, c), NEW q \in Process, NEW i \in Creating(q)'
  PROVE  \/ i \in Creating(q)
         \/ q = p /\ c \in Caller /\ call'[p][c].pc \in {"get", "added"} /\ i = call'[p][c].row.id
  <1>1. PICK d \in Caller : call'[q][d].pc \in {"get", "added"} /\ i = call'[q][d].row.id
    BY DEF Creating
  <1>2. CASE q = p /\ d = c
    BY <1>1, <1>2
  <1>3. CASE ~(q = p /\ d = c)
    BY <1>1, <1>3, BootIsNoCaller DEF Only, Creating
  <1>4. QED
    BY <1>2, <1>3

-----------------------------------------------------------------------------
(* The actions *)

DataOK ==
    /\ rows \in SUBSET Row
    /\ results \in SUBSET Result
    /\ lastId \in Nat
    /\ jobs \in [Process -> SUBSET Row]
    /\ callbacks \in [Process -> SUBSET Nat]
    /\ running \in [Process -> SUBSET Run]
    /\ boots \in Nat /\ runs \in Nat /\ calls \in Nat
    /\ crowded \in [Process -> BOOLEAN]
    /\ gone \in [Process -> SUBSET Nat]

LEMMA Split == TypeOK /\ CallsInv <=> AppOK /\ DataOK
  BY DEF TypeOK, AppOK, DataOK

LEMMA SplitNext == (TypeOK /\ CallsInv)' <=> AppOK' /\ DataOK'
  BY DEF TypeOK, AppOK, DataOK

(* An access to the database in a call: what the call then knows of its    *)
(* row was known, and the process did not remove it.                       *)
LEMMA CallKeeps ==
  ASSUME CronInv, NEW p \in Process, NEW c \in Thread,
         AppOK', DataOK', Calm, Only(p, c),
         UNCHANGED <<results, lastId, jobs, running, gone>>,
         \A x \in rows' : Meant(x),
         call'[p][c].pc \in Naming => Meant(call'[p][c].row),
         c \in Caller /\ call'[p][c].pc \in {"get", "added"} => call'[p][c].row.id \notin gone[p]
  PROVE  CronInv'
  <1>1. NothingNew
    BY AllMeant DEF CronInv, NothingNew, Only
  <1>2. NamesInv'
    BY <1>1, NamesKept DEF CronInv
  <1>3. \A q \in Process : \A i \in Creating(q)' : i \notin gone[q]
    BY CreatingNext DEF CronInv, GoneInv
  <1>4. GoneInv'
    BY <1>3, GoneKept DEF CronInv
  <1>5. QED
    BY <1>2, <1>4, SplitNext DEF CronInv

LEMMA FindKeeps == ASSUME CronInv, NEW p \in Process, Find(p) PROVE CronInv'
  <1> DEFINE name == Head(left[p])
  <1>1. /\ AppOK /\ DataOK /\ phase[p] = "memory" /\ left[p] # <<>>
        /\ "boot" \in Thread /\ "boot" \notin Caller
    BY Split, BootIsNoCaller DEF CronInv, Find
  <1>2. name \in RuntimeNames /\ wish[p] \in Schedule
    <2>1. left[p] \in Seq(RuntimeNames)
      BY <1>1 DEF AppOK
    <2>2. QED
      BY <1>1, <2>1, SMTT(30) DEF AppOK, CallsInv
  <1>3. name \in Name /\ name \in Task
    BY <1>2 DEF Name, Task
  <1>4. UNCHANGED <<table, results, jobs, callbacks, running, hist>>
    BY DEF Find
  <1>5. DataOK' /\ \A x \in rows' : Meant(x)
    BY <1>1, <1>4, AllMeant DEF DataOK, table, hist, CronInv
  <1>6. CASE Validate(p, "boot", name, wish[p], name)
    <2>1. AppOK' /\ Calm /\ Only(p, "boot") /\ call'[p]["boot"].pc \notin Naming
      BY <1>1, <1>2, <1>3, <1>6, ValidateKeeps
    <2>2. QED
      BY <1>1, <1>4, <1>5, <2>1, CallKeeps DEF table, hist
  <1>7. CASE \E r \in rows : Set(p, "boot", "update",
                                 [r EXCEPT !.schedule = wish[p], !.task = name]) /\ UNCHANGED app
    <2>1. PICK r \in rows : Set(p, "boot", "update",
                                 [r EXCEPT !.schedule = wish[p], !.task = name]) /\ UNCHANGED app
      BY <1>7
    <2>2. PICK row \in Row : /\ row.id = r.id /\ row.name = r.name
                             /\ Set(p, "boot", "update", row)
      <3>1. [r EXCEPT !.schedule = wish[p], !.task = name] \in Row
        BY <1>1, <1>2, <1>3 DEF DataOK, Row
      <3>2. QED
        BY <1>1, <2>1, <3>1 DEF DataOK, Row
    <2>3. Meant(row)
      BY <2>2, AllMeant DEF CronInv, Meant
    <2>4. AppOK' /\ Calm
      BY <1>1, <2>1, <2>2, SetKeeps DEF Calm, app
    <2>5. call'[p]["boot"] = [pc |-> "update", row |-> row] /\ Only(p, "boot")
      BY <1>1, <2>2 DEF Set, AppOK, Only
    <2>6. QED
      BY <1>1, <1>4, <1>5, <2>3, <2>4, <2>5, CallKeeps DEF table, hist
  <1>8. QED
    BY <1>6, <1>7 DEF Find

LEMMA UpdateKeeps == ASSUME CronInv, NEW p \in Process, Update(p) PROVE CronInv'
  <1>1. /\ AppOK /\ DataOK /\ "boot" \in Thread /\ "boot" \notin Caller
        /\ call[p]["boot"] # Idle /\ call[p]["boot"].pc = "update"
    BY Split, BootIsNoCaller, IdleTypes DEF CronInv, Update
  <1>2. PICK row \in Row : row = call[p]["boot"].row
    BY <1>1 DEF AppOK, CallsInv
  <1>3. phase[p] = "memory" /\ left[p] # <<>> /\ Meant(row)
    BY <1>1, <1>2, AllMeant DEF AppOK, CallsInv, CronInv, Naming
  <1>4. Set(p, "boot", "reget", row) /\ UNCHANGED app
    BY <1>2 DEF Update
  <1>5. AppOK' /\ Calm
    BY <1>1, <1>3, <1>4, SetKeeps DEF Calm, app
  <1>6. call'[p]["boot"] = [pc |-> "reget", row |-> row] /\ Only(p, "boot")
    BY <1>1, <1>4 DEF Set, AppOK, Only
  <1>7. /\ rows' \in SUBSET Row /\ crowded' \in [Process -> BOOLEAN]
        /\ \A x \in rows' : Meant(x)
    <2>1. CASE UNCHANGED <<rows, crowded>>
      BY <1>1, <2>1, AllMeant DEF DataOK, CronInv
    <2>2. CASE \E r \in rows : r.id = row.id /\
                 Write(p, Put(rows, [r EXCEPT !.schedule = row.schedule, !.task = row.task]))
      <3>1. PICK r \in rows : r.id = row.id /\
                 Write(p, Put(rows, [r EXCEPT !.schedule = row.schedule, !.task = row.task]))
        BY <2>2
      <3>2. PICK new \in Row : /\ new.id = r.id /\ new.name = r.name
                              /\ rows' = Without(rows, new.id) \cup {new}
        <4>1. [r EXCEPT !.schedule = row.schedule, !.task = row.task] \in Row
          BY <1>1 DEF DataOK, Row
        <4>2. QED
          BY <1>1, <3>1, <4>1 DEF Write, Put, DataOK, Row
      <3>3. Meant(new)
        BY <3>2, AllMeant DEF CronInv, Meant
      <3>4. crowded' \in [Process -> BOOLEAN]
        BY <1>1, <3>1 DEF Write, DataOK, Busy
      <3>5. QED
        BY <1>1, <3>2, <3>3, <3>4, AllMeant DEF DataOK, CronInv, Without
    <2>3. QED
      BY <1>2, <2>1, <2>2 DEF Update
  <1>8. UNCHANGED <<results, lastId, app, jobs, callbacks, running, hist>>
    BY DEF Update
  <1>9. DataOK'
    BY <1>1, <1>7, <1>8 DEF DataOK, hist
  <1>10. QED
    BY <1>1, <1>3, <1>5, <1>6, <1>7, <1>8, <1>9, CallKeeps DEF hist

LEMMA RegetKeeps == ASSUME CronInv, NEW p \in Process, Reget(p) PROVE CronInv'
  <1>1. /\ AppOK /\ DataOK /\ "boot" \in Thread /\ "boot" \notin Caller
        /\ call[p]["boot"] # Idle /\ call[p]["boot"].pc = "reget"
    BY Split, BootIsNoCaller DEF CronInv, Reget, Idle
  <1>2. PICK row \in Row : row = call[p]["boot"].row
    BY <1>1 DEF AppOK, CallsInv
  <1>3. phase[p] = "memory" /\ left[p] # <<>>
    BY <1>1 DEF AppOK, CallsInv
  <1>4. UNCHANGED <<table, results, jobs, callbacks, running, hist>>
    BY DEF Reget
  <1>5. DataOK' /\ \A x \in rows' : Meant(x)
    BY <1>1, <1>4, AllMeant DEF DataOK, table, hist, CronInv
  <1>6. CASE Validate(p, "boot", row.name, row.schedule, row.task)
    <2>1. row.name \in Name /\ row.schedule \in Schedule /\ row.task \in Task
      BY DEF Row
    <2>2. AppOK' /\ Calm /\ Only(p, "boot") /\ call'[p]["boot"].pc \notin Naming
      BY <1>1, <1>3, <1>6, <2>1, ValidateKeeps
    <2>3. QED
      BY <1>1, <1>4, <1>5, <2>2, CallKeeps DEF table, hist
  <1>7. CASE (\E r \in rows : Set(p, "boot", "renewed", r)) /\ UNCHANGED app
    <2>1. PICK r \in rows : Set(p, "boot", "renewed", r) /\ UNCHANGED app
      BY <1>7
    <2>2. r \in Row /\ Meant(r)
      BY <1>1, AllMeant DEF DataOK, CronInv
    <2>3. AppOK' /\ Calm
      BY <1>1, <1>3, <2>1, <2>2, SetKeeps DEF Calm, app
    <2>4. call'[p]["boot"] = [pc |-> "renewed", row |-> r] /\ Only(p, "boot")
      BY <1>1, <2>1 DEF Set, AppOK, Only
    <2>5. QED
      BY <1>1, <1>4, <1>5, <2>2, <2>3, <2>4, CallKeeps DEF table, hist
  <1>8. QED
    BY <1>2, <1>6, <1>7 DEF Reget

LEMMA GetKeeps == ASSUME CronInv, NEW p \in Process, NEW c \in Thread, Get(p, c) PROVE CronInv'
  <1>1. /\ AppOK /\ DataOK
        /\ call[p][c] # Idle /\ call[p][c].pc = "get"
    BY Split DEF CronInv, Get, Idle
  <1>2. c = "boot" => phase[p] = "memory" /\ left[p] # <<>>
    BY <1>1 DEF AppOK, CallsInv
  <1>3. UNCHANGED <<table, results, jobs, callbacks, running, hist>>
    BY DEF Get
  <1>4. DataOK' /\ \A x \in rows' : Meant(x)
    BY <1>1, <1>3, AllMeant DEF DataOK, table, hist, CronInv
  <1>5. CASE Fail(p, c)
    <2>1. AppOK' /\ Calm /\ Only(p, c) /\ call'[p][c].pc = "idle"
      BY <1>1, <1>2, <1>5, FailKeeps
    <2>2. QED
      BY <1>1, <1>3, <1>4, <2>1, CallKeeps DEF table, hist, Naming
  <1>6. CASE (\E r \in rows : r.id = call[p][c].row.id /\ Set(p, c, "added", r)) /\ UNCHANGED app
    <2>1. PICK r \in rows : r.id = call[p][c].row.id /\ Set(p, c, "added", r) /\ UNCHANGED app
      BY <1>6
    <2>2. r \in Row /\ Meant(r)
      BY <1>1, AllMeant DEF DataOK, CronInv
    <2>3. AppOK' /\ Calm
      BY <1>1, <1>2, <2>1, <2>2, SetKeeps DEF Calm, app
    <2>4. call'[p][c] = [pc |-> "added", row |-> r] /\ Only(p, c)
      BY <1>1, <2>1 DEF Set, AppOK, Only
    <2>5. c \in Caller => r.id \notin gone[p]
      BY <1>1, <2>1 DEF CronInv, GoneInv, Creating
    <2>6. QED
      BY <1>1, <1>3, <1>4, <2>2, <2>3, <2>4, <2>5, CallKeeps DEF table, hist
  <1>7. QED
    BY <1>5, <1>6 DEF Get

LEMMA CreateKeeps ==
  ASSUME CronInv, NEW p \in Process, NEW c \in Caller, Create(p, c) PROVE CronInv'
  <1>1. AppOK /\ DataOK /\ c \in Thread /\ c # "boot" /\ "prompt" \in Task
    BY Split, BootIsNoCaller DEF CronInv, Task
  <1>2. PICK name \in Name, s \in CronValid : Validate(p, c, name, s, "prompt")
    BY DEF Create
  <1>3. s \in Schedule
    BY ScheduleAssumption
  <1>4. PICK task \in Task : Validate(p, c, name, s, task)
    BY <1>1, <1>2
  <1>5. AppOK' /\ Calm /\ Only(p, c) /\ call'[p][c].pc \notin Naming
    BY <1>1, <1>3, <1>4, ValidateKeeps
  <1>6. UNCHANGED <<table, results, jobs, callbacks, running, boots, runs, gone>> /\ calls' \in Nat
    BY <1>1 DEF Create, ToolCall, DataOK
  <1>7. DataOK' /\ \A x \in rows' : Meant(x)
    BY <1>1, <1>6, AllMeant DEF DataOK, table, CronInv
  <1>8. QED
    BY <1>1, <1>5, <1>6, <1>7, CallKeeps DEF table, Naming

(* The new row has an id that nobody has known.                            *)
LEMMA InsertKeeps == ASSUME CronInv, NEW p \in Process, NEW c \in Thread, Insert(p, c) PROVE CronInv'
  <1>1. /\ AppOK /\ DataOK
        /\ call[p][c] # Idle /\ call[p][c].pc = "insert"
    BY Split, IdleTypes DEF CronInv, Insert
  <1>2. c = "boot" => phase[p] = "memory" /\ left[p] # <<>>
    BY <1>1 DEF AppOK, CallsInv
  <1>3. UNCHANGED <<results, jobs, callbacks, running>>
    BY DEF Insert
  <1>4. CASE Fail(p, c) /\ UNCHANGED <<table, hist>>
    <2>1. AppOK' /\ Calm /\ Only(p, c) /\ call'[p][c].pc = "idle"
      BY <1>1, <1>2, <1>4, FailKeeps
    <2>2. DataOK' /\ \A x \in rows' : Meant(x)
      BY <1>1, <1>3, <1>4, AllMeant DEF DataOK, table, hist, CronInv
    <2>3. QED
      BY <1>1, <1>3, <1>4, <2>1, <2>2, CallKeeps DEF table, hist, Naming
  <1>5. ASSUME NEW row \in Row, row.id = lastId + 1, lastId' = lastId + 1,
               row.name \notin {r.name : r \in rows},
               Write(p, rows \cup {row}), Set(p, c, "get", row), UNCHANGED <<app, hist>>
        PROVE  CronInv'
    <2>1. AppOK' /\ Calm
      BY <1>1, <1>2, <1>5, SetKeeps DEF Calm, app
    <2>2. call'[p][c] = [pc |-> "get", row |-> row] /\ Only(p, c)
      BY <1>1, <1>5 DEF Set, AppOK, Only
    <2>3. rows' = rows \cup {row} /\ crowded' \in [Process -> BOOLEAN]
      BY <1>1, <1>5 DEF Write, DataOK, Busy
    <2>4. DataOK'
      BY <1>1, <1>3, <1>5, <2>3 DEF DataOK, hist
    <2>5. \A x \in Mentions' : Meant(x) \/ x = row
      <3>1. /\ \A x \in rows' \cup results' : Meant(x) \/ x = row
            /\ \A q \in Process : \A x \in jobs'[q] : Meant(x)
            /\ \A q \in Process : \A r \in running'[q] : Meant(r.job)
        BY <1>3, <2>3, AllMeant DEF CronInv
      <3>2. \A q \in Process, d \in Thread :
              call'[q][d].pc \in Naming => Meant(call'[q][d].row) \/ call'[q][d].row = row
        BY <2>2, AllMeant DEF CronInv, Only
      <3>3. QED
        BY <3>1, <3>2, MentionsNext
    <2>6. NamesInv'
      <3>1. lastId \in Nat /\ NamesInv
        BY <1>1 DEF DataOK, CronInv
      <3>2. \A x \in Mentions' : x.id \in 1..lastId \/ x = row
        BY <2>5, <3>1 DEF NamesInv, Meant
      <3>3. ASSUME NEW x \in Mentions', NEW y \in Mentions', x.id = y.id PROVE x.name = y.name
        <4>1. CASE Meant(x) /\ Meant(y)
          BY <3>1, <3>3, <4>1 DEF NamesInv, Meant
        <4>2. CASE x = row \/ y = row
          BY <1>5, <3>1, <3>2, <3>3, <4>2
        <4>3. QED
          BY <2>5, <4>1, <4>2
      <3>4. QED
        BY <1>5, <3>1, <3>2, <3>3 DEF NamesInv
    <2>7. GoneInv'
      <3>1. ASSUME NEW q \in Process, NEW i \in Creating(q)' PROVE i \notin gone[q]
        BY <1>1, <1>5, <2>2, <3>1, CreatingNext DEF CronInv, GoneInv, DataOK
      <3>2. \A q \in Process : gone[q] \subseteq 1..lastId'
        BY <1>1, <1>5 DEF CronInv, GoneInv, DataOK
      <3>3. QED
        BY <1>3, <1>5, <2>1, <3>1, <3>2 DEF CronInv, GoneInv, Calm, Ids, hist
    <2>8. QED
      BY <2>1, <2>4, <2>6, <2>7, SplitNext DEF CronInv
  <1>6. CASE ~(Fail(p, c) /\ UNCHANGED <<table, hist>>)
    <2> DEFINE new == [call[p][c].row EXCEPT !.id = NextId]
    <2>1. new \in Row /\ new.id = lastId + 1
      <3>1. call[p][c].row \in Row
        BY <1>1 DEF AppOK, CallsInv
      <3>2. lastId + 1 \in Nat
        BY <1>1 DEF DataOK
      <3>3. QED
        BY <3>1, <3>2 DEF NextId, Row
    <2>2. /\ new.name \notin {r.name : r \in rows} /\ lastId' = lastId + 1
          /\ Write(p, rows \cup {new}) /\ Set(p, c, "get", new) /\ UNCHANGED <<app, hist>>
      BY <1>6 DEF Insert
    <2> HIDE DEF new
    <2>3. QED
      BY <1>5, <2>1, <2>2
  <1>7. QED
    BY <1>4, <1>6

LEMMA RegisterKeeps ==
  ASSUME CronInv, NEW p \in Process, NEW c \in Thread, Register(p, c) PROVE CronInv'
  <1>1. /\ AppOK /\ DataOK /\ c \in Thread
        /\ call[p][c] # Idle /\ call[p][c].pc \in {"added", "renewed"}
    BY Split, IdleTypes DEF CronInv, Register
  <1>2. PICK row \in Row : row = call[p][c].row
    BY <1>1 DEF AppOK, CallsInv
  <1>3. /\ c = "boot" => phase[p] = "memory" /\ left[p] # <<>>
        /\ c # "boot" => call[p][c].pc = "added" /\ c \in Caller
    BY <1>1 DEF AppOK, CallsInv, Thread
  <1>4. AppOK' /\ Calm /\ Only(p, c) /\ call'[p][c].pc = "idle"
    <2>1. CASE Fail(p, c)
      BY <1>1, <1>3, <2>1, FailKeeps
    <2>2. CASE Return(p, c)
      BY <1>1, <1>3, <2>2, ReturnKeeps
    <2>3. QED
      BY <2>1, <2>2 DEF Register
  <1>5. UNCHANGED <<table, results, running, hist>>
    BY DEF Register
  <1>6. /\ jobs' \in [Process -> SUBSET Row]
        /\ \A q \in Process : \A x \in jobs'[q] : x \in jobs[q] \/ (q = p /\ x = row)
    BY <1>1, <1>2 DEF Register, DataOK, Put, Without
  <1>7. callbacks' \in [Process -> SUBSET Nat]
    <2>1. row.id \in Nat
      BY DEF Row
    <2>2. callbacks' = callbacks \/ callbacks' = [callbacks EXCEPT ![p] = @ \cup {row.id}]
      BY <1>2 DEF Register, Remember
    <2>3. QED
      BY <1>1, <2>1, <2>2 DEF DataOK
  <1>8. DataOK'
    BY <1>1, <1>5, <1>6, <1>7 DEF DataOK, table, hist
  <1>9. NamesInv'
    <2>1. Meant(row)
      BY <1>1, <1>2, AllMeant DEF CronInv, Naming
    <2>2. NothingNew
      BY <1>4, <1>5, <1>6, <2>1, AllMeant DEF CronInv, NothingNew, Only, Naming, table
    <2>3. QED
      BY <1>5, <2>2, NamesKept DEF CronInv, table
  <1>10. GoneInv'
    <2>1. row.id \notin gone[p]
      <3>1. CASE c = "boot"
        BY <1>3, <3>1 DEF CronInv, GoneInv
      <3>2. CASE c # "boot"
        <4>1. row.id \in Creating(p)
          BY <1>2, <1>3, <3>2 DEF Creating
        <4>2. QED
          BY <4>1 DEF CronInv, GoneInv
      <3>3. QED
        BY <3>1, <3>2
    <2>2. \A q \in Process : \A i \in Creating(q)' : i \in Creating(q)
      BY <1>4, CreatingNext
    <2>3. \A q \in Process : \A i \in Ids(jobs[q])' : i \in Ids(jobs[q]) \/ (q = p /\ i = row.id)
      BY <1>6 DEF Ids
    <2>4. QED
      BY <1>4, <1>5, <2>1, <2>2, <2>3 DEF CronInv, GoneInv, Calm, table, hist
  <1>11. QED
    BY <1>4, <1>8, <1>9, <1>10, SplitNext DEF CronInv

LEMMA RemoveJobKeeps ==
  ASSUME CronInv, NEW p \in Process, NEW c \in Caller, RemoveJob(p, c) PROVE CronInv'
  <1>1. AppOK /\ DataOK /\ c \in Thread /\ c # "boot"
    BY Split, BootIsNoCaller DEF CronInv
  <1>2. PICK id \in 1..lastId :
          /\ Unregister(p, id)
          /\ callbacks' = [callbacks EXCEPT ![p] = @ \ {id}]
          /\ Set(p, c, "delete", [NoRow EXCEPT !.id = id])
          /\ gone' = [gone EXCEPT ![p] = @ \cup ({id} \ Creating(p))]
    BY DEF RemoveJob
  <1>3. phase[p] = "up" /\ calls' \in Nat /\ UNCHANGED <<table, results, app, running, boots, runs>>
    BY <1>1 DEF RemoveJob, ToolCall, DataOK
  <1>4. [NoRow EXCEPT !.id = id] \in CallRow /\ id \in Nat
    BY <1>1, <1>2 DEF NoRow, CallRow, Task, DataOK
  <1>5. call' \in [Process -> [Thread -> Call]]
    BY <1>1, <1>2, <1>4, SetTypes
  <1>6. call'[p][c].pc = "delete" /\ Only(p, c)
    BY <1>1, <1>2 DEF Set, AppOK, Only
  <1>7. AppOK'
    <2>1. CallsInv'
      BY <1>1, <1>3, <1>6, CallsKept DEF AppOK, app
    <2>2. QED
      BY <1>1, <1>3, <1>5, <2>1 DEF AppOK, app
  <1>8. /\ jobs' \in [Process -> SUBSET Row]
        /\ \A q \in Process : jobs'[q] \subseteq jobs[q]
        /\ \A x \in jobs'[p] : x.id # id
    BY <1>1, <1>2 DEF Unregister, Without, DataOK
  <1>9. DataOK'
    BY <1>1, <1>2, <1>3, <1>4, <1>8 DEF DataOK, table
  <1>10. NamesInv'
    <2>1. NothingNew
      BY <1>3, <1>6, <1>8, AllMeant DEF CronInv, NothingNew, Only, Naming, table
    <2>2. QED
      BY <1>3, <2>1, NamesKept DEF CronInv, table
  <1>11. GoneInv'
    <2>1. \A q \in Process : \A i \in Creating(q)' : i \in Creating(q)
      BY <1>6, <1>1, CreatingNext
    <2>2. \A q \in Process : \A i \in Ids(jobs[q])' : i \in Ids(jobs[q]) /\ (q = p => i # id)
      BY <1>8 DEF Ids
    <2>3. \A q \in Process : gone'[q] = IF q = p THEN gone[q] \cup ({id} \ Creating(p)) ELSE gone[q]
      BY <1>1, <1>2 DEF DataOK
    <2>4. QED
      BY <1>3, <2>1, <2>2, <2>3 DEF CronInv, GoneInv, table, app
  <1>12. QED
    BY <1>7, <1>9, <1>10, <1>11, SplitNext DEF CronInv

LEMMA DeleteKeeps ==
  ASSUME CronInv, NEW p \in Process, NEW c \in Caller, Delete(p, c) PROVE CronInv'
  <1>1. AppOK /\ DataOK /\ c \in Thread /\ c # "boot"
    BY Split, BootIsNoCaller DEF CronInv
  <1>2. UNCHANGED <<lastId, app, jobs, callbacks, running, hist>>
    BY DEF Delete
  <1>3. /\ rows' \subseteq rows /\ results' \subseteq results
        /\ crowded' \in [Process -> BOOLEAN]
    BY <1>1 DEF Delete, Write, Without, Busy, DataOK
  <1>4. call' \in [Process -> [Thread -> Call]]
    BY <1>1, SetTypes, IdleTypes DEF Delete
  <1>5. call'[p][c].pc = "idle" /\ Only(p, c)
    BY <1>1 DEF Delete, Set, AppOK, Only
  <1>6. AppOK'
    <2>1. CallsInv'
      BY <1>1, <1>2, <1>5, CallsKept DEF AppOK, app
    <2>2. QED
      BY <1>1, <1>2, <1>4, <2>1 DEF AppOK, app
  <1>7. DataOK'
    BY <1>1, <1>2, <1>3 DEF DataOK, hist
  <1>8. NamesInv'
    <2>1. NothingNew
      BY <1>2, <1>3, <1>5, AllMeant DEF CronInv, NothingNew, Only, Naming
    <2>2. QED
      BY <1>2, <2>1, NamesKept DEF CronInv
  <1>9. GoneInv'
    <2>1. \A q \in Process : \A i \in Creating(q)' : i \in Creating(q)
      BY <1>5, <1>1, CreatingNext
    <2>2. QED
      BY <1>2, <2>1, GoneKept DEF CronInv, GoneInv, Calm, app, hist
  <1>10. QED
    BY <1>6, <1>7, <1>8, <1>9, SplitNext DEF CronInv

-----------------------------------------------------------------------------
(* Starts, ends and runs *)

(* A process that ends keeps nothing.                                      *)
LEMMA EndKeeps ==
  ASSUME CronInv, NEW p \in Process, NEW how \in {"failed", "down"}, End(p, how),
         UNCHANGED <<results, boots, runs, calls>>
  PROVE  CronInv'
  <1>1. AppOK /\ DataOK
    BY Split DEF CronInv
  <1>2. /\ \A q \in Process \ {p} : /\ phase'[q] = phase[q] /\ wish'[q] = wish[q]
                                     /\ left'[q] = left[q] /\ call'[q] = call[q]
                                     /\ jobs'[q] = jobs[q] /\ running'[q] = running[q]
                                     /\ gone'[q] = gone[q]
        /\ phase'[p] = how /\ jobs'[p] = {} /\ running'[p] = {} /\ gone'[p] = {}
        /\ \A d \in Thread : call'[p][d] = Idle
    BY <1>1 DEF End, AppOK, DataOK
  <1>3. /\ phase' \in [Process -> {"down", "failed", "loading", "memory", "agents", "up"}]
        /\ wish' \in [Process -> Schedule \cup {None}]
        /\ left' \in [Process -> Seq(RuntimeNames)]
        /\ memory' \in [Process -> {"none", "on", "off"}]
        /\ call' \in [Process -> [Thread -> Call]]
    BY <1>1, IdleTypes DEF End, AppOK
  <1>4. CallsInv'
    <2>1. ASSUME NEW q \in Process \ {p}
          PROVE  /\ phase'[q] \notin {"down", "failed"} => wish'[q] \in Schedule
                 /\ call'[q]["boot"] # Idle => phase'[q] = "memory" /\ left'[q] # <<>>
      BY <1>1, <1>2 DEF AppOK, CallsInv
    <2>2. ASSUME NEW q \in Process \ {p}
          PROVE  /\ \A c \in Thread :
                      call'[q][c].pc \notin {"idle", "delete"} => call'[q][c].row \in Row
                 /\ \A c \in Caller :
                      call'[q][c].pc \in {"idle", "insert", "get", "added", "delete"}
      BY <1>1, <1>2 DEF AppOK, CallsInv
    <2>3. /\ phase'[p] \in {"down", "failed"} /\ call'[p]["boot"] = Idle
          /\ \A d \in Thread : call'[p][d].pc = "idle"
      BY <1>2, IdleTypes, BootIsNoCaller
    <2>4. QED
      BY <2>1, <2>2, <2>3, BootIsNoCaller DEF CallsInv, Idle, NoRow
  <1>5. DataOK'
    BY <1>1 DEF End, DataOK
  <1>6. NamesInv'
    <2>1. NothingNew
      BY <1>2, AllMeant, IdleTypes DEF End, CronInv, NothingNew, Naming
    <2>2. QED
      BY <2>1, NamesKept DEF CronInv, End
  <1>7. GoneInv'
    <2>1. \A q \in Process \ {p} : Creating(q)' = Creating(q) /\ Ids(jobs[q])' = Ids(jobs[q])
      BY <1>2 DEF Creating, Ids
    <2>2. lastId' = lastId
      BY DEF End
    <2>3. QED
      BY <1>2, <2>1, <2>2 DEF CronInv, GoneInv
  <1>8. QED
    BY <1>3, <1>4, <1>5, <1>6, <1>7, SplitNext DEF CronInv, AppOK

LEMMA BootKeeps == ASSUME CronInv, NEW p \in Process, Boot(p) PROVE CronInv'
  <1>1. AppOK /\ DataOK /\ phase[p] \in {"down", "failed"}
    BY Split DEF CronInv, Boot
  <1>2. UNCHANGED <<table, results, memory, callbacks, call, running, runs, calls, gone>>
    BY DEF Boot
  <1>3. AppOK'
    <2>1. PICK s \in Schedule : wish' = [wish EXCEPT ![p] = s]
      BY DEF Boot
    <2>2. left' = [left EXCEPT ![p] = Runtime] /\ phase' = [phase EXCEPT ![p] = "loading"]
          /\ Runtime \in Seq(RuntimeNames)
      BY NameAssumption DEF Boot, RuntimeNames
    <2>3. call[p]["boot"] = Idle
      BY <1>1 DEF AppOK, CallsInv
    <2>4. CallsInv'
      BY <1>1, <1>2, <2>1, <2>2, <2>3 DEF AppOK, CallsInv, Idle, NoRow
    <2>5. QED
      BY <1>1, <1>2, <2>1, <2>2, <2>4 DEF AppOK
  <1>4. jobs' = [jobs EXCEPT ![p] = rows] /\ boots' \in Nat
    BY <1>1 DEF Boot, DataOK
  <1>5. DataOK'
    BY <1>1, <1>2, <1>4 DEF DataOK, table
  <1>6. NamesInv'
    <2>1. NothingNew
      BY <1>1, <1>2, <1>4, AllMeant DEF CronInv, NothingNew, DataOK, table
    <2>2. QED
      BY <1>2, <2>1, NamesKept DEF CronInv, table
  <1>7. GoneInv'
    <2>1. \A q \in Process : Creating(q)' = Creating(q)
      BY <1>2 DEF Creating
    <2>2. \A q \in Process : phase'[q] = phase[q] \/ q = p
      BY <1>1 DEF Boot, AppOK
    <2>3. \A q \in Process \ {p} : Ids(jobs[q])' = Ids(jobs[q])
      BY <1>1, <1>4 DEF Ids, DataOK
    <2>4. gone[p] = {}
      BY <1>1 DEF CronInv, GoneInv
    <2>5. QED
      BY <1>2, <2>1, <2>2, <2>3, <2>4 DEF CronInv, GoneInv, table
  <1>8. QED
    BY <1>3, <1>5, <1>6, <1>7, SplitNext DEF CronInv

(* A phase of build_app ends.                                              *)
LEMMA PhaseKeeps ==
  ASSUME CronInv, NEW p \in Process, NEW from \in {"loading", "memory", "agents"},
         NEW to \in {"memory", "agents", "up"}, phase[p] = from,
         phase' = [phase EXCEPT ![p] = to], call[p]["boot"] = Idle,
         UNCHANGED <<table, results, wish, left, memory, jobs, callbacks, call, running, hist>>
  PROVE  CronInv'
  <1>1. AppOK /\ DataOK
    BY Split DEF CronInv
  <1>2. \A q \in Process : phase'[q] = IF q = p THEN to ELSE phase[q]
    BY <1>1 DEF AppOK
  <1>3. CallsInv'
    BY <1>1, <1>2 DEF AppOK, CallsInv, Idle, NoRow
  <1>4. AppOK' /\ DataOK'
    BY <1>1, <1>3 DEF AppOK, DataOK, table, hist
  <1>5. NamesInv'
    <2>1. NothingNew
      BY AllMeant DEF CronInv, NothingNew, table
    <2>2. QED
      BY <2>1, NamesKept DEF CronInv, table
  <1>6. GoneInv'
    <2>1. \A q \in Process : Creating(q)' = Creating(q) /\ Ids(jobs[q])' = Ids(jobs[q])
      BY DEF Creating, Ids
    <2>2. QED
      BY <1>2, <2>1 DEF CronInv, GoneInv, table, hist
  <1>7. QED
    BY <1>4, <1>5, <1>6, SplitNext DEF CronInv

LEMMA StartKeeps ==
  ASSUME CronInv, NEW p \in Process, Load(p) \/ SkipMemory(p) \/ SetFactory(p) \/ Stop(p)
  PROVE  CronInv'
  <1>1. phase[p] # "memory" => call[p]["boot"] = Idle
    BY DEF CronInv, CallsInv
  <1>2. CASE Load(p)
    BY <1>1, <1>2, EndKeeps, PhaseKeeps DEF Load, hist
  <1>3. CASE SkipMemory(p)
    BY <1>3, PhaseKeeps DEF SkipMemory
  <1>4. CASE SetFactory(p)
    BY <1>1, <1>4, PhaseKeeps DEF SetFactory
  <1>5. CASE Stop(p)
    BY <1>5, EndKeeps DEF Stop
  <1>6. QED
    BY <1>2, <1>3, <1>4, <1>5

(* Runs of jobs: what runs and what is recorded is a registered job's.     *)
LEMMA RunKeeps ==
  ASSUME CronInv, UNCHANGED <<table, app, jobs, callbacks, call, boots, calls, gone>>,
         runs' \in Nat, results' \in SUBSET Result, running' \in [Process -> SUBSET Run],
         \A x \in results' : Meant(x),
         \A q \in Process : \A r \in running'[q] : Meant(r.job)
  PROVE  CronInv'
  <1>1. AppOK /\ DataOK
    BY Split DEF CronInv
  <1>2. AppOK'
    BY <1>1 DEF AppOK, CallsInv, app
  <1>3. DataOK'
    BY <1>1 DEF DataOK, table
  <1>4. NamesInv'
    <2>1. NothingNew
      BY AllMeant DEF CronInv, NothingNew, table
    <2>2. QED
      BY <2>1, NamesKept DEF CronInv, table
  <1>5. GoneInv'
    <2>1. \A q \in Process : Creating(q)' = Creating(q)
      BY DEF Creating
    <2>2. QED
      BY <2>1 DEF CronInv, GoneInv, table, app
  <1>6. QED
    BY <1>2, <1>3, <1>4, <1>5, SplitNext DEF CronInv

LEMMA FireKeeps == ASSUME CronInv, NEW p \in Process, Fire(p) PROVE CronInv'
  <1>1. DataOK
    BY Split DEF CronInv
  <1>2. PICK j \in jobs[p], how \in {"callback", "agent", "none"} :
          running' = [running EXCEPT ![p] = @ \cup {[job |-> j, stage |-> "begun", how |-> how]}]
    BY DEF Fire
  <1>3. [job |-> j, stage |-> "begun", how |-> how] \in Run
    BY <1>1 DEF DataOK, Run
  <1>4. running' \in [Process -> SUBSET Run] /\ runs' \in Nat
    BY <1>1, <1>2, <1>3 DEF DataOK, Fire
  <1>5. \A q \in Process : \A r \in running'[q] : Meant(r.job)
    BY <1>1, <1>2, AllMeant DEF CronInv, DataOK
  <1>6. UNCHANGED <<table, results, app, jobs, callbacks, call, boots, calls, gone>>
    BY DEF Fire
  <1>7. results' \in SUBSET Result /\ \A x \in results' : Meant(x)
    BY <1>1, <1>6, AllMeant DEF DataOK, CronInv
  <1>8. QED
    BY <1>4, <1>5, <1>6, <1>7, RunKeeps

LEMMA ConverseKeeps == ASSUME CronInv, NEW p \in Process, Converse(p) PROVE CronInv'
  <1>1. DataOK
    BY Split DEF CronInv
  <1>2. PICK r \in running[p], stage \in {"asked", "answered"} :
          running' = [running EXCEPT ![p] = (@ \ {r}) \cup {[r EXCEPT !.stage = stage]}]
    BY DEF Converse
  <1>3. [r EXCEPT !.stage = stage] \in Run /\ [r EXCEPT !.stage = stage].job = r.job
    BY <1>1 DEF DataOK, Run
  <1>4. running' \in [Process -> SUBSET Run]
    BY <1>1, <1>2, <1>3 DEF DataOK
  <1>5. \A q \in Process : \A x \in running'[q] : Meant(x.job)
    BY <1>1, <1>2, <1>3, AllMeant DEF CronInv, DataOK
  <1>6. UNCHANGED <<table, results, app, jobs, callbacks, call, hist>>
    BY DEF Converse
  <1>7. results' \in SUBSET Result /\ \A x \in results' : Meant(x)
    BY <1>1, <1>6, AllMeant DEF DataOK, CronInv
  <1>8. QED
    BY <1>1, <1>4, <1>5, <1>6, <1>7, RunKeeps DEF hist, DataOK

LEMMA FinishKeeps == ASSUME CronInv, NEW p \in Process, Finish(p) PROVE CronInv'
  <1>1. DataOK
    BY Split DEF CronInv
  <1>2. PICK r \in running[p], status \in {"success", "error"} :
          Record(r, status) /\ running' = [running EXCEPT ![p] = @ \ {r}]
    BY DEF Finish, CallbackOutcome, AgentOutcome
  <1>3. r \in Run /\ Meant(r.job)
    BY <1>1, AllMeant DEF DataOK, CronInv
  <1>4. running' \in [Process -> SUBSET Run]
        /\ \A q \in Process : \A x \in running'[q] : Meant(x.job)
    BY <1>1, <1>2, AllMeant DEF CronInv, DataOK
  <1>5. results' \in SUBSET Result /\ \A x \in results' : Meant(x)
    <2> DEFINE new == [id |-> r.job.id, name |-> r.job.name, status |-> status, stage |-> r.stage]
    <2>1. new \in Result
      BY <1>3 DEF Run, Row, Result
    <2>2. Meant(new)
      BY <1>3 DEF Meant
    <2>3. results' = results \/ results' = results \cup {new}
      BY <1>2 DEF Record
    <2>4. QED
      BY <1>1, <2>1, <2>2, <2>3, AllMeant DEF DataOK, CronInv
  <1>6. UNCHANGED <<table, app, jobs, callbacks, call, hist>>
    BY DEF Finish
  <1>7. QED
    BY <1>1, <1>4, <1>5, <1>6, RunKeeps DEF hist, DataOK

-----------------------------------------------------------------------------
LEMMA InitCron == Init => CronInv
  <1> SUFFICES ASSUME Init PROVE CronInv
    OBVIOUS
  <1>1. TypeOK
    BY IdleTypes DEF Init, TypeOK
  <1>2. CallsInv
    BY IdleTypes, BootIsNoCaller DEF Init, CallsInv
  <1>3. Mentions = {}
    BY IdleTypes DEF Init, Mentions, Scheduled, Executed, Handled, Naming
  <1>4. GoneInv
    BY DEF Init, GoneInv
  <1>5. QED
    BY <1>1, <1>2, <1>3, <1>4 DEF CronInv, NamesInv

LEMMA NextKeeps == CronInv /\ [Next]_vars => CronInv'
  <1> SUFFICES ASSUME CronInv, [Next]_vars PROVE CronInv'
    OBVIOUS
  <1>1. CASE UNCHANGED vars
    BY <1>1, SMTT(30) DEF vars, CronInv, TypeOK, CallsInv, NamesInv, Mentions, Scheduled,
                            Executed, Handled, GoneInv, Creating, Ids
  <1>2. CASE Next
    BY <1>2, FindKeeps, UpdateKeeps, RegetKeeps, GetKeeps, CreateKeeps, InsertKeeps,
       RegisterKeeps, RemoveJobKeeps, DeleteKeeps, BootKeeps, StartKeeps, FireKeeps,
       ConverseKeeps, FinishKeeps DEF Next
  <1>3. QED
    BY <1>1, <1>2

(* Calls past their check have a row, an id has one name wherever and      *)
(* whenever it is known, and no process runs what it removed.              *)
THEOREM CronInductive == Spec => []CronInv
  BY InitCron, NextKeeps, PTL DEF Spec

(* Every variable keeps its type.                                          *)
THEOREM CronTypes == Spec => []TypeOK
  <1>1. CronInv => TypeOK
    BY DEF CronInv
  <1>2. QED
    BY <1>1, CronInductive, PTL

(* Results stand under the job they are results of, whichever processes    *)
(* remove and create jobs while they run.                                  *)
THEOREM ResultsStayOwn == Spec => []ResultsAreOwn
  <1>1. CronInv => ResultsAreOwn
    BY DEF CronInv, NamesInv, Mentions, ResultsAreOwn
  <1>2. QED
    BY <1>1, CronInductive, PTL

(* A job a process removed does not come back in it.                       *)
THEOREM RemovedStaysGone == Spec => []RemovedIsGone
  <1>1. CronInv => RemovedIsGone
    BY DEF CronInv, GoneInv, RemovedIsGone
  <1>2. QED
    BY <1>1, CronInductive, PTL

-----------------------------------------------------------------------------
(* Runs and what is recorded of them *)

(* Only three steps of a process add a run or a result.                    *)
LEMMA RunMoves ==
  ASSUME CronInv, [Next]_vars
  PROVE  \/ results' \subseteq results /\ \A q \in Process : running'[q] \subseteq running[q]
         \/ \E p \in Process : Fire(p) \/ Converse(p) \/ Finish(p)
  <1>1. running \in [Process -> SUBSET Run]
    BY DEF CronInv, TypeOK
  <1>2. ASSUME NEW p \in Process, Load(p) \/ Stop(p)
        PROVE  results' = results /\ \A q \in Process : running'[q] \subseteq running[q]
    BY <1>1, <1>2 DEF Load, Stop, End
  <1>3. ASSUME NEW p \in Process, NEW c \in Caller, Delete(p, c)
        PROVE  results' \subseteq results /\ running' = running
    BY <1>3 DEF Delete, Without
  <1>4. ASSUME NEW p \in Process, NEW c \in Thread,
               \/ Boot(p) \/ SkipMemory(p) \/ SetFactory(p) \/ Find(p) \/ Update(p) \/ Reget(p)
               \/ Insert(p, c) \/ Get(p, c) \/ Register(p, c) \/ Create(p, c) \/ RemoveJob(p, c)
        PROVE  results' = results /\ running' = running
    BY <1>4 DEF Boot, SkipMemory, SetFactory, Find, Update, Reget, Insert, Get, Register, Create,
       RemoveJob
  <1>5. CASE UNCHANGED vars
    BY <1>5 DEF vars
  <1>6. CASE Next
    BY <1>2, <1>3, <1>4, <1>6, BootIsNoCaller DEF Next
  <1>7. QED
    BY <1>5, <1>6

LEMMA StagesPreserved ==
  ASSUME CronInv, StagesInv, SuccessIsAnswered, [Next]_vars
  PROVE  StagesInv' /\ SuccessIsAnswered'
  <1>1. running \in [Process -> SUBSET Run]
    BY DEF CronInv, TypeOK
  <1>2. ASSUME results' \subseteq results, \A q \in Process : running'[q] \subseteq running[q]
        PROVE  StagesInv' /\ SuccessIsAnswered'
    BY <1>2 DEF StagesInv, SuccessIsAnswered
  <1>3. ASSUME NEW p \in Process, Fire(p) PROVE StagesInv' /\ SuccessIsAnswered'
    <2>1. PICK new : new.stage = "begun" /\ running' = [running EXCEPT ![p] = @ \cup {new}]
      BY <1>3 DEF Fire
    <2>2. results' = results
      BY <1>3 DEF Fire
    <2>3. QED
      BY <1>1, <2>1, <2>2 DEF StagesInv, SuccessIsAnswered
  <1>4. ASSUME NEW p \in Process, Converse(p) PROVE StagesInv' /\ SuccessIsAnswered'
    <2>1. PICK r \in running[p], stage \in {"asked", "answered"} :
            r.how = "agent" /\
            running' = [running EXCEPT ![p] = (@ \ {r}) \cup {[r EXCEPT !.stage = stage]}]
      BY <1>4 DEF Converse
    <2>2. [r EXCEPT !.stage = stage].how = "agent"
      BY <1>1, <2>1 DEF Run
    <2>3. results' = results
      BY <1>4 DEF Converse
    <2>4. QED
      BY <1>1, <2>1, <2>2, <2>3 DEF StagesInv, SuccessIsAnswered
  <1>5. ASSUME NEW p \in Process, Finish(p) PROVE StagesInv' /\ SuccessIsAnswered'
    <2>1. PICK r \in running[p] :
            /\ running' = [running EXCEPT ![p] = @ \ {r}]
            /\ \E status \in IF r.how = "callback" THEN CallbackOutcome ELSE AgentOutcome(r) :
                  Record(r, status)
      BY <1>5 DEF Finish
    <2>2. PICK status \in IF r.how = "callback" THEN CallbackOutcome ELSE AgentOutcome(r) :
            Record(r, status)
      BY <2>1
    <2>3. r.stage # "begun" => (status = "success" <=> r.stage = "answered")
      BY <2>2 DEF StagesInv, CallbackOutcome, AgentOutcome
    <2>4. SuccessIsAnswered'
      BY <2>2, <2>3 DEF Record, SuccessIsAnswered
    <2>5. QED
      BY <1>1, <2>1, <2>4 DEF StagesInv
  <1>6. QED
    BY <1>2, <1>3, <1>4, <1>5, RunMoves

(* A job's history says success exactly of the runs whose answer was       *)
(* stored, also when the job is removed or the process ends on the way.    *)
THEOREM SuccessMeansAnswered == Spec => []SuccessIsAnswered
  <1>1. Init => StagesInv /\ SuccessIsAnswered
    BY DEF Init, StagesInv, SuccessIsAnswered
  <1>2. QED
    BY <1>1, CronInductive, StagesPreserved, PTL DEF Spec

-----------------------------------------------------------------------------
(* Memory: the invariant MemoryInv by process                              *)

TaskOK(x) == x.task \in {"prompt", x.name}

RowTasks == (\A r \in rows : TaskOK(r)) /\ \A r, o \in rows : r.name = o.name => r.id = o.id

OwnTasks(q) ==
    /\ \A j \in jobs[q] : TaskOK(j)
    /\ \A c \in Thread : call[q][c].pc \notin {"idle", "delete"} => TaskOK(call[q][c].row)

Phases(q) ==
    /\ phase[q] \in {"down", "failed", "loading", "memory"} => memory[q] = "none"
    /\ \A c \in Caller : call[q][c] # Idle => phase[q] = "up"
    /\ \A r \in running[q] : r.how = "agent" => phase[q] = "up"

Own(q) == OwnTasks(q) /\ Phases(q) /\ (~crowded[q] => Alone(q))

LEMMA ByProcess == MemoryInv <=> RowTasks /\ \A q \in Process : Own(q)
  BY DEF MemoryInv, TasksInv, PhasesInv, RowTasks, OwnTasks, Phases, Own, TaskOK, Scheduled

LEMMA ByProcessNext == RowTasks' /\ (\A q \in Process : Own(q)') => MemoryInv'
  BY DEF MemoryInv, TasksInv, PhasesInv, RowTasks, OwnTasks, Phases, Own, TaskOK, Scheduled

(* What others do, and writes of theirs to the table included, while a     *)
(* process is neither starting nor in a call.                              *)
Mine(q) == <<phase[q], wish[q], left[q], memory[q], jobs[q], callbacks[q], call[q], running[q]>>

LEMMA OthersKeepOwn ==
  ASSUME NEW q \in Process, Own(q), UNCHANGED Mine(q),
         \/ UNCHANGED <<rows, crowded[q]>>
         \/ crowded'[q] = (crowded[q] \/ Busy(q))
  PROVE  Own(q)'
  <1>1. OwnTasks(q)' /\ Phases(q)'
    BY DEF Own, OwnTasks, Phases, Mine
  <1>2. ASSUME ~crowded'[q] PROVE Alone(q)'
    <2>1. CASE UNCHANGED <<rows, crowded[q]>>
      BY <1>2, <2>1 DEF Own, Alone, LoadedInv, RegisterInv, PromptInv, OutcomeInv, Mine, Ids
    <2>2. CASE ~crowded[q] /\ ~Busy(q)
      <3>1. /\ phase[q] \notin {"loading", "memory"}
            /\ call[q]["boot"].pc = "idle" /\ \A c \in Caller : call[q][c].pc = "idle"
        BY <2>2, IdleTypes, BootIsNoCaller DEF Busy
      <3>2. OutcomeInv(q)'
        BY <2>2 DEF Own, Alone, OutcomeInv, Mine
      <3>3. QED
        BY <3>1, <3>2 DEF Alone, LoadedInv, RegisterInv, PromptInv, Mine
    <2>3. QED
      BY <1>2, <2>1, <2>2
  <1>3. QED
    BY <1>1, <1>2 DEF Own

(* So a step of p has to be looked at for p alone.                         *)
Rest(p) ==
    \A q \in Process \ {p} :
        /\ UNCHANGED Mine(q)
        /\ \/ UNCHANGED <<rows, crowded[q]>>
           \/ crowded'[q] = (crowded[q] \/ Busy(q))

LEMMA StepKeeps ==
  ASSUME MemoryInv, NEW p \in Process, Rest(p), RowTasks', Own(p)'
  PROVE  MemoryInv'
  <1>1. \A q \in Process \ {p} : Own(q)'
    BY ByProcess, OthersKeepOwn DEF Rest
  <1>2. QED
    BY <1>1, ByProcessNext

(* Two rows of one id that are known have one name.                        *)
LEMMA SameName ==
  ASSUME CronInv, NEW x, NEW y, Meant(x), Meant(y), x.id = y.id
  PROVE  x.name = y.name /\ x.id \in 1..lastId
  BY DEF CronInv, NamesInv, Meant

LEMMA WriteRest ==
  ASSUME DataOK, NEW p \in Process, NEW table2, Write(p, table2)
  PROVE  /\ rows' = table2 /\ crowded'[p] = crowded[p]
         /\ \A q \in Process \ {p} : crowded'[q] = (crowded[q] \/ Busy(q))
  BY DEF DataOK, Write

(* A call that changes, and what it changes besides, of its own process:   *)
(* jobs and rows stay, callbacks are at most added.                        *)
LEMMA FailMemory ==
  ASSUME CronInv, MemoryInv, NEW p \in Process, NEW c \in Thread, Fail(p, c),
         UNCHANGED <<rows, crowded, jobs, running>>,
         \A q \in Process : callbacks[q] \subseteq callbacks'[q],
         \A q \in Process \ {p} : UNCHANGED callbacks[q],
         c = "boot" => phase[p] = "memory" /\ (~crowded[p] => wish[p] \notin TriggerValid \cap CronValid)
  PROVE  MemoryInv'
  <1>1. AppOK /\ DataOK /\ RowTasks /\ Own(p)
    BY Split, ByProcess DEF CronInv
  <1>2. /\ call'[p][c] = Idle
        /\ \A d \in Thread \ {c} : call'[p][d] = call[p][d]
        /\ \A q \in Process \ {p} : call'[q] = call[q]
    BY <1>1 DEF Set, AppOK, Fail, Idle
  <1>3. /\ memory'[p] = IF c = "boot" THEN "off" ELSE memory[p]
        /\ phase'[p] = IF c = "boot" THEN "agents" ELSE phase[p]
        /\ \A q \in Process \ {p} : UNCHANGED <<memory[q], phase[q]>>
        /\ UNCHANGED <<wish, left>>
    BY <1>1 DEF Fail, AppOK
  <1>4. Rest(p)
    BY <1>2, <1>3 DEF Rest, Mine
  <1>5. OwnTasks(p)'
    BY <1>1, <1>2, IdleTypes DEF Own, OwnTasks
  <1>6. Phases(p)'
    BY <1>1, <1>2, <1>3, BootIsNoCaller DEF Own, Phases
  <1>7. ASSUME ~crowded[p] PROVE Alone(p)'
    <2>1. Alone(p)
      BY <1>1, <1>7 DEF Own
    <2>2. LoadedInv(p)'
      BY <1>3, <2>1 DEF Alone, LoadedInv, Ids
    <2>3. RegisterInv(p)'
      BY <1>2, <1>3, <2>1, BootIsNoCaller, IdleTypes DEF Alone, RegisterInv, Ids
    <2>4. PromptInv(p)'
      BY <1>2, <2>1, BootIsNoCaller, IdleTypes DEF Alone, PromptInv
    <2>5. OutcomeInv(p)'
      BY <1>3, <1>7, <2>1 DEF Alone, OutcomeInv
    <2>6. QED
      BY <2>2, <2>3, <2>4, <2>5 DEF Alone
  <1>8. Own(p)'
    BY <1>5, <1>6, <1>7 DEF Own
  <1>9. QED
    BY <1>1, <1>4, <1>8, StepKeeps DEF RowTasks

(* A call goes on to another access; nothing else changes.                 *)
LEMMA GoOnMemory ==
  ASSUME CronInv, MemoryInv, NEW p \in Process, NEW c \in Thread, NEW pc, NEW row,
         Set(p, c, pc, row), UNCHANGED <<rows, crowded, app, jobs, callbacks, running>>,
         pc \notin {"idle", "delete"} => TaskOK(row),
         c \in Caller => phase[p] = "up",
         ~crowded[p] => RegisterInv(p)' /\ PromptInv(p)'
  PROVE  MemoryInv'
  <1>1. AppOK /\ DataOK /\ RowTasks /\ Own(p)
    BY Split, ByProcess DEF CronInv
  <1>2. /\ call'[p][c].pc = pc /\ call'[p][c].row = row
        /\ \A d \in Thread \ {c} : call'[p][d] = call[p][d]
        /\ \A q \in Process \ {p} : call'[q] = call[q]
    BY <1>1 DEF Set, AppOK
  <1>3. Rest(p)
    BY <1>2 DEF Rest, Mine, app
  <1>4. OwnTasks(p)'
    BY <1>1, <1>2 DEF Own, OwnTasks
  <1>5. Phases(p)'
    BY <1>1, <1>2, BootIsNoCaller DEF Own, Phases, app
  <1>6. ~crowded[p] => Alone(p)'
    BY <1>1 DEF Own, Alone, LoadedInv, OutcomeInv, app, Ids
  <1>7. Own(p)'
    BY <1>4, <1>5, <1>6 DEF Own
  <1>8. QED
    BY <1>1, <1>3, <1>7, StepKeeps DEF RowTasks

LEMMA ValidateMemory ==
  ASSUME CronInv, MemoryInv, NEW p \in Process, NEW c \in Thread, NEW name, NEW schedule, NEW task,
         Validate(p, c, name, schedule, task),
         UNCHANGED <<rows, crowded, jobs, callbacks, running>>,
         task \in {"prompt", name},
         c = "boot" => phase[p] = "memory" /\ (~crowded[p] =>
            name = Head(left[p]) /\ schedule = wish[p] /\ \A r \in rows : r.name # name),
         c # "boot" => phase[p] = "up" /\ task = "prompt"
  PROVE  MemoryInv'
  <1>1. AppOK /\ Own(p) /\ (c \in Caller <=> c # "boot")
    BY Split, ByProcess, BootIsNoCaller DEF CronInv, Thread
  <1>2. CASE schedule \in CronValid
    <2> DEFINE row == [id |-> 0, name |-> name, schedule |-> schedule, task |-> task]
    <2>1. Set(p, c, "insert", row) /\ UNCHANGED app
      BY <1>2 DEF Validate
    <2>2. row.name = name /\ row.schedule = schedule /\ row.task = task
      OBVIOUS
    <2> HIDE DEF row
    <2>3. /\ call'[p][c].pc = "insert" /\ call'[p][c].row = row
          /\ \A d \in Thread \ {c} : call'[p][d] = call[p][d]
      BY <1>1, <2>1 DEF Set, AppOK
    <2>4. ASSUME ~crowded[p] PROVE RegisterInv(p)'
      <3>1. CASE c = "boot"
        BY <2>1, <2>2, <2>3, <2>4, <3>1 DEF RegisterInv, app
      <3>2. CASE c # "boot"
        BY <1>1, <2>1, <2>3, <2>4, <3>2, BootIsNoCaller DEF Own, Alone, RegisterInv, app, Ids
      <3>3. QED
        BY <3>1, <3>2
    <2>5. ASSUME ~crowded[p] PROVE PromptInv(p)'
      BY <1>1, <2>2, <2>3, <2>5, BootIsNoCaller DEF Own, Alone, PromptInv
    <2>6. TaskOK(row)
      BY <2>2 DEF TaskOK
    <2>7. c \in Caller => phase[p] = "up"
      BY <1>1
    <2>8. QED
      BY <2>1, <2>4, <2>5, <2>6, <2>7, GoOnMemory
  <1>3. CASE schedule \notin CronValid
    BY <1>3, FailMemory DEF Validate
  <1>4. QED
    BY <1>2, <1>3

(* What is known of the call of the boot thread.                           *)
LEMMA BootCall ==
  ASSUME CronInv, MemoryInv, NEW p \in Process, call[p]["boot"].pc # "idle"
  PROVE  /\ phase[p] = "memory" /\ left[p] \in Seq(RuntimeNames) /\ left[p] # <<>>
         /\ "boot" \in Thread /\ "boot" \notin Caller
         /\ call[p]["boot"].pc # "delete" => TaskOK(call[p]["boot"].row)
         /\ ~crowded[p] => Alone(p)
  BY Split, ByProcess, BootIsNoCaller, IdleTypes DEF CronInv, AppOK, CallsInv, Own, OwnTasks

LEMMA FindMemory == ASSUME CronInv, MemoryInv, NEW p \in Process, Find(p) PROVE MemoryInv'
  <1> DEFINE name == Head(left[p])
             found == {r \in rows : r.name = name}
  <1>1. /\ AppOK /\ Own(p) /\ RowTasks
        /\ phase[p] = "memory" /\ UNCHANGED <<rows, crowded, jobs, callbacks, running>>
        /\ "boot" \in Thread /\ "boot" \notin Caller
    BY Split, ByProcess, BootIsNoCaller DEF CronInv, Find, table
  <1>2. CASE found = {}
    BY <1>1, <1>2, ValidateMemory DEF Find
  <1>3. CASE found # {}
    <2>1. PICK r \in found : Set(p, "boot", "update", [r EXCEPT !.schedule = wish[p], !.task = name])
      BY <1>3 DEF Find
    <2>2. UNCHANGED app
      BY <1>3 DEF Find
    <2>3. PICK row : /\ row.id = r.id /\ row.name = name /\ row.task = name
                     /\ row.schedule = wish[p] /\ Set(p, "boot", "update", row)
      <3>1. r \in Row /\ r.name = name
        BY DEF CronInv, TypeOK
      <3>2. QED
        BY <2>1, <3>1 DEF Row
    <2>4. /\ call'[p]["boot"].pc = "update" /\ call'[p]["boot"].row = row
          /\ \A d \in Thread \ {"boot"} : call'[p][d] = call[p][d]
      BY <1>1, <2>3 DEF Set, AppOK
    <2>5. ASSUME ~crowded[p] PROVE RegisterInv(p)' /\ PromptInv(p)'
      <3>1. RegisterInv(p)'
        BY <1>1, <2>2, <2>3, <2>4 DEF RegisterInv, app, Ids
      <3>2. PromptInv(p)'
        BY <1>1, <2>4, <2>5, BootIsNoCaller DEF Own, Alone, PromptInv
      <3>3. QED
        BY <3>1, <3>2
    <2>6. TaskOK(row)
      BY <2>3 DEF TaskOK
    <2>7. QED
      BY <1>1, <2>2, <2>3, <2>5, <2>6, GoOnMemory
  <1>4. QED
    BY <1>2, <1>3

LEMMA UpdateMemory == ASSUME CronInv, MemoryInv, NEW p \in Process, Update(p) PROVE MemoryInv'
  <1> DEFINE row == call[p]["boot"].row
  <1>1. /\ AppOK /\ DataOK /\ RowTasks /\ Own(p)
        /\ phase[p] = "memory" /\ "boot" \in Thread /\ "boot" \notin Caller
        /\ TaskOK(row) /\ call[p]["boot"].pc = "update"
        /\ UNCHANGED <<app, jobs, callbacks, running>>
    BY Split, ByProcess, BootCall DEF CronInv, Update
  <1>2. /\ call'[p]["boot"].pc = "reget" /\ call'[p]["boot"].row = row
        /\ \A d \in Thread \ {"boot"} : call'[p][d] = call[p][d]
        /\ \A q \in Process \ {p} : call'[q] = call[q]
    BY <1>1 DEF Set, AppOK, Update
  <1>3. OwnTasks(p)' /\ Phases(p)'
    BY <1>1, <1>2, BootIsNoCaller DEF Own, OwnTasks, Phases, app
  <1>4. \A c \in Caller : call[p][c].pc = "idle" /\ call'[p][c].pc = "idle"
    BY <1>1, <1>2, IdleTypes, BootIsNoCaller DEF Own, Phases
  <1>5. CASE row.id \notin Ids(rows)
    <2>1. UNCHANGED <<rows, crowded>> /\ crowded[p]
      BY <1>1, <1>5 DEF Update, Own, Alone, RegisterInv
    <2>2. QED
      BY <1>1, <1>2, <1>3, <2>1, StepKeeps DEF Rest, Mine, app, RowTasks, Own
  <1>6. CASE row.id \in Ids(rows)
    <2>1. PICK r \in rows : r.id = row.id /\
             Write(p, Put(rows, [r EXCEPT !.schedule = row.schedule, !.task = row.task]))
      BY <1>6 DEF Update
    <2>2. PICK new : /\ new.id = row.id /\ new.name = r.name /\ new.task = row.task
                     /\ new.schedule = row.schedule /\ Write(p, Without(rows, new.id) \cup {new})
      <3>1. r \in Row
        BY <1>1 DEF DataOK
      <3>2. QED
        BY <2>1, <3>1 DEF Put, Row
    <2>3. /\ rows' = {x \in rows : x.id # row.id} \cup {new}
          /\ crowded'[p] = crowded[p]
          /\ \A q \in Process \ {p} : crowded'[q] = (crowded[q] \/ Busy(q))
      BY <1>1, <2>2, WriteRest DEF Without
    <2>4. r.name = row.name
      BY <1>1, <2>1, AllMeant, SameName DEF CronInv, Naming
    <2>5. RowTasks'
      BY <1>1, <2>1, <2>2, <2>3, <2>4 DEF RowTasks, TaskOK
    <2>6. Rest(p)
      BY <1>1, <1>2, <2>3 DEF Rest, Mine, app
    <2>7. Ids(rows)' = Ids(rows)
      BY <2>1, <2>2, <2>3 DEF Ids
    <2>8. ASSUME ~crowded[p] PROVE Alone(p)'
      <3>1. Alone(p)
        BY <1>1, <2>8 DEF Own
      <3>2. LoadedInv(p)'
        BY <1>1, <2>7, <3>1 DEF Alone, LoadedInv, app, Ids
      <3>3. RegisterInv(p)'
        BY <1>1, <1>2, <1>6, <2>2, <2>3, <2>7, <3>1 DEF Alone, RegisterInv, app
      <3>4. PromptInv(p)'
        BY <1>4 DEF PromptInv
      <3>5. OutcomeInv(p)'
        BY <1>1, <3>1 DEF Alone, OutcomeInv, app
      <3>6. QED
        BY <3>2, <3>3, <3>4, <3>5 DEF Alone
    <2>9. QED
      BY <1>3, <2>3, <2>5, <2>6, <2>8, StepKeeps DEF Own
  <1>7. QED
    BY <1>5, <1>6

LEMMA RegetMemory == ASSUME CronInv, MemoryInv, NEW p \in Process, Reget(p) PROVE MemoryInv'
  <1> DEFINE row == call[p]["boot"].row
             found == {r \in rows : r.id = row.id}
  <1>1. /\ AppOK /\ RowTasks /\ Own(p)
        /\ phase[p] = "memory" /\ "boot" \in Thread /\ "boot" \notin Caller
        /\ TaskOK(row) /\ call[p]["boot"].pc = "reget"
        /\ UNCHANGED <<rows, crowded, jobs, callbacks, running>>
    BY Split, ByProcess, BootCall DEF CronInv, Reget, table
  <1>2. CASE found = {}
    <2>1. crowded[p]
      BY <1>1, <1>2 DEF Own, Alone, RegisterInv, Ids
    <2>2. Validate(p, "boot", row.name, row.schedule, row.task) /\ row.task \in {"prompt", row.name}
      BY <1>1, <1>2 DEF Reget, TaskOK
    <2>3. QED
      BY <1>1, <2>1, <2>2, ValidateMemory
  <1>3. CASE found # {}
    <2>1. PICK r \in found : Set(p, "boot", "renewed", r)
      BY <1>3 DEF Reget
    <2>2. UNCHANGED app
      BY <1>3 DEF Reget
    <2>3. /\ call'[p]["boot"].pc = "renewed" /\ call'[p]["boot"].row = r
          /\ \A d \in Thread \ {"boot"} : call'[p][d] = call[p][d]
      BY <1>1, <2>1 DEF Set, AppOK
    <2>4. r.name = row.name
      BY <1>1, AllMeant, SameName DEF CronInv, Naming
    <2>5. ASSUME ~crowded[p] PROVE RegisterInv(p)' /\ PromptInv(p)'
      <3>1. RegisterInv(p)'
        BY <1>1, <2>2, <2>3, <2>4, <2>5 DEF Own, Alone, RegisterInv, app, Ids
      <3>2. PromptInv(p)'
        BY <1>1, <2>3, <2>5, BootIsNoCaller DEF Own, Alone, PromptInv
      <3>3. QED
        BY <3>1, <3>2
    <2>6. TaskOK(r)
      BY <1>1 DEF RowTasks
    <2>7. QED
      BY <1>1, <2>1, <2>2, <2>5, <2>6, GoOnMemory
  <1>4. QED
    BY <1>2, <1>3

LEMMA GetMemory ==
  ASSUME CronInv, MemoryInv, NEW p \in Process, NEW c \in Thread, Get(p, c) PROVE MemoryInv'
  <1> DEFINE row == call[p][c].row
             found == {r \in rows : r.id = row.id}
  <1>1. /\ AppOK /\ RowTasks /\ Own(p) /\ call[p][c].pc = "get"
        /\ c = "boot" => phase[p] = "memory"
        /\ c \in Caller => phase[p] = "up" /\ c # "boot"
        /\ "boot" \in Thread /\ "boot" \notin Caller
        /\ UNCHANGED <<rows, crowded, jobs, callbacks, running>>
    BY Split, ByProcess, BootCall, BootIsNoCaller, IdleTypes DEF CronInv, Get, table, Own, Phases
  <1>2. CASE found = {}
    <2>1. c = "boot" => crowded[p]
      BY <1>1, <1>2 DEF Own, Alone, RegisterInv, Ids
    <2>2. Fail(p, c)
      BY <1>2 DEF Get
    <2>3. QED
      BY <1>1, <2>1, <2>2, FailMemory
  <1>3. CASE found # {}
    <2>1. PICK r \in found : Set(p, c, "added", r)
      BY <1>3 DEF Get
    <2>2. UNCHANGED app
      BY <1>3 DEF Get
    <2>3. /\ call'[p][c].pc = "added" /\ call'[p][c].row = r
          /\ \A d \in Thread \ {c} : call'[p][d] = call[p][d]
      BY <1>1, <2>1 DEF Set, AppOK
    <2>4. r.name = row.name
      BY <1>1, AllMeant, SameName DEF CronInv, Naming
    <2>5. ASSUME ~crowded[p] PROVE RegisterInv(p)'
      <3>1. CASE c = "boot"
        BY <1>1, <2>2, <2>3, <2>4, <2>5, <3>1 DEF Own, Alone, RegisterInv, app, Ids
      <3>2. CASE c # "boot"
        BY <1>1, <2>2, <2>3, <2>5, <3>2 DEF Own, Alone, RegisterInv, app, Ids
      <3>3. QED
        BY <3>1, <3>2
    <2>6. ASSUME ~crowded[p] PROVE PromptInv(p)'
      BY <1>1, <2>3, <2>6, BootIsNoCaller DEF Own, Alone, PromptInv
    <2>7. TaskOK(r)
      BY <1>1 DEF RowTasks
    <2>8. QED
      BY <1>1, <2>1, <2>2, <2>5, <2>6, <2>7, GoOnMemory
  <1>4. QED
    BY <1>2, <1>3

LEMMA CreateMemory ==
  ASSUME CronInv, MemoryInv, NEW p \in Process, NEW c \in Caller, Create(p, c) PROVE MemoryInv'
  <1>1. PICK name \in Name, s \in CronValid : Validate(p, c, name, s, "prompt")
    BY DEF Create
  <1>2. phase[p] = "up" /\ c # "boot" /\ c \in Thread
        /\ UNCHANGED <<rows, crowded, jobs, callbacks, running>>
    BY BootIsNoCaller DEF Create, ToolCall, table
  <1>3. QED
    BY <1>1, <1>2, ValidateMemory

LEMMA InsertMemory ==
  ASSUME CronInv, MemoryInv, NEW p \in Process, NEW c \in Thread, Insert(p, c) PROVE MemoryInv'
  <1> DEFINE row == [call[p][c].row EXCEPT !.id = NextId]
  <1>1. /\ AppOK /\ DataOK /\ RowTasks /\ Own(p) /\ call[p][c].pc = "insert"
        /\ c = "boot" => phase[p] = "memory"
        /\ c \in Caller => phase[p] = "up" /\ c # "boot"
        /\ c \in Caller \/ c = "boot"
        /\ UNCHANGED <<jobs, callbacks, running>>
    BY Split, ByProcess, BootCall, BootIsNoCaller, IdleTypes
       DEF CronInv, Insert, Own, Phases, Thread
  <1>2. call[p][c].row \in Row
    BY <1>1 DEF AppOK, CallsInv
  <1>3. /\ row.id = lastId + 1 /\ row.name = call[p][c].row.name
        /\ row.task = call[p][c].row.task /\ row.schedule = call[p][c].row.schedule
    BY <1>2 DEF Row, NextId
  <1> HIDE DEF row
  <1>4. CASE row.name \in {r.name : r \in rows}
    <2>1. Fail(p, c) /\ UNCHANGED <<rows, crowded>>
      BY <1>4 DEF Insert, row, table
    <2>2. c = "boot" => crowded[p]
      BY <1>1, <1>3, <1>4 DEF Own, Alone, RegisterInv
    <2>3. QED
      BY <1>1, <2>1, <2>2, FailMemory
  <1>5. CASE row.name \notin {r.name : r \in rows}
    <2>1. Write(p, rows \cup {row}) /\ Set(p, c, "get", row) /\ UNCHANGED app
      BY <1>5 DEF Insert, row
    <2>2. /\ call'[p][c].pc = "get" /\ call'[p][c].row = row
          /\ \A d \in Thread \ {c} : call'[p][d] = call[p][d]
          /\ \A q \in Process \ {p} : call'[q] = call[q]
      BY <1>1, <2>1 DEF Set, AppOK
    <2>3. /\ rows' = rows \cup {row} /\ crowded'[p] = crowded[p]
          /\ \A q \in Process \ {p} : crowded'[q] = (crowded[q] \/ Busy(q))
      BY <1>1, <2>1, WriteRest
    <2>4. Rest(p)
      BY <1>1, <2>1, <2>2, <2>3 DEF Rest, Mine, app
    <2>5. TaskOK(row)
      BY <1>1, <1>3 DEF Own, OwnTasks, TaskOK
    <2>6. \A r \in rows : r.name # row.name /\ r.id # row.id
      <3>1. \A r \in rows : r.id \in 1..lastId
        BY AllMeant, SameName DEF CronInv
      <3>2. QED
        BY <1>1, <1>3, <1>5, <3>1 DEF DataOK
    <2>7. RowTasks'
      BY <1>1, <2>3, <2>5, <2>6 DEF RowTasks
    <2>8. OwnTasks(p)' /\ Phases(p)'
      BY <1>1, <2>1, <2>2, <2>5, BootIsNoCaller DEF Own, OwnTasks, Phases, app
    <2>9. ASSUME ~crowded[p] PROVE Alone(p)'
      <3>1. Alone(p)
        BY <1>1, <2>9 DEF Own
      <3>2. LoadedInv(p)'
        BY <1>1, <2>1, <2>3, <3>1 DEF Alone, LoadedInv, app, Ids
      <3>3. RegisterInv(p)'
        <4>1. CASE c = "boot"
          BY <1>1, <1>3, <2>1, <2>2, <2>3, <2>6, <3>1, <4>1 DEF Alone, RegisterInv, app, Ids
        <4>2. CASE c \in Caller
          <5>1. call'[p]["boot"].pc = "idle"
            BY <1>1, <2>2, <4>2, IdleTypes, BootIsNoCaller DEF AppOK, CallsInv
          <5>2. QED
            BY <5>1 DEF RegisterInv
        <4>3. QED
          BY <1>1, <4>1, <4>2
      <3>4. PromptInv(p)'
        <4>1. CASE c = "boot"
          <5>1. \A d \in Caller : call'[p][d].pc = "idle"
            BY <1>1, <2>2, <4>1, IdleTypes, BootIsNoCaller DEF Own, Phases
          <5>2. QED
            BY <5>1 DEF PromptInv
        <4>2. CASE c \in Caller
          <5>1. row.task = "prompt"
            BY <1>1, <1>3, <3>1, <4>2 DEF Alone, PromptInv
          <5>2. QED
            BY <2>2, <2>3, <2>6, <3>1, <5>1, BootIsNoCaller DEF Alone, PromptInv
        <4>3. QED
          BY <1>1, <4>1, <4>2
      <3>5. OutcomeInv(p)'
        BY <1>1, <2>1, <3>1 DEF Alone, OutcomeInv, app
      <3>6. QED
        BY <3>2, <3>3, <3>4, <3>5 DEF Alone
    <2>10. QED
      BY <2>3, <2>4, <2>7, <2>8, <2>9, StepKeeps DEF Own
  <1>6. QED
    BY <1>4, <1>5

LEMMA RangeOfTail ==
  ASSUME NEW S, NEW s \in Seq(S), s # <<>>
  PROVE  /\ \A x \in Range(s) : x = Head(s) \/ x \in Range(Tail(s))
         /\ Len(s) = 1 => Range(Tail(s)) = {}
  <1>1. ASSUME NEW i \in 1..Len(s), i # 1 PROVE s[i] = Tail(s)[i - 1] /\ i - 1 \in 1..Len(Tail(s))
    BY <1>1
  <1>2. DOMAIN s = 1..Len(s) /\ DOMAIN Tail(s) = 1..Len(Tail(s)) /\ Head(s) = s[1]
    OBVIOUS
  <1>3. Len(s) = 1 => DOMAIN Tail(s) = {}
    BY <1>2
  <1>4. QED
    BY <1>1, <1>2, <1>3 DEF Range

(* A tool's job is registered: a prompt.                                   *)
LEMMA CallerRegisterMemory ==
  ASSUME CronInv, MemoryInv, NEW p \in Process, NEW c \in Caller, Register(p, c),
         call[p][c].row.schedule \in TriggerValid
  PROVE  MemoryInv'
  <1> DEFINE row == call[p][c].row
  <1>1. /\ AppOK /\ DataOK /\ RowTasks /\ Own(p) /\ c \in Thread /\ c # "boot"
        /\ call[p][c].pc = "added" /\ phase[p] = "up"
    BY Split, ByProcess, BootIsNoCaller, IdleTypes DEF CronInv, Register, Own, Phases, CallsInv, AppOK
  <1>2. /\ jobs' = [jobs EXCEPT ![p] = Put(@, row)] /\ Set(p, c, "idle", NoRow)
        /\ UNCHANGED <<rows, crowded, callbacks, running, phase, wish, left, memory>>
    BY <1>1 DEF Register, Remember, Return, table
  <1>3. /\ call'[p][c] = Idle
        /\ \A d \in Thread \ {c} : call'[p][d] = call[p][d]
        /\ \A q \in Process \ {p} : call'[q] = call[q]
    BY <1>1, <1>2 DEF Set, AppOK, Idle
  <1>4. /\ jobs'[p] = {j \in jobs[p] : j.id # row.id} \cup {row}
        /\ \A q \in Process \ {p} : jobs'[q] = jobs[q]
    BY <1>1, <1>2 DEF DataOK, Put, Without
  <1>5. Rest(p)
    BY <1>2, <1>3, <1>4 DEF Rest, Mine
  <1>6. OwnTasks(p)' /\ Phases(p)'
    BY <1>1, <1>2, <1>3, <1>4, IdleTypes, BootIsNoCaller DEF Own, OwnTasks, Phases
  <1>7. ASSUME ~crowded[p] PROVE Alone(p)'
    <2>1. Alone(p) /\ row.task = "prompt"
      BY <1>1, <1>7 DEF Own, Alone, PromptInv
    <2>2. LoadedInv(p)'
      BY <1>1, <1>2 DEF LoadedInv
    <2>3. RegisterInv(p)'
      BY <1>1, <1>2, <1>3, <2>1, BootIsNoCaller DEF Alone, RegisterInv, Ids
    <2>4. PromptInv(p)'
      BY <1>2, <1>3, <2>1, IdleTypes, BootIsNoCaller DEF Alone, PromptInv
    <2>5. OutcomeInv(p)'
      BY <1>2, <1>4, <2>1 DEF Alone, OutcomeInv
    <2>6. QED
      BY <2>2, <2>3, <2>4, <2>5 DEF Alone
  <1>8. QED
    BY <1>1, <1>2, <1>5, <1>6, <1>7, StepKeeps DEF Own, RowTasks

(* A memory job is registered with its callback: the next one's turn, or   *)
(* memory is on.                                                           *)
LEMMA BootRegisterMemory ==
  ASSUME CronInv, MemoryInv, NEW p \in Process, Register(p, "boot"),
         call[p]["boot"].row.schedule \in TriggerValid
  PROVE  MemoryInv'
  <1> DEFINE row == call[p]["boot"].row
             last == Len(left[p]) = 1
  <1>1. /\ AppOK /\ DataOK /\ RowTasks /\ Own(p) /\ "boot" \in Thread /\ "boot" \notin Caller
        /\ call[p]["boot"].pc \in {"added", "renewed"} /\ phase[p] = "memory"
        /\ left[p] \in Seq(RuntimeNames) /\ left[p] # <<>> /\ TaskOK(row)
    BY Split, ByProcess, BootCall, BootIsNoCaller DEF CronInv, Register
  <1>2. /\ jobs' = [jobs EXCEPT ![p] = Put(@, row)] /\ Set(p, "boot", "idle", NoRow)
        /\ callbacks' = [callbacks EXCEPT ![p] = @ \cup {row.id}]
        /\ left' = [left EXCEPT ![p] = Tail(@)]
        /\ memory' = IF last THEN [memory EXCEPT ![p] = "on"] ELSE memory
        /\ phase' = IF last THEN [phase EXCEPT ![p] = "agents"] ELSE phase
        /\ UNCHANGED <<rows, crowded, running, wish>>
    BY <1>1 DEF Register, Remember, Return, table
  <1>3. /\ call'[p]["boot"] = Idle
        /\ \A d \in Thread \ {"boot"} : call'[p][d] = call[p][d]
        /\ \A q \in Process \ {p} : call'[q] = call[q]
    BY <1>1, <1>2 DEF Set, AppOK, Idle
  <1>4. /\ jobs'[p] = {j \in jobs[p] : j.id # row.id} \cup {row}
        /\ callbacks'[p] = callbacks[p] \cup {row.id}
        /\ left'[p] = Tail(left[p])
        /\ memory'[p] = IF last THEN "on" ELSE memory[p]
        /\ phase'[p] = IF last THEN "agents" ELSE "memory"
        /\ \A q \in Process \ {p} : /\ jobs'[q] = jobs[q] /\ callbacks'[q] = callbacks[q]
                                     /\ left'[q] = left[q] /\ memory'[q] = memory[q]
                                     /\ phase'[q] = phase[q]
    BY <1>1, <1>2 DEF DataOK, AppOK, Put, Without
  <1>5. Rest(p)
    BY <1>2, <1>3, <1>4 DEF Rest, Mine
  <1>6. OwnTasks(p)'
    BY <1>1, <1>3, <1>4, IdleTypes DEF Own, OwnTasks
  <1>7. \A d \in Caller : call'[p][d] = Idle
    BY <1>1, <1>3, BootIsNoCaller DEF Own, Phases
  <1>8. Phases(p)'
    BY <1>1, <1>2, <1>4, <1>7 DEF Own, Phases
  <1>9. ASSUME ~crowded[p] PROVE Alone(p)'
    <2>1. Alone(p) /\ row.name = Head(left[p]) /\ row.id \in Ids(rows)
      BY <1>1, <1>9 DEF Own, Alone, RegisterInv
    <2>2. \A j \in jobs[p] : j.name = Head(left[p]) => j.id = row.id
      <3> SUFFICES ASSUME NEW j \in jobs[p], j.name = Head(left[p]) PROVE j.id = row.id
        OBVIOUS
      <3>1. PICK r \in rows : r.id = j.id
        BY <1>1, <2>1 DEF Alone, LoadedInv, Ids
      <3>2. PICK o \in rows : o.id = row.id
        BY <2>1 DEF Ids
      <3>3. Meant(r) /\ Meant(o) /\ Meant(j) /\ Meant(row)
        BY <1>1, AllMeant DEF CronInv, Naming
      <3>4. r.name = j.name /\ o.name = row.name
        BY <3>1, <3>2, <3>3, SameName
      <3>5. QED
        BY <1>1, <2>1, <3>1, <3>2, <3>4 DEF RowTasks
    <2>3. \A j \in jobs'[p] :
            j.task = "prompt" \/ j.id \in callbacks'[p] \/ j.name \in Range(Tail(left[p]))
      BY <1>1, <1>4, <2>1, <2>2, RangeOfTail DEF Alone, LoadedInv
    <2>4. LoadedInv(p)'
      <3>1. Ids(jobs[p]) \subseteq Ids(rows)
        BY <1>1, <2>1 DEF Alone, LoadedInv
      <3>2. \A j \in jobs'[p] : j.id \in Ids(rows)
        BY <1>4, <2>1, <3>1 DEF Ids
      <3>3. rows' = rows /\ left'[p] = Tail(left[p])
        BY <1>2, <1>4
      <3>4. QED
        BY <2>3, <3>2, <3>3 DEF LoadedInv, Ids
    <2>5. RegisterInv(p)' /\ PromptInv(p)'
      BY <1>3, <1>7, IdleTypes DEF RegisterInv, PromptInv
    <2>6. OutcomeInv(p)'
      <3>1. last => Range(Tail(left[p])) = {}
        BY <1>1, RangeOfTail
      <3>2. memory[p] = "none" /\ \A r \in running[p] : r.how # "agent"
        BY <1>1 DEF Own, Phases
      <3>3. QED
        BY <1>2, <1>4, <2>3, <3>1, <3>2 DEF OutcomeInv
    <2>7. QED
      BY <2>4, <2>5, <2>6 DEF Alone
  <1>10. QED
    BY <1>1, <1>2, <1>5, <1>6, <1>8, <1>9, StepKeeps DEF Own, RowTasks

LEMMA RegisterMemory ==
  ASSUME CronInv, MemoryInv, NEW p \in Process, NEW c \in Thread, Register(p, c) PROVE MemoryInv'
  <1>1. CASE call[p][c].row.schedule \in TriggerValid
    <2>1. c \in Caller \/ c = "boot"
      BY DEF Thread
    <2>2. QED
      BY <1>1, <2>1, CallerRegisterMemory, BootRegisterMemory
  <1>2. CASE call[p][c].row.schedule \notin TriggerValid
    <2>1. Fail(p, c) /\ UNCHANGED <<rows, crowded, jobs, running>>
      BY <1>2 DEF Register, table
    <2>2. /\ \A q \in Process : callbacks[q] \subseteq callbacks'[q]
          /\ \A q \in Process \ {p} : UNCHANGED callbacks[q]
      BY DEF Register, Remember, CronInv, TypeOK
    <2>3. c = "boot" => phase[p] = "memory" /\ (~crowded[p] => wish[p] \notin TriggerValid \cap CronValid)
      BY <1>2, BootCall DEF Register, Alone, RegisterInv
    <2>4. QED
      BY <2>1, <2>2, <2>3, FailMemory
  <1>3. QED
    BY <1>1, <1>2

LEMMA RemoveJobMemory ==
  ASSUME CronInv, MemoryInv, NEW p \in Process, NEW c \in Caller, RemoveJob(p, c) PROVE MemoryInv'
  <1>1. /\ AppOK /\ DataOK /\ RowTasks /\ Own(p) /\ c \in Thread /\ c # "boot" /\ phase[p] = "up"
        /\ UNCHANGED <<rows, crowded, app, running>>
    BY Split, ByProcess, BootIsNoCaller DEF CronInv, RemoveJob, ToolCall, table
  <1>2. PICK id \in 1..lastId :
          /\ Unregister(p, id)
          /\ callbacks' = [callbacks EXCEPT ![p] = @ \ {id}]
          /\ Set(p, c, "delete", [NoRow EXCEPT !.id = id])
    BY DEF RemoveJob
  <1>3. /\ call'[p][c].pc = "delete"
        /\ \A d \in Thread \ {c} : call'[p][d] = call[p][d]
        /\ \A q \in Process \ {p} : call'[q] = call[q]
    BY <1>1, <1>2 DEF Set, AppOK
  <1>4. /\ jobs'[p] = {j \in jobs[p] : j.id # id} /\ callbacks'[p] = callbacks[p] \ {id}
        /\ \A q \in Process \ {p} : jobs'[q] = jobs[q] /\ callbacks'[q] = callbacks[q]
    BY <1>1, <1>2 DEF DataOK, Unregister, Without
  <1>5. Rest(p)
    BY <1>1, <1>3, <1>4 DEF Rest, Mine, app
  <1>6. OwnTasks(p)' /\ Phases(p)'
    BY <1>1, <1>3, <1>4, BootIsNoCaller DEF Own, OwnTasks, Phases, app
  <1>7. ASSUME ~crowded[p] PROVE Alone(p)'
    <2>1. Alone(p)
      BY <1>1, <1>7 DEF Own
    <2>2. LoadedInv(p)'
      BY <1>1 DEF LoadedInv, app
    <2>3. RegisterInv(p)' /\ PromptInv(p)'
      BY <1>1, <1>3, <2>1, BootIsNoCaller DEF Alone, RegisterInv, PromptInv, Ids, app
    <2>4. OutcomeInv(p)'
      BY <1>1, <1>4, <2>1 DEF Alone, OutcomeInv, app
    <2>5. QED
      BY <2>2, <2>3, <2>4 DEF Alone
  <1>8. QED
    BY <1>1, <1>5, <1>6, <1>7, StepKeeps DEF Own, RowTasks

LEMMA DeleteMemory ==
  ASSUME CronInv, MemoryInv, NEW p \in Process, NEW c \in Caller, Delete(p, c) PROVE MemoryInv'
  <1>1. /\ AppOK /\ DataOK /\ RowTasks /\ Own(p) /\ c \in Thread /\ c # "boot" /\ phase[p] = "up"
        /\ UNCHANGED <<app, jobs, callbacks, running>>
    BY Split, ByProcess, BootIsNoCaller, IdleTypes DEF CronInv, Delete, Own, Phases
  <1>2. /\ call'[p][c] = Idle
        /\ \A d \in Thread \ {c} : call'[p][d] = call[p][d]
        /\ \A q \in Process \ {p} : call'[q] = call[q]
    BY <1>1 DEF Set, AppOK, Delete, Idle
  <1>3. /\ rows' \subseteq rows /\ crowded'[p] = crowded[p]
        /\ \A q \in Process \ {p} : crowded'[q] = (crowded[q] \/ Busy(q))
    BY <1>1, WriteRest DEF Delete, Without
  <1>4. Rest(p) /\ RowTasks'
    BY <1>1, <1>2, <1>3 DEF Rest, Mine, app, RowTasks
  <1>5. OwnTasks(p)' /\ Phases(p)'
    BY <1>1, <1>2, IdleTypes, BootIsNoCaller DEF Own, OwnTasks, Phases, app
  <1>6. ASSUME ~crowded[p] PROVE Alone(p)'
    <2>1. Alone(p)
      BY <1>1, <1>6 DEF Own
    <2>2. LoadedInv(p)' /\ OutcomeInv(p)'
      BY <1>1, <2>1 DEF Alone, LoadedInv, OutcomeInv, app
    <2>3. call'[p]["boot"].pc = "idle"
      BY <1>1, <1>2, IdleTypes, BootIsNoCaller DEF AppOK, CallsInv
    <2>4. RegisterInv(p)'
      BY <2>3 DEF RegisterInv
    <2>5. PromptInv(p)'
      BY <1>2, <1>3, <2>1, IdleTypes, BootIsNoCaller DEF Alone, PromptInv
    <2>6. QED
      BY <2>2, <2>4, <2>5 DEF Alone
  <1>7. QED
    BY <1>3, <1>4, <1>5, <1>6, StepKeeps DEF Own

LEMMA EndMemory ==
  ASSUME CronInv, MemoryInv, NEW p \in Process, NEW how \in {"failed", "down"}, End(p, how)
  PROVE  MemoryInv'
  <1>1. AppOK /\ DataOK /\ RowTasks
    BY Split, ByProcess DEF CronInv
  <1>2. /\ \A q \in Process \ {p} : /\ phase'[q] = phase[q] /\ wish'[q] = wish[q]
                                     /\ left'[q] = left[q] /\ call'[q] = call[q]
                                     /\ memory'[q] = memory[q] /\ callbacks'[q] = callbacks[q]
                                     /\ jobs'[q] = jobs[q] /\ running'[q] = running[q]
                                     /\ crowded'[q] = crowded[q]
        /\ phase'[p] = how /\ jobs'[p] = {} /\ running'[p] = {} /\ memory'[p] = "none"
        /\ \A d \in Thread : call'[p][d] = Idle
        /\ rows' = rows
    BY <1>1 DEF End, AppOK, DataOK
  <1>3. Rest(p) /\ RowTasks'
    BY <1>1, <1>2 DEF Rest, Mine, RowTasks
  <1>4. OwnTasks(p)' /\ Phases(p)'
    BY <1>2, IdleTypes, BootIsNoCaller DEF OwnTasks, Phases
  <1>5. Alone(p)'
    BY <1>2, IdleTypes, BootIsNoCaller DEF Alone, LoadedInv, RegisterInv, PromptInv, OutcomeInv
  <1>6. QED
    BY <1>3, <1>4, <1>5, StepKeeps DEF Own

LEMMA BootMemory == ASSUME CronInv, MemoryInv, NEW p \in Process, Boot(p) PROVE MemoryInv'
  <1>1. AppOK /\ DataOK /\ RowTasks /\ Own(p) /\ phase[p] \in {"down", "failed"}
    BY Split, ByProcess DEF CronInv, Boot
  <1>2. /\ UNCHANGED <<rows, crowded, memory, callbacks, call, running>>
        /\ \A q \in Process \ {p} : /\ phase'[q] = phase[q] /\ wish'[q] = wish[q]
                                     /\ left'[q] = left[q] /\ jobs'[q] = jobs[q]
        /\ phase'[p] = "loading" /\ left'[p] = Runtime /\ jobs'[p] = rows
    BY <1>1 DEF Boot, table, AppOK, DataOK
  <1>3. /\ \A d \in Thread : call[p][d] = Idle
        /\ memory[p] = "none" /\ \A r \in running[p] : r.how # "agent"
    BY <1>1 DEF Own, Phases, AppOK, CallsInv, Thread
  <1>4. Rest(p) /\ RowTasks'
    BY <1>1, <1>2 DEF Rest, Mine, RowTasks
  <1>5. OwnTasks(p)' /\ Phases(p)'
    BY <1>1, <1>2, <1>3, IdleTypes, BootIsNoCaller DEF RowTasks, OwnTasks, Phases
  <1>6. LoadedInv(p)'
    <2>1. ASSUME NEW r \in rows, r.task # "prompt" PROVE r.name \in Range(Runtime)
      <3>1. r.task = r.name /\ r.task \in Task
        BY <1>1, <2>1 DEF RowTasks, TaskOK, DataOK, Row
      <3>2. QED
        BY <2>1, <3>1 DEF Task, RuntimeNames
    <2>2. QED
      BY <1>2, <2>1 DEF LoadedInv, Ids
  <1>7. RegisterInv(p)' /\ PromptInv(p)' /\ OutcomeInv(p)'
    BY <1>2, <1>3, IdleTypes, BootIsNoCaller DEF RegisterInv, PromptInv, OutcomeInv
  <1>8. QED
    BY <1>4, <1>5, <1>6, <1>7, StepKeeps DEF Own, Alone

LEMMA PhaseMemory ==
  ASSUME CronInv, MemoryInv, NEW p \in Process, Load(p) \/ SkipMemory(p) \/ SetFactory(p)
  PROVE  MemoryInv'
  <1>1. AppOK /\ DataOK /\ RowTasks /\ Own(p)
    BY Split, ByProcess DEF CronInv
  <1>2. CASE End(p, "failed")
    BY <1>2, EndMemory
  <1>3. CASE ~End(p, "failed")
    <2>1. /\ UNCHANGED <<rows, crowded, wish, left, memory, jobs, callbacks, call, running>>
          /\ \/ phase[p] = "loading" /\ phase' = [phase EXCEPT ![p] = "memory"]
             \/ phase[p] = "memory" /\ phase' = [phase EXCEPT ![p] = "agents"]
             \/ phase[p] = "agents" /\ phase' = [phase EXCEPT ![p] = "up"]
      BY <1>3 DEF Load, SkipMemory, SetFactory, table
    <2>2. /\ phase'[p] \in {"memory", "agents", "up"}
          /\ phase'[p] = "memory" => phase[p] = "loading"
          /\ phase[p] # "up"
          /\ \A q \in Process \ {p} : phase'[q] = phase[q]
      BY <1>1, <2>1 DEF AppOK
    <2>3. Rest(p) /\ RowTasks' /\ OwnTasks(p)' /\ Phases(p)'
      BY <1>1, <2>1, <2>2 DEF Rest, Mine, RowTasks, Own, OwnTasks, Phases
    <2>4. ASSUME ~crowded[p] PROVE Alone(p)'
      BY <1>1, <2>1, <2>2, <2>4 DEF Own, Alone, LoadedInv, RegisterInv, PromptInv, OutcomeInv, Ids
    <2>5. QED
      BY <2>1, <2>3, <2>4, StepKeeps DEF Own
  <1>4. QED
    BY <1>2, <1>3

(* Runs: an agent is started only for a job without a callback.            *)
LEMMA RunMemory ==
  ASSUME CronInv, MemoryInv, NEW p \in Process,
         UNCHANGED <<rows, crowded, phase, wish, left, memory, jobs, callbacks, call>>,
         \A q \in Process \ {p} : running'[q] = running[q],
         \A r \in running'[p] :
            \/ \E o \in running[p] : r.how = o.how /\ r.job = o.job
            \/ r.how = "agent" => /\ phase[p] = "up" /\ r.job \in jobs[p]
                                  /\ r.job.id \notin callbacks[p]
  PROVE  MemoryInv'
  <1>1. RowTasks /\ Own(p)
    BY ByProcess
  <1>2. Rest(p) /\ RowTasks' /\ OwnTasks(p)' /\ Phases(p)'
    BY <1>1 DEF Rest, Mine, RowTasks, Own, OwnTasks, Phases
  <1>3. ASSUME ~crowded[p] PROVE Alone(p)'
    BY <1>1, <1>3 DEF Own, Alone, LoadedInv, RegisterInv, PromptInv, OutcomeInv, Ids
  <1>4. QED
    BY <1>2, <1>3, StepKeeps DEF Own

LEMMA RunsMemory ==
  ASSUME CronInv, MemoryInv, NEW p \in Process, Fire(p) \/ Converse(p) \/ Finish(p)
  PROVE  MemoryInv'
  <1>1. running \in [Process -> SUBSET Run]
        /\ UNCHANGED <<rows, crowded, phase, wish, left, memory, jobs, callbacks, call>>
    BY DEF CronInv, TypeOK, Fire, Converse, Finish, table, app
  <1>2. CASE Fire(p)
    <2> DEFINE How(j) == IF j.id \in callbacks[p] THEN "callback"
                         ELSE IF phase[p] = "up" THEN "agent" ELSE "none"
    <2>1. PICK j \in jobs[p] :
            running' = [running EXCEPT ![p] =
                           @ \cup {[job |-> j, stage |-> "begun", how |-> How(j)]}]
      BY <1>2 DEF Fire
    <2>2. QED
      BY <1>1, <2>1, RunMemory
  <1>3. CASE Converse(p)
    <2>1. PICK r \in running[p], stage \in {"asked", "answered"} :
            running' = [running EXCEPT ![p] = (@ \ {r}) \cup {[r EXCEPT !.stage = stage]}]
      BY <1>3 DEF Converse
    <2>2. [r EXCEPT !.stage = stage].how = r.how /\ [r EXCEPT !.stage = stage].job = r.job
      BY <1>1 DEF Run
    <2>3. \A x \in running'[p] : \E o \in running[p] : x.how = o.how /\ x.job = o.job
      BY <1>1, <2>1, <2>2
    <2>4. QED
      BY <1>1, <2>1, <2>3, RunMemory
  <1>4. CASE Finish(p)
    <2>1. PICK r \in running[p] : running' = [running EXCEPT ![p] = @ \ {r}]
      BY <1>4 DEF Finish
    <2>2. QED
      BY <1>1, <2>1, RunMemory
  <1>5. QED
    BY <1>2, <1>3, <1>4

LEMMA InitMemory == Init => MemoryInv
  <1> SUFFICES ASSUME Init PROVE MemoryInv
    OBVIOUS
  <1>1. TasksInv
    BY IdleTypes DEF Init, TasksInv, Scheduled
  <1>2. PhasesInv
    BY BootIsNoCaller DEF Init, PhasesInv
  <1>3. \A p \in Process : Alone(p)
    BY IdleTypes, BootIsNoCaller DEF Init, Alone, LoadedInv, RegisterInv, PromptInv, OutcomeInv
  <1>4. QED
    BY <1>1, <1>2, <1>3 DEF MemoryInv

LEMMA MemoryPreserved == CronInv /\ MemoryInv /\ [Next]_vars => MemoryInv'
  <1> SUFFICES ASSUME CronInv, MemoryInv, [Next]_vars PROVE MemoryInv'
    OBVIOUS
  <1>1. CASE UNCHANGED vars
    <2>1. RowTasks' /\ \A q \in Process : UNCHANGED Mine(q) /\ UNCHANGED <<rows, crowded[q]>>
      BY <1>1, ByProcess DEF vars, RowTasks, Mine
    <2>2. QED
      BY <2>1, ByProcess, ByProcessNext, OthersKeepOwn
  <1>2. CASE Next
    BY <1>2, FindMemory, UpdateMemory, RegetMemory, GetMemory, CreateMemory, InsertMemory,
       RegisterMemory, RemoveJobMemory, DeleteMemory, BootMemory, PhaseMemory, EndMemory,
       RunsMemory DEF Next, Stop
  <1>3. QED
    BY <1>1, <1>2

(* What a process that others leave alone relies on holds of its start,    *)
(* its calls and its runs in every reachable state.                        *)
THEOREM MemoryInductive == Spec => []MemoryInv
  BY InitMemory, CronInductive, MemoryPreserved, PTL DEF Spec

(* A start that others leave alone gets the memory jobs registered, over   *)
(* whatever rows earlier starts and agents left; only an expression that   *)
(* croniter or APScheduler refuses keeps memory off.                       *)
THEOREM MemoryAlwaysBack == Spec => []MemoryComesBack
  <1>1. MemoryInv => MemoryComesBack
    BY DEF MemoryInv, Alone, OutcomeInv, MemoryComesBack
  <1>2. QED
    BY <1>1, MemoryInductive, PTL

(* With memory on, no memory job is ever run as a prompt of an agent in a  *)
(* process that others left alone.                                         *)
THEOREM TasksNeverPrompted == Spec => []TaskNotPrompted
  <1>1. MemoryInv => TaskNotPrompted
    BY DEF MemoryInv, Alone, OutcomeInv, TaskNotPrompted
  <1>2. QED
    BY <1>1, MemoryInductive, PTL
=============================================================================
