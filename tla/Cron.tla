-------------------------------- MODULE Cron --------------------------------
(***************************************************************************)
(* Scheduled jobs (polarsclaw/cron): the tables cron_jobs and              *)
(* cron_results, which all processes share, and the CronScheduler each     *)
(* process builds over them: the jobs it has registered with APScheduler,  *)
(* the callbacks of the memory subsystem among them, and the runs under    *)
(* way.  build_app starts the scheduler, registers the memory jobs and     *)
(* creates the agents; only then can tools create and remove jobs.         *)
(*                                                                         *)
(* A step is one access to the database, or what happens up to the next    *)
(* await.  Nothing clears the column "enabled", so it is left out.         *)
(***************************************************************************)
EXTENDS Integers, Sequences, FiniteSets, Functions

CONSTANTS
    Process,      \* processes that build the application: daemon, chats
    Caller,       \* tool calls a process can have under way
    UserName,     \* names of jobs that agents create
    Runtime,      \* names of the memory jobs, in the order of register_jobs
    Schedule,     \* cron expressions
    CronValid,    \* the expressions croniter accepts
    TriggerValid, \* the expressions APScheduler accepts
    None,         \* no name, no expression
    MaxRows,      \* bound: jobs ever stored
    MaxBoots,     \* bound: starts of processes
    MaxRuns,      \* bound: runs of jobs
    MaxCalls      \* bound: calls of the tools

ASSUME ScheduleAssumption ==
    TriggerValid \cup CronValid \subseteq Schedule /\ None \notin Schedule
ASSUME NameAssumption ==
    /\ Runtime \in Seq(Range(Runtime)) /\ IsInjective(Runtime)
    /\ UserName \cap Range(Runtime) = {}
    /\ None \notin UserName \cup Range(Runtime)
ASSUME CallerAssumption == "boot" \notin Caller

RuntimeNames == Range(Runtime)
Name == UserName \cup RuntimeNames

VARIABLES
    rows,      \* cron_jobs
    results,   \* cron_results
    lastId,    \* sqlite_sequence of cron_jobs
    phase,     \* how far build_app is in each process
    wish,      \* dreaming_schedule in the settings a process read
    left,      \* memory jobs that register_jobs has yet to register
    memory,    \* outcome of register_jobs: not reached, on, or off
    jobs,      \* the jobs registered with APScheduler
    callbacks, \* _runtime_callbacks: the ids that have one
    call,      \* the scheduler call each caller is in
    running,   \* runs under way
    boots,     \* number of starts
    runs,      \* number of runs
    calls,     \* number of calls of the tools
    crowded,   \* history: others changed cron_jobs during a start or a call
    gone       \* history: ids removed by the process when nobody created them

vars == <<rows, results, lastId, phase, wish, left, memory, jobs, callbacks,
          call, running, boots, runs, calls, crowded, gone>>

table == <<rows, lastId, crowded>>
app == <<phase, wish, left, memory>>
hist == <<boots, runs, calls, gone>>

(* The task of a memory job is its name, every other task is a prompt.     *)
Task == {"prompt"} \cup RuntimeNames
Row == [id : Nat, name : Name, schedule : Schedule, task : Task]
Result == [id : Nat, name : Name, status : {"success", "error"},
           stage : {"begun", "asked", "answered"}]
Run == [job : Row, how : {"callback", "agent", "none"},
        stage : {"begun", "asked", "answered"}]
Thread == Caller \cup {"boot"}
Call == [pc : {"idle", "update", "reget", "insert", "get", "added", "renewed", "delete"},
         row : [id : Nat, name : Name \cup {None},
                schedule : Schedule \cup {None}, task : Task]]

TypeOK ==
    /\ rows \in SUBSET Row
    /\ results \in SUBSET Result
    /\ lastId \in Nat
    /\ phase \in [Process -> {"down", "failed", "loading", "memory", "agents", "up"}]
    /\ wish \in [Process -> Schedule \cup {None}]
    /\ left \in [Process -> Seq(RuntimeNames)]
    /\ memory \in [Process -> {"none", "on", "off"}]
    /\ jobs \in [Process -> SUBSET Row]
    /\ callbacks \in [Process -> SUBSET Nat]
    /\ call \in [Process -> [Thread -> Call]]
    /\ running \in [Process -> SUBSET Run]
    /\ boots \in Nat
    /\ runs \in Nat
    /\ calls \in Nat
    /\ crowded \in [Process -> BOOLEAN]
    /\ gone \in [Process -> SUBSET Nat]

Ids(S) == {r.id : r \in S}
Without(S, id) == {r \in S : r.id # id}
Put(S, row) == Without(S, row.id) \cup {row}

NoRow == [id |-> 0, name |-> None, schedule |-> None, task |-> "prompt"]
Idle == [pc |-> "idle", row |-> NoRow]

Init ==
    /\ rows = {}
    /\ results = {}
    /\ lastId = 0
    /\ phase = [p \in Process |-> "down"]
    /\ wish = [p \in Process |-> None]
    /\ left = [p \in Process |-> <<>>]
    /\ memory = [p \in Process |-> "none"]
    /\ jobs = [p \in Process |-> {}]
    /\ callbacks = [p \in Process |-> {}]
    /\ call = [p \in Process |-> [c \in Thread |-> Idle]]
    /\ running = [p \in Process |-> {}]
    /\ boots = 0
    /\ runs = 0
    /\ calls = 0
    /\ crowded = [p \in Process |-> FALSE]
    /\ gone = [p \in Process |-> {}]

Set(p, c, pc, row) == call' = [call EXCEPT ![p][c] = [pc |-> pc, row |-> row]]

Busy(p) == phase[p] \in {"loading", "memory"} \/ \E c \in Thread : call[p][c] # Idle

(* A write of p to cron_jobs, which may cross what other processes do.     *)
Write(p, table2) ==
    /\ rows' = table2
    /\ crowded' = [q \in Process |->
          crowded[q] \/ (q # p /\ Busy(q))]

-----------------------------------------------------------------------------
(* Starting and stopping a process *)

End(p, how) ==
    /\ phase' = [phase EXCEPT ![p] = how]
    /\ wish' = [wish EXCEPT ![p] = None]
    /\ left' = [left EXCEPT ![p] = <<>>]
    /\ memory' = [memory EXCEPT ![p] = "none"]
    /\ jobs' = [jobs EXCEPT ![p] = {}]
    /\ callbacks' = [callbacks EXCEPT ![p] = {}]
    /\ call' = [call EXCEPT ![p] = [c \in Thread |-> Idle]]
    /\ running' = [running EXCEPT ![p] = {}]
    /\ crowded' = [crowded EXCEPT ![p] = FALSE]
    /\ gone' = [gone EXCEPT ![p] = {}]
    /\ UNCHANGED <<rows, lastId>>

(* start() selects the enabled jobs ...                                    *)
Boot(p) ==
    /\ phase[p] \in {"down", "failed"}
    /\ boots < MaxBoots
    /\ boots' = boots + 1
    /\ phase' = [phase EXCEPT ![p] = "loading"]
    /\ \E s \in Schedule : wish' = [wish EXCEPT ![p] = s]
    /\ left' = [left EXCEPT ![p] = Runtime]
    /\ jobs' = [jobs EXCEPT ![p] = rows]
    /\ UNCHANGED <<table, results, memory, callbacks, call, running, runs, calls, gone>>

(* ... and registers each; the first one the trigger refuses ends          *)
(* build_app, and with it the process.                                     *)
Load(p) ==
    /\ phase[p] = "loading"
    /\ IF \A j \in jobs[p] : j.schedule \in TriggerValid
       THEN /\ phase' = [phase EXCEPT ![p] = "memory"]
            /\ UNCHANGED <<table, wish, left, memory, jobs, callbacks, call, running, gone>>
       ELSE End(p, "failed")
    /\ UNCHANGED <<results, boots, runs, calls>>

(* The memory subsystem fails before it registers its jobs.                *)
SkipMemory(p) ==
    /\ phase[p] = "memory"
    /\ left[p] = Runtime
    /\ call[p]["boot"] = Idle
    /\ phase' = [phase EXCEPT ![p] = "agents"]
    /\ UNCHANGED <<table, results, wish, left, memory, jobs, callbacks, call, running, hist>>

(* The agents are built and set_agent_factory is called.                   *)
SetFactory(p) ==
    /\ phase[p] = "agents"
    /\ phase' = [phase EXCEPT ![p] = "up"]
    /\ UNCHANGED <<table, results, wish, left, memory, jobs, callbacks, call, running, hist>>

(* The process is stopped or dies: runs are cancelled and store nothing.   *)
Stop(p) ==
    /\ phase[p] \notin {"down", "failed"}
    /\ End(p, "down")
    /\ UNCHANGED <<results, boots, runs, calls>>

-----------------------------------------------------------------------------
(* add_job and register_runtime_job *)

(* The call of c ends with an exception: the tool reports it, and register_*)
(* jobs ends the memory subsystem.                                         *)
Fail(p, c) ==
    /\ Set(p, c, "idle", NoRow)
    /\ memory' = IF c = "boot" THEN [memory EXCEPT ![p] = "off"] ELSE memory
    /\ phase' = IF c = "boot" THEN [phase EXCEPT ![p] = "agents"] ELSE phase
    /\ UNCHANGED <<wish, left>>

(* The call of c returns; register_jobs goes on to the next memory job.    *)
Return(p, c) ==
    LET last == c = "boot" /\ Len(left[p]) = 1 IN
    /\ Set(p, c, "idle", NoRow)
    /\ left' = IF c = "boot" THEN [left EXCEPT ![p] = Tail(@)] ELSE left
    /\ memory' = IF last THEN [memory EXCEPT ![p] = "on"] ELSE memory
    /\ phase' = IF last THEN [phase EXCEPT ![p] = "agents"] ELSE phase
    /\ UNCHANGED wish

(* add_job, up to its first await: croniter checks the expression.         *)
Validate(p, c, name, schedule, task) ==
    IF schedule \in CronValid
    THEN /\ Set(p, c, "insert",
                [id |-> 0, name |-> name, schedule |-> schedule, task |-> task])
         /\ UNCHANGED app
    ELSE Fail(p, c)

(* Mutant of Find: always adds the job.                                    *)
FindNone(p) ==
    /\ phase[p] = "memory"
    /\ left[p] # <<>>
    /\ call[p]["boot"] = Idle
    /\ Validate(p, "boot", Head(left[p]), wish[p], Head(left[p]))
    /\ UNCHANGED <<table, results, jobs, callbacks, running, hist>>

(* register_runtime_job looks the name up, and adds the job if it is new.  *)
Find(p) ==
    LET name == Head(left[p])
        found == {r \in rows : r.name = name}
    IN
    /\ phase[p] = "memory"
    /\ left[p] # <<>>
    /\ call[p]["boot"] = Idle
    /\ IF found = {}
       THEN Validate(p, "boot", name, wish[p], name)
       ELSE /\ \E r \in found :
                 Set(p, "boot", "update", [r EXCEPT !.schedule = wish[p], !.task = name])
            /\ UNCHANGED app
    /\ UNCHANGED <<table, results, jobs, callbacks, running, hist>>

(* CronRepo.update: nothing is written if the row is gone.                 *)
Update(p) ==
    LET row == call[p]["boot"].row IN
    /\ call[p]["boot"].pc = "update"
    /\ IF row.id \in Ids(rows)
       THEN \E r \in rows : r.id = row.id
              /\ Write(p, Put(rows, [r EXCEPT !.schedule = row.schedule, !.task = row.task]))
       ELSE UNCHANGED <<rows, crowded>>
    /\ Set(p, "boot", "reget", row)
    /\ UNCHANGED <<results, lastId, app, jobs, callbacks, running, hist>>

(* The updated row is read back; any exception so far leads to add_job.    *)
Reget(p) ==
    LET row == call[p]["boot"].row
        found == {r \in rows : r.id = row.id}
    IN
    /\ call[p]["boot"].pc = "reget"
    /\ IF found = {}
       THEN Validate(p, "boot", row.name, row.schedule, row.task)
       ELSE (\E r \in found : Set(p, "boot", "renewed", r)) /\ UNCHANGED app
    /\ UNCHANGED <<table, results, jobs, callbacks, running, hist>>

(* Mutant of NextId: the highest id in use and one, without AUTOINCREMENT. *)
ReusedId == CHOOSE n \in 1..(lastId + 1) :
    n \notin Ids(rows) /\ \A i \in Ids(rows) : i < n /\ (n - 1 = 0 \/ n - 1 \in Ids(rows))

NextId == lastId + 1

(* CronRepo.create: the name is UNIQUE.                                    *)
Insert(p, c) ==
    LET row == [call[p][c].row EXCEPT !.id = NextId] IN
    /\ call[p][c].pc = "insert"
    /\ IF row.name \in {r.name : r \in rows}
       THEN Fail(p, c) /\ UNCHANGED <<table, hist>>
       ELSE /\ lastId < MaxRows
            /\ lastId' = lastId + 1
            /\ Write(p, rows \cup {row})
            /\ Set(p, c, "get", row)
            /\ UNCHANGED <<app, hist>>
    /\ UNCHANGED <<results, jobs, callbacks, running>>

(* add_job reads its row back; another caller may have removed it.         *)
Get(p, c) ==
    LET found == {r \in rows : r.id = call[p][c].row.id} IN
    /\ call[p][c].pc = "get"
    /\ IF found = {}
       THEN Fail(p, c)
       ELSE (\E r \in found : Set(p, c, "added", r)) /\ UNCHANGED app
    /\ UNCHANGED <<table, results, jobs, callbacks, running, hist>>

(* Mutant of Remember: the callback of an updated job is forgotten.        *)
RememberAdded(p, c) ==
    callbacks' = IF c = "boot" /\ call[p][c].pc = "added"
                 THEN [callbacks EXCEPT ![p] = @ \cup {call[p][c].row.id}]
                 ELSE callbacks

(* Both store the callback of a memory job before its registration, which  *)
(* may be refused.                                                         *)
Remember(p, c) ==
    callbacks' = IF c = "boot" THEN [callbacks EXCEPT ![p] = @ \cup {call[p][c].row.id}]
                 ELSE callbacks

(* _register_job: APScheduler parses the expression.                       *)
Register(p, c) ==
    LET row == call[p][c].row
        ok == row.schedule \in TriggerValid
    IN
    /\ call[p][c].pc \in {"added", "renewed"}
    /\ jobs' = IF ok THEN [jobs EXCEPT ![p] = Put(@, row)] ELSE jobs
    /\ Remember(p, c)
    /\ IF ok THEN Return(p, c) ELSE Fail(p, c)
    /\ UNCHANGED <<table, results, running, hist>>

-----------------------------------------------------------------------------
(* The tools *)

ToolCall(p, c) ==
    /\ phase[p] = "up"
    /\ call[p][c] = Idle
    /\ calls < MaxCalls
    /\ calls' = calls + 1

(* create_cron                                                             *)
Create(p, c) ==
    /\ ToolCall(p, c)
    /\ \E name \in Name, s \in CronValid : Validate(p, c, name, s, "prompt")
    /\ UNCHANGED <<table, results, jobs, callbacks, running, boots, runs, gone>>

Creating(p) == {call[p][c].row.id : c \in {d \in Caller : call[p][d].pc \in {"get", "added"}}}

(* Mutant of Unregister: the job stays with APScheduler.                   *)
ForgetOnly(p, id) == jobs' = jobs

Unregister(p, id) == jobs' = [jobs EXCEPT ![p] = Without(@, id)]

(* delete_cron: remove_job up to its await, for any id an agent gives.     *)
RemoveJob(p, c) ==
    /\ ToolCall(p, c)
    /\ \E id \in 1..lastId :
         /\ Unregister(p, id)
         /\ callbacks' = [callbacks EXCEPT ![p] = @ \ {id}]
         /\ Set(p, c, "delete", [NoRow EXCEPT !.id = id])
         /\ gone' = [gone EXCEPT ![p] = @ \cup ({id} \ Creating(p))]
    /\ UNCHANGED <<table, results, app, running, boots, runs>>

(* The row is deleted, and its results with it.                            *)
Delete(p, c) ==
    LET id == call[p][c].row.id IN
    /\ call[p][c].pc = "delete"
    /\ Write(p, Without(rows, id))
    /\ results' = Without(results, id)
    /\ Set(p, c, "idle", NoRow)
    /\ UNCHANGED <<lastId, app, jobs, callbacks, running, hist>>

-----------------------------------------------------------------------------
(* Runs of jobs *)

(* _execute_wrapper: the job runs its callback if it has one, else an      *)
(* agent, once there is a factory of agents.                               *)
(* Bound: a job is not started again while it runs.                        *)
Fire(p) ==
    /\ runs < MaxRuns
    /\ runs' = runs + 1
    /\ phase[p] \in {"memory", "agents", "up"}
    /\ \E j \in {i \in jobs[p] : i.id \notin {r.job.id : r \in running[p]}} :
         running' = [running EXCEPT ![p] = @ \cup {[job |-> j, stage |-> "begun",
             how |-> IF j.id \in callbacks[p] THEN "callback"
                     ELSE IF phase[p] = "up" THEN "agent" ELSE "none"]}]
    /\ UNCHANGED <<table, results, app, jobs, callbacks, call, boots, calls, gone>>

(* execute_cron_job stores the task as a message of a new session, and     *)
(* later the answer of the agent.                                          *)
Converse(p) ==
    /\ \E r \in running[p] :
         /\ r.how = "agent" /\ r.stage # "answered"
         /\ running' = [running EXCEPT ![p] = (@ \ {r}) \cup
              {[r EXCEPT !.stage = IF r.stage = "begun" THEN "asked" ELSE "answered"]}]
    /\ UNCHANGED <<table, results, app, jobs, callbacks, call, hist>>

(* Mutant of AgentOutcome: the flag is set before the answer is stored.    *)
EarlyOutcome(r) == IF r.stage = "begun" THEN {"error"} ELSE {"success", "error"}

(* Mutant of AgentOutcome: a status nothing that reads results knows.       *)
RawOutcome(r) == IF r.stage = "answered" THEN {"done"} ELSE {"error"}

(* execute_cron_job: an answered run ends with success; without a factory, *)
(* and by any error or the timeout before that, it ends with an error.     *)
AgentOutcome(r) == IF r.stage = "answered" THEN {"success"} ELSE {"error"}

(* execute_runtime_job: as the callback ends.                              *)
CallbackOutcome == {"success", "error"}

(* record_result, which fails its foreign key if the job has been removed. *)
Record(r, status) ==
    results' = IF r.job.id \notin Ids(rows) THEN results ELSE results \cup
        {[id |-> r.job.id, name |-> r.job.name, status |-> status, stage |-> r.stage]}

Finish(p) ==
    /\ \E r \in running[p] :
         /\ \E status \in IF r.how = "callback" THEN CallbackOutcome ELSE AgentOutcome(r) :
              Record(r, status)
         /\ running' = [running EXCEPT ![p] = @ \ {r}]
    /\ UNCHANGED <<table, app, jobs, callbacks, call, hist>>

-----------------------------------------------------------------------------
Next ==
    \E p \in Process :
        \/ Boot(p) \/ Load(p) \/ SkipMemory(p) \/ SetFactory(p) \/ Stop(p)
        \/ Find(p) \/ Update(p) \/ Reget(p)
        \/ \E c \in Thread : Insert(p, c) \/ Get(p, c) \/ Register(p, c)
        \/ \E c \in Caller : Create(p, c) \/ RemoveJob(p, c) \/ Delete(p, c)
        \/ Fire(p) \/ Converse(p) \/ Finish(p)

Spec == Init /\ [][Next]_vars

-----------------------------------------------------------------------------
(* Properties *)

(* A result stands under the job it is a result of, although jobs are      *)
(* removed and created while they run (execute_cron_job keeps only the id).*)
ResultsAreOwn ==
    \A x \in results, r \in rows : x.id = r.id => x.name = r.name

(* A job that a process removed when nobody was creating it does not come  *)
(* back in that process, whatever its other calls and memory do.           *)
RemovedIsGone == \A p \in Process : gone[p] \cap Ids(jobs[p]) = {}

(* A start that no other process interferes with gets the memory jobs      *)
(* registered, also over the rows of earlier starts, of starts that ended  *)
(* half way, and of jobs agents gave the same names; only an expression    *)
(* that croniter or APScheduler refuses keeps memory off.                  *)
MemoryComesBack ==
    \A p \in Process :
        memory[p] = "off" => crowded[p] \/ wish[p] \notin TriggerValid \cap CronValid

(* With memory on, the task of a memory job is never sent to an agent,     *)
(* although start() registers its row before it has a callback.            *)
TaskNotPrompted ==
    \A p \in Process, r \in UNION {running[q] : q \in Process} :
        r \in running[p] /\ memory[p] = "on" /\ r.how = "agent"
            => r.job.task = "prompt" \/ crowded[p]

(* A job's history says success exactly if the agent's answer was stored.  *)
SuccessIsAnswered ==
    \A x \in results :
        x.stage # "begun" => (x.status = "success" <=> x.stage = "answered")

(* What start() promises: "Load active jobs from DB and start the          *)
(* scheduler."  It does not, when a row holds an expression that croniter  *)
(* accepts and APScheduler refuses.                                        *)
StartLoads == \A p \in Process : phase[p] # "failed"

(* The inductive invariant of CronProofs.  A call past its check has a     *)
(* row; the boot thread is in a call only while it registers memory jobs.  *)
CallsInv ==
    \A p \in Process :
        /\ phase[p] \notin {"down", "failed"} => wish[p] \in Schedule
        /\ call[p]["boot"] # Idle => phase[p] = "memory" /\ left[p] # <<>>
        /\ \A c \in Thread : call[p][c].pc \notin {"idle", "delete"} => call[p][c].row \in Row
        /\ \A c \in Caller : call[p][c].pc \in {"idle", "insert", "get", "added", "delete"}

(* An id has one name wherever it is known, in any process and for good.   *)
Naming == {"update", "reget", "get", "added", "renewed"}

Scheduled == UNION {jobs[p] : p \in Process}
Executed == {r.job : r \in UNION {running[p] : p \in Process}}
Handled ==
    {call[t[1]][t[2]].row : t \in {u \in Process \X Thread : call[u[1]][u[2]].pc \in Naming}}

Mentions == rows \cup results \cup Scheduled \cup Executed \cup Handled

NamesInv ==
    \A x \in Mentions :
        /\ x.id \in 1..lastId
        /\ \A y \in Mentions : x.id = y.id => x.name = y.name

(* What a process has removed it neither runs nor is about to.             *)
GoneInv ==
    \A p \in Process :
        /\ gone[p] \subseteq 1..lastId
        /\ phase[p] # "up" => gone[p] = {}
        /\ gone[p] \cap (Ids(jobs[p]) \cup Creating(p)) = {}

CronInv == TypeOK /\ CallsInv /\ NamesInv /\ GoneInv

(* Only the runs of agents get past "begun".                               *)
StagesInv == \A p \in Process : \A r \in running[p] : r.how # "agent" => r.stage = "begun"

(* A task is a prompt or the name of its own job, and a name is stored     *)
(* once.                                                                   *)
TasksInv ==
    /\ \A x \in rows \cup Scheduled : x.task \in {"prompt", x.name}
    /\ \A p \in Process, c \in Thread : call[p][c].pc \notin {"idle", "delete"} =>
          call[p][c].row.task \in {"prompt", call[p][c].row.name}
    /\ \A r, o \in rows : r.name = o.name => r.id = o.id

(* Memory is decided before the agents are built, tools and agents run     *)
(* after.                                                                  *)
PhasesInv ==
    \A p \in Process :
        /\ phase[p] \in {"down", "failed", "loading", "memory"} => memory[p] = "none"
        /\ \A c \in Caller : call[p][c] # Idle => phase[p] = "up"
        /\ \A r \in running[p] : r.how = "agent" => phase[p] = "up"

(* What a process that others leave alone relies on: while it starts, the  *)
(* jobs it loaded are still stored, and a memory job without a callback    *)
(* has yet to get one; ...                                                 *)
LoadedInv(p) ==
    phase[p] \in {"loading", "memory"} =>
        /\ Ids(jobs[p]) \subseteq Ids(rows)
        /\ \A j \in jobs[p] :
              j.task = "prompt" \/ j.id \in callbacks[p] \/ j.name \in Range(left[p])

(* ... the job it is registering is the next memory job, with the wished   *)
(* expression in the call or, once written, in the table; ...              *)
RegisterInv(p) ==
    LET pc == call[p]["boot"].pc
        row == call[p]["boot"].row
    IN  pc # "idle" =>
        /\ row.name = Head(left[p]) /\ row.schedule = wish[p]
        /\ pc = "insert" => \A r \in rows : r.name # row.name
        /\ pc # "insert" => row.id \in Ids(rows)
        /\ pc \in {"reget", "get"} =>
              \A r \in rows : r.id = row.id => r.schedule = wish[p]

(* ... and what a tool creates is a prompt.                                *)
PromptInv(p) ==
    \A c \in Caller :
        LET pc == call[p][c].pc
            row == call[p][c].row
        IN  /\ pc \in {"insert", "get", "added"} => row.task = "prompt"
            /\ pc = "get" => \A r \in rows : r.id = row.id => r.task = "prompt"

(* Then memory is on with all its callbacks, or off by its expression.     *)
OutcomeInv(p) ==
    /\ memory[p] = "off" => wish[p] \notin TriggerValid \cap CronValid
    /\ memory[p] = "on" =>
          /\ \A j \in jobs[p] : j.task = "prompt" \/ j.id \in callbacks[p]
          /\ \A r \in running[p] : r.how = "agent" => r.job.task = "prompt"

Alone(p) == LoadedInv(p) /\ RegisterInv(p) /\ PromptInv(p) /\ OutcomeInv(p)

MemoryInv ==
    /\ TasksInv
    /\ PhasesInv
    /\ \A p \in Process : ~crowded[p] => Alone(p)
=============================================================================
