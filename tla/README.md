# A TLA+ model of polarsclaw

polarsclaw is a personal AI assistant written as one asyncio program. A daemon
serves a WebSocket gateway and a scheduler; chat terminals are processes of
their own on the same SQLite database. This directory holds TLA+ models of the
parts where order, failure and shared state decide whether the program is
right, the TLC configurations that check them on small instances, and TLAPS
proofs for instances of any size.

Every definition is translated from the code; the lines are in `PROJECT.json`
under `map`. Paths below are relative to `src/polarsclaw/`.

    tlc -workers 2 -config QueueSafety.cfg MCCommandQueue
    tlapm CommandQueueProofs.tla

## 1. The system

### Components, their state and their operations

| Component | State | Operations | Model |
|---|---|---|---|
| Command queue `queue/` | the asyncio queue, collect buffers and timers, cancel events, lanes with counts and semaphores, tasks | `enqueue` in modes STEER, FOLLOWUP, COLLECT, INTERRUPT; `start`; `_process_item`; `_flush_collect`; `stop`; lane get-or-create and release | `CommandQueue`, `SerialLanes` |
| Gateway `gateway/` | the sockets registered by request and by session | WebSocket endpoint, `POST /message`, `register`, `unregister_websocket`, `stream`, `done`, `error` | `Gateway` |
| Dispatch `runtime/dispatcher.py`, `daemon/runner.py` | none; calls sessions, skills, agent | `dispatch_message`, the daemon's queue handler, the midnight reset task | `Conversations`, `Gateway` |
| Agent loop `agents/loop.py` | `_current_task` | `run` (timeout, cancellation), `stream`, `cancel` | `AgentLoop` |
| Sessions and messages `sessions/`, `storage/repositories.py` | tables sessions and messages, the manager's key cache | `resolve`, `resume`, `create`, `create_with_id`, `daily_reset`, `MessageRepo.add` | `Conversations` |
| Chat terminal `cli/chat.py` | the session it is in | a line, dispatched again when the first dispatch fails | `Conversations` |
| Memory index `memory/` | the .md files; tables mem_files, mem_chunks, mem_chunks_vec, mem_embedding_cache; the watcher's pending changes | `index_file` from startup, watcher, `append_memory` and light sleep; deduplication | `MemoryIndex` |
| Memory search `memory/search.py`, `memory/recall_tracker.py`, `memory/embeddings/` | the index while it changes, mem_recalls, the provider's failure count | `search` (words, vectors, fusion, re-ranking), recording of recalls | `Recall` |
| Cron `cron/` | tables cron_jobs and cron_results; in each process APScheduler's jobs and the runtime callbacks | `start`, `add_job`, `remove_job`, `register_runtime_job`, runs and their results | `Cron` |
| Database `storage/database.py`, `migrations.py` | the schema, schema_version, each process's connection | `initialize`, the migrations, `close` | `Storage` |
| Daemon process `daemon/process.py`, `daemon/runner.py` | the PID file, the daemons that were forked | `start`, `stop`, `status`, the life of `run_daemon` | `Daemon` |
| Routing `routing/` | the bindings of the settings | `resolve_bindings`, the router's fallback | `Routing` |
| Skills `skills/` | the directory of skill files, the entries of the last scan | `discover`, `match` | `Skills` |
| Plugins, tools, context engines, agents, `app.py` | the registries of tools, groups and engines; the agents | `discover`, `load_all`, registration, expansion of profiles, `create_agent`, `build_app` | `Wiring` |
| Promotion, REM and deep sleep; session tools; CLI output; shared types | see section 6 | | not modelled |

### How they interact

A frame on a socket is registered with the bridge and put on the command queue;
the queue gives each item an asyncio task that takes a global permit and then
the session's lane, and calls the daemon's handler. The handler finds or makes
the session, stores the message, asks a skill or the agent, and stores the
answer; `on_done` or `on_error` then sends the final frame through the bridge.
Cron jobs make sessions of their own and call the agent directly. Terminals
dispatch directly, without queue and lanes, from another process. At midnight
the reset task deletes sessions that no one updated. Memory is indexed by up to
four tasks at once (startup, watcher, tools, light sleep) over one connection,
and searched by any turn. Every process, daemon or terminal, runs `build_app`:
it opens and migrates the database, starts a scheduler over the shared cron
tables, loads plugins, registers tools, and creates the agents.

### What is hard, and what makes each part correct

* **Command queue.** Two nested semaphores per task; a lane that is forgotten
  when its count drops to zero and rebuilt on demand; a debounce timer per
  session replaced by each message; a cancel event that whichever task comes
  first takes; a `stop` that awaits a snapshot. Correct: one handler per session
  at a time, in order, never more than the global number; nothing lost,
  repeated or mixed by coalescing; every task ends.
* **Gateway and agent.** Sockets go while requests are in flight; a run of the
  agent may time out, be cancelled by another, or raise. Correct: who is still
  there gets the final frame, nothing of a closed socket is kept, every handler
  ends and frees its lane.
* **Sessions.** Every database access is an await: the reset deletes under a
  running turn, a later turn makes the session again under the same id, another
  process writes to it. Correct: turns do not mix, no message without a session,
  the reset deletes stale sessions only.
* **Memory index and search.** Hash, chunks and vectors are written by separate
  committed statements, from several tasks, with embedding calls and crashes
  between; a search joins three reads by chunk id while all that happens.
  Correct: a vector belongs to the text it is stored for and scores, a file that
  is marked as indexed is found, of the chunks deduplication read it leaves no two
  near-duplicates, a recall counts for the text that was shown.
* **Cron.** Two processes share the table of jobs; each has a copy in
  APScheduler and a third set, the callbacks; calls await between the changes of
  the three. Correct: results stay with their job, a removed job stays away, the
  memory jobs come back at every start with their callbacks.
* **Migrations, daemon.** Crashes between statements and two processes that
  migrate at once; check-then-act on the PID file by commands and daemons.
  Correct: who gets the database open finds every table; status and stop find
  the daemon that runs.
* **Registration.** Plugins that fail half way, entries of the same name, order
  of registration. Correct: an agent that has a built-in tool has the built-in
  one.

All hazards, at their lines, with the properties that watch them, are listed in
`PROJECT.json` under `hazards`.

## 2. The modules

A step of a model is what one asyncio task does between two suspensions. Where
a component's awaits are database accesses, a step is one access.

### CommandQueue, SerialLanes, MCCommandQueue

`CommandQueue` models all of `queue/`. A request is enqueued at most once, and
`stage` says where it is; `queue`, `buffers`, `timers`, `cancelEvents`, `lanes`,
`running` are the fields of the class. A `Lane` is an object with identity
(`laneObj`), because a task keeps the object it read after the dictionary has
forgotten it; it is named after the call that built it. A semaphore is the line
of those that hold it or wait for it: the permits go to the first
`MaxConcurrency` in the line, and a waiter that was handed a permit still has to
resume (`ResumeWithPermit`, `BeginHandler`), since asyncio's semaphore makes
newcomers queue behind woken waiters (`PermitFree`).

| Action | Code |
|---|---|
| `RejectFull`, `EnqueueFollowup`, `EnqueueInterrupt`, `EnqueueCollect` | `enqueue` and the helpers of its modes |
| `FlushCollect` | `_flush_collect`, when the debounce timer fires |
| `StartLoop`, `LoopTake`, `LoopExit` | `start` |
| `StartCancelled`, `StartTask`, `ResumeWithPermit`, `BeginHandler`, `FinishHandler` | `_process_item` |
| `Stop`, `StopReturn` | `stop` |

`SerialLanes` is the abstract specification: a FIFO backlog per session, one
active item per session, a global bound, withdrawal before the handler is
called. The refinement mapping is at the end of `CommandQueue`: an unfinished
item is before another of its session (`Before`) when it is in a line nearer the
handler (its lane's line, then those waiting for a permit, then the tasks not
started, then what is queued) or ahead of it in the same line, and the session's
`Backlog` is the list of its unfinished items in that order. `Spec` implements
`SerialLanes!Spec` (`SerialFIFO`).

### AgentLoop, Gateway, MCGateway

`AgentLoop` models `run`: the shared `_current_task`, the timeout that cancels
what is in it, the ways the call ends. It has no specification of its own;
`Gateway` composes it with `SerialLanes` (the queue, as its abstraction), the
bridge, the sockets and the daemon's handler. Because the queue is represented
by what `CommandQueue` was shown to implement, `Gateway` stays small; and
`Gateway` shows `HandlerEnds`, which is the fairness `CommandQueue` assumes of
its handlers. The cancel event of an interrupt is a set of sessions here: which
item of the session takes it is left open, which includes what the queue does.

### Conversations, MCConversations

The tables sessions and messages (a session row is its dates and who made it)
under every writer: turns from the queue, cron jobs, terminals with their cache,
retry and death, and the reset task. `pc` names the database access a turn makes
next. A terminal begins with no session or with the one `--session` names (`SessionOption`),
which may exist by then. `LaneFree` is what the queue guarantees: queued turns of one session do
not overlap. Terminals and cron jobs have no such guard. Since every caller
leaves peer and channel out, all sessions have the one scope key and the key is
not a variable.

### MemoryIndex, MCMemoryIndex

`index_file` as a call that any of its four callers can be in: the file is read,
then `Lookup`, `Upsert`, `DeleteOld`, `InsertChunk` for each chunk, `Embed`,
`StoreVector` for each chunk. `PlaceSent` is the place an uncached text has among
those sent to the provider, by which its embedding is found again. A file's content is a sequence of texts, which is
what chunking makes of it, and its hash is the content. `Upsert` returns what
sqlite3's `lastrowid` returns: the id of the row after an insert; after an
update by conflict the number of the connection's last insert into any table,
or 0, so any number up to `MaxRow`. `Fail` is an exception: at startup it turns the
memory subsystem off, in light sleep it ends the run, the watcher and the tool
go on. Light sleep suspends twice before it compares: `SleepRead` takes the list of
chunks (`snapshot`), `SleepCompare` is the end of the embedding call, and others
insert and delete between the two and between the deletions. `Duplicates` is the
double loop over the list, with its removal of the older chunk of a pair: `Compared` and `ComparedOn` are the inner loop, from one turn
to the next, and both loops are recursive functions over their turns. `Edit` is anybody changing or removing a
file; `Restart` is the end of the process at any point.

### Cron, MCCron

The tables `cron_jobs` and `cron_results` belong to all processes; the jobs
registered with APScheduler, the callbacks, the calls under way and the runs
belong to one. `phase` is how far `build_app` is: `start` loads the jobs (`Boot`,
`Load`), the memory subsystem registers its own or fails (`Find`, `Update`,
`Reget`, `Insert`, `Get`, `Register`, `SkipMemory`), the agents are created
(`SetFactory`). From then on tools create and remove jobs, at most one call per
caller, each with its awaits between the check of the expression, the insert, the
read back and the registration; `RemoveJob` forgets the job in this process
first and deletes its row an await later. A job may fire at any moment; a run
keeps the job it began with. An id is never reused (`AUTOINCREMENT`), which
`ResultsAreOwn` and `RemovedIsGone` rest on. Expressions are of four kinds:
accepted by croniter and APScheduler, by croniter only (six fields), by
APScheduler only (`0 3 last * *`), by none. One that only APScheduler accepts
keeps memory off as long as there is no row to update, because `add_job` asks
croniter and `register_runtime_job` does not.

### Storage, Daemon, MCStartup

`Storage` is `Database.initialize`: connect, read the version, the statements of
each missing migration one at a time, the row of its version. Any number of
processes do this on one file, and each may end between any two statements.
`disturbed` records that a migration was cut short or that two ran at once, and
only then may `initialize` fail (`FailsOnlyDisturbed`); nobody is ever let in
without the tables (`OpenHasSchema`).

`Daemon` extends it with the commands `start`, `stop` and `status`, the PID file,
the double fork, the signals and the life of `run_daemon`: it writes the file,
sets its handlers, opens the database, builds, binds the port, serves, shuts
down; it may die at any point. `hasty` records that a command began while another
was under way or before a forked daemon had written its process id; the code
takes no lock, so what `RunningIsNamed` says holds without haste only.

### Routing, Skills, Wiring, Recall, MCLookups

Four parts that share no state: which agent a message goes to, which skill
answers it, which tools an agent has, which memories a search finds. They are
checked side by side in one instance: a behaviour is a behaviour of one of them.

* `Routing` is the one pass of `resolve_bindings` with its sum of weights 8, 4, 2
  and 1 and its `>`, and the router's fallback. `MostSpecificWins` says without
  weights what they are for.
* `Skills` is `discover` and `match`: every match lists the directory (`Scan`) and
  then reads the files one by one (`Parse`), while anybody changes or removes
  them; then it goes once through the entries. A trigger is given by how it
  relates to the message; `Unit` is a multiple of every number of words, so
  scores are whole numbers and no two different shares of words become equal.
* `Wiring` is `build_app` between the database and the agents: discovery of
  plugins, their load with what they registered before they raised, built-in
  tools, memory tools, profiles and allow lists, the provider of each agent's
  model. `extra` stands for any tool that is not the program's own. A later registration of a name replaces an earlier one.
* `Recall` is `HybridSearcher.search` with its two queries, the embedding of the
  query, the lookup of each id, the fusion of the scores with decay, the greedy
  re-ranking, and the recording of recalls, while chunks are inserted, embedded
  and deleted between any two awaits. Whether the provider is disabled is looked at
  when the call begins; an answer may come after another call's failure disabled it. Scores are scaled to integers and
  likeness is the share of common words, as in the code.

## 3. The runs

| Run | Instance | Result |
|---|---|---|
| `queue_safety` | 4 requests, three of one session, 2 permits, `MaxPending` 2; 136,000 states | passes: `SessionExclusion`, `LaneAccounting`, `Accounted`, `CancelEventBounded`, `BufferArmed`, `CarriedOnce`, refinement `SerialFIFO` |
| `queue_liveness` | 3 requests, 1 permit, fair; 29,000 states | passes: `ConcurrencyCap`, `TaskSettles`, `AcceptedProgresses`, `StopReturns` |
| `conversations` | three of: 2 queued turns of one session, a cron job, a chat line; 1 midnight; 2,053,000 states | passes: `TurnsAreSerial`, `NoOrphans`, `CreatedTodaySpared` |
| `gateway` | two of three requests over two sockets and POST, 2 sessions, 2 permits; 75,000 states | passes: `FinalDelivered`, `BridgeClean`, `HandlerEnds` |
| `gateway_runs` | same, without fairness | violated: runs end with `AttributeError` or `CancelledError` |
| `memory_index` | 2 files, 2 texts, up to 2 chunks a file, 2 events; 1,629,000 states | passes: `VectorMatchesText`, `KeptAreDistinct` |
| `memory_upsert` | same | violated: a changed file goes on with a row number that is not its own |
| `cron` | 2 processes with 2 callers, 2 rows, 2 starts, 2 calls, 1 run; 942,000 states | passes: `ResultsAreOwn`, `RemovedIsGone`, `MemoryComesBack`, `TaskNotPrompted`, `SuccessIsAnswered` |
| `cron_start` | same | violated: one refused expression ends every later start |
| `startup` | 2 daemons, another process, 3 commands, 2 migrations; 374,031 states | passes: `OpenHasSchema`, `FailsOnlyDisturbed`, `RunningIsNamed`, `StopEnds` |
| `lookups` | see below; 1,317,000 states | passes: `MostSpecificWins`, `BestSkill`, `BuiltinsAreTheirs`, `IdsMeanOneText`, `DroppedForLikeness` |
| `lookups_tools` | the settings of `lookups` | violated: no agent has the memory tools its prompt tells it to use |

Every passing run also checks its module's type invariant, but for
`queue_liveness`. `CHECK_DEADLOCK FALSE` stands where the program may rest: all
requests have ended, nothing was started, or every bound is reached.

### The bounds, and why they are enough

* **Requests.** Three requests of one session suffice for one that holds the
  lane, one that waits and one that arrives while the lane is released; the
  fourth, of another session, competes for permits. Two permits let two sessions
  run and two tasks of one session hold both, which is the interesting case; one
  permit makes every wait for it real in the liveness run. `MaxPending` 2 of
  three or four requests makes a full queue common.
* **Turns.** Two turns of a session and one other writer cover deletion under a
  turn, re-creation by a second and a third that meddles; which three of the
  four kinds take place is chosen at the start. `MaxDay` 1 gives one reset, and
  a restarted daemon another wait; kills of daemon and terminal are unbounded.
* **Gateway.** Two of three requests: two clients in one session, or one client
  and a POST in another session, which is what the shared `_current_task` and
  the removal of a socket need.
* **Memory.** `MaxEvents` bounds edits, appends, light sleeps and restarts
  together. Two allow a change and a restart, a light sleep and a change that
  races with it. Two files with `MaxRow` 1 let `lastrowid` be nobody's (0), the
  file's own or the other file's.
* **Cron.** Two rows are a memory job and one an agent made, perhaps under the
  memory job's name; two starts are the two processes at once, or one process
  that comes back over what it left; two calls are a creation and a removal, or
  two removals, in one process or in two; one run may begin at any point of
  this.
* **Startup.** A repeatable migration and one with two statements that cannot be
  repeated are what the real list has. Two daemons are what it takes to have one
  too many; three commands are a start, a stop and a start, or any two that
  race before a third looks.
* **Lookups.** Every list of up to two bindings, since a pass compares two at a
  time, for every sender; every pair of skill files under two changes; pairs of
  plugins of the same and of different names, from entry points and directories,
  that return, raise or lack `register`; three chunks of which one is found by
  words only late, one by its vector only, and one is older than the half-life.
  The over-fetch of `3 * Limit` never cuts anything at this size.

### Fairness, and why the code justifies it

`CommandQueue!Fairness` and `Gateway!Fairness` say: a task or callback the event
loop can run is run (the loop is FIFO); a timer nobody cancels fires; a handler
ends. The last is discharged by `HandlerEnds` in `Gateway`, from the agent's
timeout (`agent_config.timeout`, 300 s by default) and the assumption that a
task that was told to stop stops. Skills have no timeout and are assumed to end;
the hazard list says so. No client is obliged to send, nobody to call `start` or
`stop`, and an agent is never obliged to answer.

`Daemon!Fairness` says that a command that was called goes on: it polls and
sleeps but waits for nobody. No daemon is obliged to do anything, so `StopEnds`
holds of daemons that hang; the kill after the polls ends them.

## 4. The proofs

All parts have proofs, in eight modules, for any values of the constants that
satisfy the named assumptions of the component's module. TLC evaluates the
assumptions in the runs, and finds the inductive invariants that are defined
beside the models to hold on the runs' instances.

| Module | Theorems | From |
|---|---|---|
| `CommandQueueProofs` | `Inductive`, `TypeCorrect`, `SessionExclusionHolds`, `LaneAccountingHolds`, `CancelEventsEnd`, `BuffersStayArmed`, `ConcurrencyCapHolds` | a request has a session; the number of permits is positive; `None` is no request and no lane |
| `CommandQueueContents` | `AccountedHolds`, `CarriedOnceHolds`, `QueueIsSerial` | the same |
| `GatewayProofs` | `GatewayTypes`, `BridgeStaysClean`, `AnswersReachClients` | requests of one connection are of one session; `None` is no connection and no request |
| `ConversationsProofs` | `ConversationsInductive`, `ConversationsTypes`, `MessagesHaveSessions`, `ResetSparesToday`, `TurnsStaySerial` | kinds of turns are disjoint; a queued turn has a session, a chat line a terminal; `None` is no row |
| `CronProofs` | `CronInductive`, `CronTypes`, `ResultsStayOwn`, `RemovedStaysGone`, `SuccessMeansAnswered`, `MemoryAlwaysBack`, `TasksNeverPrompted` | the two sets of accepted expressions are of expressions; the memory jobs' names are a sequence without repetition and no agent's |
| `MemoryIndexProofs` | `IndexInductive`, `SleepInductive`, `VectorsMatchTexts`, `MemoryTypes`, `LightSleepKeepsDistinct` | the bounds are numbers; likeness is symmetric |
| `StartupProofs` | `OpenMeansMigrated`, `OnlyDisturbedFails`, `FileNamesDaemon`, `StartupImplementsStorage`, `DaemonsFindSchema`, `StartupTypes` | migrations are sequences of statements; one that cannot be repeated occurs once; daemons are processes, `NoPid` is none |
| `LookupsProofs` | `MostSpecificBindingWins`, `BuiltinsStayTheirs`, `BestSkillIsMatched`, `IdsKeepOneText`, `LeftOutForLikeness`, `LookupTypes` | `None` is nobody; the threshold is positive and at most the score 1; `Unit` is a multiple of the triggers' numbers of words; of a trigger no more words are found than it has; texts are finite sets of words; settings and plugins are of their types |

**Exclusion** in the queue is not inductive. That no two handlers of a session
run rests on all its tasks using the same lane object, which rests on the lane
not being forgotten while one of them lives, which rests on its count being
exact, which rests on no request being in a line twice or in the wrong one.
`IInv` is these facts:

* `TypeOK`;
* `LinesInv`: the queue and the list of unstarted tasks hold requests of just
  that stage, none twice, so each start and each take is of a fresh request;
* `BuffersInv`: buffers hold buffered requests of their own session, so a
  flush or a discard changes nobody else's stage;
* `LanesInv`: a lane is in the dictionary just while requests of its session are
  outstanding, belongs to that session, counts them, and is the one that each
  task of the session past its start holds;
* `HeadsInv`: a request being handled is the head of its lane's line.

`SessionExclusion` follows at once: two handlers of a session hold the same lane
(`LanesInv`) and are both the head of its line (`HeadsInv`). Each action has a
lemma of its own; four patterns are shared: `PutPreserves` (a request enters the
pipeline and is counted), `StayPreserves` (a task moves on inside it),
`LeavePreserves` (a request leaves, its lane is counted down and perhaps
forgotten), `QuietPreserves` (nothing of the lanes changes).

**The bounds of the queue** add three small invariants to `IInv`: an event belongs
to an interrupt of its session that has not started (`EventInv`); a buffer and its
timer come and go together (`BufferArmed`); and (`PermitInv`) the line for permits holds each task once, and who was
granted one is among its first `MaxConcurrency`. The last gives `ConcurrencyCap`,
an injection from the running tasks into `1..MaxConcurrency`.

**What the lines hold.** `IInv` says that what stands in a line is in that line's
stage; `Accounted` adds that everything in the stage stands there, once. Each
action takes a request out of one line and puts it into another, and lemmas about
`Lists` (append, tail, removal) carry the rest. `CarriedOnce` needs that a buffer
holds what was not carried yet, each once, which is what `Accounted` says of it.

**The queue is serial.** `QueueIsSerial` says that `Spec` implements
`SerialLanes!Spec`. Its invariant is that each session's unfinished items can be
listed in their order at all (`OrderInv`); such a list is unique, so it is the
`Backlog` that `CHOOSE` takes. Of a step it is enough to know what it does to the
order. A put adds an item behind all others; a cancelled start and the end of a
handler take one out; and an item that moves on leaves the order alone, because
it goes from the front of one line to the end of a line ahead of it and none of
its session stands in between. That last is where the FIFO discipline of the two
semaphores is used: a task that starts with a free permit passes nobody, since a
permit is free only if nobody waits for one, woken or not. The steps are then
those of `SerialLanes`: an item whose handler runs is the head of its lane's line
(`HeadsInv`) and so of its backlog, and `ConcurrencyCap` bounds the others.

**Gateway.** `QueueInv` says that buffers and backlog hold requests of their phase
and session, once, and that a request is being handled just while it is the
active head of its backlog; `SocketsInv` that a request stays registered for its
own socket until its handler has ended. `FinalDelivered` follows, since only the
handler's end and the close of that socket remove the registration.

**Conversations.** `ConversationsInv` adds to the types that rows are dated
created <= updated <= today, and that what a reset still has to delete exists
and was created before today. A deletion is of such a row, and takes its messages
along. `SerialInv`, on top of it, says that a daemon turn at work writes to its own
session and is alone in its lane, and that, as long as it is owed an answer, its
question is the daemon's last word there, if the session is still there and is
the daemon's. Sessions a cron job shares with a client are excluded, because a
client that names a cron job's session has no lane in common with the job.

**Cron.** `CronInv` names everywhere an id is known (rows, results, registered
jobs, runs, calls between their awaits) and says that all agree on the job's
name. Only the insert brings in an id, and it is one that nobody has known.
A removed job comes back only by registration; a call that registers either had
created its row by the time of the removal, and then the id is not counted as
removed, or took its id later.

`MemoryInv` follows a start through its calls. What a process has loaded is still
stored while nobody else removes jobs; a memory job without a callback has yet to
be registered; the call under way is about the next memory job, with the wished
expression in the call or, once written, in the table; what tools create is a
prompt. It is claimed of processes that were left alone (`crowded` is false), and
`TasksInv` and `PhasesInv` of all: a task is a prompt or its job's name, names are
stored once, and tools and agents run only after the memory was decided.

**Storage and Daemon.** `SchemaInv`: recorded versions are an initial segment,
what is recorded is in effect, and what a process has passed is in effect;
`OrderlyInv`: until something is disturbed, one process migrates, and each
statement in effect is recorded or its own. `StartupImplementsStorage` shows
each step of a daemon or a command to be a step of the database or to leave it
alone, and carries both theorems over. `PidInv`: without haste at most one
command acts and at most one daemon lives, the command acts on the process the
file names, and who is to fork or to remove the file does so when none lives.

**Lookups.** `RoutingInv` says of the bindings seen so far what
`MostSpecificWins` says of all; the arithmetic that the weights amount to a
lexicographic order is a lemma. `WiringInv` follows the registrations. `SkillInv`
says of the entries weighed so far what `BestSkill` says of all. `RecallInv` says
that an id is given to one text for good, so that what a search keeps of a chunk
(its row, the text behind its score) is true of the chunk as long as it is there,
and that what the re-ranking has passed over shares words with a result.
`LookupTypes` puts the types of the four together, each proved from these
invariants; the plugins that discovery lists are typed because every number up to
the size of a finite set is the rank of a member (`RankedIsMember`). The library defines the maximum of a set and the image of a set by `CHOOSE` and with
operators as arguments, so lemmas of our own say that a finite set of numbers has
a greatest member and that an image is finite; they rest on the least-number
principle, which the library's well-founded induction gives for sets.

**Memory index.** `IndexInv`: an id of a chunk is given once and none is above
the last; a cached embedding is its text's; and what is still found under the ids
a call of `index_file` carries has the texts at their places, of the file while
chunks are inserted and embedded, of the embeddings while they are stored. Another
call may delete those chunks at any await, but nothing comes back under their ids
(`CallsKept`), so a vector goes to the chunk it was made for or fails the foreign
key. `BlobsAreOfTheTexts` is the matching by position in `_embed_and_store`:
counting the uncached positions up to each gives every one a place of its own, so
cache and provider together give back the texts.

`LightSleepKeepsDistinct` is about what a program computes by a loop, for any number
of chunks. The library's induction theorems take an operator as a parameter, which
these provers cannot instantiate, so the induction is over a set: a set of numbers
that has 0, and with each number the next, is all of `0..n` (`CarriedOn`, from the
least-number principle). Hence a loop has a value after each turn (`LoopGoes`), and
what no turn takes away stays (`LoopGrows`). `ComparedOnIs` and `DuplicatesAre` apply
both to the inner and the outer loop: what is removed stays removed, and each two
chunks meet in the turn of the first of them unless one was removed by then.
`AllChunksAre` says that `get_all_chunks` leaves none out: the order has no equals,
so the ranks of `n` chunks are `n` different numbers below `n`, that is, all of them.
`SleepInv` carries this over the awaits: the statement is about the chunks of
`snapshot` that are still in the table, a chunk stored during the embedding call or
the deletions has an id above all of theirs (`ChunksAreFresh`), and what disappears
can only help. A near-duplicate that was stored after the list was read waits for
the next run, as in the code.

**Only model-checked:** liveness (`TaskSettles`, `AcceptedProgresses`, `StopReturns`,
`HandlerEnds`, `StopEnds`), which is out of the prover's reach. Each invariant and
action property that a passing run checks has a theorem.

## 5. What the checks found

Four disagreements with what the code says of itself, each with a run:

1. `agents/loop.py:320`: one `_current_task` for all sessions; a timeout
   cancels another session's run or fails on `None` (`gateway_runs`).
2. `memory/db.py:46`: `lastrowid` after an update by conflict is not the row of
   the file; chunks are then stored under another file, or the insert fails and,
   at startup, takes memory down (`memory_upsert`).
3. `cron/scheduler.py:101`: `add_job` stores a job before APScheduler has
   accepted its expression; the caller sees an error, the row stays and ends
   every later `build_app` (`cron_start`).
4. `app.py:143`: the memory tools are in no group, so no profile contains them,
   while every agent's prompt tells it to use them (`lookups_tools`).

Behaviour the models have and no run singles out:

5. `queue/command_queue.py:162`: an interrupt of an idle session drops its own
   message, without `on_done` or `on_error`.
6. `queue/command_queue.py:79`: the hard cap counts neither buffers nor tasks and
   is not looked at when a buffer is flushed.
7. `sessions/manager.py:131`: the reset deletes sessions that were updated
   after it selected them, and the answer of the running turn then fails.
8. `sessions/manager.py:98`: many sessions under the key documented as one
   shared session.
9. `memory/indexer.py:53`: the hash is stored before the chunks; a crash or a
   failed embedding leaves the file out of the index until it is edited.
10. `storage/database.py:119`: a migration that was cut short between its
    statements fails at every later start, since added columns are added again.
11. `memory/promotion.py:69`: the pattern that selects daily notes has no
    directory, while the index stores absolute paths; deep sleep has no
    candidates and promotes nothing.
12. `skills/parser.py:63`: one file that is not UTF-8 makes every match raise.
13. `memory/search.py:149`: a search fails when a chunk it found is deleted
    before its recall is recorded.
14. `memory/dreaming/light.py:93`: what is to be removed is not compared again with
    what is left: if the newer chunk of a pair goes while the chunks are embedded,
    the older is still deleted, and its file, whose hash has not changed, is not
    indexed again.

## 6. What is not modelled, and why

* Tokens, acknowledgements and malformed frames of the gateway: they change no
  state; the failure of sending a token is in the model as a run that raises.
* `AgentLoop.stream` has no caller, and `cancel` only one, a terminal with a
  single run. `cli/message.py` is one line of a terminal without the retry.
* REM sleep reads messages and rewrites one file without a pause; deep sleep and
  promotion have nothing to promote (11 above). When the jobs run is in `Cron`.
* The session tools format what `SessionManager` returns; `memory_tools.py` of the
  built-in tools has no caller.
* `ToolRegistry.unregister`, deny lists and the plugins' own hooks: no caller or
  no setting reaches them.
* The formatting and chunking of text, prompts, context engines, HTTP and token
  checks, argument parsing, types, errors and logging: no state, or none that an
  order or a failure could spoil. Retries and batches of an embedding are inside
  one call, which fails or does not.
* Uniqueness of request ids is assumed; what a repeated one should do is not
  said anywhere. Process ids are not reused.
* SQLite itself: a statement under the write lock is one step and durable.
* The first `append_memory` of a day raises, because the writer reads a file that
  is not there; the action's guard asks for the file.
* Times of cron jobs and sleeping computers: a job may fire at any moment.

## 7. What is left to do

Promotion and REM sleep are worth a module once deep sleep finds candidates.
