---------------------------- MODULE CommandQueue ----------------------------
(***************************************************************************)
(* The lane-aware command queue of polarsclaw/queue: enqueue in its three  *)
(* behaviours, the start() loop, one _process_item task per item, the      *)
(* collect buffers with their debounce timers, interrupts, stop().         *)
(*                                                                         *)
(* A step is what one asyncio task runs between two suspensions.  Putting  *)
(* on an unbounded asyncio.Queue never suspends, so every enqueue is one   *)
(* step; a task that finds both semaphores free runs into its handler in   *)
(* the step that started it.                                               *)
(***************************************************************************)
EXTENDS Integers, Sequences, FiniteSets, SequencesExt

CONSTANTS
    Sessions,        \* session ids
    Requests,        \* request ids; each is enqueued at most once
    SessionOf,       \* the session a request is addressed to
    MaxConcurrency,  \* permits of the global semaphore
    MaxPending,      \* the cap enqueue() compares qsize() with
    None             \* absent dictionary entry / not yet set local variable

ASSUME SessionOfAssumption == SessionOf \in [Requests -> Sessions]
ASSUME MaxConcurrencyAssumption == MaxConcurrency \in Nat \ {0}
ASSUME MaxPendingAssumption == MaxPending \in Nat

(* A Lane object is named after the call of get_or_create that built it:   *)
(* the one that put request r, or the one in the task of request r.        *)
LaneRefs == Requests \X {"put", "task"}

ASSUME NoneAssumption == None \notin Requests /\ None \notin LaneRefs

LaneType == [pending : Nat, line : Seq(Requests)]

(* Where a request is.  "permit": its task waits on the global semaphore,  *)
(* or was handed the permit and has not resumed; "lane": the same for the  *)
(* semaphore of its lane.                                                  *)
InFlight == {"spawned", "permit", "lane", "handling"}
Outcomes == {"done", "error", "aborted"}
Fates == Outcomes \cup {"cancelled", "absorbed", "discarded", "rejected"}
Stages == {"new", "buffered", "queued"} \cup InFlight \cup Fates

VARIABLES
    stage,         \* stage of every request
    queue,         \* _queue, the asyncio.Queue
    buffers,       \* _collect_buffers: session -> request ids, oldest first
    timers,        \* _collect_timers: sessions whose debounce timer is armed
    cancelEvents,  \* _cancel_events: session -> interrupt that set the event
    lanes,         \* LaneManager._lanes: session -> Lane object
    laneObj,       \* the Lane objects; line = holder of the semaphore, waiters
    laneOf,        \* local variable "lane" of each _process_item task
    spawned,       \* tasks created and not yet started, in creation order
    permitLine,    \* arrivals at _global_sem that have not left it
    payload,       \* requests whose text is in the message of an item
    running,       \* _running
    loop,          \* start(): not called, in its loop, or returned
    gathered,      \* the tasks stop() awaits
    stopping       \* stop(): not called, awaiting its tasks, or returned

vars == <<stage, queue, buffers, timers, cancelEvents, lanes, laneObj, laneOf,
          spawned, permitLine, payload, running, loop, gathered, stopping>>

collectVars == <<buffers, timers>>
laneVars == <<lanes, laneObj, laneOf>>
taskVars == <<spawned, permitLine>>
loopVars == <<running, loop>>
stopVars == <<gathered, stopping>>

TypeOK ==
    /\ stage \in [Requests -> Stages]
    /\ queue \in Seq(Requests)
    /\ buffers \in [Sessions -> Seq(Requests)]
    /\ timers \in SUBSET Sessions
    /\ cancelEvents \in [Sessions -> Requests \cup {None}]
    /\ lanes \in [Sessions -> LaneRefs \cup {None}]
    /\ laneObj \in [LaneRefs -> LaneType]
    /\ laneOf \in [Requests -> LaneRefs \cup {None}]
    /\ spawned \in Seq(Requests)
    /\ permitLine \in Seq(Requests)
    /\ payload \in [Requests -> Seq(Requests)]
    /\ running \in BOOLEAN
    /\ loop \in {"new", "waiting", "exited"}
    /\ gathered \in SUBSET Requests
    /\ stopping \in {"no", "gathering", "returned"}

NewLane == [pending |-> 0, line |-> <<>>]

Init ==
    /\ stage = [r \in Requests |-> "new"]
    /\ queue = <<>>
    /\ buffers = [s \in Sessions |-> <<>>]
    /\ timers = {}
    /\ cancelEvents = [s \in Sessions |-> None]
    /\ lanes = [s \in Sessions |-> None]
    /\ laneObj = [l \in LaneRefs |-> NewLane]
    /\ laneOf = [r \in Requests |-> None]
    /\ spawned = <<>>
    /\ permitLine = <<>>
    /\ payload = [r \in Requests |-> <<>>]
    /\ running = FALSE
    /\ loop = "new"
    /\ gathered = {}
    /\ stopping = "no"

-----------------------------------------------------------------------------
(* LaneManager *)

(* get_or_create: the session's Lane, or a new object known as ref.        *)
LaneFor(s, ref) == IF lanes[s] = None THEN ref ELSE lanes[s]

(* Mutant of LaneState: a new Lane even where the session has one.         *)
LaneStateFresh(s) == NewLane

LaneState(s) == IF lanes[s] = None THEN NewLane ELSE laneObj[lanes[s]]

(* Mutant of Release: the lane goes whatever is pending on it.             *)
ReleaseAlways(map, objs, s) == [map EXCEPT ![s] = None]

(* Mutant of Release: the lane stays for ever.                             *)
ReleaseNever(map, objs, s) == map

(* release: forget the session's lane once nothing is pending on it.       *)
Release(map, objs, s) ==
    IF map[s] # None /\ objs[map[s]].pending <= 0
    THEN [map EXCEPT ![s] = None]
    ELSE map

(* lane.pending += 1, then _queue.put.                                     *)
Put(r) ==
    LET s == SessionOf[r]
        l == LaneFor(s, <<r, "put">>)
    IN  /\ lanes' = [lanes EXCEPT ![s] = l]
        /\ laneObj' = [laneObj EXCEPT
                          ![l] = [LaneState(s) EXCEPT !.pending = @ + 1]]
        /\ queue' = Append(queue, r)

-----------------------------------------------------------------------------
(* enqueue *)

Full == Len(queue) >= MaxPending

(* Mutant of TakeBuffer: the timer of the emptied buffer stays armed.      *)
TakeBufferOnly(s) ==
    /\ buffers' = [buffers EXCEPT ![s] = <<>>]
    /\ UNCHANGED timers

(* Mutant of TakeBuffer: the buffer is read and not popped.                *)
ReadBuffer(s) ==
    /\ timers' = timers \ {s}
    /\ UNCHANGED buffers

(* Pop the session's buffer and its timer.                                 *)
TakeBuffer(s) ==
    /\ buffers' = [buffers EXCEPT ![s] = <<>>]
    /\ timers' = timers \ {s}

(* Mutant of ArmTimer: the cancelled timer is not replaced.                *)
DropTimer(s) == timers' = timers \ {s}

ArmTimer(s) == timers' = timers \cup {s}

(* enqueue raises RuntimeError: nothing of the request is kept.            *)
RejectFull(r) ==
    /\ stage[r] = "new"
    /\ Full
    /\ stage' = [stage EXCEPT ![r] = "rejected"]
    /\ UNCHANGED <<queue, cancelEvents, payload, collectVars, laneVars,
                   taskVars, loopVars, stopVars>>

(* FOLLOWUP and STEER: straight onto the queue.                            *)
EnqueueFollowup(r) ==
    /\ stage[r] = "new"
    /\ ~Full
    /\ Put(r)
    /\ stage' = [stage EXCEPT ![r] = "queued"]
    /\ payload' = [payload EXCEPT ![r] = <<r>>]
    /\ UNCHANGED <<cancelEvents, laneOf, collectVars, taskVars, loopVars,
                   stopVars>>

(* INTERRUPT: raise the session's cancel event, drop what it has buffered  *)
(* and queue the new message behind what is already queued.                *)
EnqueueInterrupt(r) ==
    LET s == SessionOf[r] IN
    /\ stage[r] = "new"
    /\ ~Full
    /\ cancelEvents' = [cancelEvents EXCEPT ![s] = r]
    /\ stage' = [q \in Requests |->
                    IF q = r THEN "queued"
                    ELSE IF \E i \in 1..Len(buffers[s]) : buffers[s][i] = q
                         THEN "discarded"
                         ELSE stage[q]]
    /\ TakeBuffer(s)
    /\ Put(r)
    /\ payload' = [payload EXCEPT ![r] = <<r>>]
    /\ UNCHANGED <<laneOf, taskVars, loopVars, stopVars>>

(* COLLECT: buffer the message and restart the debounce timer.             *)
EnqueueCollect(r) ==
    LET s == SessionOf[r] IN
    /\ stage[r] = "new"
    /\ ~Full
    /\ stage' = [stage EXCEPT ![r] = "buffered"]
    /\ buffers' = [buffers EXCEPT ![s] = Append(@, r)]
    /\ ArmTimer(s)
    /\ UNCHANGED <<queue, cancelEvents, payload, laneVars, taskVars, loopVars,
                   stopVars>>

(* The timer fires: one item with the joined text goes on the queue under  *)
(* the id of the last request, whatever the length of the queue.           *)
FlushCollect(s) ==
    LET buf  == buffers[s]
        last == buf[Len(buf)]
    IN  /\ s \in timers
        /\ TakeBuffer(s)
        /\ IF buf = <<>>
           THEN UNCHANGED <<stage, queue, lanes, laneObj, payload>>
           ELSE /\ Put(last)
                /\ stage' = [q \in Requests |->
                                IF q = last THEN "queued"
                                ELSE IF \E i \in 1..Len(buf) : buf[i] = q
                                     THEN "absorbed"
                                     ELSE stage[q]]
                /\ payload' = [payload EXCEPT ![last] = buf]
        /\ UNCHANGED <<cancelEvents, laneOf, taskVars, loopVars, stopVars>>

-----------------------------------------------------------------------------
(* start *)

(* start() is called once, and not after the shutdown that calls stop().   *)
StartLoop ==
    /\ loop = "new"
    /\ stopping = "no"
    /\ loop' = "waiting"
    /\ running' = TRUE
    /\ UNCHANGED <<stage, queue, cancelEvents, payload, collectVars, laneVars,
                   taskVars, stopVars>>

(* The pending get() is answered and the item gets a task of its own; the  *)
(* loop then tests _running again.                                         *)
LoopTake ==
    /\ loop = "waiting"
    /\ queue # <<>>
    /\ stage' = [stage EXCEPT ![Head(queue)] = "spawned"]
    /\ spawned' = Append(spawned, Head(queue))
    /\ queue' = Tail(queue)
    /\ loop' = IF running THEN "waiting" ELSE "exited"
    /\ UNCHANGED <<cancelEvents, permitLine, payload, running, collectVars,
                   laneVars, stopVars>>

(* The loop ends: its task is cancelled, or the pending get() timed out    *)
(* and _running is off.                                                    *)
LoopExit ==
    /\ loop = "waiting"
    /\ loop' = "exited"
    /\ UNCHANGED <<stage, queue, cancelEvents, payload, running, collectVars,
                   laneVars, taskVars, stopVars>>

-----------------------------------------------------------------------------
(* _process_item *)

(* Mutant of ConsumeEvent: the event is tested and left set.               *)
TestEvent(s) == cancelEvents[s] # None /\ UNCHANGED cancelEvents

(* The set event of the session is found and popped.                       *)
ConsumeEvent(s) ==
    /\ cancelEvents[s] # None
    /\ cancelEvents' = [cancelEvents EXCEPT ![s] = None]

(* A task starts with the session's cancel event set: it takes the event   *)
(* and gives its item up.                                                  *)
StartCancelled ==
    /\ spawned # <<>>
    /\ LET r == Head(spawned)
           s == SessionOf[r]
           l == LaneFor(s, <<r, "task">>)
           objs == [laneObj EXCEPT
                       ![l] = [LaneState(s) EXCEPT !.pending = @ - 1]]
       IN  /\ ConsumeEvent(s)
           /\ laneObj' = objs
           /\ lanes' = Release([lanes EXCEPT ![s] = l], objs, s)
           /\ stage' = [stage EXCEPT ![r] = "cancelled"]
    /\ spawned' = Tail(spawned)
    /\ UNCHANGED <<queue, laneOf, permitLine, payload, collectVars, loopVars,
                   stopVars>>

(* The stage of a task that arrives at a lane whose line was line.         *)
AtLane(line) == IF line = <<>> THEN "handling" ELSE "lane"

(* Mutant of PermitFree: the number of permits is not looked at.           *)
PermitUnbounded == \A i \in 1..Len(permitLine) : stage[permitLine[i]] # "permit"

(* Mutant of PermitFree: a new arrival overtakes woken waiters.            *)
PermitBarging == Len(permitLine) < MaxConcurrency

(* A new arrival gets a permit at once when one is free and nobody, not    *)
(* even a woken task that has yet to resume, is before it.                 *)
PermitFree ==
    /\ Len(permitLine) < MaxConcurrency
    /\ \A i \in 1..Len(permitLine) : stage[permitLine[i]] # "permit"

(* A task starts and goes as far as the semaphores let it.                 *)
StartTask ==
    /\ spawned # <<>>
    /\ LET r == Head(spawned)
           s == SessionOf[r]
           l == LaneFor(s, <<r, "task">>)
           lane == LaneState(s)
       IN  /\ cancelEvents[s] = None
           /\ lanes' = [lanes EXCEPT ![s] = l]
           /\ laneOf' = [laneOf EXCEPT ![r] = l]
           /\ permitLine' = Append(permitLine, r)
           /\ \/ /\ PermitFree
                 /\ stage' = [stage EXCEPT ![r] = AtLane(lane.line)]
                 /\ laneObj' = [laneObj EXCEPT
                                   ![l] = [lane EXCEPT !.line = Append(@, r)]]
              \/ /\ ~PermitFree
                 /\ stage' = [stage EXCEPT ![r] = "permit"]
                 /\ laneObj' = [laneObj EXCEPT ![l] = lane]
    /\ spawned' = Tail(spawned)
    /\ UNCHANGED <<queue, cancelEvents, payload, collectVars, loopVars, stopVars>>

(* A waiter of the global semaphore resumes with the permit handed to it;  *)
(* waiters resume in the order in which they arrived.                      *)
ResumeWithPermit(i) ==
    LET r == permitLine[i]
        l == laneOf[r]
    IN  /\ i <= MaxConcurrency
        /\ stage[r] = "permit"
        /\ \A j \in 1..(i - 1) : stage[permitLine[j]] # "permit"
        /\ stage' = [stage EXCEPT ![r] = AtLane(laneObj[l].line)]
        /\ laneObj' = [laneObj EXCEPT ![l].line = Append(@, r)]
        /\ UNCHANGED <<queue, cancelEvents, lanes, laneOf, payload, collectVars,
                       taskVars, loopVars, stopVars>>

(* A waiter of the lane's semaphore resumes and calls the handler.         *)
BeginHandler(r) ==
    /\ stage[r] = "lane"
    /\ laneObj[laneOf[r]].line # <<>>
    /\ Head(laneObj[laneOf[r]].line) = r
    /\ stage' = [stage EXCEPT ![r] = "handling"]
    /\ UNCHANGED <<queue, cancelEvents, payload, collectVars, laneVars, taskVars,
                   loopVars, stopVars>>

(* Mutant of ReturnPermit: the permit is kept.                             *)
KeepPermit(i) == UNCHANGED permitLine

(* _global_sem is released: the waiters behind move up.                    *)
ReturnPermit(i) == permitLine' = RemoveAt(permitLine, i)

(* The handler and its callback are over: on_done ran, on_error ran, or an *)
(* exception left the task (on_error raised, or a CancelledError, which    *)
(* "except Exception" lets through).  The finally clause and both          *)
(* semaphores' releases follow in the same step.                           *)
FinishHandler(i, outcome) ==
    LET r == permitLine[i]
        s == SessionOf[r]
        objs == [laneObj EXCEPT ![laneOf[r]] =
                    [pending |-> @.pending - 1, line |-> Tail(@.line)]]
    IN  /\ stage[r] = "handling"
        /\ stage' = [stage EXCEPT ![r] = outcome]
        /\ laneObj' = objs
        /\ lanes' = Release(lanes, objs, s)
        /\ laneOf' = [laneOf EXCEPT ![r] = None]
        /\ ReturnPermit(i)
        /\ UNCHANGED <<queue, cancelEvents, spawned, payload, collectVars,
                       loopVars, stopVars>>

-----------------------------------------------------------------------------
(* stop *)

(* Mutant of InFlightTasks: items that have no task yet are awaited too.   *)
TasksAndQueue == {r \in Requests : stage[r] \in InFlight \cup {"queued"}}

(* _tasks: the done callback drops a task as it ends.                      *)
InFlightTasks == {r \in Requests : stage[r] \in InFlight}

(* Timers are cancelled, their buffers stay; the tasks that exist now are  *)
(* awaited.                                                                *)
Stop ==
    /\ stopping = "no"
    /\ running' = FALSE
    /\ timers' = {}
    /\ gathered' = InFlightTasks
    /\ stopping' = IF gathered' = {} THEN "returned" ELSE "gathering"
    /\ UNCHANGED <<stage, queue, buffers, cancelEvents, payload, loop, laneVars,
                   taskVars>>

StopReturn ==
    /\ stopping = "gathering"
    /\ \A r \in gathered : stage[r] \in Fates
    /\ stopping' = "returned"
    /\ UNCHANGED <<stage, queue, cancelEvents, payload, gathered, collectVars,
                   laneVars, taskVars, loopVars>>

-----------------------------------------------------------------------------
Enqueue(r) ==
    \/ RejectFull(r)
    \/ EnqueueFollowup(r)
    \/ EnqueueInterrupt(r)
    \/ EnqueueCollect(r)

ProcessItem ==
    \/ StartCancelled
    \/ StartTask
    \/ \E i \in 1..Len(permitLine) : ResumeWithPermit(i)
    \/ \E r \in Requests : BeginHandler(r)
    \/ \E i \in 1..Len(permitLine), outcome \in Outcomes :
          FinishHandler(i, outcome)

Next ==
    \/ \E r \in Requests : Enqueue(r)
    \/ \E s \in Sessions : FlushCollect(s)
    \/ StartLoop
    \/ LoopTake
    \/ LoopExit
    \/ ProcessItem
    \/ Stop
    \/ StopReturn

Spec == Init /\ [][Next]_vars

(* What asyncio and the callers owe: a runnable task runs, a timer that is *)
(* left alone fires, a handler ends (AgentLoop.run stops at its timeout; a *)
(* skill, which has none, is assumed to end).  Nothing obliges a client to *)
(* enqueue, or the program to call start or stop.                          *)
Ends(r) ==
    \E i \in 1..Len(permitLine), outcome \in Outcomes :
        permitLine[i] = r /\ FinishHandler(i, outcome)

Fairness ==
    /\ WF_vars(LoopTake)
    /\ WF_vars(StartCancelled \/ StartTask)
    /\ WF_vars(\E i \in 1..Len(permitLine) : ResumeWithPermit(i))
    /\ \A r \in Requests : WF_vars(BeginHandler(r)) /\ WF_vars(Ends(r))
    /\ \A s \in Sessions : WF_vars(FlushCollect(s))
    /\ WF_vars(StopReturn)

FairSpec == Spec /\ Fairness

-----------------------------------------------------------------------------
Handling == {r \in Requests : stage[r] = "handling"}

Outstanding(s) ==
    {r \in Requests : SessionOf[r] = s /\ stage[r] \in InFlight \cup {"queued"}}

(* Per-session serialisation: no two handlers of one session run at once,  *)
(* although the lane that serialises them is forgotten and rebuilt         *)
(* whenever its count of pending items reaches zero (lanes.py).            *)
SessionExclusion ==
    \A q, r \in Handling : SessionOf[q] = SessionOf[r] => q = r

(* The global cap: no more handlers run than the semaphore has permits,    *)
(* whatever the order in which waiters are woken.                          *)
ConcurrencyCap == Cardinality(Handling) <= MaxConcurrency

(* The count that decides when a lane may be forgotten is exact: a lane is *)
(* in the dictionary just while items of its session are queued or in a    *)
(* task, pending is their number, and a task that has read its lane holds  *)
(* the one in the dictionary.  One increment or decrement too few or too   *)
(* many on any path leaks the lane or frees it under a running task.       *)
LaneAccounting ==
    \A s \in Sessions :
        /\ lanes[s] = None <=> Outstanding(s) = {}
        /\ lanes[s] # None =>
              laneObj[lanes[s]].pending = Cardinality(Outstanding(s))
        /\ \A r \in Outstanding(s) : laneOf[r] \in {None, lanes[s]}

(* line holds each of the requests in S once and nothing else.             *)
Lists(line, S) == IsInjective(line) /\ ToSet(line) = S

(* Nothing is lost or duplicated on the way: every accepted request is in  *)
(* exactly the buffer, queue or semaphore line its progress calls for.     *)
Accounted ==
    /\ Lists(queue, {r \in Requests : stage[r] = "queued"})
    /\ Lists(spawned, {r \in Requests : stage[r] = "spawned"})
    /\ Lists(permitLine,
             {r \in Requests : stage[r] \in {"permit", "lane", "handling"}})
    /\ \A s \in Sessions :
          /\ Lists(buffers[s], {r \in Requests : /\ SessionOf[r] = s
                                                 /\ stage[r] = "buffered"})
          /\ lanes[s] # None =>
                Lists(laneObj[lanes[s]].line,
                      {r \in Requests : /\ SessionOf[r] = s
                                        /\ stage[r] \in {"lane", "handling"}})

(* A cancel event never outlives the interrupt that raised it: while it is *)
(* set that interrupt has not started, so no later message of the session  *)
(* is cancelled by it (the dictionary is never cleaned otherwise).         *)
CancelEventBounded ==
    \A s \in Sessions : cancelEvents[s] # None =>
        stage[cancelEvents[s]] \in {"queued", "spawned"}

(* A debounce timer is armed exactly while its session has buffered text,  *)
(* until stop() cancels them all: no buffer is stranded by the resets of   *)
(* collects and interrupts, and no timer flushes an emptied buffer.        *)
BufferArmed ==
    \A s \in Sessions :
        /\ s \in timers => buffers[s] # <<>>
        /\ buffers[s] # <<>> /\ stopping = "no" => s \in timers

Carriers(q) == {r \in Requests : q \in ToSet(payload[r])}

(* Coalescing neither drops, repeats nor mixes text: the message of a      *)
(* request is part of exactly one item, of its own session, once it is     *)
(* queued or absorbed, and of none when it was rejected or discarded.      *)
CarriedOnce ==
    \A q \in Requests :
        /\ \A r \in Carriers(q) :
              SessionOf[r] = SessionOf[q] /\ IsInjective(payload[r])
        /\ Cardinality(Carriers(q)) =
              IF stage[q] \in {"new", "buffered", "rejected", "discarded"}
              THEN 0 ELSE 1

(* The inductive invariant behind TypeOK, LaneAccounting and               *)
(* SessionExclusion: every line holds requests of its stage and no request *)
(* twice; lanes are counted exactly and belong to their session; a request *)
(* being handled is the first in the line of its session's lane.           *)
AllIn(line, S) == \A i \in 1..Len(line) : stage[line[i]] \in S

NoRepeat(line) == \A i, j \in 1..Len(line) : line[i] = line[j] => i = j

LinesInv ==
    /\ AllIn(queue, {"queued"}) /\ NoRepeat(queue)
    /\ AllIn(spawned, {"spawned"}) /\ NoRepeat(spawned)

BuffersInv ==
    \A s \in Sessions : \A i \in 1..Len(buffers[s]) :
        /\ stage[buffers[s][i]] = "buffered"
        /\ SessionOf[buffers[s][i]] = s

HasLane == {"permit", "lane", "handling"}

LanesInv ==
    /\ \A s \in Sessions :
          /\ IsFiniteSet(Outstanding(s))
          /\ lanes[s] = None <=> Outstanding(s) = {}
          /\ lanes[s] # None =>
                /\ laneObj[lanes[s]].pending = Cardinality(Outstanding(s))
                /\ SessionOf[lanes[s][1]] = s
    /\ \A r \in Requests :
          laneOf[r] = IF stage[r] \in HasLane THEN lanes[SessionOf[r]] ELSE None

HeadsInv ==
    \A r \in Handling :
        LET line == laneObj[laneOf[r]].line IN line # <<>> /\ Head(line) = r

IInv == TypeOK /\ LinesInv /\ BuffersInv /\ LanesInv /\ HeadsInv

(* Every task that was created ends, whatever the handlers of other        *)
(* sessions do while it waits: the two semaphores, taken in the order      *)
(* global then lane by all, do not deadlock and starve nobody.             *)
TaskSettles ==
    \A r \in Requests : stage[r] \in InFlight ~> stage[r] \in Fates

(* An accepted message reaches a task, through the queue and, when it is   *)
(* collected, through its buffer, unless start() has not been called, has  *)
(* returned, or stop() was called.                                         *)
AcceptedProgresses ==
    \A r \in Requests :
        stage[r] \in {"buffered", "queued"} ~>
            \/ stage[r] \in InFlight \cup Fates
            \/ loop # "waiting"
            \/ stopping # "no"

(* stop() returns: the tasks it awaits all end.                            *)
StopReturns == stopping = "gathering" ~> stopping = "returned"

-----------------------------------------------------------------------------
(* What the queue is to its callers: SerialLanes. *)

(* The line of a session's lane; nobody stands in one that is not there.   *)
LaneLine(s) == IF lanes[s] = None THEN <<>> ELSE laneObj[lanes[s]].line

(* The lines an item of session s passes, the last one first, and the one  *)
(* it stands in.                                                           *)
Passage(s) == <<LaneLine(s), permitLine, spawned, queue>>

Place(r) ==
    CASE stage[r] \in {"lane", "handling"} -> 1
      [] stage[r] = "permit" -> 2
      [] stage[r] = "spawned" -> 3
      [] OTHER -> 4

(* q stands somewhere before r in the line.                                *)
Ahead(line, q, r) == \E i, j \in 1..Len(line) : i < j /\ line[i] = q /\ line[j] = r

(* q is before r: in a line nearer the handler, or ahead in the same line. *)
Before(s, q, r) ==
    \/ Place(q) < Place(r)
    \/ Place(q) = Place(r) /\ Ahead(Passage(s)[Place(r)], q, r)

(* Who is before whom among the unfinished items of a session.             *)
Order(s) ==
    {pair \in Outstanding(s) \X Outstanding(s) : Before(s, pair[1], pair[2])}

(* The list that holds the items once each and follows the order.          *)
InOrder(items, order) ==
    CHOOSE b \in [1..Cardinality(items) -> items] :
        /\ Lists(b, items)
        /\ \A i, j \in DOMAIN b : i < j <=> <<b[i], b[j]>> \in order

(* The unfinished items of a session in the order they were put.           *)
Backlog(s) == InOrder(Outstanding(s), Order(s))

EverPut == {r \in Requests : stage[r] \in {"queued", "cancelled"} \cup InFlight \cup Outcomes}

Abstract == INSTANCE SerialLanes WITH
    accepted <- EverPut,
    backlog <- [s \in Sessions |-> Backlog(s)],
    active <- Handling

(* The queue implements per-session serial FIFO handling: items of a       *)
(* session are handled in the order they were put, one at a time, and none *)
(* is withdrawn once its handler has been called (_process_item).          *)
SerialFIFO == Abstract!Spec
=============================================================================
