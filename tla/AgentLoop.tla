------------------------------ MODULE AgentLoop ------------------------------
(***************************************************************************)
(* AgentLoop.run (agents/loop.py): each run wraps the agent in an asyncio  *)
(* task, keeps that task in _current_task and awaits it under a timeout.   *)
(* One AgentLoop serves every session of its agent, so several runs share  *)
(* the one _current_task.                                                  *)
(*                                                                         *)
(* The module has actions and no specification of its own: Gateway runs it *)
(* as the agent of its handlers.                                           *)
(***************************************************************************)
CONSTANTS
    Runs,   \* calls of run()
    None    \* _current_task is None

VARIABLES
    slot,   \* _current_task: the run whose task it is
    task,   \* the asyncio task of each run
    outer   \* the call of run(): not made, awaiting its task, or its outcome

vars == <<slot, task, outer>>

TaskEnded == {"returned", "raised", "cancelled"}

(* How a call of run() ends: it returns the answer; the exception of the   *)
(* agent; AgentTimeoutError; the AttributeError of cancelling None; or     *)
(* CancelledError.                                                         *)
Outcomes == {"answer", "exception", "timeout", "attribute", "cancelled"}

TypeOK ==
    /\ slot \in Runs \cup {None}
    /\ task \in [Runs -> {"none", "running", "cancelling"} \cup TaskEnded]
    /\ outer \in [Runs -> {"idle", "waiting", "timedout"} \cup Outcomes]

Init ==
    /\ slot = None
    /\ task = [r \in Runs |-> "none"]
    /\ outer = [r \in Runs |-> "idle"]

Start(r) ==
    /\ outer[r] = "idle"
    /\ outer' = [outer EXCEPT ![r] = "waiting"]
    /\ task' = [task EXCEPT ![r] = "running"]
    /\ slot' = r

(* The agent ends; a task that was told to stop may end either way.        *)
EndTask(r, how) ==
    /\ \/ task[r] = "running" /\ how \in {"returned", "raised"}
       \/ task[r] = "cancelling" /\ how \in TaskEnded
    /\ task' = [task EXCEPT ![r] = how]
    /\ UNCHANGED <<slot, outer>>

Cancelled(r) ==
    IF task[r] = "running" THEN [task EXCEPT ![r] = "cancelling"] ELSE task

(* Mutant of TimeOut: the task is left running.                            *)
TimeOutOnly(r) ==
    /\ outer[r] = "waiting"
    /\ outer' = [outer EXCEPT ![r] = "timedout"]
    /\ UNCHANGED <<slot, task>>

(* wait_for reaches the timeout: it cancels the run's task and waits on.   *)
TimeOut(r) ==
    /\ outer[r] = "waiting"
    /\ outer' = [outer EXCEPT ![r] = "timedout"]
    /\ task' = Cancelled(r)
    /\ UNCHANGED slot

MayResume(r) == outer[r] \in {"waiting", "timedout"} /\ task[r] \in TaskEnded

(* The call goes on with what its task gave; "finally" empties the slot.   *)
Return(r) ==
    /\ MayResume(r)
    /\ \/ task[r] = "returned" /\ outer' = [outer EXCEPT ![r] = "answer"]
       \/ task[r] = "raised" /\ outer' = [outer EXCEPT ![r] = "exception"]
       \/ /\ task[r] = "cancelled"
          /\ outer[r] = "waiting"
          /\ outer' = [outer EXCEPT ![r] = "cancelled"]
    /\ slot' = None
    /\ UNCHANGED task

(* except TimeoutError, of wait_for or of the agent itself: the task in    *)
(* the slot is cancelled, whichever run it is of.                          *)
ReturnTimeout(r) ==
    /\ MayResume(r)
    /\ outer[r] = "timedout" \/ task[r] = "raised"
    /\ IF slot = None
       THEN outer' = [outer EXCEPT ![r] = "attribute"] /\ UNCHANGED task
       ELSE outer' = [outer EXCEPT ![r] = "timeout"] /\ task' = Cancelled(slot)
    /\ slot' = None

Resume(r) == Return(r) \/ ReturnTimeout(r)

(* "Run the agent and return the final text response"; "Raises             *)
(* AgentTimeoutError if the agent does not respond within                  *)
(* agent_config.timeout seconds" (run): the call returns, raises what the  *)
(* agent raised, or raises AgentTimeoutError.                              *)
EndsAsDocumented == \A r \in Runs : outer[r] \notin {"attribute", "cancelled"}
=============================================================================
