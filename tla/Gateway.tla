------------------------------- MODULE Gateway -------------------------------
(***************************************************************************)
(* A message from a WebSocket frame to its answer: ws_endpoint and         *)
(* post_message (gateway/server.py), GatewayBridge (gateway/bridge.py),    *)
(* the command queue as SerialLanes describes it, the daemon's handler     *)
(* (daemon/runner.py, runtime/dispatcher.py) and AgentLoop.                *)
(*                                                                         *)
(* The lock of the bridge is held across no suspension, and neither        *)
(* register nor enqueue suspends, so what ws_endpoint does with one frame  *)
(* is one step.                                                            *)
(***************************************************************************)
EXTENDS Integers, Sequences, FiniteSets, SequencesExt

CONSTANTS
    Connections,     \* WebSocket connections
    Requests,        \* messages, each with an id of its own
    Sessions,        \* session ids
    ConnectionOf,    \* the connection a request is sent on; None for POST
    SessionOf,       \* the session of a request
    MaxConcurrency,  \* see SerialLanes
    None

ASSUME ConnectionOfAssumption ==
    /\ ConnectionOf \in [Requests -> Connections \cup {None}]
    /\ None \notin Connections \cup Requests
ASSUME SessionOfAssumption ==
    /\ SessionOf \in [Requests -> Sessions]
    /\ \A q, r \in Requests :
          ConnectionOf[q] # None /\ ConnectionOf[q] = ConnectionOf[r]
             => SessionOf[q] = SessionOf[r]

VARIABLES
    connection,  \* open; left by the client, unnoticed; or closed
    byRequest,   \* _by_request
    bySession,   \* _by_session
    final,       \* the frame each request was answered with, if one arrived
    phase,       \* where each request is
    buffers,     \* collect buffers of the queue
    interrupted, \* sessions whose cancel event is set
    accepted, backlog, active,  \* the queue: see SerialLanes
    slot, task, outer           \* the agent: see AgentLoop

Lanes == INSTANCE SerialLanes
Agent == INSTANCE AgentLoop WITH Runs <- Requests

bridgeVars == <<byRequest, bySession>>
clientVars == <<connection, byRequest, bySession, final>>
queueVars == <<buffers, interrupted, accepted, backlog, active>>
agentVars == <<slot, task, outer>>
vars == <<clientVars, phase, queueVars, agentVars>>

(* "dispatch": finding the session and storing the message; "skill" and    *)
(* "agent": answering it; "persist": storing the answer.                   *)
InHandler == {"dispatch", "skill", "agent", "persist"}
Dropped == {"absorbed", "discarded", "withdrawn", "refused"}
Phases == {"unsent", "buffered", "queued", "answered", "reported", "silent"}
             \cup InHandler \cup Dropped

TypeOK ==
    /\ connection \in [Connections -> {"open", "left", "closed"}]
    /\ byRequest \in [Requests -> Connections \cup {None}]
    /\ bySession \in [Sessions -> SUBSET Connections]
    /\ final \in [Requests -> {"none", "done", "error"}]
    /\ phase \in [Requests -> Phases]
    /\ buffers \in [Sessions -> Seq(Requests)]
    /\ interrupted \in SUBSET Sessions
    /\ Lanes!TypeOK
    /\ Agent!TypeOK

InitExceptPhase ==
    /\ connection = [c \in Connections |-> "open"]
    /\ byRequest = [r \in Requests |-> None]
    /\ bySession = [s \in Sessions |-> {}]
    /\ final = [r \in Requests |-> "none"]
    /\ buffers = [s \in Sessions |-> <<>>]
    /\ interrupted = {}
    /\ Lanes!Init
    /\ Agent!Init

Init == phase = [r \in Requests |-> "unsent"] /\ InitExceptPhase

Goto(r, p) == phase' = [phase EXCEPT ![r] = p]

-----------------------------------------------------------------------------
(* GatewayBridge *)

Register(r, c) ==
    /\ byRequest' = [byRequest EXCEPT ![r] = c]
    /\ bySession' = [bySession EXCEPT ![SessionOf[r]] = @ \cup {c}]

(* Mutant of Unregister: whatever session's socket is dropped, every       *)
(* request of that session goes.                                           *)
UnregisterAll(c) ==
    /\ byRequest' = [r \in Requests |->
          IF c \in bySession[SessionOf[r]] THEN None ELSE byRequest[r]]
    /\ bySession' = [s \in Sessions |-> bySession[s] \ {c}]

Unregister(c) ==
    /\ byRequest' = [r \in Requests |->
                        IF byRequest[r] = c THEN None ELSE byRequest[r]]
    /\ bySession' = [s \in Sessions |-> bySession[s] \ {c}]

(* Mutant of Reply: the request is looked up and stays registered.         *)
ReplyKeep(r, frame) ==
    /\ final' = [final EXCEPT ![r] =
                    IF byRequest[r] # None /\ connection[byRequest[r]] = "open"
                    THEN frame ELSE @]
    /\ UNCHANGED byRequest

(* done and error: the request is popped, then the frame is sent; it is    *)
(* lost on a client that has left.  When sending raises nothing is left to *)
(* do: done's exception leads to error, which finds no socket, and error's *)
(* leaves the task.                                                        *)
Reply(r, frame) ==
    /\ final' = [final EXCEPT ![r] =
                    IF byRequest[r] # None /\ connection[byRequest[r]] = "open"
                    THEN frame ELSE @]
    /\ byRequest' = [byRequest EXCEPT ![r] = None]

-----------------------------------------------------------------------------
(* ws_endpoint and post_message *)

(* Mutant of Receive: a request without a socket is registered too.        *)
ReceiveAny(r) ==
    LET c == ConnectionOf[r] IN
    /\ phase[r] = "unsent"
    /\ c # None => connection[c] = "open"
    /\ Register(r, c)
    /\ UNCHANGED <<connection, final, agentVars>>

(* The request is registered if it came over a socket, queued and          *)
(* acknowledged.                                                           *)
Receive(r) ==
    LET c == ConnectionOf[r] IN
    /\ phase[r] = "unsent"
    /\ IF c = None
       THEN UNCHANGED bridgeVars
       ELSE connection[c] = "open" /\ Register(r, c)
    /\ UNCHANGED <<connection, final, agentVars>>

ReceiveFollowup(r) ==
    /\ Receive(r)
    /\ Lanes!Accept(r)
    /\ Goto(r, "queued")
    /\ UNCHANGED <<buffers, interrupted>>

ReceiveInterrupt(r) ==
    LET s == SessionOf[r] IN
    /\ Receive(r)
    /\ Lanes!Accept(r)
    /\ interrupted' = interrupted \cup {s}
    /\ buffers' = [buffers EXCEPT ![s] = <<>>]
    /\ phase' = [q \in Requests |-> IF q = r THEN "queued"
                                    ELSE IF q \in ToSet(buffers[s]) THEN "discarded"
                                    ELSE phase[q]]

ReceiveCollect(r) ==
    /\ Receive(r)
    /\ buffers' = [buffers EXCEPT ![SessionOf[r]] = Append(@, r)]
    /\ Goto(r, "buffered")
    /\ UNCHANGED <<interrupted, accepted, backlog, active>>

(* The mode is unknown or the queue is full: the exception ends the        *)
(* endpoint, and with it the requests registered for its socket.           *)
Refuse(r) ==
    LET c == ConnectionOf[r] IN
    /\ phase[r] = "unsent"
    /\ IF c = None
       THEN UNCHANGED <<connection, bridgeVars>>
       ELSE /\ connection[c] = "open"
            /\ connection' = [connection EXCEPT ![c] = "closed"]
            /\ Unregister(c)
    /\ Goto(r, "refused")
    /\ UNCHANGED <<final, queueVars, agentVars>>

(* The client goes; the endpoint learns of it at its next receive.         *)
Leave(c) ==
    /\ connection[c] = "open"
    /\ connection' = [connection EXCEPT ![c] = "left"]
    /\ UNCHANGED <<bridgeVars, final, phase, queueVars, agentVars>>

NoticeLeft(c) ==
    /\ connection[c] = "left"
    /\ connection' = [connection EXCEPT ![c] = "closed"]
    /\ Unregister(c)
    /\ UNCHANGED <<final, phase, queueVars, agentVars>>

-----------------------------------------------------------------------------
(* The command queue, seen from outside *)

Flush(s) ==
    LET buf  == buffers[s]
        last == buf[Len(buf)]
    IN  /\ buf # <<>>
        /\ Lanes!Accept(last)
        /\ buffers' = [buffers EXCEPT ![s] = <<>>]
        /\ phase' = [q \in Requests |-> IF q = last THEN "queued"
                                        ELSE IF q \in ToSet(buf) THEN "absorbed"
                                        ELSE phase[q]]
        /\ UNCHANGED <<clientVars, interrupted, agentVars>>

(* An item of the session takes the cancel event and is given up.          *)
Withdraw(s) ==
    /\ s \in interrupted
    /\ interrupted' = interrupted \ {s}
    /\ \E i \in 1..Len(backlog[s]) :
          Lanes!Withdraw(s, i) /\ Goto(backlog[s][i], "withdrawn")
    /\ UNCHANGED <<clientVars, buffers, agentVars>>

BeginHandler(s) ==
    /\ Lanes!Begin(s)
    /\ Goto(Head(backlog[s]), "dispatch")
    /\ UNCHANGED <<clientVars, buffers, interrupted, agentVars>>

(* on_done or on_error, or neither for a CancelledError; the lane is free. *)
EndHandler(r, how) ==
    /\ Lanes!Finish(SessionOf[r])
    /\ Goto(r, how)
    /\ \/ how = "answered" /\ Reply(r, "done")
       \/ how = "reported" /\ Reply(r, "error")
       \/ how = "silent" /\ UNCHANGED <<byRequest, final>>
    /\ UNCHANGED <<connection, bySession, buffers, interrupted>>

-----------------------------------------------------------------------------
(* The daemon's handler: dispatch_message *)

(* The message is stored; a skill matches it, or the agent is run.         *)
DispatchSkill(r) ==
    /\ phase[r] = "dispatch"
    /\ Goto(r, "skill")
    /\ UNCHANGED <<clientVars, queueVars, agentVars>>

(* Also the fallback after a skill that raised.                            *)
RunAgent(r) ==
    /\ phase[r] \in {"dispatch", "skill"}
    /\ Goto(r, "agent")
    /\ Agent!Start(r)
    /\ UNCHANGED <<clientVars, queueVars>>

(* The response of a skill goes to the client as one chunk.                *)
SkillAnswers(r) ==
    /\ phase[r] = "skill"
    /\ Goto(r, "persist")
    /\ UNCHANGED <<clientVars, queueVars, agentVars>>

(* The database fails the message or its answer, or the skill's chunk      *)
(* cannot be sent.                                                         *)
HandlerRaises(r) ==
    /\ \/ phase[r] \in {"dispatch", "persist"}
       \/ /\ phase[r] = "skill"
          /\ byRequest[r] # None
          /\ connection[byRequest[r]] = "left"
    /\ EndHandler(r, "reported")
    /\ UNCHANGED agentVars

(* The agent's task ends: of itself, or because sending a token raised.    *)
TaskEnds(r) ==
    /\ \E how \in Agent!TaskEnded : Agent!EndTask(r, how)
    /\ UNCHANGED <<clientVars, phase, queueVars>>

TimesOut(r) ==
    /\ Agent!TimeOut(r)
    /\ UNCHANGED <<clientVars, phase, queueVars>>

AgentReturns(r) ==
    /\ phase[r] = "agent"
    /\ Agent!Resume(r)
    /\ \/ /\ outer'[r] = "answer"
          /\ Goto(r, "persist")
          /\ UNCHANGED <<clientVars, queueVars>>
       \/ outer'[r] = "cancelled" /\ EndHandler(r, "silent")
       \/ outer'[r] \notin {"answer", "cancelled"} /\ EndHandler(r, "reported")

Persisted(r) ==
    /\ phase[r] = "persist"
    /\ EndHandler(r, "answered")
    /\ UNCHANGED agentVars

-----------------------------------------------------------------------------
Client ==
    \/ \E r \in Requests :
          \/ ReceiveFollowup(r) \/ ReceiveInterrupt(r) \/ ReceiveCollect(r)
          \/ Refuse(r)
    \/ \E c \in Connections : Leave(c) \/ NoticeLeft(c)

Queue == \E s \in Sessions : Flush(s) \/ Withdraw(s) \/ BeginHandler(s)

Handler(r) ==
    \/ DispatchSkill(r) \/ RunAgent(r) \/ SkillAnswers(r) \/ HandlerRaises(r)
    \/ TaskEnds(r) \/ TimesOut(r) \/ AgentReturns(r) \/ Persisted(r)

Next == Client \/ Queue \/ \E r \in Requests : Handler(r)

Spec == Init /\ [][Next]_vars

(* A coroutine that can go on goes on; the timeout is set (its default is  *)
(* 300 s); a task that was told to stop stops.  A skill is assumed to end: *)
(* execute_skill has no timeout.                                           *)
Fairness ==
    \A r \in Requests :
        /\ WF_vars(RunAgent(r) \/ SkillAnswers(r) \/ HandlerRaises(r) \/ Persisted(r))
        /\ WF_vars(TimesOut(r))
        /\ WF_vars(task[r] = "cancelling" /\ TaskEnds(r))
        /\ WF_vars(AgentReturns(r))

FairSpec == Spec /\ Fairness

-----------------------------------------------------------------------------
(* A handler that answered or reported an error did reach a client that is *)
(* still there: no other connection's end takes its registration away.     *)
FinalDelivered ==
    \A r \in Requests :
        /\ phase[r] \in {"answered", "reported"}
        /\ ConnectionOf[r] # None
        /\ connection[ConnectionOf[r]] = "open"
        =>
        final[r] = IF phase[r] = "answered" THEN "done" ELSE "error"

(* The bridge keeps no socket that is closed and no request that was       *)
(* answered.  What it does keep for good while the socket lives are the    *)
(* requests whose handler was never called or was cancelled.               *)
BridgeClean ==
    /\ \A s \in Sessions, c \in Connections :
          c \in bySession[s] => connection[c] # "closed"
    /\ \A r \in Requests : byRequest[r] # None =>
          /\ connection[byRequest[r]] # "closed"
          /\ phase[r] \notin {"unsent", "answered", "reported", "refused"}

(* The fairness CommandQueue assumes of its handlers: each one ends.       *)
HandlerEnds == \A r \in Requests : r \in active ~> r \notin active

(* What run() documents (AgentLoop), in the setting the daemon uses it in. *)
RunsEndAsDocumented == Agent!EndsAsDocumented

(* The inductive invariant of GatewayProofs.  QueueInv: what is buffered   *)
(* or on the queue is where its phase says, once and in its own session,   *)
(* and a handler is at work just for the head of a session's line.         *)
(* SocketsInv: until its handler has ended a request stays registered for  *)
(* the socket it came over, unless that is closed.                         *)
QueueInv ==
    /\ \A s \in Sessions : \A i \in 1..Len(buffers[s]) :
          phase[buffers[s][i]] = "buffered" /\ SessionOf[buffers[s][i]] = s
    /\ \A s \in Sessions : \A i \in 1..Len(backlog[s]) :
          /\ phase[backlog[s][i]] \in InHandler \cup {"queued"}
          /\ SessionOf[backlog[s][i]] = s
          /\ \A j \in 1..Len(backlog[s]) : backlog[s][i] = backlog[s][j] => i = j
    /\ \A r \in Requests :
          /\ r \in active <=> phase[r] \in InHandler
          /\ r \in active => backlog[SessionOf[r]] # <<>> /\ Head(backlog[SessionOf[r]]) = r

SocketsInv ==
    \A r \in Requests :
        /\ byRequest[r] \in {ConnectionOf[r], None}
        /\ /\ ConnectionOf[r] # None
           /\ connection[ConnectionOf[r]] # "closed"
           /\ phase[r] \in InHandler \cup {"buffered", "queued"}
           => byRequest[r] = ConnectionOf[r]

GatewayInv == TypeOK /\ QueueInv /\ SocketsInv /\ BridgeClean /\ FinalDelivered
=============================================================================
