---------------------------- MODULE GatewayProofs ----------------------------
(***************************************************************************)
(* Proofs about Gateway for any connections, sessions and requests: the    *)
(* bridge keeps nothing of a closed socket or an ended request, and the    *)
(* final frame of a handler reaches a client that is still there.          *)
(***************************************************************************)
EXTENDS Gateway, SequenceTheorems, TLAPS

LEMMA PhaseSets ==
  /\ InHandler \subseteq Phases /\ Dropped \subseteq Phases
  /\ {"unsent", "buffered", "queued", "answered", "reported", "silent"} \subseteq Phases
  /\ {"unsent", "buffered", "queued", "answered", "reported", "silent"} \cap InHandler = {}
  /\ Dropped \cap (InHandler \cup {"unsent", "buffered", "queued", "answered", "reported"}) = {}
  BY DEF Phases, InHandler, Dropped

LEMMA SessionTypes == \A r \in Requests : SessionOf[r] \in Sessions
  BY SessionOfAssumption

(* What is left of a line when one element is taken out.                   *)
LEMMA RemoveAtElements ==
  ASSUME NEW S, NEW line \in Seq(S), NEW i \in 1..Len(line)
  PROVE  /\ RemoveAt(line, i) \in Seq(S)
         /\ Len(RemoveAt(line, i)) = Len(line) - 1
         /\ \A j \in 1..(Len(line) - 1) :
               RemoveAt(line, i)[j] = line[IF j < i THEN j ELSE j + 1]
  <1> DEFINE before == SubSeq(line, 1, i - 1)
             after == SubSeq(line, i + 1, Len(line))
  <1>1. Len(line) \in Nat /\ \A j \in 1..Len(line) : line[j] \in S
    BY ElementOfSeq
  <1>2. /\ before \in Seq(S) /\ Len(before) = i - 1
        /\ \A j \in 1..(i - 1) : before[j] = line[j]
    <2>1. 1 \in Int /\ i - 1 \in Int /\ \A j \in 1..(i - 1) : line[j] \in S
      BY <1>1
    <2>2. /\ before \in Seq(S)
          /\ Len(before) = IF 1 <= i - 1 THEN i - 1 - 1 + 1 ELSE 0
          /\ \A j \in 1..(i - 1 - 1 + 1) : before[j] = line[1 + j - 1]
      BY ONLY <2>1, SubSeqProperties
    <2> HIDE DEF before
    <2>3. QED
      BY <1>1, <2>2
  <1>3. /\ after \in Seq(S) /\ Len(after) = Len(line) - i
        /\ \A j \in 1..(Len(line) - i) : after[j] = line[i + j]
    <2>1. i + 1 \in Int /\ Len(line) \in Int /\ \A j \in (i + 1)..Len(line) : line[j] \in S
      BY <1>1
    <2>2. /\ after \in Seq(S)
          /\ Len(after) = IF i + 1 <= Len(line) THEN Len(line) - (i + 1) + 1 ELSE 0
          /\ \A j \in 1..(Len(line) - (i + 1) + 1) : after[j] = line[i + 1 + j - 1]
      BY ONLY <2>1, SubSeqProperties
    <2> HIDE DEF after
    <2>3. QED
      BY <1>1, <2>2
  <1>4. RemoveAt(line, i) = before \o after
    BY DEF RemoveAt
  <1> HIDE DEF before, after
  <1>5. /\ before \o after \in Seq(S)
        /\ Len(before \o after) = Len(line) - 1
        /\ \A j \in 1..(Len(line) - 1) :
              (before \o after)[j] = IF j <= i - 1 THEN before[j] ELSE after[j - (i - 1)]
    <2>1. /\ before \o after \in Seq(S)
          /\ Len(before \o after) = Len(before) + Len(after)
          /\ \A j \in 1..(Len(before) + Len(after)) :
                (before \o after)[j] = IF j <= Len(before) THEN before[j] ELSE after[j - Len(before)]
      BY <1>2, <1>3, ConcatProperties
    <2>2. Len(before) + Len(after) = Len(line) - 1
      BY <1>1, <1>2, <1>3
    <2>3. QED
      BY <1>2, <2>1, <2>2
  <1>6. ASSUME NEW j \in 1..(Len(line) - 1), j < i
        PROVE  (before \o after)[j] = line[j]
    BY <1>1, <1>2, <1>5, <1>6
  <1>7. ASSUME NEW j \in 1..(Len(line) - 1), ~(j < i)
        PROVE  (before \o after)[j] = line[j + 1]
    <2>1. j - (i - 1) \in 1..(Len(line) - i) /\ i + (j - (i - 1)) = j + 1 /\ ~(j <= i - 1)
      BY <1>1, <1>7
    <2>2. (before \o after)[j] = after[j - (i - 1)]
      BY <1>5, <2>1
    <2>3. QED
      BY <1>3, <2>1, <2>2
  <1>8. QED
    BY <1>4, <1>5, <1>6, <1>7

(* SerialLanes takes RemoveAt from the module it extends: the same one.     *)
LEMMA SameRemoveAt == \A line, i : Lanes!RemoveAt(line, i) = RemoveAt(line, i)
  BY DEF Lanes!RemoveAt, RemoveAt

LEMMA HeadIsFirst ==
  ASSUME NEW S, NEW line \in Seq(S), line # <<>>
  PROVE  1 \in 1..Len(line) /\ Head(line) = line[1] /\ Head(line) \in S
  BY EmptySeq, HeadTailProperties
-----------------------------------------------------------------------------
(* Types *)

LEMMA LanesTypes ==
  ASSUME Lanes!TypeOK,
         \/ \E r \in Requests : Lanes!Accept(r)
         \/ \E s \in Sessions :
               \/ Lanes!Begin(s)
               \/ Lanes!Finish(s)
               \/ \E i \in 1..Len(backlog[s]) : Lanes!Withdraw(s, i)
         \/ UNCHANGED <<accepted, backlog, active>>
  PROVE  Lanes!TypeOK'
  <1> USE DEF Lanes!TypeOK
  <1>1. ASSUME NEW r \in Requests, Lanes!Accept(r) PROVE Lanes!TypeOK'
    <2>1. SessionOf[r] \in Sessions
      BY SessionTypes
    <2>2. \A s \in Sessions : backlog[s] \in Seq(accepted')
      <3>1. accepted \subseteq accepted'
        BY <1>1 DEF Lanes!Accept
      <3>2. QED
        BY <3>1, SeqMonotonic
    <2>3. Append(backlog[SessionOf[r]], r) \in Seq(accepted')
      BY <1>1, <2>1, <2>2, AppendProperties DEF Lanes!Accept
    <2>4. backlog' \in [Sessions -> Seq(accepted')]
      BY <1>1, <2>2, <2>3 DEF Lanes!Accept
    <2>5. QED
      BY <1>1, <2>4 DEF Lanes!Accept
  <1>2. ASSUME NEW s \in Sessions, Lanes!Begin(s) PROVE Lanes!TypeOK'
    BY <1>2, HeadIsFirst DEF Lanes!Begin
  <1>3. ASSUME NEW s \in Sessions, Lanes!Finish(s) PROVE Lanes!TypeOK'
    <2>1. Tail(backlog[s]) \in Seq(accepted)
      BY <1>3, HeadTailProperties DEF Lanes!Finish
    <2>2. QED
      BY <1>3, <2>1 DEF Lanes!Finish
  <1>4. ASSUME NEW s \in Sessions, NEW i \in 1..Len(backlog[s]), Lanes!Withdraw(s, i)
        PROVE  Lanes!TypeOK'
    <2>1. RemoveAt(backlog[s], i) \in Seq(accepted)
      BY RemoveAtElements
    <2>2. QED
      BY <1>4, <2>1, SameRemoveAt DEF Lanes!Withdraw
  <1>5. QED
    BY <1>1, <1>2, <1>3, <1>4

LEMMA AgentTypes ==
  ASSUME Agent!TypeOK, NEW r \in Requests,
         \/ Agent!Start(r) \/ Agent!TimeOut(r) \/ Agent!Resume(r)
         \/ \E how \in Agent!TaskEnded : Agent!EndTask(r, how)
         \/ UNCHANGED agentVars
  PROVE  Agent!TypeOK'
  <1> USE DEF Agent!TypeOK, Agent!TaskEnded, Agent!Outcomes
  <1>1. CASE Agent!Start(r)
    BY <1>1 DEF Agent!Start
  <1>2. CASE Agent!TimeOut(r)
    BY <1>2 DEF Agent!TimeOut, Agent!Cancelled
  <1>3. CASE Agent!Return(r)
    BY <1>3 DEF Agent!Return
  <1>4. CASE Agent!ReturnTimeout(r)
    BY <1>4 DEF Agent!ReturnTimeout, Agent!Cancelled
  <1>5. ASSUME NEW how \in Agent!TaskEnded, Agent!EndTask(r, how) PROVE Agent!TypeOK'
    BY <1>5 DEF Agent!EndTask
  <1>6. CASE UNCHANGED agentVars
    BY <1>6 DEF agentVars
  <1>7. QED
    BY <1>1, <1>2, <1>3, <1>4, <1>5, <1>6 DEF Agent!Resume

(* The types of all but the queue's and the agent's state.                 *)
PlainTypes ==
    /\ connection \in [Connections -> {"open", "left", "closed"}]
    /\ byRequest \in [Requests -> Connections \cup {None}]
    /\ bySession \in [Sessions -> SUBSET Connections]
    /\ final \in [Requests -> {"none", "done", "error"}]
    /\ phase \in [Requests -> Phases]
    /\ buffers \in [Sessions -> Seq(Requests)]
    /\ interrupted \in SUBSET Sessions

LEMMA ReceiveTypes ==
  ASSUME TypeOK, NEW r \in Requests, Receive(r)
  PROVE  /\ connection' = connection /\ final' = final
         /\ byRequest' \in [Requests -> Connections \cup {None}]
         /\ bySession' \in [Sessions -> SUBSET Connections]
  <1> DEFINE c == ConnectionOf[r]
  <1>1. c \in Connections \cup {None} /\ SessionOf[r] \in Sessions
    BY ConnectionOfAssumption, SessionTypes
  <1> HIDE DEF c
  <1>2. CASE c = None
    BY <1>2 DEF Receive, TypeOK, bridgeVars, c
  <1>3. CASE c # None
    <2>1. Register(r, c) /\ connection' = connection /\ final' = final
      BY <1>3 DEF Receive, c
    <2>2. QED
      BY <1>1, <1>3, <2>1 DEF Register, TypeOK
  <1>4. QED
    BY <1>2, <1>3

LEMMA UnregisterTypes ==
  ASSUME TypeOK, NEW c \in Connections, Unregister(c)
  PROVE  /\ byRequest' \in [Requests -> Connections \cup {None}]
         /\ bySession' \in [Sessions -> SUBSET Connections]
  BY DEF Unregister, TypeOK

(* The end of a handler changes the state of the queue, of the bridge and  *)
(* the answer of its request.                                              *)
LEMMA EndHandlerTypes ==
  ASSUME TypeOK, NEW r \in Requests, NEW how \in {"answered", "reported", "silent"},
         EndHandler(r, how)
  PROVE  PlainTypes' /\ Lanes!TypeOK'
  <1>1. SessionOf[r] \in Sessions /\ how \in Phases
    BY SessionTypes, PhaseSets
  <1>2. Lanes!TypeOK'
    BY <1>1, LanesTypes DEF EndHandler, TypeOK
  <1>3. ASSUME NEW frame \in {"done", "error"}, Reply(r, frame)
        PROVE  /\ byRequest' \in [Requests -> Connections \cup {None}]
               /\ final' \in [Requests -> {"none", "done", "error"}]
    BY <1>3 DEF Reply, TypeOK
  <1>4. /\ byRequest' \in [Requests -> Connections \cup {None}]
        /\ final' \in [Requests -> {"none", "done", "error"}]
    BY <1>3 DEF EndHandler, TypeOK
  <1>5. phase' \in [Requests -> Phases]
    BY <1>1 DEF EndHandler, Goto, TypeOK
  <1>6. QED
    BY <1>2, <1>4, <1>5 DEF EndHandler, TypeOK, PlainTypes

LEMMA HandlerEnding ==
  ASSUME NEW r \in Requests, HandlerRaises(r) \/ AgentReturns(r) \/ Persisted(r)
  PROVE  \/ \E how \in {"answered", "reported", "silent"} : EndHandler(r, how)
         \/ /\ AgentReturns(r) /\ Goto(r, "persist")
            /\ UNCHANGED clientVars /\ UNCHANGED queueVars
  BY DEF HandlerRaises, AgentReturns, Persisted

LEMMA TypeStep ==
  ASSUME TypeOK, QueueInv, [Next]_vars
  PROVE  TypeOK'
  <1> USE DEF TypeOK, PlainTypes, clientVars, bridgeVars, queueVars
  <1>1. ASSUME PlainTypes', Lanes!TypeOK', Agent!TypeOK' PROVE TypeOK'
    BY <1>1
  <1> DEFINE Unlaned == UNCHANGED <<accepted, backlog, active>>
  <1>2. Unlaned => Lanes!TypeOK'
    BY LanesTypes
  <1>3. UNCHANGED agentVars => Agent!TypeOK'
    BY DEF agentVars, Agent!TypeOK
  <1>4. ASSUME NEW r \in Requests, ReceiveFollowup(r) PROVE TypeOK'
    <2>1. Lanes!TypeOK'
      BY <1>4, LanesTypes DEF ReceiveFollowup
    <2>2. PlainTypes'
      BY <1>4, ReceiveTypes, PhaseSets DEF ReceiveFollowup, Goto
    <2>3. QED
      BY <1>1, <1>3, <1>4, <2>1, <2>2 DEF ReceiveFollowup, Receive
  <1>5. ASSUME NEW r \in Requests, ReceiveInterrupt(r) PROVE TypeOK'
    <2>1. Lanes!TypeOK'
      BY <1>5, LanesTypes DEF ReceiveInterrupt
    <2>2. /\ interrupted' \in SUBSET Sessions
          /\ buffers' \in [Sessions -> Seq(Requests)]
      BY <1>5, SessionTypes, EmptySeq DEF ReceiveInterrupt
    <2>3. phase' \in [Requests -> Phases]
      <3>1. "queued" \in Phases /\ "discarded" \in Phases
        BY DEF Phases, Dropped
      <3>2. QED
        BY <1>5, <3>1 DEF ReceiveInterrupt
    <2>4. PlainTypes'
      BY <1>5, <2>2, <2>3, ReceiveTypes DEF ReceiveInterrupt
    <2>5. QED
      BY <1>1, <1>3, <1>5, <2>1, <2>4 DEF ReceiveInterrupt, Receive
  <1>6. ASSUME NEW r \in Requests, ReceiveCollect(r) PROVE TypeOK'
    <2>1. buffers' \in [Sessions -> Seq(Requests)]
      BY <1>6, SessionTypes, AppendProperties DEF ReceiveCollect
    <2>2. PlainTypes'
      BY <1>6, <2>1, ReceiveTypes, PhaseSets DEF ReceiveCollect, Goto
    <2>3. QED
      BY <1>1, <1>2, <1>3, <1>6, <2>2 DEF ReceiveCollect, Receive
  <1>7. ASSUME NEW r \in Requests, Refuse(r) PROVE TypeOK'
    <2>1. phase' \in [Requests -> Phases]
      BY <1>7 DEF Refuse, Goto, Phases, Dropped
    <2>2. ConnectionOf[r] \in Connections \cup {None}
      BY ConnectionOfAssumption
    <2>3. /\ connection' \in [Connections -> {"open", "left", "closed"}]
          /\ byRequest' \in [Requests -> Connections \cup {None}]
          /\ bySession' \in [Sessions -> SUBSET Connections]
      BY <1>7, <2>2, UnregisterTypes DEF Refuse
    <2>4. QED
      BY <1>1, <1>2, <1>3, <1>7, <2>1, <2>3 DEF Refuse
  <1>8. ASSUME NEW c \in Connections, Leave(c) PROVE TypeOK'
    BY <1>1, <1>2, <1>3, <1>8 DEF Leave
  <1>9. ASSUME NEW c \in Connections, NoticeLeft(c) PROVE TypeOK'
    BY <1>1, <1>2, <1>3, <1>9, UnregisterTypes DEF NoticeLeft
  <1>10. ASSUME NEW s \in Sessions, Flush(s) PROVE TypeOK'
    <2>1. buffers[s][Len(buffers[s])] \in Requests
      <3>1. Len(buffers[s]) \in 1..Len(buffers[s])
        BY <1>10, EmptySeq DEF Flush
      <3>2. QED
        BY <3>1, ElementOfSeq
    <2>2. Lanes!TypeOK'
      BY <1>10, <2>1, LanesTypes DEF Flush
    <2>3. phase' \in [Requests -> Phases] /\ buffers' \in [Sessions -> Seq(Requests)]
      <3>1. "queued" \in Phases /\ "absorbed" \in Phases
        BY DEF Phases, Dropped
      <3>2. QED
        BY <1>10, <3>1, EmptySeq DEF Flush
    <2>4. QED
      BY <1>1, <1>3, <1>10, <2>2, <2>3 DEF Flush
  <1>11. ASSUME NEW s \in Sessions, Withdraw(s) PROVE TypeOK'
    <2>1. PICK i \in 1..Len(backlog[s]) :
             Lanes!Withdraw(s, i) /\ Goto(backlog[s][i], "withdrawn")
      BY <1>11 DEF Withdraw
    <2>2. Lanes!TypeOK'
      BY <2>1, LanesTypes
    <2>3. phase' \in [Requests -> Phases]
      BY <2>1 DEF Goto, Phases, Dropped
    <2>4. QED
      BY <1>1, <1>3, <1>11, <2>2, <2>3 DEF Withdraw
  <1>12. ASSUME NEW s \in Sessions, BeginHandler(s) PROVE TypeOK'
    <2>1. Lanes!TypeOK'
      BY <1>12, LanesTypes DEF BeginHandler
    <2>2. phase' \in [Requests -> Phases]
      BY <1>12 DEF BeginHandler, Goto, Phases, InHandler
    <2>3. QED
      BY <1>1, <1>3, <1>12, <2>1, <2>2 DEF BeginHandler
  <1>13. ASSUME NEW r \in Requests, Handler(r) PROVE TypeOK'
    <2>1. Agent!TypeOK'
      BY <1>13, AgentTypes
      DEF Handler, DispatchSkill, RunAgent, SkillAnswers, HandlerRaises, TaskEnds, TimesOut,
          AgentReturns, Persisted
    <2>2. ASSUME UNCHANGED clientVars, UNCHANGED queueVars,
                 \/ UNCHANGED phase
                 \/ \E p \in InHandler : Goto(r, p)
          PROVE  TypeOK'
      <3>1. phase' \in [Requests -> Phases]
        BY <2>2, PhaseSets DEF Goto
      <3>2. QED
        BY <1>1, <1>2, <2>1, <2>2, <3>1
    <2>3. CASE DispatchSkill(r) \/ RunAgent(r) \/ SkillAnswers(r) \/ TaskEnds(r) \/ TimesOut(r)
      BY <2>2, <2>3 DEF DispatchSkill, RunAgent, SkillAnswers, TaskEnds, TimesOut, InHandler
    <2>4. CASE HandlerRaises(r) \/ AgentReturns(r) \/ Persisted(r)
      <3>1. CASE \E how \in {"answered", "reported", "silent"} : EndHandler(r, how)
        BY <1>1, <2>1, <3>1, EndHandlerTypes
      <3>2. CASE Goto(r, "persist") /\ UNCHANGED clientVars /\ UNCHANGED queueVars
        BY <2>2, <3>2 DEF InHandler
      <3>3. QED
        BY <2>4, <3>1, <3>2, HandlerEnding
    <2>5. QED
      BY <1>13, <2>3, <2>4 DEF Handler
  <1>14. CASE UNCHANGED vars
    BY <1>1, <1>2, <1>3, <1>14 DEF vars
  <1>15. QED
    BY <1>4, <1>5, <1>6, <1>7, <1>8, <1>9, <1>10, <1>11, <1>12, <1>13, <1>14
    DEF Next, Client, Queue
-----------------------------------------------------------------------------
(* Buffers and lines: QueueInv by its parts                                *)

Lined == InHandler \cup {"queued"}

BufferOK(s) ==
    \A i \in 1..Len(buffers[s]) :
        phase[buffers[s][i]] = "buffered" /\ SessionOf[buffers[s][i]] = s

LineOK(s) ==
    \A i \in 1..Len(backlog[s]) :
        /\ phase[backlog[s][i]] \in Lined
        /\ SessionOf[backlog[s][i]] = s
        /\ \A j \in 1..Len(backlog[s]) : backlog[s][i] = backlog[s][j] => i = j

ActiveOK(r) ==
    /\ r \in active <=> phase[r] \in InHandler
    /\ r \in active => backlog[SessionOf[r]] # <<>> /\ Head(backlog[SessionOf[r]]) = r

LEMMA QueueParts ==
  QueueInv <=> /\ \A s \in Sessions : BufferOK(s)
               /\ \A s \in Sessions : LineOK(s)
               /\ \A r \in Requests : ActiveOK(r)
  BY DEF QueueInv, BufferOK, LineOK, ActiveOK, Lined

LEMMA ElementTypes ==
  ASSUME TypeOK, NEW s \in Sessions
  PROVE  /\ backlog[s] \in Seq(Requests) /\ Len(backlog[s]) \in Nat
         /\ \A i \in 1..Len(backlog[s]) : backlog[s][i] \in Requests
         /\ buffers[s] \in Seq(Requests) /\ Len(buffers[s]) \in Nat
         /\ \A i \in 1..Len(buffers[s]) : buffers[s][i] \in Requests
  <1>1. backlog[s] \in Seq(accepted) /\ accepted \subseteq Requests /\ buffers[s] \in Seq(Requests)
    BY DEF TypeOK, Lanes!TypeOK
  <1>2. backlog[s] \in Seq(Requests)
    BY <1>1, SeqMonotonic
  <1>3. QED
    BY <1>1, <1>2, ElementOfSeq, LenProperties

(* A step that moves no request in or out of a buffer or a line.           *)
LEMMA QueueStays ==
  ASSUME TypeOK, QueueInv, UNCHANGED queueVars,
         \A q \in Requests : \/ phase'[q] = phase[q]
                             \/ phase[q] \in InHandler /\ phase'[q] \in InHandler
                             \/ phase[q] = "unsent" /\ phase'[q] = "refused"
  PROVE  QueueInv'
  <1> USE DEF queueVars
  <1>1. ASSUME NEW s \in Sessions PROVE BufferOK(s)'
    <2>1. BufferOK(s) /\ \A i \in 1..Len(buffers[s]) : buffers[s][i] \in Requests
      BY QueueParts, ElementTypes
    <2>2. QED
      BY <2>1, PhaseSets DEF BufferOK, InHandler
  <1>2. ASSUME NEW s \in Sessions PROVE LineOK(s)'
    <2>1. LineOK(s) /\ \A i \in 1..Len(backlog[s]) : backlog[s][i] \in Requests
      BY QueueParts, ElementTypes
    <2>2. QED
      BY <2>1 DEF LineOK, Lined, InHandler
  <1>3. ASSUME NEW r \in Requests PROVE ActiveOK(r)'
    BY QueueParts DEF ActiveOK, InHandler
  <1>4. QED
    BY <1>1, <1>2, <1>3 DEF QueueInv, BufferOK, LineOK, ActiveOK, Lined

(* A request is put on its session's line: the newest of a buffer, or one  *)
(* that has just come in.  Buffers are left alone or emptied.              *)
LEMMA QueueAccepts ==
  ASSUME TypeOK, QueueInv, NEW r \in Requests,
         Lanes!Accept(r), phase[r] \in {"unsent", "buffered"}, phase'[r] = "queued",
         \A q \in Requests : \/ q = r
                             \/ phase'[q] = phase[q]
                             \/ phase[q] = "buffered" /\ phase'[q] \in {"absorbed", "discarded"},
         \A s \in Sessions : \/ buffers'[s] = <<>>
                             \/ /\ buffers'[s] = buffers[s]
                                /\ \A i \in 1..Len(buffers[s]) :
                                      phase'[buffers[s][i]] = phase[buffers[s][i]]
  PROVE  QueueInv'
  <1> DEFINE z == SessionOf[r]
  <1>1. z \in Sessions /\ phase[r] \notin Lined /\ phase[r] \notin InHandler
    BY SessionTypes, PhaseSets DEF Lined
  <1>2. /\ backlog' = [backlog EXCEPT ![z] = Append(backlog[z], r)]
        /\ active' = active /\ backlog \in [Sessions -> Seq(accepted)]
    BY DEF Lanes!Accept, TypeOK, Lanes!TypeOK
  <1> HIDE DEF z
  <1>3. ASSUME NEW s \in Sessions PROVE BufferOK(s)'
    <2>1. CASE buffers'[s] = <<>>
      <3>1. 1..Len(buffers'[s]) = {}
        BY <2>1, EmptySeq
      <3>2. QED
        BY <3>1 DEF BufferOK
    <2>2. CASE buffers'[s] = buffers[s] /\ \A i \in 1..Len(buffers[s]) :
                                      phase'[buffers[s][i]] = phase[buffers[s][i]]
      BY <2>2, QueueParts DEF BufferOK
    <2>3. QED
      BY <2>1, <2>2
  <1>4. ASSUME NEW q \in Requests, phase[q] \in Lined PROVE phase'[q] = phase[q]
    BY <1>1, <1>4 DEF Lined, InHandler
  <1>5. ASSUME NEW s \in Sessions PROVE LineOK(s)'
    <2>1. LineOK(s) /\ backlog[s] \in Seq(Requests) /\ Len(backlog[s]) \in Nat
          /\ \A i \in 1..Len(backlog[s]) : backlog[s][i] \in Requests
      BY QueueParts, ElementTypes
    <2>2. CASE s # z
      <3>1. backlog'[s] = backlog[s]
        BY <1>2, <2>2
      <3>2. QED
        BY <1>4, <2>1, <3>1 DEF LineOK
    <2>3. CASE s = z
      <3>1. /\ Len(backlog'[s]) = Len(backlog[s]) + 1
            /\ \A i \in 1..Len(backlog[s]) : backlog'[s][i] = backlog[s][i]
            /\ backlog'[s][Len(backlog[s]) + 1] = r
        BY <1>1, <1>2, <2>1, <2>3, AppendProperties
      <3>2. \A i \in 1..Len(backlog[s]) : backlog[s][i] # r
        BY <1>1, <2>1 DEF LineOK
      <3>3. ASSUME NEW i \in 1..Len(backlog'[s])
            PROVE  phase'[backlog'[s][i]] \in Lined /\ SessionOf[backlog'[s][i]] = s
        <4>1. CASE i = Len(backlog[s]) + 1
          BY <2>3, <3>1, <4>1 DEF Lined, z
        <4>2. CASE i # Len(backlog[s]) + 1
          <5>1. i \in 1..Len(backlog[s])
            BY <2>1, <3>1, <4>2
          <5>2. QED
            BY <1>4, <2>1, <3>1, <5>1 DEF LineOK
        <4>3. QED
          BY <4>1, <4>2
      <3>4. ASSUME NEW i \in 1..Len(backlog'[s]), NEW j \in 1..Len(backlog'[s]),
                   backlog'[s][i] = backlog'[s][j]
            PROVE  i = j
        <4>1. /\ i = Len(backlog[s]) + 1 \/ i \in 1..Len(backlog[s])
              /\ j = Len(backlog[s]) + 1 \/ j \in 1..Len(backlog[s])
          BY <2>1, <3>1
        <4>2. CASE i \in 1..Len(backlog[s]) /\ j \in 1..Len(backlog[s])
          <5>1. backlog[s][i] = backlog[s][j]
            BY <3>1, <3>4, <4>2
          <5>2. QED
            BY <2>1, <4>2, <5>1 DEF LineOK
        <4>3. CASE i = Len(backlog[s]) + 1
          BY <3>1, <3>2, <3>4, <4>1, <4>3
        <4>4. CASE j = Len(backlog[s]) + 1
          BY <3>1, <3>2, <3>4, <4>1, <4>4
        <4>5. QED
          BY <4>1, <4>2, <4>3, <4>4
      <3>5. QED
        BY <3>3, <3>4 DEF LineOK
    <2>4. QED
      BY <2>2, <2>3
  <1>6. ASSUME NEW q \in Requests PROVE ActiveOK(q)'
    <2>1. ActiveOK(q) /\ SessionOf[q] \in Sessions
      BY QueueParts, SessionTypes
    <2>2. phase'[q] \in InHandler <=> phase[q] \in InHandler
      BY <1>1 DEF InHandler
    <2>3. ASSUME q \in active
          PROVE  backlog'[SessionOf[q]] # <<>> /\ Head(backlog'[SessionOf[q]]) = q
      <3>1. backlog[SessionOf[q]] # <<>> /\ Head(backlog[SessionOf[q]]) = q
            /\ backlog[SessionOf[q]] \in Seq(Requests)
        BY <2>1, <2>3, ElementTypes DEF ActiveOK
      <3>2. CASE SessionOf[q] # z
        BY <1>2, <2>1, <3>1, <3>2
      <3>3. CASE SessionOf[q] = z
        <4>1. backlog'[SessionOf[q]] = Append(backlog[SessionOf[q]], r)
          BY <1>1, <1>2, <3>3
        <4>2. QED
          BY <3>1, <4>1, HeadTailAppend, AppendProperties
      <3>4. QED
        BY <3>2, <3>3
    <2>4. QED
      BY <1>2, <2>1, <2>2, <2>3 DEF ActiveOK
  <1>7. QED
    BY <1>3, <1>5, <1>6 DEF QueueInv, BufferOK, LineOK, ActiveOK, Lined

(* A request is put in the buffer of its session.                          *)
LEMMA QueueCollects ==
  ASSUME TypeOK, QueueInv, NEW r \in Requests, ReceiveCollect(r)
  PROVE  QueueInv'
  <1> DEFINE z == SessionOf[r]
  <1>1. z \in Sessions /\ phase[r] = "unsent"
    BY SessionTypes DEF ReceiveCollect, Receive
  <1>2. /\ buffers' = [buffers EXCEPT ![z] = Append(buffers[z], r)]
        /\ backlog' = backlog /\ active' = active
        /\ phase' = [phase EXCEPT ![r] = "buffered"]
        /\ buffers \in [Sessions -> Seq(Requests)] /\ phase \in [Requests -> Phases]
    BY DEF ReceiveCollect, Goto, TypeOK
  <1> HIDE DEF z
  <1>3. ASSUME NEW s \in Sessions PROVE BufferOK(s)'
    <2>1. BufferOK(s) /\ buffers[s] \in Seq(Requests) /\ Len(buffers[s]) \in Nat
          /\ \A i \in 1..Len(buffers[s]) : buffers[s][i] \in Requests
      BY QueueParts, ElementTypes
    <2>2. ASSUME NEW i \in 1..Len(buffers[s])
          PROVE  phase'[buffers[s][i]] = "buffered" /\ SessionOf[buffers[s][i]] = s
      BY <1>1, <1>2, <2>1 DEF BufferOK
    <2>3. CASE s # z
      BY <1>2, <2>2, <2>3 DEF BufferOK
    <2>4. CASE s = z
      <3>1. /\ Len(buffers'[s]) = Len(buffers[s]) + 1
            /\ \A i \in 1..Len(buffers[s]) : buffers'[s][i] = buffers[s][i]
            /\ buffers'[s][Len(buffers[s]) + 1] = r
        BY <1>1, <1>2, <2>1, <2>4, AppendProperties
      <3>2. SUFFICES ASSUME NEW i \in 1..Len(buffers'[s])
                     PROVE  phase'[buffers'[s][i]] = "buffered" /\ SessionOf[buffers'[s][i]] = s
        BY DEF BufferOK
      <3>3. CASE i = Len(buffers[s]) + 1
        BY <1>2, <2>4, <3>1, <3>3 DEF z
      <3>4. CASE i # Len(buffers[s]) + 1
        <4>1. i \in 1..Len(buffers[s])
          BY <2>1, <3>1, <3>4
        <4>2. QED
          BY <2>2, <3>1, <4>1
      <3>5. QED
        BY <3>3, <3>4
    <2>5. QED
      BY <2>3, <2>4
  <1>4. ASSUME NEW q \in Requests
        PROVE  /\ phase[q] \in Lined => phase'[q] = phase[q]
               /\ phase'[q] \in InHandler <=> phase[q] \in InHandler
    BY <1>1, <1>2 DEF Lined, InHandler
  <1>5. ASSUME NEW s \in Sessions PROVE LineOK(s)'
    <2>1. LineOK(s) /\ \A i \in 1..Len(backlog[s]) : backlog[s][i] \in Requests
      BY QueueParts, ElementTypes
    <2>2. QED
      BY <1>2, <1>4, <2>1 DEF LineOK
  <1>6. ASSUME NEW q \in Requests PROVE ActiveOK(q)'
    BY <1>2, <1>4, QueueParts DEF ActiveOK
  <1>7. QED
    BY <1>3, <1>5, <1>6 DEF QueueInv, BufferOK, LineOK, ActiveOK, Lined

(* A request leaves its line: k is its place, Was(j) the place that what   *)
(* stands at place j now had before.                                       *)
LEMMA LineShortens ==
  ASSUME TypeOK, QueueInv, NEW z \in Sessions, NEW k \in 1..Len(backlog[z]),
         backlog'[z] \in Seq(Requests),
         Len(backlog'[z]) = Len(backlog[z]) - 1,
         \A j \in 1..(Len(backlog[z]) - 1) :
             backlog'[z][j] = backlog[z][IF j < k THEN j ELSE j + 1],
         \A s \in Sessions : s # z => backlog'[s] = backlog[s],
         UNCHANGED buffers,
         NEW p \in Phases, p \notin Lined, phase' = [phase EXCEPT ![backlog[z][k]] = p]
  PROVE  /\ \A s \in Sessions : BufferOK(s)'
         /\ \A s \in Sessions : LineOK(s)'
         /\ \A s \in Sessions : s = z => \A j \in 1..Len(backlog'[s]) : backlog'[s][j] # backlog[z][k]
  <1> DEFINE r == backlog[z][k]
             n == Len(backlog[z])
             Was(j) == IF j < k THEN j ELSE j + 1
  <1>1. /\ n \in Nat /\ r \in Requests /\ LineOK(z) /\ phase[r] \in Lined /\ SessionOf[r] = z
        /\ phase \in [Requests -> Phases]
    BY QueueParts, ElementTypes DEF LineOK, TypeOK
  <1>2. /\ \A j \in 1..(n - 1) : Was(j) \in 1..n /\ Was(j) # k
        /\ \A i, j \in 1..(n - 1) : Was(i) = Was(j) => i = j
    BY <1>1
  <1>3. \A j \in 1..(n - 1) : backlog'[z][j] = backlog[z][Was(j)]
    OBVIOUS
  <1>4. /\ \A i, j \in 1..n : backlog[z][i] = backlog[z][j] => i = j
        /\ \A j \in 1..n : j # k => backlog[z][j] # r
    BY <1>1 DEF LineOK
  <1>5. \A q \in Requests : q # r => phase'[q] = phase[q]
    BY <1>1
  <1> HIDE DEF Was, r, n
  <1>6. ASSUME NEW s \in Sessions PROVE BufferOK(s)'
    <2>1. BufferOK(s) /\ \A i \in 1..Len(buffers[s]) : buffers[s][i] \in Requests
      BY QueueParts, ElementTypes
    <2>2. \A i \in 1..Len(buffers[s]) : buffers[s][i] # r
      BY <1>1, <2>1 DEF BufferOK, Lined, InHandler
    <2>3. QED
      BY <1>5, <2>1, <2>2 DEF BufferOK
  <1>7. ASSUME NEW s \in Sessions, s # z PROVE LineOK(s)'
    <2>1. LineOK(s) /\ \A i \in 1..Len(backlog[s]) : backlog[s][i] \in Requests
      BY QueueParts, ElementTypes
    <2>2. \A i \in 1..Len(backlog[s]) : backlog[s][i] # r
      BY <1>1, <1>7, <2>1 DEF LineOK
    <2>3. backlog'[s] = backlog[s]
      BY <1>7
    <2>4. QED
      BY <1>5, <2>1, <2>2, <2>3 DEF LineOK
  <1>8. \A j \in 1..(n - 1) : backlog'[z][j] # r /\ backlog'[z][j] \in Requests
    BY <1>2, <1>3, <1>4, ElementTypes, SMTT(30) DEF n
  <1>9. LineOK(z)'
    <2>1. Len(backlog'[z]) = n - 1
      BY DEF n
    <2>2. ASSUME NEW j \in 1..(n - 1)
          PROVE  phase'[backlog'[z][j]] \in Lined /\ SessionOf[backlog'[z][j]] = z
      <3>1. backlog'[z][j] = backlog[z][Was(j)] /\ Was(j) \in 1..Len(backlog[z])
        BY <1>2, <1>3 DEF n
      <3>2. phase[backlog[z][Was(j)]] \in Lined /\ SessionOf[backlog[z][Was(j)]] = z
        BY <1>1, <3>1 DEF LineOK
      <3>3. QED
        BY <1>5, <1>8, <3>1, <3>2
    <2>3. ASSUME NEW i \in 1..(n - 1), NEW j \in 1..(n - 1), backlog'[z][i] = backlog'[z][j]
          PROVE  i = j
      <3>1. Was(i) = Was(j)
        <4>1. backlog[z][Was(i)] = backlog[z][Was(j)] /\ Was(i) \in 1..n /\ Was(j) \in 1..n
          BY <1>2, <1>3, <2>3
        <4>2. QED
          BY <1>4, <4>1
      <3>2. QED
        BY <1>2, <3>1
    <2>4. QED
      BY <2>1, <2>2, <2>3 DEF LineOK
  <1>10. QED
    BY <1>6, <1>7, <1>8, <1>9 DEF r, n

LEMMA QueueWithdraws ==
  ASSUME TypeOK, QueueInv, NEW s \in Sessions, Withdraw(s)
  PROVE  QueueInv'
  <1>1. PICK i \in 1..Len(backlog[s]) :
           Lanes!Withdraw(s, i) /\ Goto(backlog[s][i], "withdrawn")
    BY DEF Withdraw
  <1> DEFINE r == backlog[s][i]
             n == Len(backlog[s])
  <1>2. /\ backlog[s] \in Seq(Requests) /\ n \in Nat /\ r \in Requests
        /\ LineOK(s) /\ SessionOf[r] = s /\ phase[r] \in Lined
        /\ phase \in [Requests -> Phases] /\ backlog \in [Sessions -> Seq(accepted)]
    BY QueueParts, ElementTypes DEF LineOK, TypeOK, Lanes!TypeOK
  <1>3. /\ backlog' = [backlog EXCEPT ![s] = RemoveAt(backlog[s], i)]
        /\ active' = active /\ buffers' = buffers /\ r \notin active
    BY <1>1, SameRemoveAt DEF Lanes!Withdraw, Withdraw
  <1>4. /\ backlog'[s] \in Seq(Requests) /\ Len(backlog'[s]) = n - 1
        /\ \A j \in 1..(n - 1) : backlog'[s][j] = backlog[s][IF j < i THEN j ELSE j + 1]
        /\ \A t \in Sessions : t # s => backlog'[t] = backlog[t]
    BY <1>2, <1>3, RemoveAtElements
  <1>5. phase' = [phase EXCEPT ![r] = "withdrawn"]
        /\ "withdrawn" \in Phases /\ "withdrawn" \notin Lined
    BY <1>1 DEF Goto, Phases, Dropped, Lined, InHandler
  <1>6. /\ \A t \in Sessions : BufferOK(t)'
        /\ \A t \in Sessions : LineOK(t)'
    BY <1>3, <1>4, <1>5, LineShortens
  <1>7. ASSUME NEW q \in Requests PROVE ActiveOK(q)'
    <2>1. ActiveOK(q) /\ ActiveOK(r) /\ SessionOf[q] \in Sessions
      BY <1>2, QueueParts, SessionTypes
    <2>2. phase'[q] \in InHandler <=> phase[q] \in InHandler
      BY <1>2, <1>3, <1>5, <2>1 DEF ActiveOK, InHandler
    <2>3. ASSUME q \in active
          PROVE  backlog'[SessionOf[q]] # <<>> /\ Head(backlog'[SessionOf[q]]) = q
      <3>1. backlog[SessionOf[q]] # <<>> /\ Head(backlog[SessionOf[q]]) = q /\ q # r
        BY <1>3, <2>1, <2>3 DEF ActiveOK
      <3>2. CASE SessionOf[q] # s
        BY <1>4, <2>1, <3>1, <3>2
      <3>3. CASE SessionOf[q] = s
        <4>1. 1 \in 1..n /\ backlog[s][1] = q
          BY <1>2, <3>1, <3>3, HeadIsFirst
        <4>2. 1 < i /\ 1 \in 1..(n - 1)
          BY <1>2, <3>1, <4>1
        <4>3. backlog'[s][1] = q
          BY <1>4, <4>1, <4>2
        <4>4. backlog'[s] # <<>>
          BY <1>2, <1>4, <4>2, EmptySeq
        <4>5. QED
          BY <1>4, <3>3, <4>3, <4>4, HeadIsFirst
      <3>4. QED
        BY <3>2, <3>3
    <2>4. QED
      BY <1>3, <2>1, <2>2, <2>3 DEF ActiveOK
  <1>8. QED
    BY <1>6, <1>7 DEF QueueInv, BufferOK, LineOK, ActiveOK, Lined

LEMMA QueueBegins ==
  ASSUME TypeOK, QueueInv, NEW s \in Sessions, BeginHandler(s)
  PROVE  QueueInv'
  <1> DEFINE r == Head(backlog[s])
  <1>1. /\ backlog[s] # <<>> /\ 1 \in 1..Len(backlog[s]) /\ r = backlog[s][1] /\ r \in Requests
    BY ElementTypes, HeadIsFirst DEF BeginHandler, Lanes!Begin
  <1>2. phase[r] \in Lined /\ SessionOf[r] = s
    BY <1>1, QueueParts DEF LineOK
  <1>3. /\ active' = active \cup {r} /\ backlog' = backlog /\ buffers' = buffers
        /\ phase' = [phase EXCEPT ![r] = "dispatch"] /\ phase \in [Requests -> Phases]
    BY DEF BeginHandler, Lanes!Begin, Goto, TypeOK
  <1> HIDE DEF r
  <1>4. ASSUME NEW t \in Sessions PROVE BufferOK(t)'
    <2>1. BufferOK(t) /\ \A i \in 1..Len(buffers[t]) : buffers[t][i] \in Requests
      BY QueueParts, ElementTypes
    <2>2. \A i \in 1..Len(buffers[t]) : buffers[t][i] # r
      BY <1>2, <2>1 DEF BufferOK, Lined, InHandler
    <2>3. QED
      BY <1>1, <1>3, <2>1, <2>2 DEF BufferOK
  <1>5. ASSUME NEW t \in Sessions PROVE LineOK(t)'
    <2>1. LineOK(t) /\ \A i \in 1..Len(backlog[t]) : backlog[t][i] \in Requests
      BY QueueParts, ElementTypes
    <2>2. "dispatch" \in Lined
      BY DEF Lined, InHandler
    <2>3. QED
      BY <1>1, <1>3, <2>1, <2>2 DEF LineOK
  <1>6. ASSUME NEW q \in Requests PROVE ActiveOK(q)'
    <2>1. CASE q = r
      BY <1>1, <1>2, <1>3, <2>1 DEF ActiveOK, r, InHandler
    <2>2. CASE q # r
      BY <1>1, <1>3, <2>2, QueueParts DEF ActiveOK
    <2>3. QED
      BY <2>1, <2>2
  <1>7. QED
    BY <1>4, <1>5, <1>6 DEF QueueInv, BufferOK, LineOK, ActiveOK, Lined

(* Only the head of a session's line is in its handler.                    *)
LEMMA QueueFinishes ==
  ASSUME TypeOK, QueueInv, NEW r \in Requests, phase[r] \in InHandler,
         NEW how \in {"answered", "reported", "silent"}, EndHandler(r, how)
  PROVE  QueueInv'
  <1> DEFINE s == SessionOf[r]
             n == Len(backlog[s])
  <1>1. /\ s \in Sessions /\ r \in active /\ backlog[s] # <<>> /\ Head(backlog[s]) = r
        /\ backlog[s] \in Seq(Requests) /\ n \in Nat /\ LineOK(s)
    BY SessionTypes, QueueParts, ElementTypes DEF ActiveOK
  <1>2. 1 \in 1..n /\ backlog[s][1] = r
    BY <1>1, HeadIsFirst
  <1>3. /\ backlog' = [backlog EXCEPT ![s] = Tail(backlog[s])] /\ active' = active \ {r}
        /\ buffers' = buffers /\ phase' = [phase EXCEPT ![r] = how]
        /\ phase \in [Requests -> Phases] /\ backlog \in [Sessions -> Seq(accepted)]
    BY <1>1 DEF EndHandler, Lanes!Finish, Goto, TypeOK, Lanes!TypeOK
  <1>4. /\ backlog'[s] \in Seq(Requests) /\ Len(backlog'[s]) = n - 1
        /\ \A j \in 1..(n - 1) : backlog'[s][j] = backlog[s][IF j < 1 THEN j ELSE j + 1]
        /\ \A t \in Sessions : t # s => backlog'[t] = backlog[t]
    <2>1. /\ Tail(backlog[s]) \in Seq(Requests) /\ Len(Tail(backlog[s])) = n - 1
          /\ \A j \in 1..(n - 1) : Tail(backlog[s])[j] = backlog[s][j + 1]
      BY <1>1, HeadTailProperties
    <2>2. backlog'[s] = Tail(backlog[s]) /\ \A t \in Sessions : t # s => backlog'[t] = backlog[t]
      BY <1>1, <1>3
    <2>3. QED
      BY <1>1, <2>1, <2>2
  <1>5. how \in Phases /\ how \notin Lined /\ how \notin InHandler
    BY DEF Phases, Lined, InHandler
  <1> HIDE DEF s, n
  <1>6. /\ \A t \in Sessions : BufferOK(t)'
        /\ \A t \in Sessions : LineOK(t)'
    <2>1. phase' = [phase EXCEPT ![backlog[s][1]] = how]
      BY <1>2, <1>3
    <2>2. /\ 1 \in 1..Len(backlog[s]) /\ Len(backlog'[s]) = Len(backlog[s]) - 1
          /\ \A j \in 1..(Len(backlog[s]) - 1) :
                backlog'[s][j] = backlog[s][IF j < 1 THEN j ELSE j + 1]
      BY <1>2, <1>4 DEF n
    <2>3. s \in Sessions /\ backlog'[s] \in Seq(Requests) /\ UNCHANGED buffers
      BY <1>1, <1>3, <1>4
    <2>4. QED
      BY <1>4, <1>5, <2>1, <2>2, <2>3, LineShortens
  <1>7. ASSUME NEW q \in Requests PROVE ActiveOK(q)'
    <2>1. CASE q = r
      BY <1>3, <1>5, <2>1 DEF ActiveOK
    <2>2. CASE q # r
      <3>1. ActiveOK(q) /\ SessionOf[q] \in Sessions
        BY QueueParts, SessionTypes
      <3>2. q \in active => SessionOf[q] # s
        BY <1>1, <2>2, <3>1 DEF ActiveOK
      <3>3. QED
        BY <1>3, <1>4, <2>2, <3>1, <3>2 DEF ActiveOK
    <2>3. QED
      BY <2>1, <2>2
  <1>8. QED
    BY <1>6, <1>7 DEF QueueInv, BufferOK, LineOK, ActiveOK, Lined

(* What stands in a buffer stands in the buffer of its session only.       *)
LEMMA BufferElements ==
  ASSUME TypeOK, QueueInv, NEW s \in Sessions
  PROVE  /\ ToSet(buffers[s]) = {buffers[s][i] : i \in 1..Len(buffers[s])}
         /\ ToSet(buffers[s]) \subseteq Requests
         /\ \A q \in ToSet(buffers[s]) : phase[q] = "buffered" /\ SessionOf[q] = s
         /\ \A t \in Sessions : t # s => \A i \in 1..Len(buffers[t]) : buffers[t][i] \notin ToSet(buffers[s])
  <1>1. ToSet(buffers[s]) = {buffers[s][i] : i \in 1..Len(buffers[s])}
    BY ElementTypes, LenProperties DEF ToSet
  <1>2. \A t \in Sessions : BufferOK(t)
    BY QueueParts
  <1>3. QED
    BY <1>1, <1>2, ElementTypes, SMTT(30) DEF BufferOK

LEMMA QueueStep ==
  ASSUME TypeOK, QueueInv, [Next]_vars
  PROVE  QueueInv'
  <1>1. ASSUME NEW r \in Requests, ReceiveFollowup(r) PROVE QueueInv'
    <2>1. /\ Lanes!Accept(r) /\ phase[r] = "unsent" /\ buffers' = buffers
          /\ phase' = [phase EXCEPT ![r] = "queued"] /\ phase \in [Requests -> Phases]
      BY <1>1 DEF ReceiveFollowup, Receive, Goto, TypeOK
    <2>2. \A s \in Sessions : \A i \in 1..Len(buffers[s]) :
             phase'[buffers[s][i]] = phase[buffers[s][i]]
      BY <2>1, QueueParts, ElementTypes DEF BufferOK
    <2>3. phase'[r] = "queued" /\ \A q \in Requests : q = r \/ phase'[q] = phase[q]
      BY <2>1
    <2>4. QED
      BY <2>1, <2>2, <2>3, QueueAccepts
  <1>2. ASSUME NEW r \in Requests, ReceiveInterrupt(r) PROVE QueueInv'
    <2> DEFINE z == SessionOf[r]
    <2>1. /\ Lanes!Accept(r) /\ phase[r] = "unsent" /\ z \in Sessions
          /\ buffers' = [buffers EXCEPT ![z] = <<>>] /\ buffers \in [Sessions -> Seq(Requests)]
          /\ phase' = [q \in Requests |-> IF q = r THEN "queued"
                                          ELSE IF q \in ToSet(buffers[z]) THEN "discarded"
                                          ELSE phase[q]]
      BY <1>2, SessionTypes DEF ReceiveInterrupt, Receive, TypeOK
    <2> HIDE DEF z
    <2>2. /\ phase'[r] = "queued"
          /\ \A q \in Requests : \/ q = r
                                 \/ phase'[q] = phase[q]
                                 \/ phase[q] = "buffered" /\ phase'[q] \in {"absorbed", "discarded"}
      BY <2>1, BufferElements
    <2>3. ASSUME NEW s \in Sessions
          PROVE  \/ buffers'[s] = <<>>
                 \/ /\ buffers'[s] = buffers[s]
                    /\ \A i \in 1..Len(buffers[s]) : phase'[buffers[s][i]] = phase[buffers[s][i]]
      <3>1. CASE s = z
        BY <2>1, <3>1
      <3>2. CASE s # z
        <4>1. \A i \in 1..Len(buffers[s]) :
                 /\ buffers[s][i] \in Requests /\ buffers[s][i] \notin ToSet(buffers[z])
                 /\ phase[buffers[s][i]] = "buffered"
          BY <2>1, <3>2, BufferElements, ElementTypes, QueueParts DEF BufferOK
        <4>2. QED
          BY <2>1, <3>2, <4>1
      <3>3. QED
        BY <3>1, <3>2
    <2>4. QED
      BY <2>1, <2>2, <2>3, QueueAccepts
  <1>3. ASSUME NEW r \in Requests, ReceiveCollect(r) PROVE QueueInv'
    BY <1>3, QueueCollects
  <1>4. ASSUME NEW r \in Requests, Refuse(r) PROVE QueueInv'
    <2>1. \A q \in Requests : phase'[q] = phase[q] \/ (phase[q] = "unsent" /\ phase'[q] = "refused")
      BY <1>4 DEF Refuse, Goto, TypeOK
    <2>2. QED
      BY <1>4, <2>1, QueueStays DEF Refuse
  <1>5. ASSUME NEW c \in Connections, Leave(c) \/ NoticeLeft(c) PROVE QueueInv'
    BY <1>5, QueueStays DEF Leave, NoticeLeft
  <1>6. ASSUME NEW s \in Sessions, Flush(s) PROVE QueueInv'
    <2> DEFINE r == buffers[s][Len(buffers[s])]
    <2>1. /\ Lanes!Accept(r) /\ Len(buffers[s]) \in 1..Len(buffers[s])
          /\ buffers' = [buffers EXCEPT ![s] = <<>>] /\ buffers \in [Sessions -> Seq(Requests)]
          /\ phase' = [q \in Requests |-> IF q = r THEN "queued"
                                          ELSE IF q \in ToSet(buffers[s]) THEN "absorbed"
                                          ELSE phase[q]]
      BY <1>6, EmptySeq, ElementTypes DEF Flush, TypeOK
    <2>2. r \in Requests /\ phase[r] = "buffered"
      BY <2>1, ElementTypes, QueueParts DEF BufferOK
    <2>3. r \in ToSet(buffers[s])
      BY <2>1, BufferElements
    <2> HIDE DEF r
    <2>4. /\ phase'[r] = "queued"
          /\ \A q \in Requests : \/ q = r
                                 \/ phase'[q] = phase[q]
                                 \/ phase[q] = "buffered" /\ phase'[q] \in {"absorbed", "discarded"}
      BY <2>1, <2>2, BufferElements
    <2>5. ASSUME NEW t \in Sessions
          PROVE  \/ buffers'[t] = <<>>
                 \/ /\ buffers'[t] = buffers[t]
                    /\ \A i \in 1..Len(buffers[t]) : phase'[buffers[t][i]] = phase[buffers[t][i]]
      <3>1. CASE t = s
        BY <2>1, <3>1
      <3>2. CASE t # s
        <4>1. \A i \in 1..Len(buffers[t]) :
                 buffers[t][i] \in Requests /\ buffers[t][i] \notin ToSet(buffers[s])
          BY <3>2, BufferElements, ElementTypes
        <4>2. QED
          BY <2>1, <2>3, <3>2, <4>1
      <3>3. QED
        BY <3>1, <3>2
    <2>6. QED
      BY <2>1, <2>2, <2>4, <2>5, QueueAccepts
  <1>7. ASSUME NEW s \in Sessions, Withdraw(s) \/ BeginHandler(s) PROVE QueueInv'
    BY <1>7, QueueWithdraws, QueueBegins
  <1>8. ASSUME NEW r \in Requests, Handler(r) PROVE QueueInv'
    <2>1. ASSUME UNCHANGED queueVars,
                 \/ UNCHANGED phase
                 \/ phase[r] \in InHandler /\ \E p \in InHandler : Goto(r, p)
          PROVE  QueueInv'
      BY <2>1, QueueStays DEF Goto, TypeOK
    <2>2. CASE DispatchSkill(r) \/ RunAgent(r) \/ SkillAnswers(r) \/ TaskEnds(r) \/ TimesOut(r)
      BY <2>1, <2>2 DEF DispatchSkill, RunAgent, SkillAnswers, TaskEnds, TimesOut, InHandler
    <2>3. CASE HandlerRaises(r) \/ AgentReturns(r) \/ Persisted(r)
      <3>1. phase[r] \in InHandler
        BY <2>3 DEF HandlerRaises, AgentReturns, Persisted, InHandler
      <3>2. CASE \E how \in {"answered", "reported", "silent"} : EndHandler(r, how)
        BY <3>1, <3>2, QueueFinishes
      <3>3. CASE Goto(r, "persist") /\ UNCHANGED queueVars
        BY <2>1, <3>1, <3>3 DEF InHandler
      <3>4. QED
        BY <2>3, <3>2, <3>3, HandlerEnding
    <2>4. QED
      BY <1>8, <2>2, <2>3 DEF Handler
  <1>9. CASE UNCHANGED vars
    BY <1>9, QueueStays DEF vars
  <1>10. QED
    BY <1>1, <1>2, <1>3, <1>4, <1>5, <1>6, <1>7, <1>8, <1>9 DEF Next, Client, Queue
-----------------------------------------------------------------------------
(* The sockets and their requests                                          *)

BridgeInv == SocketsInv /\ BridgeClean /\ FinalDelivered

Unended == InHandler \cup {"buffered", "queued"}

Settled == {"unsent", "answered", "reported", "refused"}

LEMMA PhaseClasses ==
  /\ Unended \cap Settled = {}
  /\ \A p \in Unended : p \notin {"answered", "reported"}
  /\ InHandler \subseteq Unended
  BY DEF Unended, Settled, InHandler

LEMMA BridgeParts ==
  BridgeInv <=>
    /\ \A s \in Sessions, c \in Connections : c \in bySession[s] => connection[c] # "closed"
    /\ \A r \in Requests :
          /\ byRequest[r] \in {ConnectionOf[r], None}
          /\ /\ ConnectionOf[r] # None
             /\ connection[ConnectionOf[r]] # "closed"
             /\ phase[r] \in Unended
             => byRequest[r] = ConnectionOf[r]
          /\ byRequest[r] # None => connection[byRequest[r]] # "closed" /\ phase[r] \notin Settled
          /\ /\ phase[r] \in {"answered", "reported"}
             /\ ConnectionOf[r] # None
             /\ connection[ConnectionOf[r]] = "open"
             => final[r] = IF phase[r] = "answered" THEN "done" ELSE "error"
  BY DEF BridgeInv, SocketsInv, BridgeClean, FinalDelivered, Unended, Settled

(* A request that goes from one place to another, short of its end.        *)
Moves(from, to) ==
    \/ to = from
    \/ /\ from \notin Settled /\ to \notin Settled
       /\ to \in Unended => from \in Unended

LEMMA BridgeStays ==
  ASSUME TypeOK, BridgeInv, UNCHANGED clientVars,
         \A q \in Requests : Moves(phase[q], phase'[q])
  PROVE  BridgeInv'
  <1>1. \A q \in Requests :
           /\ phase'[q] \in Unended => phase[q] \in Unended
           /\ phase[q] \notin Settled => phase'[q] \notin Settled
           /\ phase'[q] \in {"answered", "reported"} => phase'[q] = phase[q]
    BY DEF Moves, Settled
  <1>2. QED
    BY <1>1, BridgeParts
    DEF clientVars, BridgeInv, SocketsInv, BridgeClean, FinalDelivered, Unended, Settled

LEMMA BridgeReceives ==
  ASSUME TypeOK, BridgeInv, NEW r \in Requests, Receive(r),
         phase'[r] \in {"queued", "buffered"},
         \A q \in Requests : q = r \/ Moves(phase[q], phase'[q])
  PROVE  BridgeInv'
  <1> DEFINE c == ConnectionOf[r]
  <1>1. /\ c \in Connections \cup {None} /\ SessionOf[r] \in Sessions
        /\ phase[r] = "unsent" /\ byRequest[r] = None
        /\ connection' = connection /\ final' = final
    BY ConnectionOfAssumption, SessionTypes, BridgeParts DEF Receive, Settled
  <1>2. /\ \A s \in Sessions : \A d \in bySession'[s] : d \in bySession[s] \/ connection[d] = "open"
        /\ byRequest'[r] = c /\ (c # None => connection[c] = "open")
        /\ \A q \in Requests : q # r => byRequest'[q] = byRequest[q]
    <2>1. CASE c = None
      BY <1>1, <2>1 DEF Receive, bridgeVars
    <2>2. CASE c # None
      <3>1. /\ byRequest' = [byRequest EXCEPT ![r] = c]
            /\ bySession' = [bySession EXCEPT ![SessionOf[r]] = @ \cup {c}]
            /\ connection[c] = "open"
        BY <2>2 DEF Receive, Register
      <3>2. byRequest \in [Requests -> Connections \cup {None}]
            /\ bySession \in [Sessions -> SUBSET Connections]
        BY DEF TypeOK
      <3> HIDE DEF c
      <3>3. \A s \in Sessions : \A d \in bySession'[s] : d \in bySession[s] \/ d = c
        BY <1>1, <3>1, <3>2
      <3>4. QED
        BY <3>1, <3>2, <3>3
    <2>3. QED
      BY <2>1, <2>2
  <1>3. \A q \in Requests : q # r =>
           /\ phase'[q] \in Unended => phase[q] \in Unended
           /\ phase[q] \notin Settled => phase'[q] \notin Settled
           /\ phase'[q] \in {"answered", "reported"} => phase'[q] = phase[q]
    BY DEF Moves, Settled
  <1>4. phase'[r] \notin Settled /\ phase'[r] \notin {"answered", "reported"}
    BY DEF Settled
  <1> DEFINE Good(q) ==
          /\ byRequest'[q] \in {ConnectionOf[q], None}
          /\ /\ ConnectionOf[q] # None
             /\ connection[ConnectionOf[q]] # "closed"
             /\ phase'[q] \in Unended
             => byRequest'[q] = ConnectionOf[q]
          /\ byRequest'[q] # None => connection[byRequest'[q]] # "closed" /\ phase'[q] \notin Settled
          /\ /\ phase'[q] \in {"answered", "reported"}
             /\ ConnectionOf[q] # None
             /\ connection[ConnectionOf[q]] = "open"
             => final[q] = IF phase'[q] = "answered" THEN "done" ELSE "error"
  <1>5. ASSUME NEW q \in Requests PROVE Good(q)
    <2>1. CASE q = r
      BY <1>1, <1>2, <1>4, <2>1
    <2>2. CASE q # r
      BY <1>2, <1>3, <2>2, BridgeParts
    <2>3. QED
      BY <2>1, <2>2
  <1>6. \A s \in Sessions, d \in Connections : d \in bySession'[s] => connection[d] # "closed"
    BY <1>2, BridgeParts
  <1>7. QED
    BY <1>1, <1>5, <1>6
    DEF BridgeInv, SocketsInv, BridgeClean, FinalDelivered, Unended, Settled

(* The end of an endpoint: its socket is gone from the bridge, and only    *)
(* its own requests with it.                                               *)
LEMMA BridgeCloses ==
  ASSUME TypeOK, BridgeInv, NEW c \in Connections, Unregister(c),
         connection' = [connection EXCEPT ![c] = "closed"], UNCHANGED final,
         \A q \in Requests :
             \/ phase'[q] = phase[q]
             \/ phase[q] = "unsent" /\ phase'[q] = "refused"
  PROVE  BridgeInv'
  <1>1. /\ connection'[c] = "closed" /\ \A d \in Connections : d # c => connection'[d] = connection[d]
        /\ \A s \in Sessions : bySession'[s] = bySession[s] \ {c}
        /\ \A q \in Requests : byRequest'[q] = IF byRequest[q] = c THEN None ELSE byRequest[q]
        /\ c # None
        /\ \A q \in Requests : ConnectionOf[q] \in Connections \cup {None}
    BY ConnectionOfAssumption DEF Unregister, TypeOK
  <1>2. \A q \in Requests :
           /\ phase'[q] \in Unended => phase'[q] = phase[q]
           /\ phase[q] \notin Settled => phase'[q] \notin Settled
           /\ phase'[q] \in {"answered", "reported"} => phase'[q] = phase[q]
    BY DEF Settled, Unended, InHandler
  <1> DEFINE Good(q) ==
          /\ byRequest'[q] \in {ConnectionOf[q], None}
          /\ /\ ConnectionOf[q] # None
             /\ connection'[ConnectionOf[q]] # "closed"
             /\ phase'[q] \in Unended
             => byRequest'[q] = ConnectionOf[q]
          /\ byRequest'[q] # None => connection'[byRequest'[q]] # "closed" /\ phase'[q] \notin Settled
          /\ /\ phase'[q] \in {"answered", "reported"}
             /\ ConnectionOf[q] # None
             /\ connection'[ConnectionOf[q]] = "open"
             => final[q] = IF phase'[q] = "answered" THEN "done" ELSE "error"
  <1>3. ASSUME NEW q \in Requests PROVE Good(q)
    BY <1>1, <1>2, BridgeParts
  <1>4. \A s \in Sessions, d \in Connections : d \in bySession'[s] => connection'[d] # "closed"
    BY <1>1, BridgeParts
  <1>5. QED
    BY <1>3, <1>4
    DEF BridgeInv, SocketsInv, BridgeClean, FinalDelivered, Unended, Settled

LEMMA BridgeLeaves ==
  ASSUME TypeOK, BridgeInv, NEW c \in Connections, Leave(c)
  PROVE  BridgeInv'
  <1>1. /\ \A d \in Connections : /\ connection'[d] = "closed" <=> connection[d] = "closed"
                                  /\ connection'[d] = "open" => connection[d] = "open"
        /\ byRequest' = byRequest /\ bySession' = bySession /\ final' = final /\ phase' = phase
        /\ \A q \in Requests : ConnectionOf[q] \in Connections \cup {None}
        /\ \A s \in Sessions : bySession[s] \subseteq Connections
    BY ConnectionOfAssumption DEF Leave, bridgeVars, TypeOK
  <1> DEFINE Good(q) ==
          /\ byRequest[q] \in {ConnectionOf[q], None}
          /\ /\ ConnectionOf[q] # None
             /\ connection'[ConnectionOf[q]] # "closed"
             /\ phase[q] \in Unended
             => byRequest[q] = ConnectionOf[q]
          /\ byRequest[q] # None => connection'[byRequest[q]] # "closed" /\ phase[q] \notin Settled
          /\ /\ phase[q] \in {"answered", "reported"}
             /\ ConnectionOf[q] # None
             /\ connection'[ConnectionOf[q]] = "open"
             => final[q] = IF phase[q] = "answered" THEN "done" ELSE "error"
  <1>2. ASSUME NEW q \in Requests PROVE Good(q)
    <2>1. byRequest[q] \in Connections \cup {None}
      BY DEF TypeOK
    <2>2. QED
      BY <1>1, <2>1, BridgeParts
  <1>3. \A s \in Sessions, d \in Connections : d \in bySession[s] => connection'[d] # "closed"
    BY <1>1, BridgeParts
  <1>4. QED
    BY <1>1, <1>2, <1>3
    DEF BridgeInv, SocketsInv, BridgeClean, FinalDelivered, Unended, Settled

(* The end of a handler: until then its request was registered, so the     *)
(* answer finds the socket.                                                *)
LEMMA BridgeAnswers ==
  ASSUME TypeOK, BridgeInv, NEW r \in Requests, phase[r] \in InHandler,
         NEW how \in {"answered", "reported", "silent"}, EndHandler(r, how)
  PROVE  BridgeInv'
  <1>1. /\ phase'[r] = how /\ \A q \in Requests : q # r => phase'[q] = phase[q]
        /\ connection' = connection /\ bySession' = bySession
        /\ \A q \in Requests : q # r => byRequest'[q] = byRequest[q] /\ final'[q] = final[q]
    BY DEF EndHandler, Goto, Reply, TypeOK
  <1>2. /\ how \in {"answered", "reported"} =>
              /\ byRequest'[r] = None
              /\ final'[r] = IF byRequest[r] # None /\ connection[byRequest[r]] = "open"
                             THEN (IF how = "answered" THEN "done" ELSE "error") ELSE final[r]
        /\ how = "silent" => byRequest'[r] = byRequest[r]
    BY DEF EndHandler, Reply, TypeOK
  <1>3. how \notin Unended /\ (how \in Settled => how \in {"answered", "reported"})
    BY DEF Unended, Settled, InHandler
  <1>4. /\ byRequest[r] \in {ConnectionOf[r], None}
        /\ ConnectionOf[r] # None /\ connection[ConnectionOf[r]] # "closed" => byRequest[r] = ConnectionOf[r]
        /\ byRequest[r] # None => connection[byRequest[r]] # "closed"
    BY BridgeParts, PhaseClasses
  <1> DEFINE Good(q) ==
          /\ byRequest'[q] \in {ConnectionOf[q], None}
          /\ /\ ConnectionOf[q] # None
             /\ connection[ConnectionOf[q]] # "closed"
             /\ phase'[q] \in Unended
             => byRequest'[q] = ConnectionOf[q]
          /\ byRequest'[q] # None => connection[byRequest'[q]] # "closed" /\ phase'[q] \notin Settled
          /\ /\ phase'[q] \in {"answered", "reported"}
             /\ ConnectionOf[q] # None
             /\ connection[ConnectionOf[q]] = "open"
             => final'[q] = IF phase'[q] = "answered" THEN "done" ELSE "error"
  <1>5. Good(r)
    <2>1. CASE how = "silent"
      BY <1>1, <1>2, <1>3, <1>4, <2>1
    <2>2. CASE how \in {"answered", "reported"}
      BY <1>1, <1>2, <1>3, <1>4, <2>2
    <2>3. QED
      BY <2>1, <2>2
  <1>6. ASSUME NEW q \in Requests, q # r PROVE Good(q)
    BY <1>1, <1>6, BridgeParts
  <1>7. \A s \in Sessions, d \in Connections : d \in bySession[s] => connection[d] # "closed"
    BY BridgeParts
  <1>8. QED
    BY <1>1, <1>5, <1>6, <1>7
    DEF BridgeInv, SocketsInv, BridgeClean, FinalDelivered, Unended, Settled

LEMMA BridgeStep ==
  ASSUME TypeOK, QueueInv, BridgeInv, [Next]_vars
  PROVE  BridgeInv'
  <1>1. ASSUME NEW r \in Requests, ReceiveFollowup(r) \/ ReceiveCollect(r) PROVE BridgeInv'
    <2>1. Receive(r) /\ phase'[r] \in {"queued", "buffered"}
          /\ \A q \in Requests : q = r \/ phase'[q] = phase[q]
      BY <1>1 DEF ReceiveFollowup, ReceiveCollect, Goto, TypeOK
    <2>2. QED
      BY <2>1, BridgeReceives DEF Moves
  <1>2. ASSUME NEW r \in Requests, ReceiveInterrupt(r) PROVE BridgeInv'
    <2>1. Receive(r) /\ phase'[r] = "queued"
      BY <1>2 DEF ReceiveInterrupt
    <2>2. \A q \in Requests : \/ q = r \/ phase'[q] = phase[q]
                              \/ phase[q] = "buffered" /\ phase'[q] = "discarded"
      BY <1>2, SessionTypes, BufferElements DEF ReceiveInterrupt
    <2>3. \A q \in Requests : q = r \/ Moves(phase[q], phase'[q])
      BY <2>2 DEF Moves, Settled, Unended, InHandler
    <2>4. QED
      BY <2>1, <2>3, BridgeReceives
  <1>3. ASSUME NEW r \in Requests, Refuse(r) PROVE BridgeInv'
    <2>1. phase[r] = "unsent"
          /\ \A q \in Requests : phase'[q] = phase[q] \/ (phase[q] = "unsent" /\ phase'[q] = "refused")
      BY <1>3 DEF Refuse, Goto, TypeOK
    <2>2. ConnectionOf[r] \in Connections \cup {None}
      BY ConnectionOfAssumption
    <2>3. CASE ConnectionOf[r] = None
      <3>1. UNCHANGED clientVars
        BY <1>3, <2>3 DEF Refuse, clientVars, bridgeVars
      <3>2. \A q \in Requests : /\ phase'[q] \in Unended => phase'[q] = phase[q]
                                /\ phase[q] \notin Settled => phase'[q] \notin Settled
                                /\ phase'[q] \in {"answered", "reported"} => phase'[q] = phase[q]
        BY <2>1 DEF Unended, Settled, InHandler
      <3>3. QED
        BY <3>1, <3>2, BridgeParts
        DEF clientVars, BridgeInv, SocketsInv, BridgeClean, FinalDelivered, Unended, Settled
    <2>4. CASE ConnectionOf[r] # None
      BY <1>3, <2>1, <2>2, <2>4, BridgeCloses DEF Refuse
    <2>5. QED
      BY <2>3, <2>4
  <1>4. ASSUME NEW c \in Connections, Leave(c) PROVE BridgeInv'
    BY <1>4, BridgeLeaves
  <1>5. ASSUME NEW c \in Connections, NoticeLeft(c) PROVE BridgeInv'
    BY <1>5, BridgeCloses DEF NoticeLeft
  <1>6. ASSUME NEW s \in Sessions, Flush(s) PROVE BridgeInv'
    <2> DEFINE last == buffers[s][Len(buffers[s])]
    <2>1. Len(buffers[s]) \in 1..Len(buffers[s])
      BY <1>6, EmptySeq, ElementTypes DEF Flush
    <2>2. last \in ToSet(buffers[s])
      BY <2>1, BufferElements
    <2>3. phase' = [q \in Requests |-> IF q = last THEN "queued"
                                       ELSE IF q \in ToSet(buffers[s]) THEN "absorbed"
                                       ELSE phase[q]]
      BY <1>6 DEF Flush
    <2> HIDE DEF last
    <2>4. \A q \in Requests : \/ phase'[q] = phase[q]
                              \/ phase[q] = "buffered" /\ phase'[q] \in {"queued", "absorbed"}
      BY <2>2, <2>3, BufferElements
    <2>5. \A q \in Requests : Moves(phase[q], phase'[q])
      BY <2>4 DEF Moves, Settled, Unended, InHandler
    <2>6. QED
      BY <1>6, <2>5, BridgeStays DEF Flush
  <1>7. ASSUME NEW s \in Sessions, Withdraw(s) PROVE BridgeInv'
    <2>1. PICK i \in 1..Len(backlog[s]) : Goto(backlog[s][i], "withdrawn")
      BY <1>7 DEF Withdraw
    <2>2. phase[backlog[s][i]] \in Unended
      BY QueueParts DEF LineOK, Lined, Unended
    <2>3. \A q \in Requests : \/ phase'[q] = phase[q]
                              \/ phase[q] \in Unended /\ phase'[q] = "withdrawn"
      BY <2>1, <2>2 DEF Goto, TypeOK
    <2>4. "withdrawn" \notin Settled /\ "withdrawn" \notin Unended
      BY DEF Settled, Unended, InHandler
    <2>5. QED
      BY <1>7, <2>3, <2>4, PhaseClasses, BridgeStays DEF Withdraw, Moves
  <1>8. ASSUME NEW s \in Sessions, BeginHandler(s) PROVE BridgeInv'
    <2>1. 1 \in 1..Len(backlog[s]) /\ Head(backlog[s]) = backlog[s][1]
      BY <1>8, ElementTypes, HeadIsFirst DEF BeginHandler, Lanes!Begin
    <2>2. phase[Head(backlog[s])] \in Unended
      BY <2>1, QueueParts DEF LineOK, Lined, Unended
    <2>3. \A q \in Requests : \/ phase'[q] = phase[q]
                              \/ phase[q] \in Unended /\ phase'[q] = "dispatch"
      BY <1>8, <2>2 DEF BeginHandler, Goto, TypeOK
    <2>4. "dispatch" \notin Settled /\ "dispatch" \in Unended
      BY DEF Settled, Unended, InHandler
    <2>5. QED
      BY <1>8, <2>3, <2>4, PhaseClasses, BridgeStays DEF BeginHandler, Moves
  <1>9. ASSUME NEW r \in Requests, Handler(r) PROVE BridgeInv'
    <2>1. ASSUME UNCHANGED clientVars,
                 \/ UNCHANGED phase
                 \/ phase[r] \in InHandler /\ \E p \in InHandler : Goto(r, p)
          PROVE  BridgeInv'
      <3>1. \A q \in Requests : \/ phase'[q] = phase[q]
                                \/ phase[q] \in InHandler /\ phase'[q] \in InHandler
        BY <2>1 DEF Goto, TypeOK
      <3>2. \A p \in InHandler : p \notin Settled /\ p \in Unended
        BY DEF InHandler, Settled, Unended
      <3>3. QED
        BY <2>1, <3>1, <3>2, BridgeStays DEF Moves
    <2>2. CASE DispatchSkill(r) \/ RunAgent(r) \/ SkillAnswers(r) \/ TaskEnds(r) \/ TimesOut(r)
      BY <2>1, <2>2 DEF DispatchSkill, RunAgent, SkillAnswers, TaskEnds, TimesOut, InHandler
    <2>3. CASE HandlerRaises(r) \/ AgentReturns(r) \/ Persisted(r)
      <3>1. phase[r] \in InHandler
        BY <2>3 DEF HandlerRaises, AgentReturns, Persisted, InHandler
      <3>2. CASE \E how \in {"answered", "reported", "silent"} : EndHandler(r, how)
        BY <3>1, <3>2, BridgeAnswers
      <3>3. CASE Goto(r, "persist") /\ UNCHANGED clientVars
        BY <2>1, <3>1, <3>3 DEF InHandler
      <3>4. QED
        BY <2>3, <3>2, <3>3, HandlerEnding
    <2>4. QED
      BY <1>9, <2>2, <2>3 DEF Handler
  <1>10. CASE UNCHANGED vars
    BY <1>10, BridgeStays DEF vars, Moves
  <1>11. QED
    BY <1>1, <1>2, <1>3, <1>4, <1>5, <1>6, <1>7, <1>8, <1>9, <1>10 DEF Next, Client, Queue
-----------------------------------------------------------------------------
(* The theorems                                                            *)

LEMMA GatewayInit == Init => GatewayInv
  <1> SUFFICES ASSUME Init PROVE GatewayInv
    OBVIOUS
  <1>1. TypeOK
    <2>1. <<>> \in Seq(Requests) /\ <<>> \in Seq({})
      BY EmptySeq
    <2>2. phase \in [Requests -> Phases]
      BY DEF Init, Phases
    <2>3. Lanes!TypeOK /\ Agent!TypeOK
      BY <2>1 DEF Init, InitExceptPhase, Lanes!Init, Lanes!TypeOK, Agent!Init, Agent!TypeOK
    <2>4. QED
      BY <2>1, <2>2, <2>3 DEF Init, InitExceptPhase, TypeOK
  <1>2. QueueInv
    <2>1. 1..Len(<<>>) = {}
      BY EmptySeq
    <2>2. \A s \in Sessions : buffers[s] = <<>> /\ backlog[s] = <<>>
      BY DEF Init, InitExceptPhase, Lanes!Init
    <2>3. active = {} /\ \A r \in Requests : phase[r] \notin InHandler
      BY DEF Init, InitExceptPhase, Lanes!Init, InHandler
    <2>4. QED
      BY <2>1, <2>2, <2>3 DEF QueueInv
  <1>3. SocketsInv /\ BridgeClean /\ FinalDelivered
    BY DEF Init, InitExceptPhase, SocketsInv, BridgeClean, FinalDelivered, InHandler
  <1>4. QED
    BY <1>1, <1>2, <1>3 DEF GatewayInv

LEMMA GatewayStep == GatewayInv /\ [Next]_vars => GatewayInv'
  BY TypeStep, QueueStep, BridgeStep DEF GatewayInv, BridgeInv

LEMMA GatewayInvariant == Spec => []GatewayInv
  BY GatewayInit, GatewayStep, PTL DEF Spec

(* The gateway, its queue and its agent keep to their types.               *)
THEOREM GatewayTypes == Spec => []TypeOK
  <1>1. GatewayInv => TypeOK
    BY DEF GatewayInv
  <1>2. QED
    BY <1>1, GatewayInvariant, PTL

(* GatewayBridge keeps no socket that its endpoint has closed, and no      *)
(* request that was answered, reported or never queued.                    *)
THEOREM BridgeStaysClean == Spec => []BridgeClean
  <1>1. GatewayInv => BridgeClean
    BY DEF GatewayInv
  <1>2. QED
    BY <1>1, GatewayInvariant, PTL

(* on_done and on_error find the socket of a client that is still there,   *)
(* whatever other sockets of its session did meanwhile.                    *)
THEOREM AnswersReachClients == Spec => []FinalDelivered
  <1>1. GatewayInv => FinalDelivered
    BY DEF GatewayInv
  <1>2. QED
    BY <1>1, GatewayInvariant, PTL
=============================================================================
