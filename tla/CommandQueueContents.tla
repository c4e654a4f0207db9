------------------------ MODULE CommandQueueContents ------------------------
(***************************************************************************)
(* What the lines of the command queue hold and in what order, for every   *)
(* set of sessions and requests: each accepted request stands exactly      *)
(* where its progress calls for, its text is carried by exactly one item,  *)
(* and the queue implements SerialLanes.  Rests on IInv of                 *)
(* CommandQueueProofs.                                                     *)
(***************************************************************************)
EXTENDS CommandQueueProofs, WellFoundedInduction

-----------------------------------------------------------------------------
(* Lists                                                                   *)

LEMMA ListsElements ==
  ASSUME NEW line \in Seq(Requests), NEW S
  PROVE  Lists(line, S) <=> /\ NoRepeat(line)
                            /\ \A i \in 1..Len(line) : line[i] \in S
                            /\ \A q \in S : \E i \in 1..Len(line) : line[i] = q
  <1>1. DOMAIN line = 1..Len(line)
    OBVIOUS
  <1>2. ToSet(line) = {line[i] : i \in 1..Len(line)}
    BY <1>1 DEF ToSet
  <1>3. IsInjective(line) <=> NoRepeat(line)
    BY <1>1 DEF IsInjective, NoRepeat
  <1>4. QED
    BY <1>2, <1>3 DEF Lists

LEMMA ListsEmpty == ASSUME NEW S, S = {} PROVE Lists(<<>>, S)
  <1>1. <<>> \in Seq(Requests) /\ 1..Len(<<>>) = {}
    OBVIOUS
  <1>2. QED
    BY <1>1, ListsElements DEF NoRepeat

LEMMA ListsAppend ==
  ASSUME NEW line \in Seq(Requests), NEW S, Lists(line, S),
         NEW r \in Requests, r \notin S, NEW T, T = S \cup {r}
  PROVE  Lists(Append(line, r), T)
  <1>1. /\ NoRepeat(line)
        /\ \A i \in 1..Len(line) : line[i] \in S /\ line[i] # r
        /\ \A q \in S : \E i \in 1..Len(line) : line[i] = q
    BY ListsElements
  <1>2. /\ Append(line, r) \in Seq(Requests)
        /\ NoRepeat(Append(line, r))
        /\ \A i \in 1..Len(Append(line, r)) :
               \/ i \in 1..Len(line) /\ Append(line, r)[i] = line[i]
               \/ Append(line, r)[i] = r
    BY <1>1, AppendToLine
  <1>3. /\ Len(line) \in Nat /\ Len(Append(line, r)) = Len(line) + 1
        /\ \A i \in 1..Len(line) : Append(line, r)[i] = line[i]
        /\ Append(line, r)[Len(line) + 1] = r
    BY AppendProperties
  <1>4. \A q \in T : \E i \in 1..Len(Append(line, r)) : Append(line, r)[i] = q
    <2>1. Len(line) + 1 \in 1..Len(Append(line, r))
      BY <1>3
    <2>2. ASSUME NEW q \in S PROVE \E i \in 1..Len(Append(line, r)) : Append(line, r)[i] = q
      <3>1. PICK i \in 1..Len(line) : line[i] = q
        BY <1>1
      <3>2. i \in 1..Len(Append(line, r)) /\ Append(line, r)[i] = q
        BY <1>3, <3>1
      <3>3. QED
        BY <3>2
    <2>3. QED
      BY <1>3, <2>1, <2>2
  <1>5. QED
    BY <1>1, <1>2, <1>4, ListsElements

LEMMA ListsTail ==
  ASSUME NEW line \in Seq(Requests), line # <<>>, NEW S, Lists(line, S),
         NEW T, T = S \ {Head(line)}
  PROVE  Lists(Tail(line), T)
  <1>1. /\ NoRepeat(line)
        /\ \A i \in 1..Len(line) : line[i] \in S
        /\ \A q \in S : \E i \in 1..Len(line) : line[i] = q
    BY ListsElements
  <1>2. /\ Head(line) = line[1]
        /\ Tail(line) \in Seq(Requests)
        /\ NoRepeat(Tail(line))
        /\ \A i \in 1..Len(Tail(line)) :
               /\ i + 1 \in 1..Len(line)
               /\ Tail(line)[i] = line[i + 1]
               /\ Tail(line)[i] # Head(line)
    BY <1>1, TailOfLine
  <1>3. Len(line) \in Nat /\ Len(Tail(line)) = Len(line) - 1
    BY HeadTailProperties
  <1>4. ASSUME NEW q \in T PROVE \E i \in 1..Len(Tail(line)) : Tail(line)[i] = q
    <2>1. PICK i \in 1..Len(line) : line[i] = q
      BY <1>1
    <2>2. i - 1 \in 1..Len(Tail(line)) /\ (i - 1) + 1 = i
      BY <1>2, <1>3, <2>1
    <2>3. Tail(line)[i - 1] = q
      BY <1>2, <2>1, <2>2
    <2>4. QED
      BY <2>2, <2>3
  <1>5. \A i \in 1..Len(Tail(line)) : Tail(line)[i] \in T
    BY <1>1, <1>2
  <1>6. QED
    BY <1>2, <1>4, <1>5, ListsElements

LEMMA ListsRemove ==
  ASSUME NEW line \in Seq(Requests), NEW k \in 1..Len(line), NEW S, Lists(line, S),
         NEW T, T = S \ {line[k]}
  PROVE  Lists(RemoveAt(line, k), T)
  <1> DEFINE n == Len(line)
             rest == RemoveAt(line, k)
             Was(j) == IF j < k THEN j ELSE j + 1
  <1>1. /\ NoRepeat(line)
        /\ \A i \in 1..n : line[i] \in S
        /\ \A q \in S : \E i \in 1..n : line[i] = q
    BY ListsElements
  <1>2. /\ rest \in Seq(Requests) /\ n \in Nat /\ Len(rest) = n - 1
        /\ \A j \in 1..(n - 1) : rest[j] = line[Was(j)]
    <2>1. n \in Nat /\ rest \in Seq(Requests)
      BY RemoveAtType, LenProperties
    <2>2. /\ Len(rest) = n - 1
          /\ \A j \in 1..(n - 1) : rest[j] = line[IF j < k THEN j ELSE j + 1]
      BY RemoveAtElements
    <2>3. QED
      BY <2>1, <2>2
  <1>3. /\ \A j \in 1..(n - 1) : Was(j) \in 1..n /\ Was(j) # k
        /\ \A i, j \in 1..(n - 1) : Was(i) = Was(j) => i = j
        /\ \A i \in 1..n : i # k => \E j \in 1..(n - 1) : Was(j) = i
    <2>1. ASSUME NEW i \in 1..n, i # k PROVE \E j \in 1..(n - 1) : Was(j) = i
      <3>1. CASE i < k
        <4>1. i \in 1..(n - 1) /\ Was(i) = i
          BY <1>2, <3>1
        <4>2. QED
          BY <4>1
      <3>2. CASE i > k
        <4>1. i - 1 \in 1..(n - 1) /\ Was(i - 1) = i
          BY <1>2, <3>2
        <4>2. QED
          BY <4>1
      <3>3. QED
        BY <1>2, <2>1, <3>1, <3>2
    <2>2. QED
      BY <1>2, <2>1
  <1> HIDE DEF Was, rest, n
  <1>4. \A i, j \in 1..n : line[i] = line[j] => i = j
    BY <1>1 DEF NoRepeat, n
  <1>5. NoRepeat(rest)
    <2> SUFFICES ASSUME NEW i \in 1..(n - 1), NEW j \in 1..(n - 1), rest[i] = rest[j]
                 PROVE  i = j
      BY <1>2 DEF NoRepeat
    <2>1. Was(i) = Was(j)
      BY <1>2, <1>3, <1>4
    <2>2. QED
      BY <1>3, <2>1
  <1>6. ASSUME NEW j \in 1..(n - 1) PROVE rest[j] \in T
    <2>1. Was(j) \in 1..n /\ Was(j) # k /\ k \in 1..n
      BY <1>3 DEF n
    <2>2. line[Was(j)] \in S /\ line[Was(j)] # line[k]
      BY <1>1, <1>4, <2>1
    <2>3. QED
      BY <1>2, <2>2
  <1>7. ASSUME NEW q \in T PROVE \E j \in 1..(n - 1) : rest[j] = q
    <2>1. PICK i \in 1..n : line[i] = q /\ i # k
      BY <1>1
    <2>2. PICK j \in 1..(n - 1) : Was(j) = i
      BY <1>3, <2>1
    <2>3. rest[j] = q
      BY <1>2, <2>1, <2>2
    <2>4. QED
      BY <2>3
  <1>8. QED
    BY <1>2, <1>5, <1>6, <1>7, ListsElements DEF rest

-----------------------------------------------------------------------------
(* The steps, seen from the lines                                          *)

InStage(P) == {r \in Requests : stage[r] \in P}

AtLaneOf(s) == {r \in Requests : SessionOf[r] = s /\ stage[r] \in {"lane", "handling"}}

BufferedOf(s) == {r \in Requests : SessionOf[r] = s /\ stage[r] = "buffered"}

(* Accounted by its parts, with the lines of absent lanes empty.           *)
AccountedParts ==
    /\ Lists(queue, InStage({"queued"}))
    /\ Lists(spawned, InStage({"spawned"}))
    /\ Lists(permitLine, InStage(HasLane))
    /\ \A s \in Sessions : Lists(buffers[s], BufferedOf(s))
    /\ \A s \in Sessions : Lists(LaneLine(s), AtLaneOf(s))

LEMMA NoLaneNobody ==
  ASSUME IInv, NEW s \in Sessions, lanes[s] = None
  PROVE  AtLaneOf(s) = {} /\ LaneLine(s) = <<>>
  <1>1. Outstanding(s) = {}
    BY DEF IInv, LanesInv
  <1>2. AtLaneOf(s) \subseteq Outstanding(s)
    BY DEF AtLaneOf, Outstanding, InFlight
  <1>3. QED
    BY <1>1, <1>2 DEF LaneLine

LEMMA AccountedByParts == IInv => (Accounted <=> AccountedParts)
  <1> SUFFICES ASSUME IInv PROVE Accounted <=> AccountedParts
    OBVIOUS
  <1>1. /\ InStage({"queued"}) = {r \in Requests : stage[r] = "queued"}
        /\ InStage({"spawned"}) = {r \in Requests : stage[r] = "spawned"}
        /\ InStage(HasLane) = {r \in Requests : stage[r] \in {"permit", "lane", "handling"}}
    BY DEF InStage, HasLane
  <1>2. ASSUME NEW s \in Sessions
        PROVE  (lanes[s] # None => Lists(laneObj[lanes[s]].line, AtLaneOf(s)))
                 <=> Lists(LaneLine(s), AtLaneOf(s))
    <2>1. CASE lanes[s] = None
      BY <2>1, NoLaneNobody, ListsEmpty
    <2>2. CASE lanes[s] # None
      BY <2>2 DEF LaneLine
    <2>3. QED
      BY <2>1, <2>2
  <1>3. QED
    BY <1>1, <1>2 DEF Accounted, AccountedParts, AtLaneOf, BufferedOf

LEMMA LineTypes ==
  ASSUME IInv
  PROVE  /\ queue \in Seq(Requests) /\ spawned \in Seq(Requests) /\ permitLine \in Seq(Requests)
         /\ \A s \in Sessions : LaneLine(s) \in Seq(Requests) /\ buffers[s] \in Seq(Requests)
         /\ \A s \in Sessions : lanes[s] # None => lanes[s] \in LaneRefs /\ laneObj[lanes[s]] \in LaneType
         /\ \A s, t \in Sessions : s # t /\ lanes[s] # None => lanes[s] # lanes[t]
         /\ stage \in [Requests -> Stages]
  <1>1. TypeOK /\ LanesInv
    BY DEF IInv
  <1>2. \A s \in Sessions : lanes[s] # None => lanes[s] \in LaneRefs /\ laneObj[lanes[s]] \in LaneType
    BY <1>1 DEF TypeOK
  <1>3. \A s \in Sessions : LaneLine(s) \in Seq(Requests)
    BY <1>2, EmptySeq DEF LaneLine, LaneType
  <1>4. QED
    BY <1>1, <1>2, <1>3 DEF TypeOK, LanesInv

(* Whoever holds a lane in the dictionary after the step had the line that *)
(* line(s) says; who lost its lane has nobody left in it.                  *)
LEMMA LanesFollow ==
  ASSUME IInv', NEW s \in Sessions, NEW line,
         lanes'[s] # None => laneObj'[lanes'[s]].line = line,
         Lists(line, AtLaneOf(s)')
  PROVE  Lists(LaneLine(s)', AtLaneOf(s)')
  <1>1. CASE lanes'[s] = None
    <2>1. Outstanding(s)' = {}
      BY <1>1 DEF IInv, LanesInv
    <2>2. AtLaneOf(s)' \subseteq Outstanding(s)'
      BY DEF AtLaneOf, Outstanding, InFlight
    <2>3. LaneLine(s)' = <<>> /\ AtLaneOf(s)' = {}
      BY <1>1, <2>1, <2>2 DEF LaneLine
    <2>4. QED
      BY <2>3, ListsEmpty
  <1>2. CASE lanes'[s] # None
    BY <1>2 DEF LaneLine
  <1>3. QED
    BY <1>1, <1>2

LEMMA PutLines ==
  ASSUME IInv, NEW r \in Requests, Put(r)
  PROVE  /\ queue' = Append(queue, r)
         /\ \A s \in Sessions : lanes'[s] # None => laneObj'[lanes'[s]].line = LaneLine(s)
  <1> DEFINE z == SessionOf[r]
             l == LaneFor(z, <<r, "put">>)
             lane == LaneState(z)
  <1>1. z \in Sessions /\ <<r, "put">> \in LaneRefs
    BY SessionOfAssumption DEF LaneRefs
  <1>2. /\ l \in LaneRefs /\ lane \in LaneType /\ lane.line = LaneLine(z)
        /\ \A s \in Sessions : s # z /\ lanes[s] # None => lanes[s] # l
    <2>1. /\ l \in LaneRefs /\ lane \in LaneType
          /\ SessionOf[l[1]] = z
      BY <1>1 DEF IInv, TypeOK, LaneType, LaneRefs, LaneFor, LaneState, NewLane, LanesInv
    <2>2. \A s \in Sessions : lanes[s] # None => SessionOf[lanes[s][1]] = s
      BY DEF IInv, LanesInv
    <2>3. lane.line = LaneLine(z)
      BY DEF LaneState, LaneLine, NewLane
    <2>4. QED
      BY <2>1, <2>2, <2>3
  <1>3. /\ queue' = Append(queue, r) /\ lanes' = [lanes EXCEPT ![z] = l]
        /\ laneObj' = [laneObj EXCEPT ![l] = [lane EXCEPT !.pending = @ + 1]]
        /\ lanes \in [Sessions -> LaneRefs \cup {None}] /\ laneObj \in [LaneRefs -> LaneType]
    BY DEF Put, IInv, TypeOK
  <1> HIDE DEF z, l, lane
  <1>4. [lane EXCEPT !.pending = @ + 1].line = LaneLine(z)
    BY <1>2 DEF LaneType
  <1>5. ASSUME NEW s \in Sessions, lanes'[s] # None
        PROVE  laneObj'[lanes'[s]].line = LaneLine(s)
    <2>1. CASE s = z
      BY <1>1, <1>2, <1>3, <1>4, <2>1
    <2>2. CASE s # z
      <3>1. lanes'[s] = lanes[s] /\ lanes[s] # l /\ lanes[s] # None /\ lanes[s] \in LaneRefs
        BY <1>2, <1>3, <1>5, <2>2
      <3>2. laneObj'[lanes[s]] = laneObj[lanes[s]]
        BY <1>3, <3>1
      <3>3. QED
        BY <3>1, <3>2 DEF LaneLine
    <2>3. QED
      BY <2>1, <2>2
  <1>6. QED
    BY <1>3, <1>5

(* A task that starts while the cancel event of its session is set.        *)
LEMMA StartCancelledLines ==
  ASSUME IInv, StartCancelled
  PROVE  LET r == Head(spawned)
         IN  /\ r \in Requests /\ stage[r] = "spawned" /\ spawned # <<>>
             /\ spawned' = Tail(spawned)
             /\ stage' = [stage EXCEPT ![r] = "cancelled"]
             /\ UNCHANGED <<queue, permitLine, buffers, payload>>
             /\ \A s \in Sessions : lanes'[s] # None => laneObj'[lanes'[s]].line = LaneLine(s)
  <1> DEFINE r == Head(spawned)
             z == SessionOf[r]
             l == lanes[z]
             lane == laneObj[l]
  <1>1. /\ spawned # <<>> /\ spawned' = Tail(spawned)
        /\ stage' = [stage EXCEPT ![r] = "cancelled"]
        /\ laneObj' = [laneObj EXCEPT ![LaneFor(z, <<r, "task">>)] =
                          [LaneState(z) EXCEPT !.pending = @ - 1]]
        /\ lanes' = Release([lanes EXCEPT ![z] = LaneFor(z, <<r, "task">>)], laneObj', z)
        /\ UNCHANGED <<queue, permitLine, buffers, payload>>
    BY DEF StartCancelled, collectVars
  <1>2. \A q \in Requests \ {r} : stage'[q] = stage[q]
    BY <1>1, LineTypes
  <1>3. /\ r \in Requests /\ stage[r] = "spawned" /\ z \in Sessions
        /\ l # None /\ l \in LaneRefs /\ lane \in LaneType
        /\ LaneFor(z, <<r, "task">>) = l /\ LaneState(z) = lane
    BY <1>1, <1>2, FirstSpawned, ZenonT(40)
  <1>4. /\ laneObj' = [laneObj EXCEPT ![l] = [lane EXCEPT !.pending = @ - 1]]
        /\ lanes' = Release(lanes, laneObj', z)
        /\ lanes \in [Sessions -> LaneRefs \cup {None}] /\ laneObj \in [LaneRefs -> LaneType]
    <2>1. [lanes EXCEPT ![z] = l] = lanes /\ lanes \in [Sessions -> LaneRefs \cup {None}]
          /\ laneObj \in [LaneRefs -> LaneType]
      BY <1>3 DEF IInv, TypeOK
    <2>2. QED
      BY <1>1, <1>3, <2>1, ZenonT(40)
  <1>5. LaneLine(z) = lane.line
    BY <1>3 DEF LaneLine
  <1> HIDE DEF r, z, l, lane
  <1>6. [lane EXCEPT !.pending = @ - 1].line = lane.line
    BY <1>3 DEF LaneType
  <1>7. \A s \in Sessions : lanes'[s] # None => lanes'[s] = lanes[s]
    BY <1>3, <1>4 DEF Release
  <1>8. ASSUME NEW s \in Sessions, lanes'[s] # None
        PROVE  laneObj'[lanes'[s]].line = LaneLine(s)
    <2>1. lanes'[s] = lanes[s] /\ lanes[s] \in LaneRefs /\ lanes[s] # None
      BY <1>4, <1>7, <1>8
    <2>2. CASE s = z
      BY <1>3, <1>4, <1>5, <1>6, <2>1, <2>2 DEF l
    <2>3. CASE s # z
      <3>1. lanes[s] # l
        BY <1>3, <2>1, <2>3, LineTypes DEF l
      <3>2. laneObj'[lanes[s]] = laneObj[lanes[s]]
        BY <1>3, <1>4, <2>1, <3>1
      <3>3. QED
        BY <2>1, <3>2 DEF LaneLine
    <2>4. QED
      BY <2>2, <2>3
  <1>9. QED
    BY <1>1, <1>3, <1>8 DEF r

(* A task that starts joins permitLine and, with a permit, its lane.       *)
LEMMA StartTaskLines ==
  ASSUME IInv, StartTask
  PROVE  LET r == Head(spawned)
         IN  /\ r \in Requests /\ stage[r] = "spawned" /\ spawned # <<>>
             /\ spawned' = Tail(spawned)
             /\ permitLine' = Append(permitLine, r)
             /\ stage'[r] \in HasLane
             /\ \A q \in Requests : q # r => stage'[q] = stage[q]
             /\ UNCHANGED <<queue, buffers, payload, lanes>>
             /\ \A s \in Sessions : s # SessionOf[r] => LaneLine(s)' = LaneLine(s)
             /\ \A s \in Sessions : s = SessionOf[r] =>
                   \/ /\ stage'[r] = AtLane(LaneLine(s))
                      /\ LaneLine(s)' = Append(LaneLine(s), r)
                      /\ PermitFree
                   \/ stage'[r] = "permit" /\ LaneLine(s)' = LaneLine(s)
  <1> DEFINE r == Head(spawned)
             z == SessionOf[r]
             l == lanes[z]
             lane == laneObj[l]
             k == LaneFor(z, <<r, "task">>)
  <1>1. /\ spawned # <<>> /\ spawned' = Tail(spawned)
        /\ lanes' = [lanes EXCEPT ![z] = k]
        /\ permitLine' = Append(permitLine, r)
        /\ \/ /\ stage' = [stage EXCEPT ![r] = AtLane(LaneState(z).line)]
              /\ laneObj' = [laneObj EXCEPT
                                ![k] = [LaneState(z) EXCEPT !.line = Append(@, r)]]
              /\ PermitFree
           \/ /\ stage' = [stage EXCEPT ![r] = "permit"]
              /\ laneObj' = [laneObj EXCEPT ![k] = LaneState(z)]
        /\ UNCHANGED <<queue, buffers, payload>>
    BY DEF StartTask, collectVars
  <1>2. \A q \in Requests \ {r} : stage'[q] = stage[q]
    BY <1>1, LineTypes
  <1>3. /\ r \in Requests /\ stage[r] = "spawned" /\ z \in Sessions
        /\ l # None /\ l \in LaneRefs /\ lane \in LaneType
        /\ k = l /\ LaneState(z) = lane
    BY <1>1, <1>2, FirstSpawned
  <1>4. /\ laneObj \in [LaneRefs -> LaneType] /\ stage \in [Requests -> Stages]
        /\ lanes' = lanes
    BY <1>1, <1>3, ZenonT(40) DEF IInv, TypeOK
  <1>5. LaneLine(z) = lane.line
    BY <1>3 DEF LaneLine
  <1> HIDE DEF r, z, l, lane, k
  <1>6. \A j \in LaneRefs : j # l => laneObj'[j] = laneObj[j]
    BY <1>1, <1>3, <1>4
  <1>7. ASSUME NEW s \in Sessions, s # z PROVE LaneLine(s)' = LaneLine(s)
    <2>1. CASE lanes[s] = None
      BY <1>4, <2>1 DEF LaneLine
    <2>2. CASE lanes[s] # None
      <3>1. lanes[s] # l /\ lanes[s] \in LaneRefs
        BY <1>3, <1>7, <2>2, LineTypes DEF l
      <3>2. QED
        BY <1>4, <1>6, <2>2, <3>1 DEF LaneLine
    <2>3. QED
      BY <2>1, <2>2
  <1>8. \A s \in Sessions : s = z => LaneLine(s)' = laneObj'[l].line
    BY <1>3, <1>4 DEF LaneLine, l
  <1>9. ASSUME NEW s \in Sessions, s = z
        PROVE  \/ /\ stage'[r] = AtLane(LaneLine(s))
                  /\ LaneLine(s)' = Append(LaneLine(s), r)
                  /\ PermitFree
               \/ stage'[r] = "permit" /\ LaneLine(s)' = LaneLine(s)
    <2>1. CASE /\ stage' = [stage EXCEPT ![r] = AtLane(LaneState(z).line)]
               /\ laneObj' = [laneObj EXCEPT
                                 ![k] = [LaneState(z) EXCEPT !.line = Append(@, r)]]
               /\ PermitFree
      <3>1. [lane EXCEPT !.line = Append(@, r)].line = Append(lane.line, r)
        BY <1>3 DEF LaneType
      <3>2. laneObj'[l] = [lane EXCEPT !.line = Append(@, r)]
        BY <1>3, <1>4, <2>1
      <3>3. stage'[r] = AtLane(LaneLine(s))
        BY <1>3, <1>4, <1>5, <1>9, <2>1
      <3>4. QED
        BY <1>5, <1>8, <1>9, <2>1, <3>1, <3>2, <3>3
    <2>2. CASE /\ stage' = [stage EXCEPT ![r] = "permit"]
               /\ laneObj' = [laneObj EXCEPT ![k] = LaneState(z)]
      BY <1>3, <1>4, <1>5, <1>8, <1>9, <2>2
    <2>3. QED
      BY <1>1, <2>1, <2>2
  <1>10. stage'[r] \in HasLane
    BY <1>3, <1>9 DEF HasLane, AtLane
  <1>11. QED
    BY <1>1, <1>2, <1>3, <1>4, <1>7, <1>9, <1>10 DEF r, z

(* A waiter that resumes with a permit joins the line of its lane.         *)
LEMMA ResumeLines ==
  ASSUME IInv, NEW i \in 1..Len(permitLine), ResumeWithPermit(i)
  PROVE  LET r == permitLine[i]
         IN  /\ r \in Requests /\ stage[r] = "permit"
             /\ \A q \in Requests : q # r => stage'[q] = stage[q]
             /\ UNCHANGED <<queue, spawned, permitLine, buffers, payload, lanes>>
             /\ \A s \in Sessions : s # SessionOf[r] => LaneLine(s)' = LaneLine(s)
             /\ \A s \in Sessions : s = SessionOf[r] =>
                   /\ stage'[r] = AtLane(LaneLine(s))
                   /\ LaneLine(s)' = Append(LaneLine(s), r)
  <1> DEFINE r == permitLine[i]
             z == SessionOf[r]
             l == lanes[z]
             lane == laneObj[l]
  <1>1. /\ stage[r] = "permit"
        /\ stage' = [stage EXCEPT ![r] = AtLane(laneObj[laneOf[r]].line)]
        /\ laneObj' = [laneObj EXCEPT ![laneOf[r]].line = Append(@, r)]
        /\ UNCHANGED <<queue, spawned, permitLine, buffers, payload, lanes>>
    BY DEF ResumeWithPermit, collectVars, taskVars
  <1>2. r \in Requests
    BY PermitLineElements
  <1>3. /\ z \in Sessions /\ l # None /\ l \in LaneRefs /\ lane \in LaneType /\ laneOf[r] = l
    BY <1>1, <1>2, OutstandingHasLane, SMTT(30) DEF InFlight, IInv, LanesInv, HasLane
  <1>4. laneObj \in [LaneRefs -> LaneType] /\ stage \in [Requests -> Stages]
    BY DEF IInv, TypeOK
  <1>5. LaneLine(z) = lane.line
    BY <1>3 DEF LaneLine
  <1> HIDE DEF r, z, l, lane
  <1>6. /\ laneObj'[l].line = Append(lane.line, r)
        /\ \A j \in LaneRefs : j # l => laneObj'[j] = laneObj[j]
    BY <1>1, <1>3, <1>4 DEF LaneType, lane
  <1>7. ASSUME NEW s \in Sessions, s # z PROVE LaneLine(s)' = LaneLine(s)
    <2>1. CASE lanes[s] = None
      BY <1>1, <2>1 DEF LaneLine
    <2>2. CASE lanes[s] # None
      <3>1. lanes[s] # l /\ lanes[s] \in LaneRefs
        BY <1>3, <1>7, <2>2, LineTypes DEF l
      <3>2. laneObj'[lanes[s]] = laneObj[lanes[s]] /\ lanes' = lanes
        BY <1>1, <1>6, <3>1
      <3>3. QED
        BY <2>2, <3>2 DEF LaneLine
    <2>3. QED
      BY <2>1, <2>2
  <1>8. ASSUME NEW s \in Sessions, s = z PROVE LaneLine(s)' = Append(LaneLine(s), r)
    BY <1>1, <1>3, <1>5, <1>6, <1>8 DEF LaneLine, l
  <1>9. stage'[r] = AtLane(LaneLine(z)) /\ \A q \in Requests : q # r => stage'[q] = stage[q]
    BY <1>1, <1>2, <1>3, <1>4, <1>5 DEF lane
  <1>10. QED
    BY <1>1, <1>2, <1>7, <1>8, <1>9 DEF r, z

(* A request whose handler ends was the first of its lane's line.          *)
LEMMA FinishLines ==
  ASSUME IInv, NEW i \in 1..Len(permitLine), NEW outcome \in Outcomes,
         FinishHandler(i, outcome)
  PROVE  LET r == permitLine[i]
         IN  /\ r \in Requests /\ stage[r] = "handling"
             /\ stage' = [stage EXCEPT ![r] = outcome]
             /\ permitLine' = RemoveAt(permitLine, i)
             /\ UNCHANGED <<queue, spawned, buffers, payload>>
             /\ \A s \in Sessions : s = SessionOf[r] =>
                   /\ LaneLine(s) # <<>> /\ Head(LaneLine(s)) = r
                   /\ lanes'[s] # None => laneObj'[lanes'[s]].line = Tail(LaneLine(s))
             /\ \A s \in Sessions : s # SessionOf[r] => LaneLine(s)' = LaneLine(s)
  <1> DEFINE r == permitLine[i]
             z == SessionOf[r]
             l == lanes[z]
             lane == laneObj[l]
  <1>1. /\ stage[r] = "handling"
        /\ stage' = [stage EXCEPT ![r] = outcome]
        /\ permitLine' = RemoveAt(permitLine, i)
        /\ laneObj' = [laneObj EXCEPT ![laneOf[r]] =
                          [pending |-> @.pending - 1, line |-> Tail(@.line)]]
        /\ lanes' = Release(lanes, laneObj', z)
        /\ UNCHANGED <<queue, spawned, buffers, payload>>
    BY DEF FinishHandler, ReturnPermit, collectVars
  <1>2. r \in Requests
    BY PermitLineElements
  <1>3. /\ z \in Sessions /\ l # None /\ l \in LaneRefs /\ lane \in LaneType /\ laneOf[r] = l
    BY <1>1, <1>2, OutstandingHasLane, SMTT(30) DEF InFlight, IInv, LanesInv, HasLane
  <1>4. laneObj \in [LaneRefs -> LaneType] /\ lanes \in [Sessions -> LaneRefs \cup {None}]
    BY DEF IInv, TypeOK
  <1>5. LaneLine(z) = lane.line /\ lane.line # <<>> /\ Head(lane.line) = r
    BY <1>1, <1>2, <1>3 DEF LaneLine, IInv, HeadsInv, Handling
  <1> HIDE DEF r, z, l, lane
  <1>6. /\ laneObj'[l].line = Tail(lane.line)
        /\ \A j \in LaneRefs : j # l => laneObj'[j] = laneObj[j]
    BY <1>1, <1>3, <1>4 DEF lane
  <1>7. /\ lanes'[z] # None => lanes'[z] = l
        /\ \A s \in Sessions : s # z => lanes'[s] = lanes[s]
    BY <1>1, <1>3, <1>4 DEF Release, l
  <1>8. ASSUME NEW s \in Sessions, s # z PROVE LaneLine(s)' = LaneLine(s)
    <2>1. CASE lanes[s] = None
      BY <1>7, <1>8, <2>1 DEF LaneLine
    <2>2. CASE lanes[s] # None
      <3>1. lanes[s] # l /\ lanes[s] \in LaneRefs
        BY <1>3, <1>8, <2>2, LineTypes DEF l
      <3>2. QED
        BY <1>6, <1>7, <1>8, <2>2, <3>1 DEF LaneLine
    <2>3. QED
      BY <2>1, <2>2
  <1>9. ASSUME NEW s \in Sessions, s = z
        PROVE  /\ LaneLine(s) # <<>> /\ Head(LaneLine(s)) = r
               /\ lanes'[s] # None => laneObj'[lanes'[s]].line = Tail(LaneLine(s))
    BY <1>5, <1>6, <1>7, <1>9
  <1>10. QED
    BY <1>1, <1>2, <1>8, <1>9 DEF r, z

-----------------------------------------------------------------------------
(* Accounted                                                               *)

LEMMA LanesSame ==
  ASSUME IInv', AccountedParts,
         \A s \in Sessions : lanes'[s] # None => laneObj'[lanes'[s]].line = LaneLine(s),
         \A q \in Requests : stage'[q] \in {"lane", "handling"} <=> stage[q] \in {"lane", "handling"}
  PROVE  \A s \in Sessions : Lists(LaneLine(s)', AtLaneOf(s)')
  <1> SUFFICES ASSUME NEW s \in Sessions PROVE Lists(LaneLine(s)', AtLaneOf(s)')
    OBVIOUS
  <1>1. AtLaneOf(s)' = AtLaneOf(s)
    BY DEF AtLaneOf
  <1>2. QED
    BY <1>1, LanesFollow DEF AccountedParts

LEMMA BuffersSame ==
  ASSUME AccountedParts, buffers' = buffers,
         \A q \in Requests : stage'[q] = "buffered" <=> stage[q] = "buffered"
  PROVE  \A s \in Sessions : Lists(buffers'[s], BufferedOf(s)')
  <1>1. \A s \in Sessions : BufferedOf(s)' = BufferedOf(s)
    BY DEF BufferedOf
  <1>2. QED
    BY <1>1 DEF AccountedParts

(* The buffer of one session is emptied and its requests move on.          *)
LEMMA BufferTaken ==
  ASSUME IInv, AccountedParts, NEW z \in Sessions, TakeBuffer(z),
         \A q \in Requests : stage'[q] = "buffered" <=> stage[q] = "buffered" /\ SessionOf[q] # z
  PROVE  \A s \in Sessions : Lists(buffers'[s], BufferedOf(s)')
  <1> SUFFICES ASSUME NEW s \in Sessions PROVE Lists(buffers'[s], BufferedOf(s)')
    OBVIOUS
  <1>1. buffers \in [Sessions -> Seq(Requests)]
    BY DEF IInv, TypeOK
  <1>2. CASE s = z
    <2>1. BufferedOf(s)' = {} /\ buffers'[s] = <<>>
      BY <1>1, <1>2 DEF BufferedOf, TakeBuffer
    <2>2. QED
      BY <2>1, ListsEmpty
  <1>3. CASE s # z
    <2>1. BufferedOf(s)' = BufferedOf(s) /\ buffers'[s] = buffers[s]
      BY <1>1, <1>3 DEF BufferedOf, TakeBuffer
    <2>2. QED
      BY <2>1 DEF AccountedParts
  <1>4. QED
    BY <1>2, <1>3

LEMMA PutAccounted ==
  ASSUME IInv, IInv', AccountedParts, NEW r \in Requests, Put(r),
         stage[r] \in {"new", "buffered"}, stage'[r] = "queued",
         \A q \in Requests : \/ q = r
                             \/ stage'[q] = stage[q]
                             \/ stage[q] = "buffered" /\ stage'[q] \in {"absorbed", "discarded"},
         UNCHANGED <<spawned, permitLine>>
  PROVE  /\ Lists(queue', InStage({"queued"})')
         /\ Lists(spawned', InStage({"spawned"})')
         /\ Lists(permitLine', InStage(HasLane)')
         /\ \A s \in Sessions : Lists(LaneLine(s)', AtLaneOf(s)')
  <1>1. /\ InStage({"queued"})' = InStage({"queued"}) \cup {r} /\ r \notin InStage({"queued"})
        /\ InStage({"spawned"})' = InStage({"spawned"})
        /\ InStage(HasLane)' = InStage(HasLane)
    BY DEF InStage, HasLane
  <1>2. Lists(queue', InStage({"queued"})')
    <2>1. queue \in Seq(Requests) /\ Lists(queue, InStage({"queued"})) /\ queue' = Append(queue, r)
      BY PutLines, LineTypes DEF AccountedParts
    <2>2. QED
      BY <1>1, <2>1, ListsAppend
  <1>3. \A q \in Requests : stage'[q] \in {"lane", "handling"} <=> stage[q] \in {"lane", "handling"}
    OBVIOUS
  <1>4. \A s \in Sessions : Lists(LaneLine(s)', AtLaneOf(s)')
    BY <1>3, PutLines, LanesSame
  <1>5. QED
    BY <1>1, <1>2, <1>4 DEF AccountedParts

LEMMA BufferHolds ==
  ASSUME IInv, AccountedParts, NEW s \in Sessions, NEW q \in Requests
  PROVE  (\E i \in 1..Len(buffers[s]) : buffers[s][i] = q) <=> q \in BufferedOf(s)
  <1>1. buffers[s] \in Seq(Requests) /\ Lists(buffers[s], BufferedOf(s))
    BY LineTypes DEF AccountedParts
  <1>2. /\ \A i \in 1..Len(buffers[s]) : buffers[s][i] \in BufferedOf(s)
        /\ \A p \in BufferedOf(s) : \E i \in 1..Len(buffers[s]) : buffers[s][i] = p
    BY <1>1, ListsElements
  <1>3. QED
    BY <1>2

LEMMA EnqueueAccounted ==
  ASSUME IInv, IInv', AccountedParts, NEW r \in Requests, Enqueue(r)
  PROVE  AccountedParts'
  <1> DEFINE z == SessionOf[r]
  <1> USE DEF collectVars, laneVars, taskVars
  <1>1. z \in Sessions /\ stage \in [Requests -> Stages]
    BY SessionOfAssumption, LineTypes
  <1>2. CASE RejectFull(r)
    <2>1. /\ stage[r] = "new" /\ stage' = [stage EXCEPT ![r] = "rejected"]
          /\ UNCHANGED <<queue, spawned, permitLine, buffers, lanes, laneObj>>
      BY <1>2 DEF RejectFull
    <2>2. \A q \in Requests : \/ stage'[q] = stage[q]
                              \/ stage[q] = "new" /\ stage'[q] = "rejected"
      BY <1>1, <2>1
    <2>3. /\ InStage({"queued"})' = InStage({"queued"})
          /\ InStage({"spawned"})' = InStage({"spawned"})
          /\ InStage(HasLane)' = InStage(HasLane)
      BY <2>2 DEF InStage, HasLane
    <2>4. \A s \in Sessions : Lists(buffers'[s], BufferedOf(s)')
      BY <2>1, <2>2, BuffersSame
    <2>5. \A s \in Sessions : Lists(LaneLine(s)', AtLaneOf(s)')
      BY <2>1, <2>2, LanesSame DEF LaneLine
    <2>6. QED
      BY <2>1, <2>3, <2>4, <2>5 DEF AccountedParts
  <1>3. CASE EnqueueFollowup(r)
    <2>1. /\ stage[r] = "new" /\ stage' = [stage EXCEPT ![r] = "queued"] /\ Put(r)
          /\ UNCHANGED <<spawned, permitLine, buffers>>
      BY <1>3 DEF EnqueueFollowup
    <2>2. stage'[r] = "queued" /\ \A q \in Requests : q = r \/ stage'[q] = stage[q]
      BY <1>1, <2>1
    <2>3. \A s \in Sessions : Lists(buffers'[s], BufferedOf(s)')
      BY <2>1, <2>2, BuffersSame
    <2>4. QED
      BY <2>1, <2>2, <2>3, PutAccounted DEF AccountedParts
  <1>4. CASE EnqueueInterrupt(r)
    <2>1. /\ stage[r] = "new" /\ Put(r) /\ TakeBuffer(z)
          /\ UNCHANGED <<spawned, permitLine>>
          /\ stage' = [q \in Requests |->
                          IF q = r THEN "queued"
                          ELSE IF \E i \in 1..Len(buffers[z]) : buffers[z][i] = q
                               THEN "discarded" ELSE stage[q]]
      BY <1>4 DEF EnqueueInterrupt
    <2>2. \A q \in Requests : (\E i \in 1..Len(buffers[z]) : buffers[z][i] = q) <=> q \in BufferedOf(z)
      BY <1>1, BufferHolds
    <2> HIDE DEF z
    <2>3. /\ stage'[r] = "queued"
          /\ \A q \in Requests : q # r => stage'[q] = IF q \in BufferedOf(z) THEN "discarded" ELSE stage[q]
      BY <2>1, <2>2
    <2>4. \A q \in Requests : stage'[q] = "buffered" <=> stage[q] = "buffered" /\ SessionOf[q] # z
      BY <2>1, <2>3 DEF BufferedOf
    <2>5. \A q \in Requests : \/ q = r \/ stage'[q] = stage[q]
                              \/ stage[q] = "buffered" /\ stage'[q] \in {"absorbed", "discarded"}
      BY <2>3 DEF BufferedOf
    <2>6. \A s \in Sessions : Lists(buffers'[s], BufferedOf(s)')
      BY <1>1, <2>1, <2>4, BufferTaken
    <2>7. QED
      BY <2>1, <2>3, <2>5, <2>6, PutAccounted DEF AccountedParts
  <1>5. CASE EnqueueCollect(r)
    <2>1. /\ stage[r] = "new" /\ stage' = [stage EXCEPT ![r] = "buffered"]
          /\ buffers' = [buffers EXCEPT ![z] = Append(buffers[z], r)]
          /\ UNCHANGED <<queue, spawned, permitLine, lanes, laneObj>>
      BY <1>5 DEF EnqueueCollect
    <2>2. stage'[r] = "buffered" /\ \A q \in Requests : q = r \/ stage'[q] = stage[q]
      BY <1>1, <2>1
    <2>3. /\ InStage({"queued"})' = InStage({"queued"})
          /\ InStage({"spawned"})' = InStage({"spawned"})
          /\ InStage(HasLane)' = InStage(HasLane)
      BY <2>1, <2>2 DEF InStage, HasLane
    <2> HIDE DEF z
    <2>4. ASSUME NEW s \in Sessions PROVE Lists(buffers'[s], BufferedOf(s)')
      <3>1. buffers \in [Sessions -> Seq(Requests)] /\ Lists(buffers[s], BufferedOf(s))
        BY DEF IInv, TypeOK, AccountedParts
      <3>2. CASE s = z
        <4>1. BufferedOf(s)' = BufferedOf(s) \cup {r} /\ r \notin BufferedOf(s)
          BY <2>1, <2>2, <3>2 DEF BufferedOf, z
        <4>2. buffers'[s] = Append(buffers[s], r) /\ buffers[s] \in Seq(Requests)
          BY <1>1, <2>1, <3>1, <3>2
        <4>3. QED
          BY <3>1, <4>1, <4>2, ListsAppend
      <3>3. CASE s # z
        <4>1. BufferedOf(s)' = BufferedOf(s)
          BY <2>1, <2>2, <3>3 DEF BufferedOf, z
        <4>2. buffers'[s] = buffers[s]
          BY <2>1, <3>1, <3>3
        <4>3. QED
          BY <3>1, <4>1, <4>2
      <3>4. QED
        BY <3>2, <3>3
    <2>5. \A s \in Sessions : Lists(LaneLine(s)', AtLaneOf(s)')
      <3>1. \A q \in Requests : stage'[q] \in {"lane", "handling"} <=> stage[q] \in {"lane", "handling"}
        BY <2>1, <2>2
      <3>2. QED
        BY <2>1, <3>1, LanesSame DEF LaneLine
    <2>6. QED
      BY <2>1, <2>3, <2>4, <2>5 DEF AccountedParts
  <1>6. QED
    BY <1>2, <1>3, <1>4, <1>5 DEF Enqueue

LEMMA FlushAccounted ==
  ASSUME IInv, IInv', AccountedParts, NEW s \in Sessions, FlushCollect(s)
  PROVE  AccountedParts'
  <1> DEFINE buf == buffers[s]
             r == buf[Len(buf)]
  <1> USE DEF collectVars, laneVars, taskVars
  <1>1. /\ TakeBuffer(s) /\ UNCHANGED <<spawned, permitLine>>
        /\ buf \in Seq(Requests)
        /\ \A q \in Requests : (\E i \in 1..Len(buf) : buf[i] = q) <=> q \in BufferedOf(s)
    BY LineTypes, BufferHolds DEF FlushCollect
  <1>2. CASE buf = <<>>
    <2>1. UNCHANGED <<stage, queue, lanes, laneObj>>
      BY <1>2 DEF FlushCollect
    <2>2. BufferedOf(s) = {}
      <3>1. 1..Len(buf) = {}
        BY <1>2
      <3>2. QED
        BY <1>1, <3>1 DEF BufferedOf
    <2>3. \A t \in Sessions : Lists(buffers'[t], BufferedOf(t)')
      BY <1>1, <2>1, <2>2, BufferTaken DEF BufferedOf
    <2>4. \A t \in Sessions : Lists(LaneLine(t)', AtLaneOf(t)')
      BY <2>1 DEF AccountedParts, LaneLine, AtLaneOf
    <2>5. QED
      BY <1>1, <2>1, <2>3, <2>4 DEF AccountedParts, InStage
  <1>3. CASE buf # <<>>
    <2>1. Len(buf) \in 1..Len(buf)
      BY <1>1, <1>3, EmptySeq
    <2>2. r \in Requests /\ r \in BufferedOf(s)
      BY <1>1, <2>1, ElementOfSeq
    <2>3. /\ Put(r)
          /\ stage' = [q \in Requests |->
                          IF q = r THEN "queued"
                          ELSE IF \E i \in 1..Len(buf) : buf[i] = q THEN "absorbed" ELSE stage[q]]
      BY <1>3 DEF FlushCollect
    <2> HIDE DEF r, buf
    <2>4. /\ stage'[r] = "queued"
          /\ \A q \in Requests : q # r => stage'[q] = IF q \in BufferedOf(s) THEN "absorbed" ELSE stage[q]
      BY <1>1, <2>2, <2>3
    <2>5. \A q \in Requests : stage'[q] = "buffered" <=> stage[q] = "buffered" /\ SessionOf[q] # s
      BY <2>2, <2>4 DEF BufferedOf
    <2>6. \A q \in Requests : \/ q = r \/ stage'[q] = stage[q]
                              \/ stage[q] = "buffered" /\ stage'[q] \in {"absorbed", "discarded"}
      BY <2>4 DEF BufferedOf
    <2>7. \A t \in Sessions : Lists(buffers'[t], BufferedOf(t)')
      BY <1>1, <2>5, BufferTaken
    <2>8. stage[r] = "buffered"
      BY <2>2 DEF BufferedOf
    <2>9. QED
      BY <1>1, <2>2, <2>3, <2>4, <2>6, <2>7, <2>8, PutAccounted DEF AccountedParts
  <1>4. QED
    BY <1>2, <1>3

LEMMA LoopTakeAccounted ==
  ASSUME IInv, IInv', AccountedParts, LoopTake
  PROVE  AccountedParts'
  <1> DEFINE r == Head(queue)
  <1>1. /\ queue # <<>> /\ queue \in Seq(Requests) /\ r \in Requests /\ stage[r] = "queued"
        /\ queue' = Tail(queue) /\ spawned' = Append(spawned, r)
        /\ stage' = [stage EXCEPT ![r] = "spawned"]
        /\ UNCHANGED <<permitLine, buffers, lanes, laneObj>>
    BY TailOfLine DEF LoopTake, IInv, TypeOK, LinesInv, AllIn, collectVars, laneVars
  <1>2. stage'[r] = "spawned" /\ \A q \in Requests : q = r \/ stage'[q] = stage[q]
    BY <1>1, LineTypes
  <1> HIDE DEF r
  <1>3. /\ InStage({"queued"})' = InStage({"queued"}) \ {r}
        /\ InStage({"spawned"})' = InStage({"spawned"}) \cup {r} /\ r \notin InStage({"spawned"})
        /\ InStage(HasLane)' = InStage(HasLane)
    BY <1>1, <1>2 DEF InStage, HasLane
  <1>4. Lists(queue', InStage({"queued"})')
    BY <1>1, <1>3, ListsTail DEF AccountedParts, r
  <1>5. Lists(spawned', InStage({"spawned"})')
    <2>1. spawned \in Seq(Requests) /\ Lists(spawned, InStage({"spawned"}))
      BY LineTypes DEF AccountedParts
    <2>2. QED
      BY <1>1, <1>3, <2>1, ListsAppend
  <1>6. \A s \in Sessions : Lists(buffers'[s], BufferedOf(s)')
    BY <1>1, <1>2, BuffersSame
  <1>7. \A s \in Sessions : Lists(LaneLine(s)', AtLaneOf(s)')
    <2>1. \A q \in Requests : stage'[q] \in {"lane", "handling"} <=> stage[q] \in {"lane", "handling"}
      BY <1>1, <1>2
    <2>2. QED
      BY <1>1, <2>1, LanesSame DEF LaneLine
  <1>8. QED
    BY <1>1, <1>3, <1>4, <1>5, <1>6, <1>7 DEF AccountedParts

LEMMA StartCancelledAccounted ==
  ASSUME IInv, IInv', AccountedParts, StartCancelled
  PROVE  AccountedParts'
  <1> DEFINE r == Head(spawned)
  <1>1. /\ r \in Requests /\ stage[r] = "spawned" /\ spawned # <<>> /\ spawned' = Tail(spawned)
        /\ stage' = [stage EXCEPT ![r] = "cancelled"]
        /\ UNCHANGED <<queue, permitLine, buffers>>
        /\ \A s \in Sessions : lanes'[s] # None => laneObj'[lanes'[s]].line = LaneLine(s)
    BY StartCancelledLines
  <1>2. stage'[r] = "cancelled" /\ \A q \in Requests : q = r \/ stage'[q] = stage[q]
    BY <1>1, LineTypes
  <1> HIDE DEF r
  <1>3. /\ InStage({"queued"})' = InStage({"queued"})
        /\ InStage({"spawned"})' = InStage({"spawned"}) \ {r}
        /\ InStage(HasLane)' = InStage(HasLane)
    BY <1>1, <1>2 DEF InStage, HasLane
  <1>4. Lists(spawned', InStage({"spawned"})')
    BY <1>1, <1>3, LineTypes, ListsTail DEF AccountedParts, r
  <1>5. \A s \in Sessions : Lists(buffers'[s], BufferedOf(s)')
    BY <1>1, <1>2, BuffersSame
  <1>6. \A s \in Sessions : Lists(LaneLine(s)', AtLaneOf(s)')
    <2>1. \A q \in Requests : stage'[q] \in {"lane", "handling"} <=> stage[q] \in {"lane", "handling"}
      BY <1>1, <1>2
    <2>2. QED
      BY <1>1, <2>1, LanesSame
  <1>7. QED
    BY <1>1, <1>3, <1>4, <1>5, <1>6 DEF AccountedParts

LEMMA StartTaskAccounted ==
  ASSUME IInv, IInv', AccountedParts, StartTask
  PROVE  AccountedParts'
  <1> DEFINE r == Head(spawned)
  <1>1. /\ r \in Requests /\ stage[r] = "spawned" /\ spawned # <<>> /\ spawned' = Tail(spawned)
        /\ permitLine' = Append(permitLine, r) /\ stage'[r] \in HasLane
        /\ \A q \in Requests : q = r \/ stage'[q] = stage[q]
        /\ UNCHANGED <<queue, buffers, lanes>>
    BY StartTaskLines
  <1>2. ASSUME NEW s \in Sessions, s # SessionOf[r] PROVE LaneLine(s)' = LaneLine(s)
    BY <1>2, StartTaskLines
  <1>3. ASSUME NEW s \in Sessions, s = SessionOf[r]
        PROVE  \/ /\ stage'[r] = AtLane(LaneLine(s))
                  /\ LaneLine(s)' = Append(LaneLine(s), r)
               \/ stage'[r] = "permit" /\ LaneLine(s)' = LaneLine(s)
    BY <1>3, StartTaskLines
  <1> HIDE DEF r
  <1>4. /\ InStage({"queued"})' = InStage({"queued"})
        /\ InStage({"spawned"})' = InStage({"spawned"}) \ {r}
        /\ InStage(HasLane)' = InStage(HasLane) \cup {r} /\ r \notin InStage(HasLane)
    BY <1>1 DEF InStage, HasLane
  <1>5. Lists(spawned', InStage({"spawned"})')
    BY <1>1, <1>4, LineTypes, ListsTail DEF AccountedParts, r
  <1>6. Lists(permitLine', InStage(HasLane)')
    <2>1. permitLine \in Seq(Requests) /\ Lists(permitLine, InStage(HasLane))
      BY LineTypes DEF AccountedParts
    <2>2. QED
      BY <1>1, <1>4, <2>1, ListsAppend
  <1>7. \A s \in Sessions : Lists(buffers'[s], BufferedOf(s)')
    BY <1>1, BuffersSame DEF HasLane
  <1>8. ASSUME NEW s \in Sessions PROVE Lists(LaneLine(s)', AtLaneOf(s)')
    <2>1. LaneLine(s) \in Seq(Requests) /\ Lists(LaneLine(s), AtLaneOf(s))
      BY LineTypes DEF AccountedParts
    <2>2. CASE s # SessionOf[r]
      <3>1. AtLaneOf(s)' = AtLaneOf(s)
        BY <1>1, <2>2 DEF AtLaneOf
      <3>2. QED
        BY <1>2, <2>1, <2>2, <3>1
    <2>3. CASE s = SessionOf[r] /\ stage'[r] = "permit" /\ LaneLine(s)' = LaneLine(s)
      <3>1. AtLaneOf(s)' = AtLaneOf(s)
        BY <1>1, <2>3 DEF AtLaneOf
      <3>2. QED
        BY <2>1, <2>3, <3>1
    <2>4. CASE /\ s = SessionOf[r] /\ stage'[r] = AtLane(LaneLine(s))
               /\ LaneLine(s)' = Append(LaneLine(s), r)
      <3>1. stage'[r] \in {"lane", "handling"}
        BY <2>4 DEF AtLane
      <3>2. AtLaneOf(s)' = AtLaneOf(s) \cup {r} /\ r \notin AtLaneOf(s)
        BY <1>1, <2>4, <3>1 DEF AtLaneOf
      <3>3. QED
        BY <1>1, <2>1, <2>4, <3>2, ListsAppend
    <2>5. QED
      BY <1>3, <2>2, <2>3, <2>4
  <1>9. QED
    BY <1>1, <1>4, <1>5, <1>6, <1>7, <1>8 DEF AccountedParts

LEMMA ResumeAccounted ==
  ASSUME IInv, IInv', AccountedParts, NEW i \in 1..Len(permitLine), ResumeWithPermit(i)
  PROVE  AccountedParts'
  <1> DEFINE r == permitLine[i]
  <1>1. /\ r \in Requests /\ stage[r] = "permit"
        /\ \A q \in Requests : q = r \/ stage'[q] = stage[q]
        /\ UNCHANGED <<queue, spawned, permitLine, buffers>>
        /\ \E line : stage'[r] = AtLane(line)
    BY ResumeLines, SessionOfAssumption
  <1>2. ASSUME NEW s \in Sessions, s # SessionOf[r] PROVE LaneLine(s)' = LaneLine(s)
    BY <1>2, ResumeLines
  <1>3. ASSUME NEW s \in Sessions, s = SessionOf[r] PROVE LaneLine(s)' = Append(LaneLine(s), r)
    BY <1>3, ResumeLines
  <1> HIDE DEF r
  <1>4. stage'[r] \in {"lane", "handling"}
    BY <1>1 DEF AtLane
  <1>5. /\ InStage({"queued"})' = InStage({"queued"})
        /\ InStage({"spawned"})' = InStage({"spawned"})
        /\ InStage(HasLane)' = InStage(HasLane)
    BY <1>1, <1>4 DEF InStage, HasLane
  <1>6. \A s \in Sessions : Lists(buffers'[s], BufferedOf(s)')
    BY <1>1, <1>4, BuffersSame
  <1>7. ASSUME NEW s \in Sessions PROVE Lists(LaneLine(s)', AtLaneOf(s)')
    <2>1. LaneLine(s) \in Seq(Requests) /\ Lists(LaneLine(s), AtLaneOf(s))
      BY LineTypes DEF AccountedParts
    <2>2. CASE s # SessionOf[r]
      <3>1. AtLaneOf(s)' = AtLaneOf(s)
        BY <1>1, <2>2 DEF AtLaneOf
      <3>2. QED
        BY <1>2, <2>1, <2>2, <3>1
    <2>3. CASE s = SessionOf[r]
      <3>1. AtLaneOf(s)' = AtLaneOf(s) \cup {r} /\ r \notin AtLaneOf(s)
        BY <1>1, <1>4, <2>3 DEF AtLaneOf
      <3>2. LaneLine(s)' = Append(LaneLine(s), r) /\ r \in Requests
        BY <1>1, <1>3, <2>3
      <3>3. QED
        BY <2>1, <3>1, <3>2, ListsAppend
    <2>4. QED
      BY <2>2, <2>3
  <1>8. QED
    BY <1>1, <1>5, <1>6, <1>7 DEF AccountedParts

LEMMA FinishAccounted ==
  ASSUME IInv, IInv', AccountedParts, NEW i \in 1..Len(permitLine), NEW outcome \in Outcomes,
         FinishHandler(i, outcome)
  PROVE  AccountedParts'
  <1> DEFINE r == permitLine[i]
  <1>1. /\ r \in Requests /\ stage[r] = "handling"
        /\ stage' = [stage EXCEPT ![r] = outcome]
        /\ permitLine' = RemoveAt(permitLine, i)
        /\ UNCHANGED <<queue, spawned, buffers>>
    BY FinishLines
  <1>2. ASSUME NEW s \in Sessions, s # SessionOf[r] PROVE LaneLine(s)' = LaneLine(s)
    BY <1>2, FinishLines
  <1>3. ASSUME NEW s \in Sessions, s = SessionOf[r]
        PROVE  /\ LaneLine(s) # <<>> /\ Head(LaneLine(s)) = r
               /\ lanes'[s] # None => laneObj'[lanes'[s]].line = Tail(LaneLine(s))
    BY <1>3, FinishLines
  <1>4. stage'[r] \in Outcomes /\ \A q \in Requests : q = r \/ stage'[q] = stage[q]
    BY <1>1, LineTypes
  <1>5. Lists(permitLine, InStage(HasLane)) /\ permitLine \in Seq(Requests)
    BY LineTypes DEF AccountedParts
  <1>6. /\ InStage({"queued"})' = InStage({"queued"})
        /\ InStage({"spawned"})' = InStage({"spawned"})
        /\ InStage(HasLane)' = InStage(HasLane) \ {permitLine[i]}
    BY <1>1, <1>4 DEF InStage, HasLane, Outcomes
  <1>7. Lists(permitLine', InStage(HasLane)')
    BY <1>1, <1>5, <1>6, ListsRemove
  <1> HIDE DEF r
  <1>8. \A s \in Sessions : Lists(buffers'[s], BufferedOf(s)')
    BY <1>1, <1>4, BuffersSame DEF Outcomes
  <1>9. ASSUME NEW s \in Sessions PROVE Lists(LaneLine(s)', AtLaneOf(s)')
    <2>1. LaneLine(s) \in Seq(Requests) /\ Lists(LaneLine(s), AtLaneOf(s))
      BY LineTypes DEF AccountedParts
    <2>2. CASE s # SessionOf[r]
      <3>1. AtLaneOf(s)' = AtLaneOf(s)
        BY <1>1, <1>4, <2>2 DEF AtLaneOf
      <3>2. QED
        BY <1>2, <2>1, <2>2, <3>1
    <2>3. CASE s = SessionOf[r]
      <3>1. AtLaneOf(s)' = AtLaneOf(s) \ {Head(LaneLine(s))}
        BY <1>1, <1>3, <1>4, <2>3 DEF AtLaneOf, Outcomes
      <3>2. Lists(Tail(LaneLine(s)), AtLaneOf(s)')
        BY <1>3, <2>1, <2>3, <3>1, ListsTail
      <3>3. QED
        BY <1>3, <2>3, <3>2, LanesFollow
    <2>4. QED
      BY <2>2, <2>3
  <1>10. QED
    BY <1>1, <1>6, <1>7, <1>8, <1>9 DEF AccountedParts

LEMMA AccountedStep ==
  ASSUME IInv, AccountedParts, [Next]_vars
  PROVE  AccountedParts'
  <1>1. IInv'
    BY NextPreserves
  <1>2. CASE \E r \in Requests : Enqueue(r)
    BY <1>1, <1>2, EnqueueAccounted
  <1>3. CASE \E s \in Sessions : FlushCollect(s)
    BY <1>1, <1>3, FlushAccounted
  <1>4. CASE LoopTake
    BY <1>1, <1>4, LoopTakeAccounted
  <1>5. CASE StartCancelled \/ StartTask
    BY <1>1, <1>5, StartCancelledAccounted, StartTaskAccounted
  <1>6. CASE \E i \in 1..Len(permitLine) : ResumeWithPermit(i)
    BY <1>1, <1>6, ResumeAccounted
  <1>7. ASSUME NEW r \in Requests, BeginHandler(r) PROVE AccountedParts'
    <2>1. /\ stage[r] = "lane" /\ stage' = [stage EXCEPT ![r] = "handling"]
          /\ UNCHANGED <<queue, spawned, permitLine, buffers, lanes, laneObj>>
      BY <1>7 DEF BeginHandler, collectVars, laneVars, taskVars
    <2>2. stage'[r] = "handling" /\ \A q \in Requests : q = r \/ stage'[q] = stage[q]
      BY <2>1, LineTypes
    <2>3. /\ InStage({"queued"})' = InStage({"queued"})
          /\ InStage({"spawned"})' = InStage({"spawned"})
          /\ InStage(HasLane)' = InStage(HasLane)
          /\ \A s \in Sessions : AtLaneOf(s)' = AtLaneOf(s) /\ BufferedOf(s)' = BufferedOf(s)
          /\ \A s \in Sessions : LaneLine(s)' = LaneLine(s)
      BY <2>1, <2>2 DEF InStage, HasLane, AtLaneOf, BufferedOf, LaneLine
    <2>4. QED
      BY <2>1, <2>3 DEF AccountedParts
  <1>8. CASE \E i \in 1..Len(permitLine), outcome \in Outcomes : FinishHandler(i, outcome)
    BY <1>1, <1>8, FinishAccounted
  <1>9. CASE StartLoop \/ LoopExit \/ Stop \/ StopReturn \/ UNCHANGED vars
    <2>1. UNCHANGED <<stage, queue, spawned, permitLine, buffers, lanes, laneObj>>
      BY <1>9 DEF StartLoop, LoopExit, Stop, StopReturn, vars, collectVars, laneVars, taskVars
    <2>2. QED
      BY <2>1 DEF AccountedParts, InStage, BufferedOf, AtLaneOf, LaneLine
  <1>10. QED
    BY <1>2, <1>3, <1>4, <1>5, <1>6, <1>7, <1>8, <1>9 DEF Next, ProcessItem

LEMMA AccountedInit == Init => AccountedParts
  <1> SUFFICES ASSUME Init PROVE AccountedParts
    OBVIOUS
  <1>1. /\ InStage({"queued"}) = {} /\ InStage({"spawned"}) = {} /\ InStage(HasLane) = {}
        /\ \A s \in Sessions : BufferedOf(s) = {} /\ AtLaneOf(s) = {}
    BY DEF Init, InStage, HasLane, BufferedOf, AtLaneOf
  <1>2. /\ queue = <<>> /\ spawned = <<>> /\ permitLine = <<>>
        /\ \A s \in Sessions : buffers[s] = <<>> /\ LaneLine(s) = <<>>
    BY DEF Init, LaneLine
  <1>3. QED
    BY <1>1, <1>2, ListsEmpty DEF AccountedParts

(* Every accepted request stands in exactly the buffer, queue or semaphore *)
(* line its progress calls for, and in it once.                            *)
THEOREM AccountedHolds == Spec => []Accounted
  <1>1. Spec => []AccountedParts
    BY AccountedInit, AccountedStep, Inductive, PTL DEF Spec
  <1>2. IInv /\ AccountedParts => Accounted
    BY AccountedByParts
  <1>3. QED
    BY <1>1, <1>2, Inductive, PTL

-----------------------------------------------------------------------------
(* CarriedOnce                                                             *)

Uncarried == {"new", "buffered", "rejected", "discarded"}

(* CarriedOnce without counting; and nobody who may yet be given a message *)
(* to carry has one.                                                       *)
CarriedInv ==
    /\ \A r \in Requests : stage[r] \in {"new", "buffered"} => payload[r] = <<>>
    /\ \A q \in Requests :
          /\ \A r \in Carriers(q) :
                SessionOf[r] = SessionOf[q] /\ IsInjective(payload[r])
          /\ stage[q] \in Uncarried => Carriers(q) = {}
          /\ stage[q] \notin Uncarried => \E r \in Requests : Carriers(q) = {r}

LEMMA CarriedCount == CarriedInv => CarriedOnce
  <1> SUFFICES ASSUME CarriedInv, NEW q \in Requests
               PROVE  /\ \A r \in Carriers(q) :
                            SessionOf[r] = SessionOf[q] /\ IsInjective(payload[r])
                      /\ Cardinality(Carriers(q)) =
                            IF stage[q] \in Uncarried THEN 0 ELSE 1
    BY DEF CarriedOnce, Uncarried
  <1>1. CASE stage[q] \in Uncarried
    BY <1>1, FS_EmptySet DEF CarriedInv
  <1>2. CASE stage[q] \notin Uncarried
    <2>1. PICK r \in Requests : Carriers(q) = {r}
      BY <1>2 DEF CarriedInv
    <2>2. Cardinality({r}) = 1
      BY FS_Singleton
    <2>3. QED
      BY <1>2, <2>1, <2>2 DEF CarriedInv
  <1>3. QED
    BY <1>1, <1>2

(* A step that composes no message.                                        *)
LEMMA CarriedKept ==
  ASSUME CarriedInv, payload' = payload,
         \A q \in Requests :
            /\ stage'[q] \in Uncarried <=> stage[q] \in Uncarried
            /\ stage'[q] \in {"new", "buffered"} => stage[q] \in {"new", "buffered"}
  PROVE  CarriedInv'
  <1>1. \A q \in Requests : Carriers(q)' = Carriers(q)
    BY DEF Carriers
  <1>2. QED
    BY <1>1 DEF CarriedInv

(* r, which carried nothing, is given the messages of line: its own and    *)
(* others of its session that nobody carried.                              *)
LEMMA CarriedComposed ==
  ASSUME IInv, CarriedInv, NEW r \in Requests, payload[r] = <<>>,
         NEW line \in Seq(Requests), NEW S, Lists(line, S),
         payload' = [payload EXCEPT ![r] = line],
         \A q \in Requests : q \in S => /\ stage[q] \in Uncarried /\ stage'[q] \notin Uncarried
                                        /\ SessionOf[q] = SessionOf[r],
         \A q \in Requests : q \notin S => (stage'[q] \in Uncarried <=> stage[q] \in Uncarried),
         \A q \in Requests : stage'[q] \in {"new", "buffered"} =>
                                stage[q] \in {"new", "buffered"} /\ q # r
  PROVE  CarriedInv'
  <1>1. payload \in [Requests -> Seq(Requests)]
    BY DEF IInv, TypeOK
  <1>2. payload'[r] = line /\ \A q \in Requests : q # r => payload'[q] = payload[q]
    BY <1>1
  <1>3. ToSet(<<>>) = {} /\ ToSet(line) = S /\ IsInjective(line)
    BY DEF ToSet, Lists
  <1>4. ASSUME NEW q \in Requests
        PROVE  Carriers(q)' = IF q \in S THEN {r} ELSE Carriers(q)
    <2>1. r \notin Carriers(q)
      BY <1>3 DEF Carriers
    <2>2. q \in S => Carriers(q) = {}
      BY DEF CarriedInv
    <2>3. \A p \in Requests : p # r => (p \in Carriers(q)' <=> p \in Carriers(q))
      BY <1>2 DEF Carriers
    <2>4. r \in Carriers(q)' <=> q \in S
      BY <1>2, <1>3 DEF Carriers
    <2>5. Carriers(q) \subseteq Requests /\ Carriers(q)' \subseteq Requests
      BY DEF Carriers
    <2>6. QED
      BY <2>1, <2>2, <2>3, <2>4, <2>5
  <1>5. ASSUME NEW q \in Requests
        PROVE  /\ \A p \in Carriers(q)' :
                     SessionOf[p] = SessionOf[q] /\ IsInjective(payload'[p])
               /\ stage'[q] \in Uncarried => Carriers(q)' = {}
               /\ stage'[q] \notin Uncarried => \E p \in Requests : Carriers(q)' = {p}
    <2>1. CASE q \in S
      BY <1>2, <1>3, <1>4, <2>1
    <2>2. CASE q \notin S
      <3>1. Carriers(q)' = Carriers(q) /\ r \notin Carriers(q) /\ Carriers(q) \subseteq Requests
        BY <1>3, <1>4, <2>2 DEF Carriers
      <3>2. QED
        BY <1>2, <2>2, <3>1 DEF CarriedInv
    <2>3. QED
      BY <2>1, <2>2
  <1>6. \A q \in Requests : stage'[q] \in {"new", "buffered"} => payload'[q] = <<>>
    BY <1>2 DEF CarriedInv
  <1>7. QED
    BY <1>5, <1>6 DEF CarriedInv

LEMMA CarriedEnqueue ==
  ASSUME IInv, AccountedParts, CarriedInv, NEW r \in Requests, Enqueue(r)
  PROVE  CarriedInv'
  <1> DEFINE z == SessionOf[r]
  <1>1. z \in Sessions /\ stage \in [Requests -> Stages] /\ stage[r] = "new" /\ payload[r] = <<>>
    BY SessionOfAssumption, LineTypes
    DEF CarriedInv, Enqueue, RejectFull, EnqueueFollowup, EnqueueInterrupt, EnqueueCollect
  <1>2. <<r>> \in Seq(Requests) /\ Lists(<<r>>, {r})
    <2>1. <<r>> \in Seq(Requests) /\ Len(<<r>>) = 1 /\ 1..1 = {1} /\ <<r>>[1] = r
      OBVIOUS
    <2>2. QED
      BY <2>1, ListsElements DEF NoRepeat
  <1>3. CASE RejectFull(r) \/ EnqueueCollect(r)
    <2>1. /\ payload' = payload
          /\ \A q \in Requests : \/ stage'[q] = stage[q]
                                 \/ stage[q] = "new" /\ stage'[q] \in {"rejected", "buffered"}
      BY <1>1, <1>3 DEF RejectFull, EnqueueCollect
    <2>2. QED
      BY <2>1, CarriedKept DEF Uncarried
  <1>4. CASE EnqueueFollowup(r) \/ EnqueueInterrupt(r)
    <2>1. payload' = [payload EXCEPT ![r] = <<r>>] /\ stage'[r] = "queued"
      BY <1>1, <1>4 DEF EnqueueFollowup, EnqueueInterrupt
    <2>2. \A q \in Requests : \/ q = r \/ stage'[q] = stage[q]
                              \/ stage[q] = "buffered" /\ stage'[q] = "discarded"
      <3>1. CASE EnqueueFollowup(r)
        BY <1>1, <3>1 DEF EnqueueFollowup
      <3>2. CASE EnqueueInterrupt(r)
        <4>1. \A q \in Requests : (\E i \in 1..Len(buffers[z]) : buffers[z][i] = q) <=> q \in BufferedOf(z)
          BY <1>1, BufferHolds
        <4>2. QED
          BY <3>2, <4>1 DEF EnqueueInterrupt, BufferedOf
      <3>3. QED
        BY <1>4, <3>1, <3>2
    <2>3. /\ \A q \in Requests : q \in {r} => /\ stage[q] \in Uncarried /\ stage'[q] \notin Uncarried
                                              /\ SessionOf[q] = SessionOf[r]
          /\ \A q \in Requests : q \notin {r} => (stage'[q] \in Uncarried <=> stage[q] \in Uncarried)
          /\ \A q \in Requests : stage'[q] \in {"new", "buffered"} =>
                                    stage[q] \in {"new", "buffered"} /\ q # r
      BY <1>1, <2>1, <2>2 DEF Uncarried
    <2>4. QED
      BY <1>1, <1>2, <2>1, <2>3, CarriedComposed
  <1>5. QED
    BY <1>3, <1>4 DEF Enqueue

LEMMA CarriedFlush ==
  ASSUME IInv, AccountedParts, CarriedInv, NEW s \in Sessions, FlushCollect(s)
  PROVE  CarriedInv'
  <1> DEFINE buf == buffers[s]
             r == buf[Len(buf)]
  <1>1. CASE buf = <<>>
    BY <1>1, CarriedKept DEF FlushCollect
  <1>2. CASE buf # <<>>
    <2>1. buf \in Seq(Requests) /\ Lists(buf, BufferedOf(s)) /\ Len(buf) \in 1..Len(buf)
      BY <1>2, LineTypes, EmptySeq DEF AccountedParts
    <2>2. r \in Requests /\ r \in BufferedOf(s)
      BY <2>1, ElementOfSeq, ListsElements
    <2>3. /\ payload' = [payload EXCEPT ![r] = buf]
          /\ stage' = [q \in Requests |->
                          IF q = r THEN "queued"
                          ELSE IF \E i \in 1..Len(buf) : buf[i] = q THEN "absorbed" ELSE stage[q]]
      BY <1>2 DEF FlushCollect
    <2>4. \A q \in Requests : (\E i \in 1..Len(buf) : buf[i] = q) <=> q \in BufferedOf(s)
      BY BufferHolds
    <2> HIDE DEF r, buf
    <2>5. \A q \in Requests : stage'[q] = IF q = r THEN "queued"
                                          ELSE IF q \in BufferedOf(s) THEN "absorbed" ELSE stage[q]
      BY <2>3, <2>4
    <2>6. /\ \A q \in Requests : q \in BufferedOf(s) =>
                  /\ stage[q] \in Uncarried /\ stage'[q] \notin Uncarried
                  /\ SessionOf[q] = SessionOf[r]
          /\ \A q \in Requests : q \notin BufferedOf(s) =>
                  (stage'[q] \in Uncarried <=> stage[q] \in Uncarried)
          /\ \A q \in Requests : stage'[q] \in {"new", "buffered"} =>
                                    stage[q] \in {"new", "buffered"} /\ q # r
      BY <2>2, <2>5 DEF Uncarried, BufferedOf
    <2>7. payload[r] = <<>>
      BY <2>2 DEF BufferedOf, CarriedInv
    <2>8. QED
      BY <2>1, <2>2, <2>3, <2>6, <2>7, CarriedComposed
  <1>3. QED
    BY <1>1, <1>2

LEMMA CarriedStep ==
  ASSUME IInv, AccountedParts, CarriedInv, [Next]_vars
  PROVE  CarriedInv'
  <1>1. ASSUME payload' = payload,
               \A q \in Requests : \/ stage'[q] = stage[q]
                                   \/ stage[q] \notin Uncarried /\ stage'[q] \notin Uncarried
        PROVE  CarriedInv'
    BY <1>1, CarriedKept DEF Uncarried
  <1>2. CASE \E r \in Requests : Enqueue(r)
    BY <1>2, CarriedEnqueue
  <1>3. CASE \E s \in Sessions : FlushCollect(s)
    BY <1>3, CarriedFlush
  <1>4. CASE LoopTake
    <2>1. /\ Head(queue) \in Requests /\ stage[Head(queue)] = "queued"
          /\ stage' = [stage EXCEPT ![Head(queue)] = "spawned"] /\ payload' = payload
      BY <1>4, TailOfLine DEF IInv, TypeOK, LinesInv, AllIn, LoopTake
    <2>2. QED
      BY <1>1, <2>1, LineTypes DEF Uncarried
  <1>5. CASE StartCancelled
    <2>1. /\ Head(spawned) \in Requests /\ stage[Head(spawned)] = "spawned"
          /\ stage' = [stage EXCEPT ![Head(spawned)] = "cancelled"] /\ payload' = payload
      BY <1>5, StartCancelledLines
    <2>2. QED
      BY <1>1, <2>1, LineTypes DEF Uncarried
  <1>6. CASE StartTask
    <2>1. /\ stage[Head(spawned)] = "spawned" /\ stage'[Head(spawned)] \in HasLane
          /\ \A q \in Requests : q # Head(spawned) => stage'[q] = stage[q]
          /\ payload' = payload
      BY <1>6, StartTaskLines
    <2>2. QED
      BY <1>1, <2>1 DEF Uncarried, HasLane
  <1>7. ASSUME NEW i \in 1..Len(permitLine), ResumeWithPermit(i) PROVE CarriedInv'
    <2>1. /\ stage[permitLine[i]] = "permit" /\ payload' = payload
          /\ \A q \in Requests : q # permitLine[i] => stage'[q] = stage[q]
      BY <1>7, ResumeLines
    <2>2. permitLine[i] \in Requests
      BY PermitLineElements
    <2>3. stage'[permitLine[i]] \in {"lane", "handling"}
      BY <1>7, <2>2, LineTypes DEF ResumeWithPermit, AtLane
    <2>4. QED
      BY <1>1, <2>1, <2>3 DEF Uncarried
  <1>8. ASSUME NEW r \in Requests, BeginHandler(r) PROVE CarriedInv'
    <2>1. stage[r] = "lane" /\ stage' = [stage EXCEPT ![r] = "handling"] /\ payload' = payload
      BY <1>8 DEF BeginHandler
    <2>2. QED
      BY <1>1, <2>1, LineTypes DEF Uncarried
  <1>9. ASSUME NEW i \in 1..Len(permitLine), NEW outcome \in Outcomes, FinishHandler(i, outcome)
        PROVE  CarriedInv'
    <2>1. /\ permitLine[i] \in Requests /\ stage[permitLine[i]] = "handling"
          /\ stage' = [stage EXCEPT ![permitLine[i]] = outcome] /\ payload' = payload
      BY <1>9, FinishLines
    <2>2. QED
      BY <1>1, <2>1, LineTypes DEF Uncarried, Outcomes
  <1>10. CASE StartLoop \/ LoopExit \/ Stop \/ StopReturn \/ UNCHANGED vars
    BY <1>1, <1>10 DEF StartLoop, LoopExit, Stop, StopReturn, vars
  <1>11. QED
    BY <1>2, <1>3, <1>4, <1>5, <1>6, <1>7, <1>8, <1>9, <1>10 DEF Next, ProcessItem

LEMMA CarriedInit == Init => CarriedInv
  <1> SUFFICES ASSUME Init PROVE CarriedInv
    OBVIOUS
  <1>1. \A r \in Requests : payload[r] = <<>> /\ stage[r] = "new"
    BY DEF Init
  <1>2. ToSet(<<>>) = {}
    BY DEF ToSet
  <1>3. \A q \in Requests : Carriers(q) = {}
    BY <1>1, <1>2 DEF Carriers
  <1>4. QED
    BY <1>1, <1>3 DEF CarriedInv, Uncarried

(* The text of a request that was queued or absorbed is in the message of  *)
(* exactly one item, of its session; that of one that was rejected or      *)
(* discarded in none (COLLECT's join and INTERRUPT's drop of a buffer).    *)
THEOREM CarriedOnceHolds == Spec => []CarriedOnce
  <1>1. Spec => []AccountedParts
    BY AccountedInit, AccountedStep, Inductive, PTL DEF Spec
  <1>2. Spec => []CarriedInv
    BY <1>1, CarriedInit, CarriedStep, Inductive, PTL DEF Spec
  <1>3. QED
    BY <1>2, CarriedCount, PTL

-----------------------------------------------------------------------------
(***************************************************************************)
(* The order in the lines, and the refinement of SerialLanes.  A list that *)
(* holds the unfinished items of a session once each and follows their     *)
(* order is unique, so it is the Backlog; a step puts an item last, takes  *)
(* one out, or leaves all in their order: an item that moves goes from the *)
(* front of one line to the end of a line ahead of it, and none of its     *)
(* session stands between.  Rests on IInv, PermitInv and AccountedParts.   *)
(***************************************************************************)

(* Lists in order                                                          *)

(* b holds the items once each, and follows the order.                     *)
Sorted(b, items, order) ==
    /\ b \in Seq(Requests)
    /\ Lists(b, items)
    /\ \A i, j \in 1..Len(b) : i < j <=> <<b[i], b[j]>> \in order

(* A set of numbers that is not empty has a least one.                     *)
LEMMA LeastNumber ==
  ASSUME NEW S \in SUBSET Nat, S # {}
  PROVE  \E m \in S : \A n \in S : m =< n
  <1>1. PICK R : R = OpToRel(<, Nat)
    OBVIOUS
  <1>2. IsWellFoundedOn(R, Nat)
    BY <1>1, NatLessThanWellFounded
  <1>3. PICK m \in S : \A n \in S : <<n, m>> \notin R
    BY <1>2, WFMin
  <1>4. ASSUME NEW n \in S, n < m
        PROVE  FALSE
    BY <1>1, <1>3, <1>4 DEF OpToRel
  <1>5. QED
    BY <1>3, <1>4

(* Two lists of the same items in the same order agree as far as they go:  *)
(* at the first place where they do not, each has still to come to the     *)
(* other's item, and so has it behind its own.                             *)
LEMMA SortedPrefix ==
  ASSUME NEW items, NEW order, NEW b, NEW c, Sorted(b, items, order), Sorted(c, items, order)
  PROVE  \A i \in 1..Len(b) : i \in 1..Len(c) /\ b[i] = c[i]
  <1>1. PICK m, n : m = Len(b) /\ n = Len(c)
    OBVIOUS
  <1>2. /\ b \in Seq(Requests) /\ c \in Seq(Requests) /\ m \in Nat /\ n \in Nat
        /\ \A i, j \in 1..m : i < j <=> <<b[i], b[j]>> \in order
        /\ \A i, j \in 1..n : i < j <=> <<c[i], c[j]>> \in order
    BY <1>1, LenProperties DEF Sorted
  <1>3. /\ \A i, j \in 1..m : b[i] = b[j] => i = j
        /\ \A i \in 1..m : b[i] \in items
        /\ \A q \in items : \E i \in 1..m : b[i] = q
    BY <1>1, <1>2, ListsElements DEF Sorted, NoRepeat
  <1>4. /\ \A i, j \in 1..n : c[i] = c[j] => i = j
        /\ \A i \in 1..n : c[i] \in items
        /\ \A q \in items : \E i \in 1..n : c[i] = q
    BY <1>1, <1>2, ListsElements DEF Sorted, NoRepeat
  <1> DEFINE Bad == {i \in 1..m : ~(i \in 1..n /\ b[i] = c[i])}
  <1>5. SUFFICES ASSUME Bad # {} PROVE FALSE
    BY <1>1
  <1>6. PICK k \in Bad : \A i \in Bad : k =< i
    <2>1. Bad \in SUBSET Nat
      BY <1>2
    <2> HIDE DEF Bad
    <2>2. QED
      BY <1>5, <2>1, LeastNumber
  <1>7. /\ k \in 1..m /\ ~(k \in 1..n /\ b[k] = c[k])
        /\ \A i \in 1..m : i < k => i \in 1..n /\ b[i] = c[i]
    BY <1>2, <1>6
  <1>8. PICK j \in 1..n : c[j] = b[k]
    BY <1>3, <1>4, <1>7
  <1>9. k < j
    <2>1. ~(j < k)
      BY <1>2, <1>3, <1>7, <1>8
    <2>2. j # k
      BY <1>7, <1>8
    <2>3. QED
      BY <1>2, <1>7, <2>1, <2>2
  <1>10. k \in 1..n
    BY <1>2, <1>7, <1>9
  <1>11. PICK i \in 1..m : b[i] = c[k]
    BY <1>3, <1>4, <1>10
  <1>12. k < i
    <2>1. ~(i < k)
      BY <1>2, <1>4, <1>7, <1>10, <1>11
    <2>2. i # k
      BY <1>7, <1>10, <1>11
    <2>3. QED
      BY <1>2, <1>7, <2>1, <2>2
  <1>13. <<b[k], c[k]>> \in order
    BY <1>2, <1>7, <1>11, <1>12
  <1>14. j < k
    BY <1>2, <1>8, <1>10, <1>13
  <1>15. QED
    BY <1>2, <1>7, <1>9, <1>14

(* There is at most one list of the items in the order.                    *)
LEMMA SortedUnique ==
  ASSUME NEW items, NEW order, NEW b, NEW c, Sorted(b, items, order), Sorted(c, items, order)
  PROVE  b = c
  <1>1. \A i \in 1..Len(b) : i \in 1..Len(c) /\ b[i] = c[i]
    BY SortedPrefix
  <1>2. \A i \in 1..Len(c) : i \in 1..Len(b)
    BY SortedPrefix
  <1>3. b \in Seq(Requests) /\ c \in Seq(Requests) /\ Len(b) \in Nat /\ Len(c) \in Nat
    BY LenProperties DEF Sorted
  <1>4. Len(b) = Len(c)
    BY <1>1, <1>2, <1>3
  <1>5. QED
    BY <1>1, <1>3, <1>4, SeqEqual

(* Such a list is one of those InOrder chooses from.                       *)
LEMMA SortedCount ==
  ASSUME NEW items, NEW order, NEW b, Sorted(b, items, order)
  PROVE  /\ Cardinality(items) \in Nat /\ Len(b) = Cardinality(items)
         /\ DOMAIN b = 1..Len(b) /\ b \in [1..Cardinality(items) -> items]
         /\ items \subseteq Requests
  <1>1. /\ b \in Seq(Requests) /\ Len(b) \in Nat
        /\ DOMAIN b = 1..Len(b) /\ b \in [1..Len(b) -> Requests]
    BY LenProperties DEF Sorted
  <1>2. /\ \A i, j \in 1..Len(b) : b[i] = b[j] => i = j
        /\ \A i \in 1..Len(b) : b[i] \in items
        /\ \A q \in items : \E i \in 1..Len(b) : b[i] = q
    BY <1>1, ListsElements DEF Sorted, NoRepeat
  <1>3. b \in [1..Len(b) -> items]
    BY <1>1, <1>2
  <1>4. b \in Bijection(1..Len(b), items)
    BY <1>1, <1>2, <1>3 DEF Bijection, Injection, Surjection, IsInjective
  <1>5. Cardinality(items) = Len(b)
    BY <1>1, <1>4, FS_CountingElements DEF ExistsBijection
  <1>6. QED
    BY <1>1, <1>2, <1>3, <1>5

(* So it is the one that InOrder chooses.                                  *)
LEMMA InOrderIs ==
  ASSUME NEW items, NEW order, NEW b, Sorted(b, items, order)
  PROVE  InOrder(items, order) = b
  <1> DEFINE Fits(x) == /\ Lists(x, items)
                        /\ \A i, j \in DOMAIN x : i < j <=> <<x[i], x[j]>> \in order
  <1>1. b \in [1..Cardinality(items) -> items] /\ Fits(b)
    BY SortedCount DEF Sorted
  <1>2. PICK c : c = InOrder(items, order)
    OBVIOUS
  <1>3. c \in [1..Cardinality(items) -> items] /\ Fits(c)
    BY <1>1, <1>2 DEF InOrder
  <1>4. c \in Seq(Requests) /\ DOMAIN c = 1..Len(c)
    <2>1. c \in Seq(items)
      BY <1>3, SortedCount, SeqDef
    <2>2. QED
      BY <2>1, SortedCount, SeqMonotonic, LenProperties
  <1>5. Sorted(c, items, order)
    BY <1>3, <1>4 DEF Sorted
  <1>6. QED
    BY <1>2, <1>5, SortedUnique

(* The same items in the same order.                                       *)
LEMMA SortedSame ==
  ASSUME NEW items, NEW order, NEW b, Sorted(b, items, order), NEW new,
         \A p, q \in items : <<p, q>> \in new <=> <<p, q>> \in order
  PROVE  Sorted(b, items, new)
  <1>1. \A i \in 1..Len(b) : b[i] \in items
    BY ListsElements DEF Sorted
  <1>2. QED
    BY <1>1 DEF Sorted

(* An item that comes after all others is appended.                        *)
LEMMA SortedAppend ==
  ASSUME NEW items, NEW order, NEW b, Sorted(b, items, order),
         NEW r \in Requests, r \notin items, NEW new,
         \A p, q \in items : <<p, q>> \in new <=> <<p, q>> \in order,
         \A p \in items : <<p, r>> \in new /\ <<r, p>> \notin new,
         <<r, r>> \notin new
  PROVE  Sorted(Append(b, r), items \cup {r}, new)
  <1>1. PICK n, c : n = Len(b) /\ c = Append(b, r)
    OBVIOUS
  <1>2. /\ b \in Seq(Requests) /\ c \in Seq(Requests) /\ n \in Nat /\ Len(c) = n + 1
        /\ \A i \in 1..n : c[i] = b[i]
        /\ c[n + 1] = r
    BY <1>1, LenProperties, AppendProperties DEF Sorted
  <1>3. \A i \in 1..n : b[i] \in items
    BY <1>1, ListsElements DEF Sorted
  <1>4. \A i, j \in 1..n : i < j <=> <<b[i], b[j]>> \in order
    BY <1>1 DEF Sorted
  <1>5. Lists(c, items \cup {r})
    BY <1>1, <1>2, ListsAppend DEF Sorted
  <1>6. ASSUME NEW i \in 1..(n + 1), NEW j \in 1..(n + 1)
        PROVE  i < j <=> <<c[i], c[j]>> \in new
    <2>1. CASE i \in 1..n /\ j \in 1..n
      BY <1>2, <1>3, <1>4, <2>1
    <2>2. CASE i \in 1..n /\ j = n + 1
      <3>1. c[i] \in items /\ c[j] = r
        BY <1>2, <1>3, <2>2
      <3>2. <<c[i], c[j]>> \in new
        BY <3>1
      <3>3. i < j
        BY <1>2, <2>2
      <3>4. QED
        BY <3>2, <3>3
    <2>3. CASE i = n + 1 /\ j \in 1..n
      <3>1. c[i] = r /\ c[j] \in items
        BY <1>2, <1>3, <2>3
      <3>2. <<c[i], c[j]>> \notin new
        BY <3>1
      <3>3. ~(i < j)
        BY <1>2, <2>3
      <3>4. QED
        BY <3>2, <3>3
    <2>4. CASE i = n + 1 /\ j = n + 1
      <3>1. c[i] = r /\ c[j] = r
        BY <1>2, <2>4
      <3>2. <<c[i], c[j]>> \notin new
        BY <3>1
      <3>3. QED
        BY <1>2, <2>4, <3>2
    <2>5. QED
      BY <1>2, <2>1, <2>2, <2>3, <2>4
  <1>7. QED
    BY <1>1, <1>2, <1>5, <1>6 DEF Sorted

(* The others stay in order when an item is taken out.                     *)
LEMMA SortedRemove ==
  ASSUME NEW items, NEW order, NEW b, Sorted(b, items, order), NEW k \in 1..Len(b), NEW new,
         \A p, q \in items \ {b[k]} : <<p, q>> \in new <=> <<p, q>> \in order
  PROVE  Sorted(RemoveAt(b, k), items \ {b[k]}, new)
  <1> DEFINE Was(j) == IF j < k THEN j ELSE j + 1
  <1>1. PICK n, c : n = Len(b) /\ c = RemoveAt(b, k)
    OBVIOUS
  <1>2. /\ b \in Seq(Requests) /\ c \in Seq(Requests) /\ n \in Nat /\ Len(c) = n - 1
        /\ \A j \in 1..(n - 1) : c[j] = b[Was(j)]
    <2>1. b \in Seq(Requests)
      BY DEF Sorted
    <2>2. /\ n \in Nat /\ c \in Seq(Requests) /\ Len(c) = n - 1
          /\ \A j \in 1..(n - 1) : c[j] = b[IF j < k THEN j ELSE j + 1]
      BY <1>1, <2>1, RemoveAtType, LenProperties, RemoveAtElements
    <2>3. QED
      BY <2>1, <2>2
  <1>3. /\ \A j \in 1..(n - 1) : Was(j) \in 1..n
        /\ \A i, j \in 1..(n - 1) : Was(i) < Was(j) <=> i < j
    BY <1>1, <1>2
  <1>4. Lists(c, items \ {b[k]})
    BY <1>1, <1>2, ListsRemove DEF Sorted
  <1>5. \A i \in 1..(n - 1) : c[i] \in items \ {b[k]}
    BY <1>2, <1>4, ListsElements
  <1> HIDE DEF Was
  <1>6. ASSUME NEW i \in 1..(n - 1), NEW j \in 1..(n - 1)
        PROVE  i < j <=> <<c[i], c[j]>> \in new
    <2>1. <<c[i], c[j]>> \in new <=> <<c[i], c[j]>> \in order
      BY <1>5
    <2>2. <<c[i], c[j]>> \in order <=> Was(i) < Was(j)
      BY <1>1, <1>2, <1>3 DEF Sorted
    <2>3. QED
      BY <1>3, <2>1, <2>2
  <1>7. QED
    BY <1>1, <1>2, <1>4, <1>6 DEF Sorted

(* Who has nobody before it is the head, and taking out the head leaves    *)
(* the tail.                                                               *)
LEMMA SortedHead ==
  ASSUME NEW items, NEW order, NEW b, Sorted(b, items, order), NEW r \in items,
         \A p \in items : <<p, r>> \notin order
  PROVE  /\ b # <<>> /\ 1 \in 1..Len(b) /\ b[1] = r /\ Head(b) = r
         /\ RemoveAt(b, 1) = Tail(b)
  <1>1. b \in Seq(Requests) /\ Len(b) \in Nat
    BY LenProperties DEF Sorted
  <1>2. PICK k \in 1..Len(b) : b[k] = r
    BY <1>1, ListsElements DEF Sorted
  <1>3. \A i \in 1..Len(b) : b[i] \in items
    BY <1>1, ListsElements DEF Sorted
  <1>4. 1 \in 1..Len(b) /\ ~(1 < k)
    <2>1. 1 \in 1..Len(b)
      BY <1>1, <1>2
    <2>2. <<b[1], b[k]>> \notin order
      BY <1>2, <1>3, <2>1
    <2>3. QED
      BY <1>2, <2>1, <2>2 DEF Sorted
  <1>5. b # <<>> /\ b[1] = r /\ Head(b) = b[1]
    BY <1>1, <1>2, <1>4
  <1>6. RemoveAt(b, 1) = Tail(b)
    <2>1. /\ RemoveAt(b, 1) \in Seq(Requests) /\ Len(RemoveAt(b, 1)) = Len(b) - 1
          /\ \A j \in 1..(Len(b) - 1) : RemoveAt(b, 1)[j] = b[IF j < 1 THEN j ELSE j + 1]
      BY <1>1, <1>4, RemoveAtType, RemoveAtElements
    <2>2. /\ Tail(b) \in Seq(Requests) /\ Len(Tail(b)) = Len(b) - 1
          /\ \A j \in 1..(Len(b) - 1) : Tail(b)[j] = b[j + 1]
      BY <1>1, <1>5, HeadTailProperties
    <2>3. \A j \in 1..(Len(b) - 1) : RemoveAt(b, 1)[j] = Tail(b)[j]
      BY <1>1, <2>1, <2>2
    <2>4. QED
      BY <2>1, <2>2, <2>3, SeqEqual
  <1>7. QED
    BY <1>4, <1>5, <1>6

-----------------------------------------------------------------------------
(* Who is ahead of whom in a line                                          *)

LEMMA AheadAppend ==
  ASSUME NEW line \in Seq(Requests), NEW r \in Requests, \A i \in 1..Len(line) : line[i] # r
  PROVE  /\ \A p, q : q # r => (Ahead(Append(line, r), p, q) <=> Ahead(line, p, q))
         /\ \A i \in 1..Len(line) : Ahead(Append(line, r), line[i], r)
         /\ \A p : ~Ahead(Append(line, r), r, p)
  <1>1. PICK n, c : n = Len(line) /\ c = Append(line, r)
    OBVIOUS
  <1>2. /\ n \in Nat /\ Len(c) = n + 1 /\ c[n + 1] = r
        /\ \A i \in 1..n : c[i] = line[i] /\ line[i] # r
    BY <1>1, LenProperties, AppendProperties
  <1>3. ASSUME NEW p, NEW q, q # r PROVE Ahead(c, p, q) <=> Ahead(line, p, q)
    <2>1. \A j \in 1..(n + 1) : c[j] = q => j \in 1..n
      BY <1>2, <1>3
    <2>2. \A i, j \in 1..(n + 1) : i < j /\ j \in 1..n => i \in 1..n
      BY <1>2
    <2>3. ASSUME Ahead(c, p, q) PROVE Ahead(line, p, q)
      BY <1>1, <1>2, <2>1, <2>2, <2>3 DEF Ahead
    <2>4. ASSUME Ahead(line, p, q) PROVE Ahead(c, p, q)
      <3>1. PICK i, j \in 1..n : i < j /\ line[i] = p /\ line[j] = q
        BY <1>1, <2>4 DEF Ahead
      <3>2. i \in 1..(n + 1) /\ j \in 1..(n + 1) /\ c[i] = p /\ c[j] = q
        BY <1>2, <3>1
      <3>3. QED
        BY <1>2, <3>1, <3>2 DEF Ahead
    <2>5. QED
      BY <2>3, <2>4
  <1>4. ASSUME NEW i \in 1..n PROVE Ahead(c, line[i], r)
    <2>1. i \in 1..(n + 1) /\ n + 1 \in 1..(n + 1) /\ i < n + 1 /\ c[i] = line[i]
      BY <1>2
    <2>2. QED
      BY <1>2, <2>1 DEF Ahead
  <1>5. ASSUME NEW p, Ahead(c, r, p) PROVE FALSE
    <2>1. PICK i, j \in 1..(n + 1) : i < j /\ c[i] = r
      BY <1>2, <1>5 DEF Ahead
    <2>2. i \in 1..n
      BY <1>2, <2>1
    <2>3. QED
      BY <1>2, <2>1, <2>2
  <1>6. QED
    BY <1>1, <1>3, <1>4, <1>5

LEMMA AheadTail ==
  ASSUME NEW line \in Seq(Requests), line # <<>>, NoRepeat(line)
  PROVE  /\ \A p, q : p # Head(line) /\ q # Head(line) =>
               (Ahead(Tail(line), p, q) <=> Ahead(line, p, q))
         /\ \A i \in 1..Len(line) : line[i] # Head(line) => Ahead(line, Head(line), line[i])
         /\ \A p : ~Ahead(line, p, Head(line))
  <1>1. PICK n, c : n = Len(line) /\ c = Tail(line)
    OBVIOUS
  <1>2. /\ n \in Nat /\ 1 \in 1..n /\ Len(c) = n - 1 /\ Head(line) = line[1]
        /\ \A i \in 1..(n - 1) : c[i] = line[i + 1]
        /\ \A i, j \in 1..n : line[i] = line[j] => i = j
    BY <1>1, LenProperties, EmptySeq, HeadTailProperties DEF NoRepeat
  <1>3. ASSUME NEW p, NEW q, p # line[1], q # line[1] PROVE Ahead(c, p, q) <=> Ahead(line, p, q)
    <2>1. ASSUME Ahead(c, p, q) PROVE Ahead(line, p, q)
      <3>1. PICK i, j \in 1..(n - 1) : i < j /\ c[i] = p /\ c[j] = q
        BY <1>2, <2>1 DEF Ahead
      <3>2. i + 1 \in 1..n /\ j + 1 \in 1..n /\ i + 1 < j + 1
        BY <1>2, <3>1
      <3>3. line[i + 1] = p /\ line[j + 1] = q
        BY <1>2, <3>1
      <3>4. QED
        BY <1>1, <3>2, <3>3 DEF Ahead
    <2>2. ASSUME Ahead(line, p, q) PROVE Ahead(c, p, q)
      <3>1. PICK i, j \in 1..n : i < j /\ line[i] = p /\ line[j] = q
        BY <1>1, <2>2 DEF Ahead
      <3>2. i # 1 /\ j # 1
        BY <1>3, <3>1
      <3>3. i - 1 \in 1..(n - 1) /\ j - 1 \in 1..(n - 1) /\ i - 1 < j - 1
            /\ (i - 1) + 1 = i /\ (j - 1) + 1 = j
        BY <1>2, <3>1, <3>2
      <3>4. c[i - 1] = p /\ c[j - 1] = q
        BY <1>2, <3>1, <3>3
      <3>5. QED
        BY <1>2, <3>3, <3>4 DEF Ahead
    <2>3. QED
      BY <2>1, <2>2
  <1>4. ASSUME NEW i \in 1..n, line[i] # line[1] PROVE Ahead(line, line[1], line[i])
    <2>1. 1 < i
      BY <1>2, <1>4
    <2>2. QED
      BY <1>1, <1>2, <2>1 DEF Ahead
  <1>5. ASSUME NEW p, Ahead(line, p, line[1]) PROVE FALSE
    <2>1. PICK i, j \in 1..n : i < j /\ line[j] = line[1]
      BY <1>1, <1>5 DEF Ahead
    <2>2. QED
      BY <1>2, <2>1
  <1>6. QED
    BY <1>1, <1>2, <1>3, <1>4, <1>5

LEMMA AheadRemove ==
  ASSUME NEW line \in Seq(Requests), NEW k \in 1..Len(line),
         NEW p, NEW q, p # line[k], q # line[k]
  PROVE  Ahead(RemoveAt(line, k), p, q) <=> Ahead(line, p, q)
  <1> DEFINE Was(j) == IF j < k THEN j ELSE j + 1
  <1>1. PICK n, c : n = Len(line) /\ c = RemoveAt(line, k)
    OBVIOUS
  <1>2. /\ n \in Nat /\ Len(c) = n - 1 /\ k \in 1..n
        /\ \A j \in 1..(n - 1) : c[j] = line[Was(j)]
    <2>1. /\ n \in Nat /\ Len(c) = n - 1
          /\ \A j \in 1..(n - 1) : c[j] = line[IF j < k THEN j ELSE j + 1]
      BY <1>1, LenProperties, RemoveAtElements
    <2>2. QED
      BY <1>1, <2>1
  <1>3. /\ \A j \in 1..(n - 1) : Was(j) \in 1..n
        /\ \A i, j \in 1..(n - 1) : i < j <=> Was(i) < Was(j)
    BY <1>2
  <1>4. ASSUME NEW i \in 1..n, i # k PROVE \E j \in 1..(n - 1) : Was(j) = i
    <2>1. CASE i < k
      <3>1. i \in 1..(n - 1) /\ Was(i) = i
        BY <1>2, <2>1
      <3>2. QED
        BY <3>1
    <2>2. CASE i > k
      <3>1. i - 1 \in 1..(n - 1) /\ Was(i - 1) = i
        BY <1>2, <2>2
      <3>2. QED
        BY <3>1
    <2>3. QED
      BY <1>2, <1>4, <2>1, <2>2
  <1> HIDE DEF Was
  <1>5. ASSUME Ahead(c, p, q) PROVE Ahead(line, p, q)
    <2>1. PICK i, j \in 1..(n - 1) : i < j /\ c[i] = p /\ c[j] = q
      BY <1>2, <1>5 DEF Ahead
    <2>2. /\ Was(i) \in 1..n /\ Was(j) \in 1..n /\ Was(i) < Was(j)
          /\ line[Was(i)] = p /\ line[Was(j)] = q
      BY <1>2, <1>3, <2>1
    <2>3. QED
      BY <1>1, <2>2 DEF Ahead
  <1>6. ASSUME Ahead(line, p, q) PROVE Ahead(c, p, q)
    <2>1. PICK i, j \in 1..n : i < j /\ line[i] = p /\ line[j] = q
      BY <1>1, <1>6 DEF Ahead
    <2>2. PICK u, v \in 1..(n - 1) : Was(u) = i /\ Was(v) = j
      BY <1>4, <2>1
    <2>3. u < v /\ c[u] = p /\ c[v] = q
      BY <1>2, <1>3, <2>1, <2>2
    <2>4. QED
      BY <1>2, <2>3 DEF Ahead
  <1>7. QED
    BY <1>1, <1>5, <1>6

-----------------------------------------------------------------------------
(* The order of a session's items, step by step                            *)

(* The step leaves the items of I in the order in which they were.         *)
Undisturbed(s, I) == \A p, q \in I : Before(s, p, q)' <=> Before(s, p, q)

(* The step moves the line of s, or takes away the lane with its last item. *)
SameAhead(I, old, new) == \A p, q \in I : Ahead(new, p, q) <=> Ahead(old, p, q)

LEMMA PlaceType ==
  /\ \A r : Place(r) \in 1..4
  /\ \A s : /\ Passage(s)[1] = LaneLine(s) /\ Passage(s)[2] = permitLine
            /\ Passage(s)[3] = spawned /\ Passage(s)[4] = queue
  <1>1. \A r : Place(r) \in 1..4
    BY DEF Place
  <1>2. \A s : /\ Passage(s)[1] = LaneLine(s) /\ Passage(s)[2] = permitLine
               /\ Passage(s)[3] = spawned /\ Passage(s)[4] = queue
    BY DEF Passage
  <1>3. QED
    BY <1>1, <1>2

LEMMA UndisturbedBy ==
  ASSUME NEW s \in Sessions, NEW I, \A q \in I : Place(q)' = Place(q),
         SameAhead(I, queue, queue'), SameAhead(I, spawned, spawned'),
         SameAhead(I, permitLine, permitLine'), SameAhead(I, LaneLine(s), LaneLine(s)')
  PROVE  Undisturbed(s, I)
  <1> SUFFICES ASSUME NEW p \in I, NEW q \in I PROVE Before(s, p, q)' <=> Before(s, p, q)
    BY DEF Undisturbed
  <1>1. Place(p)' = Place(p) /\ Place(q)' = Place(q) /\ Place(q) \in 1..4
    BY PlaceType
  <1>2. Passage(s)'[1] = LaneLine(s)' /\ Passage(s)'[2] = permitLine'
        /\ Passage(s)'[3] = spawned' /\ Passage(s)'[4] = queue'
    BY DEF Passage
  <1>3. \A k \in 1..4 : Ahead(Passage(s)'[k], p, q) <=> Ahead(Passage(s)[k], p, q)
    BY <1>2, PlaceType DEF SameAhead
  <1>4. Ahead(Passage(s)'[Place(q)'], p, q) <=> Ahead(Passage(s)[Place(q)], p, q)
    BY <1>1, <1>3
  <1>5. Before(s, p, q)' <=> \/ Place(p)' < Place(q)'
                             \/ Place(p)' = Place(q)' /\ Ahead(Passage(s)'[Place(q)'], p, q)
    BY DEF Before
  <1>6. QED
    BY <1>1, <1>4, <1>5 DEF Before

(* r goes from the front of line m to the end of line n; of the other      *)
(* items of the session none stands between the two.                       *)
LEMMA MoveUndisturbed ==
  ASSUME NEW s \in Sessions, NEW I, NEW r, NEW m \in 1..4, NEW n \in 1..4, n < m,
         Undisturbed(s, I), Place(r) = m, Place(r)' = n,
         \A q \in I : /\ Place(q)' = Place(q)
                      /\ Place(q) =< n \/ Place(q) >= m
                      /\ Place(q) = m => /\ Ahead(Passage(s)[m], r, q)
                                         /\ ~Ahead(Passage(s)[m], q, r)
                      /\ Place(q) = n => /\ Ahead(Passage(s)'[n], q, r)
                                         /\ ~Ahead(Passage(s)'[n], r, q),
         ~Ahead(Passage(s)[m], r, r), ~Ahead(Passage(s)'[n], r, r)
  PROVE  Undisturbed(s, I \cup {r})
  <1>1. \A p, q : Before(s, p, q) <=> \/ Place(p) < Place(q)
                                      \/ Place(p) = Place(q) /\ Ahead(Passage(s)[Place(q)], p, q)
    BY DEF Before
  <1>2. \A p, q : Before(s, p, q)' <=> \/ Place(p)' < Place(q)'
                                       \/ Place(p)' = Place(q)' /\ Ahead(Passage(s)'[Place(q)'], p, q)
    BY DEF Before
  <1>3. ASSUME NEW q \in I PROVE Before(s, q, r)' <=> Before(s, q, r)
    <2>1. Before(s, q, r) <=> Place(q) < m
      BY <1>1, PlaceType
    <2>2. Before(s, q, r)' <=> Place(q) =< n
      BY <1>2, PlaceType
    <2>3. QED
      BY <2>1, <2>2, PlaceType
  <1>4. ASSUME NEW q \in I PROVE Before(s, r, q)' <=> Before(s, r, q)
    <2>1. Before(s, r, q) <=> Place(q) >= m
      BY <1>1, PlaceType
    <2>2. Before(s, r, q)' <=> Place(q) > n
      BY <1>2, PlaceType
    <2>3. QED
      BY <2>1, <2>2, PlaceType
  <1>5. ~Before(s, r, r) /\ ~Before(s, r, r)'
    BY <1>1, <1>2
  <1>6. QED
    BY <1>3, <1>4, <1>5 DEF Undisturbed

InOrderNow(s) == Sorted(Backlog(s), Outstanding(s), Order(s))

OrderInv == \A s \in Sessions : InOrderNow(s)

LEMMA OrderPairs ==
  \A s : \A p, q \in Outstanding(s) : <<p, q>> \in Order(s) <=> Before(s, p, q)
  <1> SUFFICES ASSUME NEW s, NEW p \in Outstanding(s), NEW q \in Outstanding(s)
               PROVE  <<p, q>> \in Order(s) <=> Before(s, p, q)
    OBVIOUS
  <1>1. <<p, q>>[1] = p /\ <<p, q>>[2] = q
    OBVIOUS
  <1>2. QED
    BY <1>1 DEF Order

LEMMA OrderPairsNext ==
  ASSUME NEW s, NEW p \in Outstanding(s)', NEW q \in Outstanding(s)'
  PROVE  <<p, q>> \in Order(s)' <=> Before(s, p, q)'
  <1>1. Order(s)' = {pair \in Outstanding(s)' \X Outstanding(s)' : Before(s, pair[1], pair[2])'}
    BY DEF Order
  <1>2. <<p, q>>[1] = p /\ <<p, q>>[2] = q /\ <<p, q>> \in Outstanding(s)' \X Outstanding(s)'
    OBVIOUS
  <1>3. QED
    BY <1>1, <1>2

(* A list in the order after the step is the backlog after the step.       *)
LEMMA BacklogFollows ==
  ASSUME NEW s, NEW b, Sorted(b, Outstanding(s)', Order(s)')
  PROVE  Backlog(s)' = b /\ InOrderNow(s)'
  <1>1. Backlog(s)' = InOrder(Outstanding(s)', Order(s)')
    BY DEF Backlog
  <1>2. Backlog(s)' = b
    BY <1>1, InOrderIs
  <1>3. QED
    BY <1>2 DEF InOrderNow

LEMMA BacklogStays ==
  ASSUME NEW s \in Sessions, InOrderNow(s),
         Outstanding(s)' = Outstanding(s), Undisturbed(s, Outstanding(s))
  PROVE  Backlog(s)' = Backlog(s) /\ InOrderNow(s)'
  <1>1. \A p, q \in Outstanding(s) : <<p, q>> \in Order(s)' <=> <<p, q>> \in Order(s)
    BY OrderPairs, OrderPairsNext DEF Undisturbed
  <1>2. Sorted(Backlog(s), Outstanding(s)', Order(s)')
    BY <1>1, SortedSame DEF InOrderNow
  <1>3. QED
    BY <1>2, BacklogFollows

LEMMA BacklogGrows ==
  ASSUME NEW s \in Sessions, InOrderNow(s), NEW r \in Requests, r \notin Outstanding(s),
         Outstanding(s)' = Outstanding(s) \cup {r}, Undisturbed(s, Outstanding(s)),
         \A p \in Outstanding(s) : Before(s, p, r)' /\ ~Before(s, r, p)',
         ~Before(s, r, r)'
  PROVE  Backlog(s)' = Append(Backlog(s), r) /\ InOrderNow(s)'
  <1>1. \A p, q \in Outstanding(s) : <<p, q>> \in Order(s)' <=> <<p, q>> \in Order(s)
    BY OrderPairs, OrderPairsNext DEF Undisturbed
  <1>2. /\ \A p \in Outstanding(s) : <<p, r>> \in Order(s)' /\ <<r, p>> \notin Order(s)'
        /\ <<r, r>> \notin Order(s)'
    BY OrderPairsNext
  <1>3. Sorted(Append(Backlog(s), r), Outstanding(s)', Order(s)')
    BY <1>1, <1>2, SortedAppend DEF InOrderNow
  <1>4. QED
    BY <1>3, BacklogFollows

LEMMA BacklogShrinks ==
  ASSUME NEW s \in Sessions, InOrderNow(s), NEW r \in Outstanding(s),
         Outstanding(s)' = Outstanding(s) \ {r}, Undisturbed(s, Outstanding(s) \ {r})
  PROVE  \E k \in 1..Len(Backlog(s)) :
             /\ Backlog(s)[k] = r
             /\ Backlog(s)' = RemoveAt(Backlog(s), k)
             /\ InOrderNow(s)'
  <1>1. \A p, q \in Outstanding(s) \ {r} : <<p, q>> \in Order(s)' <=> <<p, q>> \in Order(s)
    BY OrderPairs, OrderPairsNext DEF Undisturbed
  <1>2. PICK k \in 1..Len(Backlog(s)) : Backlog(s)[k] = r
    BY ListsElements DEF InOrderNow, Sorted
  <1>3. Sorted(RemoveAt(Backlog(s), k), Outstanding(s)', Order(s)')
    BY <1>1, <1>2, SortedRemove DEF InOrderNow
  <1>4. QED
    BY <1>2, <1>3, BacklogFollows

(* The item being handled is the first of its session's.                   *)
FirstHandled == \A r \in Handling : LET b == Backlog(SessionOf[r])
                                    IN  b # <<>> /\ Head(b) = r /\ RemoveAt(b, 1) = Tail(b)

LEMMA HandledIsFirst == IInv /\ AccountedParts /\ OrderInv => FirstHandled
  <1> SUFFICES ASSUME IInv, AccountedParts, OrderInv, NEW r \in Handling,
                      NEW s, s = SessionOf[r]
               PROVE  Backlog(s) # <<>> /\ Head(Backlog(s)) = r
                      /\ RemoveAt(Backlog(s), 1) = Tail(Backlog(s))
    BY DEF FirstHandled
  <1>1. r \in Requests /\ stage[r] = "handling" /\ s \in Sessions
    BY SessionOfAssumption DEF Handling
  <1>2. r \in Outstanding(s) /\ Place(r) = 1
    BY <1>1 DEF Outstanding, InFlight, Place
  <1>3. lanes[s] # None /\ laneOf[r] = lanes[s]
    BY <1>1, <1>2 DEF IInv, LanesInv, HasLane
  <1>4. LaneLine(s) # <<>> /\ Head(LaneLine(s)) = r
    BY <1>3 DEF IInv, HeadsInv, LaneLine
  <1>5. LaneLine(s) \in Seq(Requests) /\ NoRepeat(LaneLine(s))
    BY <1>1, LineTypes, ListsElements DEF AccountedParts
  <1>6. \A p : ~Ahead(LaneLine(s), p, r)
    <2>1. \A p : ~Ahead(LaneLine(s), p, Head(LaneLine(s)))
      BY <1>4, <1>5, AheadTail, Zenon
    <2>2. QED
      BY <1>4, <2>1
  <1>7. ASSUME NEW p PROVE ~Before(s, p, r)
    <2>1. Before(s, p, r) <=> \/ Place(p) < Place(r)
                              \/ Place(p) = Place(r) /\ Ahead(Passage(s)[Place(r)], p, r)
      BY DEF Before
    <2>2. ~(Place(p) < 1) /\ Passage(s)[1] = LaneLine(s)
      BY PlaceType
    <2>3. QED
      BY <1>2, <1>6, <2>1, <2>2
  <1>8. \A p \in Outstanding(s) : <<p, r>> \notin Order(s)
    BY <1>2, <1>7, OrderPairs
  <1>9. Sorted(Backlog(s), Outstanding(s), Order(s))
    BY <1>1 DEF OrderInv, InOrderNow
  <1>10. QED
    BY <1>2, <1>8, <1>9, SortedHead

-----------------------------------------------------------------------------
(* The steps, seen from the backlogs                                       *)

Unfinished == InFlight \cup {"queued"}

LEMMA LaneLineNext ==
  ASSUME IInv', NEW s \in Sessions, NEW line,
         lanes'[s] # None => laneObj'[lanes'[s]].line = line,
         NEW I, I \subseteq Outstanding(s)'
  PROVE  SameAhead(I, line, LaneLine(s)')
  <1>1. CASE I = {}
    BY <1>1 DEF SameAhead
  <1>2. CASE I # {}
    <2>1. lanes'[s] # None
      BY <1>2 DEF IInv, LanesInv
    <2>2. LaneLine(s)' = line
      BY <2>1 DEF LaneLine
    <2>3. QED
      BY <2>2 DEF SameAhead
  <1>3. QED
    BY <1>1, <1>2

(* A task called by its lane stays in its place.                           *)
LEMMA PlaceKept ==
  ASSUME NEW q, \/ stage'[q] = stage[q]
                \/ stage[q] = "lane" /\ stage'[q] = "handling"
  PROVE  Place(q)' = Place(q)
  BY DEF Place

(* Nobody enters, leaves or moves; a waiter of a lane may be called.       *)
LEMMA NobodyMoves ==
  ASSUME OrderInv, UNCHANGED <<queue, spawned, permitLine, lanes, laneObj>>,
         \A q \in Requests : \/ stage'[q] = stage[q]
                             \/ stage[q] = "lane" /\ stage'[q] = "handling"
                             \/ stage[q] \notin Unfinished /\ stage'[q] \notin Unfinished
  PROVE  OrderInv' /\ \A s \in Sessions : Backlog(s)' = Backlog(s)
  <1> SUFFICES ASSUME NEW s \in Sessions PROVE Backlog(s)' = Backlog(s) /\ InOrderNow(s)'
    BY DEF OrderInv
  <1>1. Outstanding(s)' = Outstanding(s)
    BY DEF Outstanding, Unfinished, InFlight
  <1>2. \A q \in Outstanding(s) : Place(q)' = Place(q)
    BY PlaceKept DEF Outstanding, Unfinished
  <1>3. LaneLine(s)' = LaneLine(s)
    BY DEF LaneLine
  <1>4. Undisturbed(s, Outstanding(s))
    BY <1>2, <1>3, UndisturbedBy DEF SameAhead
  <1>5. QED
    BY <1>1, <1>4, BacklogStays DEF OrderInv

(* r is put; what was buffered with it may be absorbed or discarded.       *)
Puts(r) ==
    /\ Put(r)
    /\ stage[r] \in {"new", "buffered"} /\ stage'[r] = "queued"
    /\ \A q \in Requests : \/ q = r
                           \/ stage'[q] = stage[q]
                           \/ stage[q] = "buffered" /\ stage'[q] \in {"absorbed", "discarded"}
    /\ UNCHANGED <<spawned, permitLine>>

LEMMA EnqueuePuts ==
  ASSUME IInv, NEW r \in Requests, EnqueueFollowup(r) \/ EnqueueInterrupt(r)
  PROVE  Puts(r)
  <1>1. stage \in [Requests -> Stages]
    BY LineTypes
  <1>2. CASE EnqueueFollowup(r)
    BY <1>1, <1>2 DEF EnqueueFollowup, Puts, taskVars
  <1>3. CASE EnqueueInterrupt(r)
    <2> DEFINE z == SessionOf[r]
    <2>1. /\ stage[r] = "new" /\ Put(r) /\ UNCHANGED <<spawned, permitLine>>
          /\ stage' = [q \in Requests |->
                          IF q = r THEN "queued"
                          ELSE IF \E i \in 1..Len(buffers[z]) : buffers[z][i] = q
                               THEN "discarded" ELSE stage[q]]
      BY <1>3 DEF EnqueueInterrupt, taskVars
    <2>2. \A i \in 1..Len(buffers[z]) : stage[buffers[z][i]] = "buffered"
      BY SessionOfAssumption DEF IInv, BuffersInv
    <2> HIDE DEF z
    <2>3. QED
      BY <2>1, <2>2 DEF Puts
  <1>4. QED
    BY <1>2, <1>3

LEMMA FlushPuts ==
  ASSUME IInv, NEW s \in Sessions, FlushCollect(s)
  PROVE  \/ UNCHANGED <<stage, queue, spawned, permitLine, lanes, laneObj>>
         \/ \E r \in Requests : Puts(r)
  <1> DEFINE buf == buffers[s]
             r == buf[Len(buf)]
  <1>1. CASE buf = <<>>
    BY <1>1 DEF FlushCollect, taskVars
  <1>2. CASE buf # <<>>
    <2>1. /\ Put(r) /\ UNCHANGED <<spawned, permitLine>>
          /\ stage' = [q \in Requests |->
                          IF q = r THEN "queued"
                          ELSE IF \E i \in 1..Len(buf) : buf[i] = q THEN "absorbed" ELSE stage[q]]
      BY <1>2 DEF FlushCollect, taskVars
    <2>2. buf \in Seq(Requests) /\ \A i \in 1..Len(buf) : stage[buf[i]] = "buffered"
      BY LineTypes DEF IInv, BuffersInv
    <2>3. Len(buf) \in 1..Len(buf)
      BY <1>2, <2>2, EmptySeq
    <2>4. r \in Requests /\ stage[r] = "buffered"
      BY <2>2, <2>3, ElementOfSeq
    <2> HIDE DEF buf, r
    <2>5. Puts(r)
      BY <2>1, <2>2, <2>4 DEF Puts
    <2>6. QED
      BY <2>4, <2>5
  <1>3. QED
    BY <1>1, <1>2

LEMMA PutOrder ==
  ASSUME IInv, IInv', AccountedParts, OrderInv, NEW r \in Requests, Puts(r)
  PROVE  OrderInv' /\ \A s \in Sessions :
             Backlog(s)' = IF s = SessionOf[r] THEN Append(Backlog(s), r) ELSE Backlog(s)
  <1> SUFFICES ASSUME NEW s \in Sessions
               PROVE  /\ InOrderNow(s)'
                      /\ Backlog(s)' = IF s = SessionOf[r] THEN Append(Backlog(s), r) ELSE Backlog(s)
    BY DEF OrderInv
  <1> DEFINE O == Outstanding(s)
  <1>1. /\ queue \in Seq(Requests) /\ queue' = Append(queue, r)
        /\ UNCHANGED <<spawned, permitLine>>
        /\ lanes'[s] # None => laneObj'[lanes'[s]].line = LaneLine(s)
        /\ stage[r] \notin Unfinished /\ stage'[r] = "queued"
        /\ \A q \in Requests : q # r /\ (stage[q] \in Unfinished \/ stage'[q] \in Unfinished)
              => stage'[q] = stage[q]
    BY LineTypes, PutLines DEF Puts, Unfinished, InFlight
  <1>2. /\ r \notin O
        /\ s = SessionOf[r] => Outstanding(s)' = O \cup {r}
        /\ s # SessionOf[r] => Outstanding(s)' = O
    BY <1>1 DEF Outstanding, Unfinished
  <1>3. \A q \in O : Place(q)' = Place(q) /\ q \in Requests /\ q # r
    BY <1>1, <1>2, PlaceKept DEF Outstanding, Unfinished
  <1>4. /\ \A q \in Requests : stage[q] = "queued" <=> \E i \in 1..Len(queue) : queue[i] = q
        /\ \A i \in 1..Len(queue) : queue[i] # r
    <2>1. Lists(queue, InStage({"queued"}))
      BY DEF AccountedParts
    <2>2. QED
      BY <1>1, <2>1, ListsElements DEF InStage, Unfinished
  <1>5. /\ \A p, q : q # r => (Ahead(queue', p, q) <=> Ahead(queue, p, q))
        /\ \A i \in 1..Len(queue) : Ahead(queue', queue[i], r)
        /\ \A p : ~Ahead(queue', r, p)
    BY <1>1, <1>4, AheadAppend
  <1>6. Undisturbed(s, O)
    <2>1. SameAhead(O, LaneLine(s), LaneLine(s)')
      BY <1>1, <1>2, LaneLineNext
    <2>2. SameAhead(O, queue, queue') /\ SameAhead(O, spawned, spawned')
          /\ SameAhead(O, permitLine, permitLine')
      BY <1>1, <1>3, <1>5 DEF SameAhead
    <2>3. QED
      BY <1>3, <2>1, <2>2, UndisturbedBy
  <1>7. CASE s # SessionOf[r]
    BY <1>2, <1>6, <1>7, BacklogStays DEF OrderInv
  <1>8. CASE s = SessionOf[r]
    <2>1. Place(r)' = 4 /\ Passage(s)'[4] = queue'
      BY <1>1 DEF Place, Passage
    <2>2. \A p, q : Before(s, p, q)' <=> \/ Place(p)' < Place(q)'
                                         \/ Place(p)' = Place(q)' /\ Ahead(Passage(s)'[Place(q)'], p, q)
      BY DEF Before
    <2>3. ~Before(s, r, r)'
      BY <1>5, <2>1, <2>2
    <2>4. ASSUME NEW p \in O PROVE Before(s, p, r)' /\ ~Before(s, r, p)'
      <3>1. Place(p)' = Place(p) /\ Place(p) \in 1..4
        BY <1>3, PlaceType
      <3>2. CASE Place(p) = 4
        <4>1. stage[p] = "queued"
          BY <3>2 DEF Place, Outstanding, InFlight
        <4>2. PICK i \in 1..Len(queue) : queue[i] = p
          BY <1>3, <1>4, <4>1
        <4>3. Ahead(queue', p, r) /\ ~Ahead(queue', r, p)
          BY <1>5, <4>2
        <4>4. QED
          BY <2>1, <2>2, <3>1, <3>2, <4>3
      <3>3. CASE Place(p) < 4
        BY <2>1, <2>2, <3>1, <3>3
      <3>4. QED
        BY <3>1, <3>2, <3>3
    <2>5. QED
      BY <1>2, <1>6, <1>8, <2>3, <2>4, BacklogGrows DEF OrderInv
  <1>9. QED
    BY <1>7, <1>8

(* The first of a line has everybody of the line behind it.                *)
LEMMA FirstAhead ==
  ASSUME NEW line \in Seq(Requests), line # <<>>, NEW S, Lists(line, S)
  PROVE  /\ Head(line) \in S
         /\ \A p, q : p # Head(line) /\ q # Head(line) =>
               (Ahead(Tail(line), p, q) <=> Ahead(line, p, q))
         /\ \A q \in S : q # Head(line) => Ahead(line, Head(line), q)
         /\ \A p : ~Ahead(line, p, Head(line))
  <1>1. /\ NoRepeat(line)
        /\ \A i \in 1..Len(line) : line[i] \in S
        /\ \A q \in S : \E i \in 1..Len(line) : line[i] = q
    BY ListsElements
  <1>2. Head(line) \in S
    BY <1>1, TailOfLine
  <1>3. /\ \A p, q : p # Head(line) /\ q # Head(line) =>
               (Ahead(Tail(line), p, q) <=> Ahead(line, p, q))
        /\ \A i \in 1..Len(line) : line[i] # Head(line) => Ahead(line, Head(line), line[i])
        /\ \A p : ~Ahead(line, p, Head(line))
    BY <1>1, AheadTail
  <1>4. QED
    BY <1>1, <1>2, <1>3

(* A request that joins a line has everybody ahead of it.                  *)
LEMMA LastAhead ==
  ASSUME NEW line \in Seq(Requests), NEW S, Lists(line, S), NEW r \in Requests, r \notin S
  PROVE  /\ \A p, q : q # r => (Ahead(Append(line, r), p, q) <=> Ahead(line, p, q))
         /\ \A q \in S : Ahead(Append(line, r), q, r)
         /\ \A p : ~Ahead(Append(line, r), r, p)
  <1>1. /\ \A i \in 1..Len(line) : line[i] # r
        /\ \A q \in S : \E i \in 1..Len(line) : line[i] = q
    BY ListsElements
  <1>2. /\ \A p, q : q # r => (Ahead(Append(line, r), p, q) <=> Ahead(line, p, q))
        /\ \A i \in 1..Len(line) : Ahead(Append(line, r), line[i], r)
        /\ \A p : ~Ahead(Append(line, r), r, p)
    BY <1>1, AheadAppend
  <1>3. QED
    BY <1>1, <1>2

(* Which line the items of a place stand in.                               *)
LEMMA PlaceStage ==
  ASSUME NEW s, NEW q \in Outstanding(s)
  PROVE  /\ q \in Requests /\ SessionOf[q] = s
         /\ Place(q) = 1 <=> stage[q] \in {"lane", "handling"}
         /\ Place(q) = 2 <=> stage[q] = "permit"
         /\ Place(q) = 3 <=> stage[q] = "spawned"
         /\ Place(q) = 4 <=> stage[q] = "queued"
  BY DEF Outstanding, InFlight, Place

LEMMA LoopTakeOrder ==
  ASSUME IInv, AccountedParts, OrderInv, LoopTake
  PROVE  OrderInv' /\ \A s \in Sessions : Backlog(s)' = Backlog(s)
  <1> SUFFICES ASSUME NEW s \in Sessions PROVE Backlog(s)' = Backlog(s) /\ InOrderNow(s)'
    BY DEF OrderInv
  <1> DEFINE O == Outstanding(s)
  <1> PICK r : r = Head(queue)
    OBVIOUS
  <1>1. /\ queue # <<>> /\ queue \in Seq(Requests) /\ spawned \in Seq(Requests)
        /\ Lists(queue, InStage({"queued"})) /\ Lists(spawned, InStage({"spawned"}))
        /\ queue' = Tail(queue) /\ spawned' = Append(spawned, r)
        /\ stage' = [stage EXCEPT ![r] = "spawned"]
        /\ UNCHANGED <<permitLine, lanes, laneObj>>
    BY LineTypes DEF LoopTake, AccountedParts, laneVars
  <1>2. /\ r \in Requests /\ stage[r] = "queued" /\ stage'[r] = "spawned"
        /\ \A q \in Requests : q # r => stage'[q] = stage[q]
        /\ r \notin InStage({"spawned"})
    <2>1. r \in InStage({"queued"})
      BY <1>1, FirstAhead
    <2>2. QED
      BY <1>1, <2>1, LineTypes DEF InStage
  <1>3. /\ \A p, q : p # r /\ q # r => (Ahead(queue', p, q) <=> Ahead(queue, p, q))
        /\ \A q \in InStage({"queued"}) : q # r => Ahead(queue, r, q)
        /\ \A p : ~Ahead(queue, p, r)
    BY <1>1, FirstAhead
  <1>4. /\ \A p, q : q # r => (Ahead(spawned', p, q) <=> Ahead(spawned, p, q))
        /\ \A q \in InStage({"spawned"}) : Ahead(spawned', q, r)
        /\ \A p : ~Ahead(spawned', r, p)
    BY <1>1, <1>2, LastAhead
  <1>5. Outstanding(s)' = O
    BY <1>2 DEF Outstanding, InFlight
  <1>6. Undisturbed(s, O \ {r})
    <2>1. \A q \in O \ {r} : Place(q)' = Place(q)
      BY <1>2, PlaceKept DEF Outstanding
    <2>2. LaneLine(s)' = LaneLine(s)
      BY <1>1 DEF LaneLine
    <2>3. QED
      BY <1>1, <1>3, <1>4, <2>1, <2>2, UndisturbedBy DEF SameAhead
  <1>7. Undisturbed(s, O)
    <2>1. CASE r \notin O
      BY <1>6, <2>1
    <2>2. CASE r \in O
      <3>1. Place(r) = 4 /\ Place(r)' = 3
        BY <1>2 DEF Place
      <3>2. Passage(s)[4] = queue /\ Passage(s)'[3] = spawned'
        BY DEF Passage
      <3>3. ASSUME NEW q \in O \ {r}
            PROVE  /\ Place(q)' = Place(q)
                   /\ Place(q) =< 3 \/ Place(q) >= 4
                   /\ Place(q) = 4 => Ahead(queue, r, q) /\ ~Ahead(queue, q, r)
                   /\ Place(q) = 3 => Ahead(spawned', q, r) /\ ~Ahead(spawned', r, q)
        <4>1. Place(q)' = Place(q) /\ Place(q) \in 1..4
          BY <1>2, PlaceKept, PlaceType DEF Outstanding
        <4>2. /\ Place(q) = 4 => q \in InStage({"queued"})
              /\ Place(q) = 3 => q \in InStage({"spawned"})
          BY PlaceStage DEF InStage
        <4>3. QED
          BY <1>3, <1>4, <4>1, <4>2
      <3>4. ~Ahead(queue, r, r) /\ ~Ahead(spawned', r, r)
        BY <1>3, <1>4
      <3>5. Undisturbed(s, (O \ {r}) \cup {r})
        BY <1>6, <3>1, <3>2, <3>3, <3>4, MoveUndisturbed
      <3>6. (O \ {r}) \cup {r} = O
        BY <2>2
      <3>7. QED
        BY <3>5, <3>6
    <2>3. QED
      BY <2>1, <2>2
  <1>8. QED
    BY <1>5, <1>7, BacklogStays DEF OrderInv

(* An item that leaves its session's line, by the end of its handler or    *)
(* before its handler was called.                                          *)
LEMMA LeaveOrder ==
  ASSUME IInv', OrderInv, NEW r \in Requests, stage[r] \in Unfinished, stage'[r] \notin Unfinished,
         \A q \in Requests : q # r => stage'[q] = stage[q],
         \A p, q : p # r /\ q # r =>
             /\ Ahead(queue', p, q) <=> Ahead(queue, p, q)
             /\ Ahead(spawned', p, q) <=> Ahead(spawned, p, q)
             /\ Ahead(permitLine', p, q) <=> Ahead(permitLine, p, q),
         \A s \in Sessions : SameAhead(Outstanding(s)', LaneLine(s), LaneLine(s)')
  PROVE  /\ OrderInv'
         /\ \A s \in Sessions : s # SessionOf[r] => Backlog(s)' = Backlog(s)
         /\ \A s \in Sessions : s = SessionOf[r] =>
               \E k \in 1..Len(Backlog(s)) :
                   Backlog(s)[k] = r /\ Backlog(s)' = RemoveAt(Backlog(s), k)
  <1> SUFFICES ASSUME NEW s \in Sessions
               PROVE  /\ InOrderNow(s)'
                      /\ s # SessionOf[r] => Backlog(s)' = Backlog(s)
                      /\ s = SessionOf[r] =>
                            \E k \in 1..Len(Backlog(s)) :
                                Backlog(s)[k] = r /\ Backlog(s)' = RemoveAt(Backlog(s), k)
    BY DEF OrderInv
  <1>1. Outstanding(s)' = Outstanding(s) \ {r}
    BY DEF Outstanding, Unfinished
  <1>2. Undisturbed(s, Outstanding(s) \ {r})
    <2>1. \A q \in Outstanding(s) \ {r} : Place(q)' = Place(q)
      BY PlaceKept DEF Outstanding
    <2>2. SameAhead(Outstanding(s) \ {r}, LaneLine(s), LaneLine(s)')
      BY <1>1
    <2>3. /\ SameAhead(Outstanding(s) \ {r}, queue, queue')
          /\ SameAhead(Outstanding(s) \ {r}, spawned, spawned')
          /\ SameAhead(Outstanding(s) \ {r}, permitLine, permitLine')
      BY DEF SameAhead
    <2>4. QED
      BY <2>1, <2>2, <2>3, UndisturbedBy
  <1>3. CASE s = SessionOf[r]
    <2>1. r \in Outstanding(s)
      BY <1>3 DEF Outstanding, Unfinished
    <2>2. QED
      BY <1>1, <1>2, <1>3, <2>1, BacklogShrinks DEF OrderInv
  <1>4. CASE s # SessionOf[r]
    <2>1. Outstanding(s) \ {r} = Outstanding(s)
      BY <1>4 DEF Outstanding
    <2>2. QED
      BY <1>1, <1>2, <1>4, <2>1, BacklogStays DEF OrderInv
  <1>5. QED
    BY <1>3, <1>4

LEMMA StartCancelledOrder ==
  ASSUME IInv, IInv', AccountedParts, OrderInv, StartCancelled
  PROVE  /\ OrderInv'
         /\ \E r \in Requests :
              /\ stage[r] = "spawned" /\ stage' = [stage EXCEPT ![r] = "cancelled"]
              /\ \A s \in Sessions : s # SessionOf[r] => Backlog(s)' = Backlog(s)
              /\ \A s \in Sessions : s = SessionOf[r] =>
                    \E k \in 1..Len(Backlog(s)) :
                        Backlog(s)[k] = r /\ Backlog(s)' = RemoveAt(Backlog(s), k)
  <1> PICK r : r = Head(spawned)
    OBVIOUS
  <1>1. /\ r \in Requests /\ stage[r] = "spawned" /\ spawned # <<>> /\ spawned' = Tail(spawned)
        /\ stage' = [stage EXCEPT ![r] = "cancelled"]
        /\ UNCHANGED <<queue, permitLine>>
        /\ \A s \in Sessions : lanes'[s] # None => laneObj'[lanes'[s]].line = LaneLine(s)
    BY StartCancelledLines
  <1>2. stage'[r] = "cancelled" /\ \A q \in Requests : q # r => stage'[q] = stage[q]
    BY <1>1, LineTypes
  <1>3. \A p, q : p # r /\ q # r => (Ahead(spawned', p, q) <=> Ahead(spawned, p, q))
    <2>1. spawned \in Seq(Requests) /\ Lists(spawned, InStage({"spawned"}))
      BY LineTypes DEF AccountedParts
    <2>2. QED
      BY <1>1, <2>1, FirstAhead
  <1>4. \A s \in Sessions : SameAhead(Outstanding(s)', LaneLine(s), LaneLine(s)')
    BY <1>1, LaneLineNext
  <1>5. stage[r] \in Unfinished /\ stage'[r] \notin Unfinished
    BY <1>1, <1>2 DEF Unfinished, InFlight
  <1>6. /\ OrderInv'
        /\ \A s \in Sessions : s # SessionOf[r] => Backlog(s)' = Backlog(s)
        /\ \A s \in Sessions : s = SessionOf[r] =>
              \E k \in 1..Len(Backlog(s)) :
                  Backlog(s)[k] = r /\ Backlog(s)' = RemoveAt(Backlog(s), k)
    BY <1>1, <1>2, <1>3, <1>4, <1>5, LeaveOrder
  <1>7. QED
    BY <1>1, <1>6

LEMMA FinishOrder ==
  ASSUME IInv, IInv', AccountedParts, OrderInv,
         NEW i \in 1..Len(permitLine), NEW outcome \in Outcomes, FinishHandler(i, outcome)
  PROVE  /\ OrderInv'
         /\ \E r \in Requests :
              /\ stage[r] = "handling" /\ stage' = [stage EXCEPT ![r] = outcome]
              /\ \A s \in Sessions : s # SessionOf[r] => Backlog(s)' = Backlog(s)
              /\ \A s \in Sessions : s = SessionOf[r] => Backlog(s)' = Tail(Backlog(s))
  <1> PICK r : r = permitLine[i]
    OBVIOUS
  <1>1. /\ r \in Requests /\ stage[r] = "handling"
        /\ stage' = [stage EXCEPT ![r] = outcome]
        /\ permitLine' = RemoveAt(permitLine, i)
        /\ UNCHANGED <<queue, spawned>>
        /\ \A s \in Sessions : s = SessionOf[r] =>
              /\ LaneLine(s) # <<>> /\ Head(LaneLine(s)) = r
              /\ lanes'[s] # None => laneObj'[lanes'[s]].line = Tail(LaneLine(s))
        /\ \A s \in Sessions : s # SessionOf[r] => LaneLine(s)' = LaneLine(s)
    BY FinishLines
  <1>2. /\ stage'[r] \notin Unfinished /\ stage[r] \in Unfinished
        /\ \A q \in Requests : q # r => stage'[q] = stage[q]
    BY <1>1, LineTypes DEF Unfinished, InFlight, Outcomes
  <1>3. \A p, q : p # r /\ q # r => (Ahead(permitLine', p, q) <=> Ahead(permitLine, p, q))
    BY <1>1, LineTypes, AheadRemove
  <1>4. ASSUME NEW s \in Sessions PROVE SameAhead(Outstanding(s)', LaneLine(s), LaneLine(s)')
    <2>1. CASE s # SessionOf[r]
      BY <1>1, <2>1 DEF SameAhead
    <2>2. CASE s = SessionOf[r]
      <3>1. SameAhead(Outstanding(s)', Tail(LaneLine(s)), LaneLine(s)')
        BY <1>1, <2>2, LaneLineNext
      <3>2. \A q \in Outstanding(s)' : q # r
        BY <1>2 DEF Outstanding, Unfinished
      <3>3. LaneLine(s) \in Seq(Requests) /\ Lists(LaneLine(s), AtLaneOf(s))
        BY LineTypes DEF AccountedParts
      <3>4. \A p, q : p # r /\ q # r =>
               (Ahead(Tail(LaneLine(s)), p, q) <=> Ahead(LaneLine(s), p, q))
        BY <1>1, <2>2, <3>3, FirstAhead
      <3>5. QED
        BY <3>1, <3>2, <3>4 DEF SameAhead
    <2>3. QED
      BY <2>1, <2>2
  <1>5. /\ OrderInv'
        /\ \A s \in Sessions : s # SessionOf[r] => Backlog(s)' = Backlog(s)
        /\ \A s \in Sessions : s = SessionOf[r] =>
              \E k \in 1..Len(Backlog(s)) :
                  Backlog(s)[k] = r /\ Backlog(s)' = RemoveAt(Backlog(s), k)
    BY <1>1, <1>2, <1>3, <1>4, LeaveOrder
  <1>6. ASSUME NEW s \in Sessions, s = SessionOf[r] PROVE Backlog(s)' = Tail(Backlog(s))
    <2>1. r \in Handling
      BY <1>1 DEF Handling
    <2>2. Backlog(s) # <<>> /\ Head(Backlog(s)) = r /\ RemoveAt(Backlog(s), 1) = Tail(Backlog(s))
      BY <1>6, <2>1, HandledIsFirst DEF FirstHandled
    <2>3. PICK k \in 1..Len(Backlog(s)) : Backlog(s)[k] = r /\ Backlog(s)' = RemoveAt(Backlog(s), k)
      BY <1>5, <1>6
    <2>4. Backlog(s) \in Seq(Requests) /\ NoRepeat(Backlog(s))
      BY ListsElements DEF OrderInv, InOrderNow, Sorted
    <2>5. 1 \in 1..Len(Backlog(s)) /\ Head(Backlog(s)) = Backlog(s)[1]
      BY <2>2, <2>4, EmptySeq, TailOfLine
    <2>6. k = 1
      BY <2>2, <2>3, <2>4, <2>5 DEF NoRepeat
    <2>7. QED
      BY <2>2, <2>3, <2>6
  <1>7. QED
    BY <1>1, <1>5, <1>6

(* r, the first of its line and of no other, moves on to a line ahead.     *)
LEMMA StartTaskOrder ==
  ASSUME IInv, AccountedParts, OrderInv, StartTask
  PROVE  OrderInv' /\ \A s \in Sessions : Backlog(s)' = Backlog(s)
  <1> SUFFICES ASSUME NEW s \in Sessions PROVE Backlog(s)' = Backlog(s) /\ InOrderNow(s)'
    BY DEF OrderInv
  <1> DEFINE O == Outstanding(s)
  <1> PICK r : r = Head(spawned)
    OBVIOUS
  <1>1. /\ r \in Requests /\ stage[r] = "spawned" /\ spawned # <<>> /\ spawned' = Tail(spawned)
        /\ permitLine' = Append(permitLine, r) /\ stage'[r] \in HasLane
        /\ \A q \in Requests : q # r => stage'[q] = stage[q]
        /\ queue' = queue
        /\ s # SessionOf[r] => LaneLine(s)' = LaneLine(s)
        /\ s = SessionOf[r] =>
              \/ /\ stage'[r] = AtLane(LaneLine(s))
                 /\ LaneLine(s)' = Append(LaneLine(s), r)
                 /\ PermitFree
              \/ stage'[r] = "permit" /\ LaneLine(s)' = LaneLine(s)
    BY StartTaskLines
  <1>2. /\ spawned \in Seq(Requests) /\ Lists(spawned, InStage({"spawned"}))
        /\ permitLine \in Seq(Requests) /\ Lists(permitLine, InStage(HasLane))
        /\ LaneLine(s) \in Seq(Requests) /\ Lists(LaneLine(s), AtLaneOf(s))
        /\ r \notin InStage(HasLane) /\ r \notin AtLaneOf(s)
    BY <1>1, LineTypes DEF AccountedParts, InStage, HasLane, AtLaneOf
  <1>3. /\ \A p, q : p # r /\ q # r => (Ahead(spawned', p, q) <=> Ahead(spawned, p, q))
        /\ \A q \in InStage({"spawned"}) : q # r => Ahead(spawned, r, q)
        /\ \A p : ~Ahead(spawned, p, r)
    BY <1>1, <1>2, FirstAhead
  <1>4. /\ \A p, q : q # r => (Ahead(permitLine', p, q) <=> Ahead(permitLine, p, q))
        /\ \A q \in InStage(HasLane) : Ahead(permitLine', q, r)
        /\ \A p : ~Ahead(permitLine', r, p)
    BY <1>1, <1>2, LastAhead
  <1>5. LaneLine(s)' = LaneLine(s) \/
        /\ \A p, q : q # r => (Ahead(LaneLine(s)', p, q) <=> Ahead(LaneLine(s), p, q))
        /\ \A q \in AtLaneOf(s) : Ahead(LaneLine(s)', q, r)
        /\ \A p : ~Ahead(LaneLine(s)', r, p)
    <2>1. /\ \A p, q : q # r =>
               (Ahead(Append(LaneLine(s), r), p, q) <=> Ahead(LaneLine(s), p, q))
          /\ \A q \in AtLaneOf(s) : Ahead(Append(LaneLine(s), r), q, r)
          /\ \A p : ~Ahead(Append(LaneLine(s), r), r, p)
      BY <1>1, <1>2, LastAhead
    <2>2. LaneLine(s)' = LaneLine(s) \/ LaneLine(s)' = Append(LaneLine(s), r)
      BY <1>1
    <2>3. QED
      BY <2>1, <2>2
  <1>6. Outstanding(s)' = O
    BY <1>1 DEF Outstanding, InFlight, HasLane
  <1>7. \A q \in O \ {r} : Place(q)' = Place(q) /\ Place(q) \in 1..4
    BY <1>1, PlaceKept, PlaceType DEF Outstanding
  <1>8. Undisturbed(s, O \ {r})
    BY <1>1, <1>3, <1>4, <1>5, <1>7, UndisturbedBy DEF SameAhead
  <1>9. CASE r \notin O
    BY <1>6, <1>8, <1>9, BacklogStays DEF OrderInv
  <1>10. ASSUME r \in O PROVE Undisturbed(s, (O \ {r}) \cup {r})
    <2>1. Place(r) = 3 /\ Passage(s)[3] = spawned /\ s = SessionOf[r]
      BY <1>1, <1>10 DEF Place, Passage, Outstanding
    <2>2. \A q \in O \ {r} : Place(q) = 3 => Ahead(spawned, r, q) /\ ~Ahead(spawned, q, r)
      BY <1>3, PlaceStage DEF InStage
    <2>3. CASE stage'[r] = "permit"
      <3>1. Place(r)' = 2 /\ Passage(s)'[2] = permitLine'
        BY <2>3 DEF Place, Passage
      <3>2. \A q \in O \ {r} : Place(q) = 2 => Ahead(permitLine', q, r) /\ ~Ahead(permitLine', r, q)
        BY <1>4, PlaceStage DEF InStage, HasLane
      <3>3. QED
        BY <1>3, <1>4, <1>7, <1>8, <2>1, <2>2, <3>1, <3>2, MoveUndisturbed
    <2>4. CASE /\ stage'[r] = AtLane(LaneLine(s))
               /\ LaneLine(s)' = Append(LaneLine(s), r)
               /\ PermitFree
      <3>1. Place(r)' = 1 /\ Passage(s)'[1] = LaneLine(s)'
        BY <2>4 DEF Place, Passage, AtLane
      <3>2. \A q \in O \ {r} : Place(q) = 1 => Ahead(LaneLine(s)', q, r) /\ ~Ahead(LaneLine(s)', r, q)
        <4>1. /\ \A q \in AtLaneOf(s) : Ahead(LaneLine(s)', q, r)
              /\ \A p : ~Ahead(LaneLine(s)', r, p)
          BY <1>1, <1>2, <2>4, LastAhead
        <4>2. QED
          BY <4>1, PlaceStage DEF AtLaneOf
      <3>3. \A q \in O \ {r} : Place(q) # 2
        <4>1. \A q \in InStage(HasLane) : stage[q] # "permit"
          BY <1>2, <2>4, ListsElements DEF PermitFree
        <4>2. QED
          BY <4>1, PlaceStage DEF InStage, HasLane
      <3>4. ~Ahead(LaneLine(s)', r, r)
        BY <1>1, <1>2, <2>4, LastAhead
      <3>5. \A q \in O \ {r} : Place(q) =< 1 \/ Place(q) >= 3
        BY <1>7, <3>3
      <3>6. QED
        BY <1>3, <1>7, <1>8, <2>1, <2>2, <3>1, <3>2, <3>4, <3>5, MoveUndisturbed
    <2>5. QED
      BY <1>1, <2>1, <2>3, <2>4
  <1>11. CASE r \in O
    <2>1. (O \ {r}) \cup {r} = O
      BY <1>11
    <2>2. QED
      BY <1>6, <1>10, <1>11, <2>1, BacklogStays DEF OrderInv
  <1>12. QED
    BY <1>9, <1>11

LEMMA ResumeOrder ==
  ASSUME IInv, AccountedParts, OrderInv, NEW i \in 1..Len(permitLine), ResumeWithPermit(i)
  PROVE  OrderInv' /\ \A s \in Sessions : Backlog(s)' = Backlog(s)
  <1> SUFFICES ASSUME NEW s \in Sessions PROVE Backlog(s)' = Backlog(s) /\ InOrderNow(s)'
    BY DEF OrderInv
  <1> DEFINE O == Outstanding(s)
  <1> PICK r : r = permitLine[i]
    OBVIOUS
  <1>1. /\ r \in Requests /\ stage[r] = "permit"
        /\ \A q \in Requests : q # r => stage'[q] = stage[q]
        /\ UNCHANGED <<queue, spawned, permitLine>>
        /\ s # SessionOf[r] => LaneLine(s)' = LaneLine(s)
        /\ s = SessionOf[r] => /\ stage'[r] = AtLane(LaneLine(s))
                               /\ LaneLine(s)' = Append(LaneLine(s), r)
    BY ResumeLines
  <1>2. stage'[r] \in {"lane", "handling"}
    BY SessionOfAssumption, ResumeLines DEF AtLane
  <1>3. /\ permitLine \in Seq(Requests) /\ Lists(permitLine, InStage(HasLane))
        /\ LaneLine(s) \in Seq(Requests) /\ Lists(LaneLine(s), AtLaneOf(s))
        /\ r \notin AtLaneOf(s)
    BY <1>1, LineTypes DEF AccountedParts, AtLaneOf
  <1>4. /\ \A j \in 1..(i - 1) : stage[permitLine[j]] # "permit"
        /\ \A j, k \in 1..Len(permitLine) : permitLine[j] = permitLine[k] => j = k
        /\ \A q \in InStage(HasLane) : \E j \in 1..Len(permitLine) : permitLine[j] = q
        /\ Len(permitLine) \in Nat
    BY <1>3, ListsElements, LenProperties DEF ResumeWithPermit, NoRepeat
  <1>5. LaneLine(s)' = LaneLine(s) \/
        /\ \A p, q : q # r => (Ahead(LaneLine(s)', p, q) <=> Ahead(LaneLine(s), p, q))
        /\ \A q \in AtLaneOf(s) : Ahead(LaneLine(s)', q, r)
        /\ \A p : ~Ahead(LaneLine(s)', r, p)
    <2>1. /\ \A p, q : q # r =>
               (Ahead(Append(LaneLine(s), r), p, q) <=> Ahead(LaneLine(s), p, q))
          /\ \A q \in AtLaneOf(s) : Ahead(Append(LaneLine(s), r), q, r)
          /\ \A p : ~Ahead(Append(LaneLine(s), r), r, p)
      BY <1>1, <1>3, LastAhead
    <2>2. LaneLine(s)' = LaneLine(s) \/ LaneLine(s)' = Append(LaneLine(s), r)
      BY <1>1
    <2>3. QED
      BY <2>1, <2>2
  <1>6. Outstanding(s)' = O
    BY <1>1, <1>2 DEF Outstanding, InFlight
  <1>7. \A q \in O \ {r} : Place(q)' = Place(q) /\ Place(q) \in 1..4
    BY <1>1, PlaceKept, PlaceType DEF Outstanding
  <1>8. Undisturbed(s, O \ {r})
    BY <1>1, <1>5, <1>7, UndisturbedBy DEF SameAhead
  <1>9. CASE r \notin O
    BY <1>6, <1>8, <1>9, BacklogStays DEF OrderInv
  <1>10. ASSUME r \in O PROVE Undisturbed(s, (O \ {r}) \cup {r})
    <2>1. Place(r) = 2 /\ Passage(s)[2] = permitLine /\ s = SessionOf[r]
      BY <1>1, <1>10 DEF Place, Passage, Outstanding
    <2>2. Place(r)' = 1 /\ Passage(s)'[1] = LaneLine(s)'
      BY <1>2 DEF Place, Passage
    <2>3. ~Ahead(permitLine, r, r)
      <3>1. ASSUME NEW j \in 1..Len(permitLine), NEW k \in 1..Len(permitLine),
                   j < k, permitLine[j] = permitLine[k]
            PROVE  FALSE
        BY <1>4, <3>1
      <3>2. QED
        BY <3>1 DEF Ahead
    <2>4. ASSUME NEW q \in O \ {r}, Place(q) = 2
          PROVE  Ahead(permitLine, r, q) /\ ~Ahead(permitLine, q, r)
      <3>1. q \in InStage(HasLane) /\ stage[q] = "permit" /\ q # r
        BY <2>4, PlaceStage DEF InStage, HasLane
      <3>2. PICK j \in 1..Len(permitLine) : permitLine[j] = q
        BY <1>4, <3>1
      <3>3. j # i /\ j \notin 1..(i - 1)
        BY <1>4, <3>1, <3>2
      <3>4. i < j
        BY <1>4, <3>3
      <3>5. Ahead(permitLine, r, q)
        BY <3>2, <3>4 DEF Ahead
      <3>6. ASSUME NEW j1 \in 1..Len(permitLine), NEW k1 \in 1..Len(permitLine),
                   j1 < k1, permitLine[j1] = q, permitLine[k1] = r
            PROVE  FALSE
        <4>1. j1 = j /\ k1 = i
          BY <1>4, <3>2, <3>6
        <4>2. QED
          BY <1>4, <3>4, <3>6, <4>1
      <3>7. QED
        BY <3>5, <3>6 DEF Ahead
    <2>5. /\ \A q \in AtLaneOf(s) : Ahead(LaneLine(s)', q, r)
          /\ \A p : ~Ahead(LaneLine(s)', r, p)
      <3>1. LaneLine(s)' = Append(LaneLine(s), r)
        BY <1>1, <2>1
      <3>2. /\ \A q \in AtLaneOf(s) : Ahead(Append(LaneLine(s), r), q, r)
            /\ \A p : ~Ahead(Append(LaneLine(s), r), r, p)
        BY <1>1, <1>3, LastAhead
      <3>3. QED
        BY <3>1, <3>2
    <2>6. \A q \in O \ {r} : Place(q) = 1 => Ahead(LaneLine(s)', q, r) /\ ~Ahead(LaneLine(s)', r, q)
      BY <2>5, PlaceStage DEF AtLaneOf
    <2>7. \A q \in O \ {r} : Place(q) =< 1 \/ Place(q) >= 2
      BY <1>7
    <2>8. QED
      BY <1>7, <1>8, <2>1, <2>2, <2>3, <2>4, <2>5, <2>6, <2>7, MoveUndisturbed
  <1>11. CASE r \in O
    <2>1. (O \ {r}) \cup {r} = O
      BY <1>11
    <2>2. QED
      BY <1>6, <1>10, <1>11, <2>1, BacklogStays DEF OrderInv
  <1>12. QED
    BY <1>9, <1>11

-----------------------------------------------------------------------------
(* SerialLanes                                                             *)

SerialInv == IInv /\ PermitInv /\ AccountedParts /\ OrderInv

LEMMA SameBacklogs ==
  ASSUME \A s \in Sessions : Backlog(s)' = Backlog(s)
  PROVE  [s \in Sessions |-> Backlog(s)]' = [s \in Sessions |-> Backlog(s)]
  OBVIOUS

(* A put is an Accept.                                                     *)
LEMMA PutsAccept ==
  ASSUME NEW r \in Requests, Puts(r),
         \A s \in Sessions :
             Backlog(s)' = IF s = SessionOf[r] THEN Append(Backlog(s), r) ELSE Backlog(s)
  PROVE  Abstract!Next
  <1>1. r \notin EverPut /\ EverPut' = EverPut \cup {r} /\ Handling' = Handling
    BY DEF Puts, EverPut, Handling, InFlight, Outcomes
  <1>2. [s \in Sessions |-> Backlog(s)]' =
          [[s \in Sessions |-> Backlog(s)] EXCEPT ![SessionOf[r]] = Append(@, r)]
    BY SessionOfAssumption
  <1>3. Abstract!Accept(r)
    BY <1>1, <1>2 DEF Abstract!Accept
  <1>4. QED
    BY <1>3 DEF Abstract!Next

(* A step that moves one item on, up to the call of its handler.           *)
LEMMA MoveOn ==
  ASSUME FirstHandled', ConcurrencyCap', IsFiniteSet(Handling)', NEW r \in Requests,
         stage[r] \in {"queued", "spawned", "permit", "lane"}, stage'[r] \in InFlight,
         \A q \in Requests : q # r => stage'[q] = stage[q],
         \A s \in Sessions : Backlog(s)' = Backlog(s)
  PROVE  Abstract!Next \/ UNCHANGED Abstract!vars
  <1>1. EverPut' = EverPut
    BY DEF EverPut, InFlight
  <1>2. [s \in Sessions |-> Backlog(s)]' = [s \in Sessions |-> Backlog(s)]
    BY SameBacklogs
  <1>3. CASE stage'[r] # "handling"
    <2>1. Handling' = Handling
      BY <1>3 DEF Handling
    <2>2. QED
      BY <1>1, <1>2, <2>1 DEF Abstract!vars
  <1>4. CASE stage'[r] = "handling"
    <2> PICK z \in Sessions : z = SessionOf[r]
      BY SessionOfAssumption
    <2>1. Handling' = Handling \cup {r} /\ r \notin Handling
      BY <1>4 DEF Handling
    <2>2. Backlog(z) # <<>> /\ Head(Backlog(z)) = r
      <3>1. r \in Handling'
        BY <2>1
      <3>2. Backlog(z)' # <<>> /\ Head(Backlog(z)') = r
        BY <3>1 DEF FirstHandled
      <3>3. QED
        BY <3>2
    <2>3. Cardinality(Handling) < MaxConcurrency
      <3>1. IsFiniteSet(Handling)
        BY <2>1, FS_Subset
      <3>2. Cardinality(Handling \cup {r}) = Cardinality(Handling) + 1
            /\ Cardinality(Handling) \in Nat
        BY <2>1, <3>1, FS_AddElement, FS_CardinalityType
      <3>3. Cardinality(Handling \cup {r}) =< MaxConcurrency
        BY <2>1 DEF ConcurrencyCap
      <3>4. QED
        BY <3>2, <3>3, MaxConcurrencyAssumption
    <2>4. [s \in Sessions |-> Backlog(s)][z] = Backlog(z)
      OBVIOUS
    <2>5. Abstract!Cardinality(Handling) = Cardinality(Handling)
      BY DEF Abstract!Cardinality, Cardinality
    <2>6. Abstract!Begin(z)
      BY <1>1, <1>2, <2>1, <2>2, <2>3, <2>4, <2>5 DEF Abstract!Begin
    <2>7. QED
      BY <2>6 DEF Abstract!Next
  <1>5. QED
    BY <1>3, <1>4

LEMMA LeaveFinishes ==
  ASSUME SerialInv, NEW r \in Requests, stage[r] = "handling", NEW outcome \in Outcomes,
         stage' = [stage EXCEPT ![r] = outcome],
         \A s \in Sessions : s # SessionOf[r] => Backlog(s)' = Backlog(s),
         \A s \in Sessions : s = SessionOf[r] => Backlog(s)' = Tail(Backlog(s))
  PROVE  Abstract!Next
  <1> PICK z \in Sessions : z = SessionOf[r]
    BY SessionOfAssumption
  <1>1. stage'[r] = outcome /\ \A q \in Requests : q # r => stage'[q] = stage[q]
    BY LineTypes DEF SerialInv
  <1>2. EverPut' = EverPut /\ r \in Handling /\ Handling' = Handling \ {r}
    BY <1>1 DEF EverPut, Handling, Outcomes, InFlight
  <1>3. Backlog(z) # <<>> /\ Head(Backlog(z)) = r
    BY <1>2, HandledIsFirst DEF SerialInv, FirstHandled
  <1>4. [s \in Sessions |-> Backlog(s)]' =
          [[s \in Sessions |-> Backlog(s)] EXCEPT ![z] = Tail(@)]
    OBVIOUS
  <1>5. [s \in Sessions |-> Backlog(s)][z] = Backlog(z)
    OBVIOUS
  <1>6. Abstract!Finish(z)
    BY <1>2, <1>3, <1>4, <1>5 DEF Abstract!Finish
  <1>7. QED
    BY <1>6 DEF Abstract!Next

LEMMA CancelWithdraws ==
  ASSUME SerialInv, NEW r \in Requests, stage[r] = "spawned",
         stage' = [stage EXCEPT ![r] = "cancelled"],
         \A s \in Sessions : s # SessionOf[r] => Backlog(s)' = Backlog(s),
         \A s \in Sessions : s = SessionOf[r] =>
             \E k \in 1..Len(Backlog(s)) :
                 Backlog(s)[k] = r /\ Backlog(s)' = RemoveAt(Backlog(s), k)
  PROVE  Abstract!Next
  <1> PICK z \in Sessions : z = SessionOf[r]
    BY SessionOfAssumption
  <1>1. stage'[r] = "cancelled" /\ \A q \in Requests : q # r => stage'[q] = stage[q]
    BY LineTypes DEF SerialInv
  <1>2. EverPut' = EverPut /\ r \notin Handling /\ Handling' = Handling
    BY <1>1 DEF EverPut, Handling, InFlight
  <1>3. PICK k \in 1..Len(Backlog(z)) :
            Backlog(z)[k] = r /\ Backlog(z)' = RemoveAt(Backlog(z), k)
    OBVIOUS
  <1>4. [s \in Sessions |-> Backlog(s)]' =
          [[s \in Sessions |-> Backlog(s)] EXCEPT ![z] = RemoveAt(@, k)]
    BY <1>3
  <1>5. [s \in Sessions |-> Backlog(s)][z] = Backlog(z)
    OBVIOUS
  <1>6. Abstract!RemoveAt(Backlog(z), k) = RemoveAt(Backlog(z), k)
    BY DEF Abstract!RemoveAt, RemoveAt
  <1>7. Abstract!Withdraw(z, k)
    BY <1>2, <1>3, <1>4, <1>5, <1>6 DEF Abstract!Withdraw
  <1>8. QED
    BY <1>3, <1>5, <1>7 DEF Abstract!Next

(* Nothing that SerialLanes sees changes.                                  *)
LEMMA Stutters ==
  ASSUME OrderInv, UNCHANGED <<queue, spawned, permitLine, lanes, laneObj>>,
         \A q \in Requests : \/ stage'[q] = stage[q]
                             \/ stage[q] = "new" /\ stage'[q] \in {"rejected", "buffered"}
  PROVE  OrderInv' /\ UNCHANGED Abstract!vars
  <1>1. OrderInv' /\ \A s \in Sessions : Backlog(s)' = Backlog(s)
    BY NobodyMoves DEF Unfinished, InFlight
  <1>2. EverPut' = EverPut /\ Handling' = Handling
    BY DEF EverPut, Handling, InFlight, Outcomes
  <1>3. [s \in Sessions |-> Backlog(s)]' = [s \in Sessions |-> Backlog(s)]
    BY <1>1, SameBacklogs
  <1>4. QED
    BY <1>1, <1>2, <1>3 DEF Abstract!vars

SerialFacts == FirstHandled /\ ConcurrencyCap /\ IsFiniteSet(Handling)

(* Every step keeps the order and is a step of SerialLanes, or none.       *)
LEMMA StepIsSerial ==
  ASSUME SerialInv, IInv', [Next]_vars
  PROVE  OrderInv' /\ (SerialFacts' => Abstract!Next \/ UNCHANGED Abstract!vars)
  <1>1. IInv /\ AccountedParts /\ OrderInv /\ stage \in [Requests -> Stages]
    BY LineTypes DEF SerialInv
  <1>2. ASSUME NEW r \in Requests, Puts(r) PROVE OrderInv' /\ Abstract!Next
    <2>1. OrderInv' /\ \A s \in Sessions :
              Backlog(s)' = IF s = SessionOf[r] THEN Append(Backlog(s), r) ELSE Backlog(s)
      BY <1>1, <1>2, PutOrder
    <2>2. Abstract!Next
      BY <1>2, <2>1, PutsAccept
    <2>3. QED
      BY <2>1, <2>2
  <1>3. ASSUME NEW r \in Requests, Enqueue(r)
        PROVE  OrderInv' /\ (Abstract!Next \/ UNCHANGED Abstract!vars)
    <2>1. CASE EnqueueFollowup(r) \/ EnqueueInterrupt(r)
      BY <1>1, <1>2, <2>1, EnqueuePuts
    <2>2. CASE RejectFull(r) \/ EnqueueCollect(r)
      <3>1. UNCHANGED <<queue, spawned, permitLine, lanes, laneObj>>
        BY <2>2 DEF RejectFull, EnqueueCollect, laneVars, taskVars
      <3>2. stage[r] = "new" /\ (\/ stage' = [stage EXCEPT ![r] = "rejected"]
                                 \/ stage' = [stage EXCEPT ![r] = "buffered"])
        BY <2>2 DEF RejectFull, EnqueueCollect
      <3>3. \A q \in Requests : \/ stage'[q] = stage[q]
                                \/ stage[q] = "new" /\ stage'[q] \in {"rejected", "buffered"}
        BY <1>1, <3>2
      <3>4. QED
        BY <1>1, <3>1, <3>3, Stutters
    <2>3. QED
      BY <1>3, <2>1, <2>2 DEF Enqueue
  <1>4. ASSUME NEW s \in Sessions, FlushCollect(s)
        PROVE  OrderInv' /\ (Abstract!Next \/ UNCHANGED Abstract!vars)
    <2>1. CASE UNCHANGED <<stage, queue, spawned, permitLine, lanes, laneObj>>
      BY <1>1, <2>1, Stutters
    <2>2. QED
      BY <1>1, <1>2, <1>4, <2>1, FlushPuts
  <1>5. CASE LoopTake
    <2>1. OrderInv' /\ \A s \in Sessions : Backlog(s)' = Backlog(s)
      BY <1>1, <1>5, LoopTakeOrder
    <2> PICK r : r = Head(queue)
      OBVIOUS
    <2>2. queue \in Seq(Requests) /\ queue # <<>> /\ Lists(queue, InStage({"queued"}))
          /\ stage' = [stage EXCEPT ![r] = "spawned"]
      BY <1>1, <1>5, LineTypes DEF LoopTake, AccountedParts
    <2>3. r \in Requests /\ stage[r] = "queued"
      <3>1. r \in InStage({"queued"})
        BY <2>2, FirstAhead
      <3>2. QED
        BY <3>1 DEF InStage
    <2>4. stage'[r] \in InFlight /\ \A q \in Requests : q # r => stage'[q] = stage[q]
      BY <1>1, <2>2, <2>3 DEF InFlight
    <2>5. QED
      BY <2>1, <2>3, <2>4, MoveOn DEF SerialFacts
  <1>6. CASE StartCancelled
    <2>1. PICK r \in Requests :
              /\ stage[r] = "spawned" /\ stage' = [stage EXCEPT ![r] = "cancelled"]
              /\ \A s \in Sessions : s # SessionOf[r] => Backlog(s)' = Backlog(s)
              /\ \A s \in Sessions : s = SessionOf[r] =>
                    \E k \in 1..Len(Backlog(s)) :
                        Backlog(s)[k] = r /\ Backlog(s)' = RemoveAt(Backlog(s), k)
      BY <1>1, <1>6, StartCancelledOrder
    <2>2. OrderInv'
      BY <1>1, <1>6, StartCancelledOrder
    <2>3. QED
      BY <2>1, <2>2, CancelWithdraws
  <1>7. CASE StartTask
    <2>1. OrderInv' /\ \A s \in Sessions : Backlog(s)' = Backlog(s)
      BY <1>1, <1>7, StartTaskOrder
    <2> PICK r : r = Head(spawned)
      OBVIOUS
    <2>2. /\ r \in Requests /\ stage[r] = "spawned" /\ stage'[r] \in HasLane
          /\ \A q \in Requests : q # r => stage'[q] = stage[q]
      BY <1>1, <1>7, StartTaskLines
    <2>3. stage'[r] \in InFlight
      BY <2>2 DEF InFlight, HasLane
    <2>4. QED
      BY <2>1, <2>2, <2>3, MoveOn DEF SerialFacts
  <1>8. ASSUME NEW i \in 1..Len(permitLine), ResumeWithPermit(i)
        PROVE  OrderInv' /\ (SerialFacts' => Abstract!Next \/ UNCHANGED Abstract!vars)
    <2>1. OrderInv' /\ \A s \in Sessions : Backlog(s)' = Backlog(s)
      BY <1>1, <1>8, ResumeOrder
    <2> PICK r : r = permitLine[i]
      OBVIOUS
    <2>2. /\ r \in Requests /\ stage[r] = "permit"
          /\ \A q \in Requests : q # r => stage'[q] = stage[q]
          /\ \A s \in Sessions : s = SessionOf[r] => stage'[r] = AtLane(LaneLine(s))
      BY <1>1, <1>8, ResumeLines
    <2>3. stage'[r] \in InFlight
      BY <2>2, SessionOfAssumption DEF InFlight, AtLane
    <2>4. QED
      BY <2>1, <2>2, <2>3, MoveOn DEF SerialFacts
  <1>9. ASSUME NEW r \in Requests, BeginHandler(r)
        PROVE  OrderInv' /\ (SerialFacts' => Abstract!Next \/ UNCHANGED Abstract!vars)
    <2>1. /\ stage[r] = "lane" /\ stage' = [stage EXCEPT ![r] = "handling"]
          /\ UNCHANGED <<queue, spawned, permitLine, lanes, laneObj>>
      BY <1>9 DEF BeginHandler, laneVars, taskVars
    <2>2. stage'[r] = "handling" /\ \A q \in Requests : q # r => stage'[q] = stage[q]
      BY <1>1, <2>1
    <2>3. OrderInv' /\ \A s \in Sessions : Backlog(s)' = Backlog(s)
      BY <1>1, <2>1, <2>2, NobodyMoves
    <2>4. QED
      BY <2>1, <2>2, <2>3, MoveOn DEF SerialFacts, InFlight
  <1>10. ASSUME NEW i \in 1..Len(permitLine), NEW outcome \in Outcomes, FinishHandler(i, outcome)
         PROVE  OrderInv' /\ Abstract!Next
    <2>1. PICK r \in Requests :
              /\ stage[r] = "handling" /\ stage' = [stage EXCEPT ![r] = outcome]
              /\ \A s \in Sessions : s # SessionOf[r] => Backlog(s)' = Backlog(s)
              /\ \A s \in Sessions : s = SessionOf[r] => Backlog(s)' = Tail(Backlog(s))
      BY <1>1, <1>10, FinishOrder
    <2>2. OrderInv'
      BY <1>1, <1>10, FinishOrder
    <2>3. QED
      BY <2>1, <2>2, LeaveFinishes
  <1>11. CASE StartLoop \/ LoopExit \/ Stop \/ StopReturn \/ UNCHANGED vars
    <2>1. UNCHANGED <<stage, queue, spawned, permitLine, lanes, laneObj>>
      BY <1>11 DEF StartLoop, LoopExit, Stop, StopReturn, vars, collectVars, laneVars, taskVars
    <2>2. QED
      BY <1>1, <2>1, Stutters
  <1>12. QED
    BY <1>3, <1>4, <1>5, <1>6, <1>7, <1>8, <1>9, <1>10, <1>11 DEF Next, ProcessItem

LEMMA SerialInit == Init => OrderInv /\ Abstract!Init
  <1> SUFFICES ASSUME Init PROVE OrderInv /\ Abstract!Init
    OBVIOUS
  <1>1. \A s \in Sessions : Outstanding(s) = {} /\ Order(s) = {}
    BY DEF Init, Outstanding, Order, InFlight
  <1>2. ASSUME NEW s \in Sessions PROVE InOrderNow(s) /\ Backlog(s) = <<>>
    <2>1. Sorted(<<>>, Outstanding(s), Order(s))
      BY <1>1, ListsEmpty DEF Sorted
    <2>2. Backlog(s) = <<>>
      BY <2>1, InOrderIs DEF Backlog
    <2>3. QED
      BY <2>1, <2>2 DEF InOrderNow
  <1>3. EverPut = {} /\ Handling = {}
    BY DEF Init, EverPut, Handling, InFlight, Outcomes
  <1>4. QED
    BY <1>2, <1>3 DEF OrderInv, Abstract!Init

(* The command queue implements SerialLanes: whatever path an item takes   *)
(* (queue, fresh task, wait for a permit, wait for its lane), the items of *)
(* a session are handled in the order in which they were put, one at a     *)
(* time, and none is withdrawn once its handler was called.                *)
THEOREM QueueIsSerial == Spec => SerialFIFO
  <1>1. Init => PermitInv
    BY DEF Init, PermitInv, AllIn, NoRepeat
  <1>2. Spec => [](IInv /\ PermitInv /\ AccountedParts)
    BY <1>1, PermitStep, AccountedInit, AccountedStep, Inductive, PTL DEF Spec
  <1>3. SerialInv /\ IInv' /\ [Next]_vars => OrderInv'
    BY StepIsSerial
  <1>4. IInv /\ PermitInv /\ AccountedParts /\ OrderInv => SerialInv
    BY DEF SerialInv
  <1>5. Spec => []SerialInv
    BY <1>2, <1>3, <1>4, SerialInit, PTL DEF Spec
  <1>6. SerialInv => SerialFacts
    BY HandledIsFirst, PermitsCap DEF SerialInv, SerialFacts
  <1>7. SerialInv /\ IInv' /\ SerialFacts' /\ [Next]_vars => [Abstract!Next]_(Abstract!vars)
    BY StepIsSerial
  <1>8. SerialInv => IInv
    BY DEF SerialInv
  <1>9. QED
    BY <1>5, <1>6, <1>7, <1>8, SerialInit, PTL DEF Spec, SerialFIFO, Abstract!Spec
=============================================================================
