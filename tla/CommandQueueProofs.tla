------------------------- MODULE CommandQueueProofs -------------------------
(***************************************************************************)
(* Proofs about CommandQueue for every set of sessions and requests and    *)
(* every capacity: the inductive invariant, and the three bounds on it (a  *)
(* cancel event ends with its interrupt, a timer is armed while its buffer *)
(* holds text, no more handlers run than there are permits).               *)
(***************************************************************************)
EXTENDS CommandQueue, FiniteSetTheorems, SequenceTheorems, TLAPS

LEMMA RequestIsNotNone == \A r \in Requests : r # None
  BY NoneAssumption

LEMMA LaneRefIsNotNone == \A l \in LaneRefs : l # None
  BY NoneAssumption

(* In the initial state the invariant holds.                               *)
LEMMA InitIInv == Init => IInv
  <1> SUFFICES ASSUME Init PROVE IInv
    OBVIOUS
  <1>1. TypeOK
    <2>1. NewLane \in LaneType
      BY DEF NewLane, LaneType
    <2>2. <<>> \in Seq(Requests)
      OBVIOUS
    <2>3. "new" \in Stages
      BY DEF Stages
    <2>4. QED
      BY <2>1, <2>2, <2>3 DEF Init, TypeOK
  <1>2. LinesInv
    BY DEF Init, LinesInv, AllIn, NoRepeat
  <1>3. BuffersInv
    BY DEF Init, BuffersInv
  <1>4. LanesInv
    <2>1. \A s \in Sessions : Outstanding(s) = {}
      BY DEF Init, Outstanding, InFlight
    <2>2. QED
      BY <2>1, FS_EmptySet DEF Init, LanesInv, HasLane
  <1>5. HeadsInv
    BY DEF Init, HeadsInv, Handling
  <1>6. QED
    BY <1>1, <1>2, <1>3, <1>4, <1>5 DEF IInv

(* Put moves one request from outside the pipeline onto the queue.         *)
LEMMA PutPreserves ==
  ASSUME IInv, NEW r \in Requests, Put(r),
         stage[r] \in {"new", "buffered"},
         laneOf' = laneOf,
         stage' \in [Requests -> Stages],
         stage'[r] = "queued",
         \A q \in Requests \ {r} :
            \/ stage'[q] = stage[q]
            \/ stage[q] = "buffered" /\ stage'[q] \in {"absorbed", "discarded"}
  PROVE  /\ queue' \in Seq(Requests)
         /\ lanes' \in [Sessions -> LaneRefs \cup {None}]
         /\ laneObj' \in [LaneRefs -> LaneType]
         /\ AllIn(queue, {"queued"})' /\ NoRepeat(queue)'
         /\ LanesInv'
         /\ HeadsInv'
  <1> DEFINE s == SessionOf[r]
             l == LaneFor(s, <<r, "put">>)
             lane == LaneState(s)
  <1> USE DEF IInv
  <1>0. /\ s \in Sessions
        /\ <<r, "put">> \in LaneRefs
        /\ l \in LaneRefs
        /\ lane \in LaneType
        /\ SessionOf[l[1]] = s
    BY SessionOfAssumption DEF TypeOK, LaneType, LaneRefs, LaneFor, LaneState, NewLane, LanesInv
  <1>1. /\ queue' = Append(queue, r)
        /\ lanes' = [lanes EXCEPT ![s] = l]
        /\ laneObj' = [laneObj EXCEPT ![l] = [lane EXCEPT !.pending = @ + 1]]
    BY DEF Put
  <1>2. queue' \in Seq(Requests)
    BY <1>1 DEF TypeOK
  <1>3. lanes' \in [Sessions -> LaneRefs \cup {None}]
    BY <1>0, <1>1 DEF TypeOK
  <1>4. laneObj' \in [LaneRefs -> LaneType]
    <2>1. [lane EXCEPT !.pending = @ + 1] \in LaneType
      BY <1>0 DEF LaneType
    <2>2. QED
      BY <1>0, <1>1, <2>1 DEF TypeOK
  <1>5. AllIn(queue, {"queued"})' /\ NoRepeat(queue)'
    <2>1. /\ Len(queue') = Len(queue) + 1
          /\ \A i \in 1..Len(queue) : queue'[i] = queue[i] /\ queue[i] \in Requests
          /\ queue'[Len(queue) + 1] = r
          /\ Len(queue) \in Nat
      BY <1>1 DEF TypeOK
    <2>2. \A i \in 1..Len(queue) : stage[queue[i]] = "queued" /\ queue[i] # r
      BY DEF LinesInv, AllIn
    <2>3. QED
      BY <2>1, <2>2 DEF LinesInv, AllIn, NoRepeat
  <1>6. \A t \in Sessions :
            Outstanding(t)' = IF t = s THEN Outstanding(t) \cup {r} ELSE Outstanding(t)
    BY DEF Outstanding, InFlight
  <1>7. r \notin Outstanding(s)
    BY DEF Outstanding, InFlight
  <1>8. \A t \in Sessions \ {s} : lanes[t] # None => lanes[t] # l
    BY <1>0 DEF LanesInv
  <1>9. LanesInv'
    <2>1. ASSUME NEW t \in Sessions
          PROVE  /\ IsFiniteSet(Outstanding(t)')
                 /\ lanes'[t] = None <=> Outstanding(t)' = {}
                 /\ lanes'[t] # None =>
                       /\ laneObj'[lanes'[t]].pending = Cardinality(Outstanding(t)')
                       /\ SessionOf[lanes'[t][1]] = t
      <3>1. CASE t = s
        <4>1. /\ IsFiniteSet(Outstanding(s)')
              /\ Cardinality(Outstanding(s)') = Cardinality(Outstanding(s)) + 1
          BY <1>0, <1>6, <1>7, FS_AddElement DEF LanesInv
        <4>2. lane.pending = Cardinality(Outstanding(s))
          BY <1>0, FS_EmptySet DEF LanesInv, LaneState, NewLane
        <4>3. lanes'[s] = l /\ laneObj'[l].pending = lane.pending + 1
          BY <1>0, <1>1 DEF TypeOK
        <4>4. QED
          BY <1>0, <1>6, <3>1, <4>1, <4>2, <4>3, LaneRefIsNotNone
      <3>2. CASE t # s
        <4>1. lanes'[t] = lanes[t] /\ Outstanding(t)' = Outstanding(t)
          BY <1>1, <1>6, <3>2 DEF TypeOK
        <4>2. lanes[t] # None => laneObj'[lanes[t]] = laneObj[lanes[t]]
          BY <1>1, <1>8, <3>2 DEF TypeOK
        <4>3. QED
          BY <4>1, <4>2 DEF LanesInv
      <3>3. QED
        BY <3>1, <3>2
    <2>2. ASSUME NEW q \in Requests
          PROVE  laneOf'[q] = IF stage'[q] \in HasLane
                              THEN lanes'[SessionOf[q]] ELSE None
      <3>1. stage'[q] \in HasLane => stage[q] \in HasLane /\ q # r
        BY DEF HasLane
      <3>2. stage[q] \in HasLane => q \in Outstanding(SessionOf[q])
        BY DEF HasLane, Outstanding, InFlight
      <3>3. stage[q] \in HasLane => lanes'[SessionOf[q]] = lanes[SessionOf[q]]
        BY <1>0, <1>1, <3>2, SessionOfAssumption DEF LanesInv, TypeOK, LaneFor
      <3>4. stage[q] \in HasLane => stage'[q] \in HasLane
        BY DEF HasLane
      <3>5. QED
        BY <3>1, <3>3, <3>4 DEF LanesInv
    <2>3. QED
      BY <2>1, <2>2 DEF LanesInv
  <1>10. HeadsInv'
    <2> SUFFICES ASSUME NEW q \in Requests, stage'[q] = "handling"
                 PROVE  LET line == laneObj'[laneOf'[q]].line
                        IN  line # <<>> /\ Head(line) = q
      BY DEF HeadsInv, Handling
    <2>1. stage[q] = "handling"
      OBVIOUS
    <2>2. q \in Outstanding(SessionOf[q]) /\ laneOf[q] = lanes[SessionOf[q]]
      BY <2>1 DEF Outstanding, InFlight, LanesInv, HasLane
    <2>3. laneOf[q] # None /\ laneOf[q] \in LaneRefs
      BY <2>2, SessionOfAssumption DEF LanesInv, TypeOK
    <2>4. laneObj'[laneOf[q]].line = laneObj[laneOf[q]].line
      <3>1. CASE SessionOf[q] = s
        BY <1>0, <1>1, <2>2, <2>3, <3>1 DEF LaneState, LaneFor, TypeOK
      <3>2. CASE SessionOf[q] # s
        BY <1>0, <1>1, <1>8, <2>2, <2>3, <3>2, SessionOfAssumption DEF TypeOK
      <3>3. QED
        BY <3>1, <3>2
    <2>5. QED
      BY <2>1, <2>4 DEF HeadsInv, Handling
  <1>11. QED
    BY <1>2, <1>3, <1>4, <1>5, <1>9, <1>10

(* The invariant forbids two handlers of one session: both would be the    *)
(* first in the line of the same lane.                                     *)
LEMMA Exclusion == IInv => SessionExclusion
  <1> SUFFICES ASSUME IInv, NEW q \in Handling, NEW r \in Handling,
                      SessionOf[q] = SessionOf[r]
               PROVE  q = r
    BY DEF SessionExclusion
  <1>1. laneOf[q] = lanes[SessionOf[q]] /\ laneOf[r] = lanes[SessionOf[r]]
    BY DEF IInv, LanesInv, Handling, HasLane
  <1>2. QED
    BY <1>1 DEF IInv, HeadsInv

(* What an outstanding request tells about the lane of its session.        *)
LEMMA OutstandingHasLane ==
  ASSUME IInv, NEW r \in Requests, stage[r] \in InFlight \cup {"queued"}
  PROVE  LET s == SessionOf[r]
         IN  /\ s \in Sessions
             /\ r \in Outstanding(s)
             /\ lanes[s] # None
             /\ lanes[s] \in LaneRefs
             /\ laneObj[lanes[s]] \in LaneType
             /\ \A t \in Sessions \ {s} : lanes[t] # lanes[s]
  <1> DEFINE s == SessionOf[r]
  <1>1. s \in Sessions /\ r \in Outstanding(s)
    BY SessionOfAssumption DEF Outstanding
  <1>2. lanes[s] # None /\ lanes[s] \in LaneRefs
    BY <1>1 DEF IInv, LanesInv, TypeOK
  <1>3. laneObj[lanes[s]] \in LaneType
    BY <1>2 DEF IInv, TypeOK
  <1>4. \A t \in Sessions \ {s} : lanes[t] # lanes[s]
    BY <1>1, <1>2 DEF IInv, LanesInv
  <1>5. QED
    BY <1>1, <1>2, <1>3, <1>4

(* Joining a line changes nothing at its head.                             *)
LEMMA HeadKept ==
  ASSUME NEW S, NEW seq \in Seq(S), NEW e \in S, seq # <<>>
  PROVE  Append(seq, e) # <<>> /\ Head(Append(seq, e)) = Head(seq)
  BY HeadTailAppend, AppendProperties

(* A request that goes on within the pipeline, perhaps joining the line of *)
(* its session's lane, leaves the count as it is and every head in place.  *)
LEMMA StayPreserves ==
  ASSUME IInv, NEW r \in Requests, NEW x, NEW line \in Seq(Requests),
         stage[r] \in {"queued", "spawned", "permit", "lane"},
         x \in InFlight,
         stage[r] \in HasLane => x \in HasLane,
         stage' = [stage EXCEPT ![r] = x],
         lanes' = lanes,
         laneOf' = [laneOf EXCEPT
                       ![r] = IF x \in HasLane THEN lanes[SessionOf[r]] ELSE None],
         laneObj' = [laneObj EXCEPT ![lanes[SessionOf[r]]].line = line],
         \/ line = laneObj[lanes[SessionOf[r]]].line
         \/ line = Append(laneObj[lanes[SessionOf[r]]].line, r),
         x = "handling" => line # <<>> /\ Head(line) = r
  PROVE  /\ stage' \in [Requests -> Stages]
         /\ laneOf' \in [Requests -> LaneRefs \cup {None}]
         /\ laneObj' \in [LaneRefs -> LaneType]
         /\ LanesInv'
         /\ HeadsInv'
  <1> DEFINE s == SessionOf[r]
             l == lanes[s]
  <1> USE DEF IInv
  <1>0. /\ s \in Sessions
        /\ r \in Outstanding(s)
        /\ l # None
        /\ l \in LaneRefs
        /\ laneObj[l] \in LaneType
        /\ \A t \in Sessions \ {s} : lanes[t] # l
    BY OutstandingHasLane DEF InFlight
  <1>1. stage' \in [Requests -> Stages]
    BY DEF TypeOK, Stages
  <1>2. laneOf' \in [Requests -> LaneRefs \cup {None}]
    BY <1>0 DEF TypeOK
  <1>3. laneObj' \in [LaneRefs -> LaneType]
    <2>1. [laneObj[l] EXCEPT !.line = line] \in LaneType
      BY <1>0 DEF LaneType
    <2>2. laneObj' = [laneObj EXCEPT ![l] = [laneObj[l] EXCEPT !.line = line]]
      BY <1>0 DEF TypeOK
    <2>3. QED
      BY <1>0, <2>1, <2>2 DEF TypeOK
  <1>4. /\ laneObj'[l].line = line
        /\ laneObj'[l].pending = laneObj[l].pending
        /\ \A k \in LaneRefs \ {l} : laneObj'[k] = laneObj[k]
    BY <1>0 DEF TypeOK, LaneType
  <1>5. \A t \in Sessions : Outstanding(t)' = Outstanding(t)
    BY DEF Outstanding, InFlight, TypeOK
  <1>6. LanesInv'
    <2>1. ASSUME NEW t \in Sessions, lanes[t] # None
          PROVE  laneObj'[lanes[t]].pending = laneObj[lanes[t]].pending
      BY <1>0, <1>4, <2>1 DEF TypeOK
    <2>2. ASSUME NEW q \in Requests
          PROVE  laneOf'[q] = IF stage'[q] \in HasLane
                              THEN lanes'[SessionOf[q]] ELSE None
      BY DEF LanesInv, TypeOK, HasLane
    <2>3. QED
      BY <1>5, <2>1, <2>2, SMTT(30) DEF LanesInv
  <1>7. HeadsInv'
    <2> SUFFICES ASSUME NEW q \in Requests, stage'[q] = "handling"
                 PROVE  LET ln == laneObj'[laneOf'[q]].line
                        IN  ln # <<>> /\ Head(ln) = q
      BY DEF HeadsInv, Handling
    <2>1. CASE q = r
      BY <1>0, <1>4, <2>1 DEF TypeOK, HasLane
    <2>2. CASE q # r
      <3>1. stage[q] = "handling" /\ laneOf'[q] = laneOf[q]
        BY <2>2 DEF TypeOK
      <3>2. laneObj[laneOf[q]].line # <<>> /\ Head(laneObj[laneOf[q]].line) = q
        BY <3>1 DEF HeadsInv, Handling
      <3>3. laneOf[q] = lanes[SessionOf[q]] /\ laneOf[q] \in LaneRefs
        BY <3>1, OutstandingHasLane DEF LanesInv, HasLane, InFlight
      <3>4. CASE laneOf[q] = l
        <4>1. laneObj[l].line \in Seq(Requests)
          BY <1>0 DEF LaneType
        <4>2. line # <<>> /\ Head(line) = q
          BY <3>2, <3>4, <4>1, HeadKept, SMTT(30)
        <4>3. QED
          BY <1>4, <3>1, <3>4, <4>2
      <3>5. CASE laneOf[q] # l
        BY <1>4, <3>1, <3>2, <3>3, <3>5, ZenonT(40)
      <3>6. QED
        BY <3>4, <3>5
    <2>3. QED
      BY <2>1, <2>2
  <1>8. QED
    BY <1>1, <1>2, <1>3, <1>6, <1>7

(* A request that leaves the pipeline takes one from the count of its lane *)
(* and, if that was the last, the lane from the dictionary.                *)
LEMMA LeavePreserves ==
  ASSUME IInv, NEW r \in Requests, NEW x \in Fates, NEW line \in Seq(Requests),
         \/ stage[r] = "spawned" /\ line = laneObj[lanes[SessionOf[r]]].line
         \/ stage[r] = "handling",
         stage' = [stage EXCEPT ![r] = x],
         laneOf' = [laneOf EXCEPT ![r] = None],
         laneObj' = [laneObj EXCEPT ![lanes[SessionOf[r]]] =
                        [pending |-> @.pending - 1, line |-> line]],
         lanes' = Release(lanes, laneObj', SessionOf[r])
  PROVE  /\ stage' \in [Requests -> Stages]
         /\ laneOf' \in [Requests -> LaneRefs \cup {None}]
         /\ laneObj' \in [LaneRefs -> LaneType]
         /\ lanes' \in [Sessions -> LaneRefs \cup {None}]
         /\ LanesInv'
         /\ HeadsInv'
  <1> DEFINE s == SessionOf[r]
             l == lanes[s]
             n == Cardinality(Outstanding(s))
  <1> USE DEF IInv
  <1>0. /\ s \in Sessions
        /\ r \in Outstanding(s)
        /\ l # None
        /\ l \in LaneRefs
        /\ laneObj[l] \in LaneType
        /\ \A t \in Sessions \ {s} : lanes[t] # l
    BY OutstandingHasLane DEF InFlight
  <1>1. stage' \in [Requests -> Stages]
    BY DEF TypeOK, Stages
  <1>2. laneOf' \in [Requests -> LaneRefs \cup {None}]
    BY DEF TypeOK
  <1>3. \A t \in Sessions :
            Outstanding(t)' = IF t = s THEN Outstanding(t) \ {r} ELSE Outstanding(t)
    BY DEF Outstanding, InFlight, Fates, Outcomes, TypeOK
  <1>4. /\ IsFiniteSet(Outstanding(s)')
        /\ Cardinality(Outstanding(s)') = n - 1
        /\ n \in Nat
        /\ Cardinality(Outstanding(s)') \in Nat
        /\ Cardinality(Outstanding(s)') = 0 <=> Outstanding(s)' = {}
        /\ laneObj[l].pending = n
    BY <1>0, <1>3, FS_RemoveElement, FS_CardinalityType, FS_EmptySet DEF LanesInv
  <1>5. laneObj' = [laneObj EXCEPT ![l] = [pending |-> n - 1, line |-> line]]
    BY <1>0, <1>4 DEF TypeOK
  <1>6. laneObj' \in [LaneRefs -> LaneType]
    <2>1. [pending |-> n - 1, line |-> line] \in LaneType
      BY <1>4 DEF LaneType
    <2>2. QED
      BY <1>0, <1>5, <2>1 DEF TypeOK
  <1>7. /\ laneObj'[l] = [pending |-> n - 1, line |-> line]
        /\ \A k \in LaneRefs \ {l} : laneObj'[k] = laneObj[k]
    BY <1>0, <1>5 DEF TypeOK
  <1>8. lanes' = IF n - 1 <= 0 THEN [lanes EXCEPT ![s] = None] ELSE lanes
    BY <1>0, <1>7 DEF Release
  <1>9. /\ lanes' \in [Sessions -> LaneRefs \cup {None}]
        /\ \A t \in Sessions : lanes'[t] = IF t = s /\ n = 1 THEN None ELSE lanes[t]
    <2>1. n # 0
      BY <1>0, <1>4, FS_EmptySet DEF LanesInv
    <2>2. CASE n = 1
      <3>1. n - 1 <= 0
        BY <2>2
      <3>2. lanes' = [lanes EXCEPT ![s] = None]
        BY <1>8, <3>1, Zenon
      <3>3. QED
        BY <2>2, <3>2 DEF TypeOK
    <2>3. CASE n # 1
      <3>1. lanes' = lanes
        BY <1>4, <1>8, <2>1, <2>3
      <3>2. QED
        BY <2>3, <3>1 DEF TypeOK
    <2>4. QED
      BY <2>2, <2>3
  <1>10. ASSUME NEW q \in Requests, stage'[q] \in HasLane
         PROVE  /\ q # r
                /\ stage[q] = stage'[q]
                /\ laneOf'[q] = laneOf[q]
                /\ laneOf[q] = lanes[SessionOf[q]]
                /\ lanes'[SessionOf[q]] = lanes[SessionOf[q]]
    <2>1. q # r /\ stage[q] = stage'[q] /\ laneOf'[q] = laneOf[q]
      BY <1>10 DEF TypeOK, HasLane, Fates, Outcomes
    <2>2. laneOf[q] = lanes[SessionOf[q]]
      BY <1>10, <2>1 DEF LanesInv
    <2>3. SessionOf[q] = s => q \in Outstanding(s)'
      BY <1>10, <2>1 DEF Outstanding, HasLane, InFlight
    <2>4. SessionOf[q] = s => n # 1
      BY <1>4, <2>3
    <2>5. lanes'[SessionOf[q]] = lanes[SessionOf[q]]
      BY <1>9, <2>4, SessionOfAssumption, ZenonT(40)
    <2>6. QED
      BY <2>1, <2>2, <2>5
  <1>11. LanesInv'
    <2>1. ASSUME NEW t \in Sessions
          PROVE  /\ IsFiniteSet(Outstanding(t)')
                 /\ lanes'[t] = None <=> Outstanding(t)' = {}
                 /\ lanes'[t] # None =>
                       /\ laneObj'[lanes'[t]].pending = Cardinality(Outstanding(t)')
                       /\ SessionOf[lanes'[t][1]] = t
      <3>1. CASE t = s
        <4>1. CASE n = 1
          <5>1. lanes'[s] = None
            BY <1>0, <1>9, <4>1
          <5>2. Outstanding(s)' = {}
            BY <1>4, <4>1
          <5>3. QED
            BY <1>4, <3>1, <5>1, <5>2
        <4>2. CASE n # 1
          <5>1. lanes'[s] = l
            BY <1>0, <1>9, <4>2
          <5>2. Outstanding(s)' # {} /\ laneObj'[l].pending = Cardinality(Outstanding(s)')
            BY <1>4, <1>7, <4>2
          <5>3. SessionOf[l[1]] = s
            BY <1>0 DEF LanesInv
          <5>4. QED
            BY <1>0, <1>4, <3>1, <5>1, <5>2, <5>3
        <4>3. QED
          BY <4>1, <4>2
      <3>2. CASE t # s
        <4>1. lanes'[t] = lanes[t] /\ Outstanding(t)' = Outstanding(t)
          BY <1>3, <1>9, <3>2
        <4>2. lanes[t] # None => laneObj'[lanes[t]] = laneObj[lanes[t]]
          BY <1>0, <1>7, <3>2 DEF TypeOK
        <4>3. QED
          BY <4>1, <4>2, SMTT(30) DEF LanesInv
      <3>3. QED
        BY <3>1, <3>2, ZenonT(40)
    <2>2. ASSUME NEW q \in Requests
          PROVE  laneOf'[q] = IF stage'[q] \in HasLane
                              THEN lanes'[SessionOf[q]] ELSE None
      <3>1. CASE stage'[q] \in HasLane
        BY <1>10, <3>1
      <3>2. CASE stage'[q] \notin HasLane
        BY <3>2 DEF LanesInv, TypeOK
      <3>3. QED
        BY <3>1, <3>2
    <2>3. QED
      BY <2>1, <2>2 DEF LanesInv
  <1>12. HeadsInv'
    <2> SUFFICES ASSUME NEW q \in Requests, stage'[q] = "handling"
                 PROVE  LET ln == laneObj'[laneOf'[q]].line
                        IN  ln # <<>> /\ Head(ln) = q
      BY DEF HeadsInv, Handling
    <2>1. /\ q # r
          /\ stage[q] = "handling"
          /\ laneOf'[q] = laneOf[q]
          /\ laneOf[q] = lanes[SessionOf[q]]
      BY <1>10 DEF HasLane
    <2>2. laneObj[laneOf[q]].line # <<>> /\ Head(laneObj[laneOf[q]].line) = q
      BY <2>1 DEF HeadsInv, Handling
    <2>3. laneOf[q] \in LaneRefs /\ SessionOf[q] \in Sessions
      BY <2>1, OutstandingHasLane DEF InFlight
    <2>4. CASE SessionOf[q] = s
      <3>1. stage[r] # "handling"
        BY <2>1, <2>4, Exclusion DEF SessionExclusion, Handling
      <3>2. QED
        BY <1>7, <2>1, <2>2, <2>4, <3>1
    <2>5. CASE SessionOf[q] # s
      BY <1>0, <1>7, <2>1, <2>2, <2>3, <2>5
    <2>6. QED
      BY <2>4, <2>5
  <1>13. QED
    BY <1>1, <1>2, <1>6, <1>9, <1>11, <1>12

(* A step that moves no request into, out of or within the pipeline.       *)
LEMMA QuietPreserves ==
  ASSUME IInv, UNCHANGED laneVars,
         stage' \in [Requests -> Stages],
         \A q \in Requests :
            \/ stage'[q] = stage[q]
            \/ {stage[q], stage'[q]} \cap (InFlight \cup {"queued"}) = {}
  PROVE  LanesInv' /\ HeadsInv'
  <1> USE DEF IInv
  <1>1. \A t \in Sessions : Outstanding(t)' = Outstanding(t)
    BY DEF Outstanding
  <1>2. \A q \in Requests : stage'[q] \in HasLane <=> stage[q] \in HasLane
    BY DEF HasLane, InFlight
  <1>3. LanesInv'
    BY <1>1, <1>2 DEF LanesInv, laneVars
  <1>4. Handling' = Handling
    BY DEF Handling, InFlight
  <1>5. HeadsInv'
    BY <1>4 DEF HeadsInv, laneVars
  <1>6. QED
    BY <1>3, <1>5

(* Taking the first of a line leaves the others, each different from it.   *)
LEMMA TailOfLine ==
  ASSUME NEW line \in Seq(Requests), line # <<>>, NoRepeat(line)
  PROVE  /\ Head(line) \in Requests
         /\ Head(line) = line[1] /\ 1 \in 1..Len(line)
         /\ Tail(line) \in Seq(Requests)
         /\ NoRepeat(Tail(line))
         /\ \A i \in 1..Len(Tail(line)) :
               /\ i + 1 \in 1..Len(line)
               /\ Tail(line)[i] = line[i + 1]
               /\ Tail(line)[i] # Head(line)
               /\ Tail(line)[i] \in Requests
  <1>1. Len(line) \in Nat \ {0}
    BY EmptySeq
  <1>2. /\ Head(line) = line[1]
        /\ Tail(line) \in Seq(Requests)
        /\ Len(Tail(line)) = Len(line) - 1
        /\ \A i \in 1..Len(Tail(line)) : Tail(line)[i] = line[i + 1]
    BY HeadTailProperties
  <1>3. \A i \in 1..Len(line) : line[i] \in Requests
    BY ElementOfSeq
  <1>4. QED
    BY <1>1, <1>2, <1>3 DEF NoRepeat

(* Appending a request that is not in the line.                            *)
LEMMA AppendToLine ==
  ASSUME NEW line \in Seq(Requests), NEW r \in Requests, NoRepeat(line),
         \A i \in 1..Len(line) : line[i] # r
  PROVE  /\ Append(line, r) \in Seq(Requests)
         /\ NoRepeat(Append(line, r))
         /\ \A i \in 1..Len(Append(line, r)) :
               \/ i \in 1..Len(line) /\ Append(line, r)[i] = line[i]
               \/ Append(line, r)[i] = r
  <1>1. /\ Append(line, r) \in Seq(Requests)
        /\ Len(Append(line, r)) = Len(line) + 1
        /\ \A i \in 1..Len(line) : Append(line, r)[i] = line[i]
        /\ Append(line, r)[Len(line) + 1] = r
        /\ Len(line) \in Nat
    BY AppendProperties
  <1>2. QED
    BY <1>1 DEF NoRepeat

(* Removing one position of a sequence.                                    *)
LEMMA RemoveAtType ==
  ASSUME NEW S, NEW line \in Seq(S), NEW i \in 1..Len(line)
  PROVE  RemoveAt(line, i) \in Seq(S)
  <1>1. SubSeq(line, 1, i - 1) \in Seq(S)
    OBVIOUS
  <1>2. SubSeq(line, i + 1, Len(line)) \in Seq(S)
    OBVIOUS
  <1>3. QED
    BY <1>1, <1>2 DEF RemoveAt

(* A line that is not touched keeps its requests while they stay put.      *)
LEMMA QueueKept ==
  ASSUME IInv, queue' = queue,
         \A q \in Requests : stage[q] = "queued" => stage'[q] = "queued"
  PROVE  AllIn(queue, {"queued"})' /\ NoRepeat(queue)'
  <1>1. \A i \in 1..Len(queue) : queue[i] \in Requests
    BY ElementOfSeq DEF IInv, TypeOK
  <1>2. QED
    BY <1>1 DEF IInv, LinesInv, AllIn, NoRepeat

LEMMA SpawnedKept ==
  ASSUME IInv, spawned' = spawned,
         \A q \in Requests : stage[q] = "spawned" => stage'[q] = "spawned"
  PROVE  AllIn(spawned, {"spawned"})' /\ NoRepeat(spawned)'
  <1>1. \A i \in 1..Len(spawned) : spawned[i] \in Requests
    BY ElementOfSeq DEF IInv, TypeOK
  <1>2. QED
    BY <1>1 DEF IInv, LinesInv, AllIn, NoRepeat

LEMMA BuffersKept ==
  ASSUME IInv, buffers' = buffers,
         \A q \in Requests : stage[q] = "buffered" => stage'[q] = "buffered"
  PROVE  BuffersInv'
  <1>1. \A s \in Sessions : \A i \in 1..Len(buffers[s]) : buffers[s][i] \in Requests
    BY ElementOfSeq DEF IInv, TypeOK
  <1>2. QED
    BY <1>1 DEF IInv, BuffersInv

(* Emptying the buffer of one session and moving only its requests.        *)
LEMMA BufferEmptied ==
  ASSUME IInv, NEW s \in Sessions,
         buffers' = [buffers EXCEPT ![s] = <<>>],
         \A q \in Requests : stage[q] = "buffered" /\ SessionOf[q] # s =>
                               stage'[q] = "buffered"
  PROVE  BuffersInv' /\ buffers' \in [Sessions -> Seq(Requests)]
  <1>1. ASSUME NEW t \in Sessions, NEW i \in 1..Len(buffers'[t])
        PROVE  stage'[buffers'[t][i]] = "buffered" /\ SessionOf[buffers'[t][i]] = t
    <2>1. t # s
      BY DEF IInv, TypeOK
    <2>2. buffers'[t] = buffers[t] /\ buffers[t] \in Seq(Requests)
      BY <2>1 DEF IInv, TypeOK
    <2>3. /\ stage[buffers[t][i]] = "buffered"
          /\ SessionOf[buffers[t][i]] = t
          /\ buffers[t][i] \in Requests
      BY <2>2, ElementOfSeq DEF IInv, BuffersInv
    <2>4. QED
      BY <2>1, <2>2, <2>3
  <1>2. <<>> \in Seq(Requests)
    OBVIOUS
  <1>3. buffers' \in [Sessions -> Seq(Requests)]
    BY <1>2 DEF IInv, TypeOK
  <1>4. QED
    BY <1>1, <1>3 DEF BuffersInv

(* One lemma per action.                                                   *)
LEMMA RejectFullPreserves ==
  ASSUME IInv, NEW r \in Requests, RejectFull(r)
  PROVE  IInv'
  <1>1. /\ stage' \in [Requests -> Stages]
        /\ \A q \in Requests \ {r} : stage'[q] = stage[q]
        /\ stage[r] = "new" /\ stage'[r] = "rejected"
    BY DEF IInv, TypeOK, Stages, Fates, RejectFull
  <1>2. UNCHANGED <<queue, cancelEvents, payload, collectVars, laneVars, taskVars,
                    loopVars, stopVars>>
    BY DEF RejectFull
  <1>3. LanesInv' /\ HeadsInv'
    BY <1>1, <1>2, QuietPreserves DEF InFlight
  <1>4. TypeOK'
    BY <1>1, <1>2 DEF IInv, TypeOK, collectVars, laneVars, taskVars, loopVars, stopVars
  <1>5. LinesInv'
    BY <1>1, <1>2, QueueKept, SpawnedKept DEF LinesInv, taskVars
  <1>6. BuffersInv'
    BY <1>1, <1>2, BuffersKept DEF collectVars
  <1>7. QED
    BY <1>3, <1>4, <1>5, <1>6 DEF IInv

LEMMA EnqueueFollowupPreserves ==
  ASSUME IInv, NEW r \in Requests, EnqueueFollowup(r)
  PROVE  IInv'
  <1>1. /\ stage' \in [Requests -> Stages]
        /\ \A q \in Requests \ {r} : stage'[q] = stage[q]
        /\ stage[r] = "new" /\ stage'[r] = "queued"
    BY DEF IInv, TypeOK, Stages, EnqueueFollowup
  <1>2. /\ Put(r)
        /\ payload' = [payload EXCEPT ![r] = <<r>>]
        /\ UNCHANGED <<cancelEvents, laneOf, collectVars, taskVars, loopVars, stopVars>>
    BY DEF EnqueueFollowup
  <1>3. /\ queue' \in Seq(Requests)
        /\ lanes' \in [Sessions -> LaneRefs \cup {None}]
        /\ laneObj' \in [LaneRefs -> LaneType]
        /\ AllIn(queue, {"queued"})' /\ NoRepeat(queue)'
        /\ LanesInv'
        /\ HeadsInv'
    BY <1>1, <1>2, PutPreserves
  <1>4. payload' \in [Requests -> Seq(Requests)]
    BY <1>2 DEF IInv, TypeOK
  <1>5. TypeOK'
    BY <1>1, <1>2, <1>3, <1>4 DEF IInv, TypeOK, collectVars, taskVars, loopVars, stopVars
  <1>6. LinesInv'
    BY <1>1, <1>2, <1>3, SpawnedKept DEF LinesInv, taskVars
  <1>7. BuffersInv'
    BY <1>1, <1>2, BuffersKept DEF collectVars
  <1>8. QED
    BY <1>3, <1>5, <1>6, <1>7 DEF IInv

LEMMA EnqueueInterruptPreserves ==
  ASSUME IInv, NEW r \in Requests, EnqueueInterrupt(r)
  PROVE  IInv'
  <1> DEFINE s == SessionOf[r]
  <1>0. s \in Sessions
    BY SessionOfAssumption
  <1>1. /\ stage' \in [Requests -> Stages]
        /\ stage'[r] = "queued"
        /\ stage[r] = "new"
        /\ \A q \in Requests \ {r} :
              \/ stage'[q] = stage[q]
              \/ stage[q] = "buffered" /\ stage'[q] = "discarded"
        /\ \A q \in Requests \ {r} : stage'[q] # stage[q] => SessionOf[q] = s
    BY <1>0, SMTT(30) DEF IInv, TypeOK, Stages, Fates, BuffersInv, EnqueueInterrupt
  <1>2. /\ Put(r)
        /\ payload' = [payload EXCEPT ![r] = <<r>>]
        /\ cancelEvents' = [cancelEvents EXCEPT ![s] = r]
        /\ buffers' = [buffers EXCEPT ![s] = <<>>]
        /\ timers' = timers \ {s}
        /\ UNCHANGED <<laneOf, taskVars, loopVars, stopVars>>
    BY DEF EnqueueInterrupt, TakeBuffer
  <1>3. /\ queue' \in Seq(Requests)
        /\ lanes' \in [Sessions -> LaneRefs \cup {None}]
        /\ laneObj' \in [LaneRefs -> LaneType]
        /\ AllIn(queue, {"queued"})' /\ NoRepeat(queue)'
        /\ LanesInv'
        /\ HeadsInv'
    BY <1>1, <1>2, PutPreserves
  <1>4. BuffersInv' /\ buffers' \in [Sessions -> Seq(Requests)]
    BY <1>0, <1>1, <1>2, BufferEmptied
  <1>5. /\ payload' \in [Requests -> Seq(Requests)]
        /\ cancelEvents' \in [Sessions -> Requests \cup {None}]
    <2>1. payload' \in [Requests -> Seq(Requests)]
      BY <1>2 DEF IInv, TypeOK
    <2>2. cancelEvents' \in [Sessions -> Requests \cup {None}]
      BY <1>2 DEF IInv, TypeOK
    <2>3. QED
      BY <2>1, <2>2
  <1>6. TypeOK'
    BY <1>1, <1>2, <1>3, <1>4, <1>5 DEF IInv, TypeOK, taskVars, loopVars, stopVars
  <1>7. LinesInv'
    BY <1>1, <1>2, <1>3, SpawnedKept DEF LinesInv, taskVars
  <1>8. QED
    BY <1>3, <1>4, <1>6, <1>7 DEF IInv

LEMMA EnqueueCollectPreserves ==
  ASSUME IInv, NEW r \in Requests, EnqueueCollect(r)
  PROVE  IInv'
  <1> DEFINE s == SessionOf[r]
  <1>0. s \in Sessions
    BY SessionOfAssumption
  <1>1. /\ stage' \in [Requests -> Stages]
        /\ \A q \in Requests \ {r} : stage'[q] = stage[q]
        /\ stage[r] = "new" /\ stage'[r] = "buffered"
    BY DEF IInv, TypeOK, Stages, EnqueueCollect
  <1>2. /\ buffers' = [buffers EXCEPT ![s] = Append(@, r)]
        /\ timers' = timers \cup {s}
        /\ UNCHANGED <<queue, cancelEvents, payload, laneVars, taskVars, loopVars,
                       stopVars>>
    BY DEF EnqueueCollect, ArmTimer
  <1>3. LanesInv' /\ HeadsInv'
    BY <1>1, <1>2, QuietPreserves DEF InFlight
  <1>4. \A t \in Sessions : buffers[t] \in Seq(Requests)
    BY DEF IInv, TypeOK
  <1>5. buffers' \in [Sessions -> Seq(Requests)]
    <2>1. Append(buffers[s], r) \in Seq(Requests)
      BY <1>0, <1>4
    <2>2. QED
      BY <1>0, <1>2, <2>1 DEF IInv, TypeOK
  <1>6. TypeOK'
    BY <1>0, <1>1, <1>2, <1>5 DEF IInv, TypeOK, laneVars, taskVars, loopVars, stopVars
  <1>7. LinesInv'
    BY <1>1, <1>2, QueueKept, SpawnedKept DEF LinesInv, taskVars
  <1>8. BuffersInv'
    <2> SUFFICES ASSUME NEW t \in Sessions, NEW i \in 1..Len(buffers'[t])
                 PROVE  /\ stage'[buffers'[t][i]] = "buffered"
                        /\ SessionOf[buffers'[t][i]] = t
      BY DEF BuffersInv
    <2>1. \A j \in 1..Len(buffers[t]) : /\ stage[buffers[t][j]] = "buffered"
                                        /\ SessionOf[buffers[t][j]] = t
                                        /\ buffers[t][j] \in Requests
      BY <1>4, ElementOfSeq DEF IInv, BuffersInv
    <2>2. CASE t = s
      <3>1. buffers'[t] = Append(buffers[t], r)
        BY <1>0, <1>2, <2>2 DEF IInv, TypeOK
      <3>2. \/ i \in 1..Len(buffers[t]) /\ buffers'[t][i] = buffers[t][i]
            \/ buffers'[t][i] = r
        BY <1>4, <3>1, AppendProperties
      <3>3. QED
        BY <1>1, <2>1, <2>2, <3>2
    <2>3. CASE t # s
      <3>1. buffers'[t] = buffers[t]
        BY <1>2, <2>3 DEF IInv, TypeOK
      <3>2. QED
        BY <1>1, <2>1, <3>1
    <2>4. QED
      BY <2>2, <2>3
  <1>9. QED
    BY <1>3, <1>6, <1>7, <1>8 DEF IInv

LEMMA FlushCollectPreserves ==
  ASSUME IInv, NEW s \in Sessions, FlushCollect(s)
  PROVE  IInv'
  <1> DEFINE buf == buffers[s]
             last == buf[Len(buf)]
  <1>1. /\ buffers' = [buffers EXCEPT ![s] = <<>>]
        /\ timers' = timers \ {s}
        /\ UNCHANGED <<cancelEvents, laneOf, taskVars, loopVars, stopVars>>
    BY DEF FlushCollect, TakeBuffer
  <1>2. CASE buf = <<>>
    <2>1. UNCHANGED <<stage, queue, lanes, laneObj, payload>>
      BY <1>2 DEF FlushCollect
    <2>2. LanesInv' /\ HeadsInv'
      BY <1>1, <2>1, QuietPreserves DEF IInv, laneVars, TypeOK
    <2>3. BuffersInv' /\ buffers' \in [Sessions -> Seq(Requests)]
      BY <1>1, <2>1, BufferEmptied
    <2>4. TypeOK'
      BY <1>1, <2>1, <2>3 DEF IInv, TypeOK, taskVars, loopVars, stopVars
    <2>5. LinesInv'
      BY <1>1, <2>1, QueueKept, SpawnedKept DEF LinesInv, taskVars
    <2>6. QED
      BY <2>2, <2>3, <2>4, <2>5 DEF IInv
  <1>3. CASE buf # <<>>
    <2>1. buf \in Seq(Requests)
      BY DEF IInv, TypeOK
    <2>2. Len(buf) \in 1..Len(buf) /\ last \in Requests
      BY <1>3, <2>1, EmptySeq, ElementOfSeq
    <2>3. \A i \in 1..Len(buf) : stage[buf[i]] = "buffered" /\ SessionOf[buf[i]] = s
      BY DEF IInv, BuffersInv
    <2>4. /\ Put(last)
          /\ payload' = [payload EXCEPT ![last] = buf]
          /\ stage' = [q \in Requests |->
                          IF q = last THEN "queued"
                          ELSE IF \E i \in 1..Len(buf) : buf[i] = q
                               THEN "absorbed"
                               ELSE stage[q]]
      BY <1>3 DEF FlushCollect
    <2>5. /\ stage' \in [Requests -> Stages]
          /\ stage'[last] = "queued"
          /\ stage[last] = "buffered"
          /\ \A q \in Requests \ {last} :
                \/ stage'[q] = stage[q]
                \/ stage[q] = "buffered" /\ stage'[q] = "absorbed"
          /\ \A q \in Requests : SessionOf[q] # s => stage'[q] = stage[q]
      <3>1. "queued" \in Stages /\ "absorbed" \in Stages
        BY DEF Stages, Fates
      <3>2. \A q \in Requests : stage[q] \in Stages
        BY DEF IInv, TypeOK
      <3>3. QED
        BY <2>2, <2>3, <2>4, <3>1, <3>2
    <2>6. /\ queue' \in Seq(Requests)
          /\ lanes' \in [Sessions -> LaneRefs \cup {None}]
          /\ laneObj' \in [LaneRefs -> LaneType]
          /\ AllIn(queue, {"queued"})' /\ NoRepeat(queue)'
          /\ LanesInv'
          /\ HeadsInv'
      BY <1>1, <2>2, <2>4, <2>5, PutPreserves
    <2>7. payload' \in [Requests -> Seq(Requests)]
      BY <2>1, <2>4 DEF IInv, TypeOK
    <2>8. BuffersInv' /\ buffers' \in [Sessions -> Seq(Requests)]
      BY <1>1, <2>5, BufferEmptied, ZenonT(40)
    <2>9. TypeOK'
      BY <1>1, <2>5, <2>6, <2>7, <2>8 DEF IInv, TypeOK, taskVars, loopVars, stopVars
    <2>10. LinesInv'
      BY <1>1, <2>2, <2>5, <2>6, SpawnedKept DEF LinesInv, taskVars
    <2>11. QED
      BY <2>6, <2>8, <2>9, <2>10 DEF IInv
  <1>4. QED
    BY <1>2, <1>3

(* start(), stop(): the pipeline is not touched.                           *)
LEMMA OtherStepsPreserve ==
  ASSUME IInv, StartLoop \/ LoopExit \/ Stop \/ StopReturn \/ UNCHANGED vars
  PROVE  IInv'
  <1>1. UNCHANGED <<stage, queue, buffers, cancelEvents, lanes, laneObj, laneOf,
                    spawned, permitLine, payload>>
    BY DEF StartLoop, LoopExit, Stop, StopReturn, vars, collectVars, laneVars,
           taskVars
  <1>2. /\ timers' \in SUBSET Sessions
        /\ running' \in BOOLEAN
        /\ loop' \in {"new", "waiting", "exited"}
        /\ gathered' \in SUBSET Requests
        /\ stopping' \in {"no", "gathering", "returned"}
    BY DEF IInv, TypeOK, StartLoop, LoopExit, Stop, StopReturn, InFlightTasks, vars,
           collectVars, loopVars, stopVars
  <1>3. LanesInv' /\ HeadsInv'
    BY <1>1, QuietPreserves DEF IInv, TypeOK, laneVars
  <1>4. TypeOK'
    BY <1>1, <1>2 DEF IInv, TypeOK
  <1>5. LinesInv'
    BY <1>1, QueueKept, SpawnedKept DEF LinesInv
  <1>6. BuffersInv'
    BY <1>1, BuffersKept
  <1>7. QED
    BY <1>3, <1>4, <1>5, <1>6 DEF IInv

LEMMA LoopTakePreserves ==
  ASSUME IInv, LoopTake
  PROVE  IInv'
  <1> DEFINE r == Head(queue)
             s == SessionOf[r]
  <1>1. /\ queue # <<>>
        /\ stage' = [stage EXCEPT ![r] = "spawned"]
        /\ spawned' = Append(spawned, r)
        /\ queue' = Tail(queue)
        /\ loop' \in {"waiting", "exited"}
        /\ UNCHANGED <<cancelEvents, permitLine, payload, running, collectVars,
                       laneVars, stopVars>>
    BY DEF LoopTake
  <1>2. queue \in Seq(Requests) /\ NoRepeat(queue) /\ AllIn(queue, {"queued"})
    BY DEF IInv, TypeOK, LinesInv
  <1>3. /\ r \in Requests
        /\ r = queue[1] /\ 1 \in 1..Len(queue)
        /\ Tail(queue) \in Seq(Requests)
        /\ NoRepeat(Tail(queue))
        /\ \A i \in 1..Len(Tail(queue)) :
              /\ i + 1 \in 1..Len(queue)
              /\ Tail(queue)[i] = queue[i + 1]
              /\ Tail(queue)[i] # r
              /\ Tail(queue)[i] \in Requests
    BY <1>1, <1>2, TailOfLine
  <1>4. stage[r] = "queued"
    BY <1>2, <1>3 DEF AllIn
  <1>5. /\ s \in Sessions
        /\ r \in Outstanding(s)
        /\ lanes[s] # None
        /\ lanes[s] \in LaneRefs
        /\ laneObj[lanes[s]] \in LaneType
    BY <1>3, <1>4, OutstandingHasLane, SMTT(30)
  <1>6. /\ laneOf' = [laneOf EXCEPT ![r] = None]
        /\ laneObj' = [laneObj EXCEPT ![lanes[s]].line = laneObj[lanes[s]].line]
        /\ lanes' = lanes
        /\ laneObj[lanes[s]].line \in Seq(Requests)
    <2>1. laneOf[r] = None
      BY <1>3, <1>4 DEF IInv, LanesInv, HasLane
    <2>2. laneOf' = [laneOf EXCEPT ![r] = None]
      BY <1>1, <2>1 DEF IInv, TypeOK, laneVars
    <2>3. laneObj' = [laneObj EXCEPT ![lanes[s]].line = laneObj[lanes[s]].line]
      BY <1>1, <1>5 DEF IInv, TypeOK, LaneType, laneVars
    <2>4. QED
      BY <1>1, <1>5, <2>2, <2>3 DEF laneVars, LaneType
  <1>7. /\ stage' \in [Requests -> Stages]
        /\ laneOf' \in [Requests -> LaneRefs \cup {None}]
        /\ laneObj' \in [LaneRefs -> LaneType]
        /\ LanesInv'
        /\ HeadsInv'
    BY <1>1, <1>3, <1>4, <1>6, StayPreserves DEF InFlight, HasLane
  <1>8. \A q \in Requests \ {r} : stage'[q] = stage[q]
    BY <1>1, <1>3 DEF IInv, TypeOK
  <1>9. stage'[r] = "spawned"
    BY <1>1, <1>3 DEF IInv, TypeOK
  <1>10. LinesInv' /\ spawned' \in Seq(Requests)
    <2>1. AllIn(queue, {"queued"})' /\ NoRepeat(queue)'
      BY <1>1, <1>2, <1>3, <1>8 DEF AllIn
    <2>2. spawned \in Seq(Requests) /\ NoRepeat(spawned)
      BY DEF IInv, TypeOK, LinesInv
    <2>3. \A i \in 1..Len(spawned) : /\ spawned[i] \in Requests
                                     /\ stage[spawned[i]] = "spawned"
                                     /\ spawned[i] # r
      BY <1>4, <2>2, ElementOfSeq DEF IInv, LinesInv, AllIn
    <2>4. /\ spawned' \in Seq(Requests)
          /\ NoRepeat(spawned)'
          /\ \A i \in 1..Len(spawned') :
                \/ i \in 1..Len(spawned) /\ spawned'[i] = spawned[i]
                \/ spawned'[i] = r
      <3>1. /\ Append(spawned, r) \in Seq(Requests)
            /\ NoRepeat(Append(spawned, r))
            /\ \A i \in 1..Len(Append(spawned, r)) :
                  \/ i \in 1..Len(spawned) /\ Append(spawned, r)[i] = spawned[i]
                  \/ Append(spawned, r)[i] = r
        BY <1>3, <2>2, <2>3, AppendToLine
      <3>2. QED
        BY <1>1, <3>1 DEF NoRepeat
    <2>5. AllIn(spawned, {"spawned"})'
      BY <1>8, <1>9, <2>3, <2>4 DEF AllIn
    <2>6. QED
      BY <2>1, <2>4, <2>5 DEF LinesInv
  <1>11. BuffersInv'
    BY <1>1, <1>4, <1>8, BuffersKept DEF collectVars
  <1>12. TypeOK'
    BY <1>1, <1>3, <1>7, <1>10 DEF IInv, TypeOK, collectVars, laneVars, stopVars
  <1>13. QED
    BY <1>7, <1>10, <1>11, <1>12 DEF IInv

(* What the tasks that start have in common: the first of spawned leaves   *)
(* that line, and its session has a lane.                                  *)
LEMMA FirstSpawned ==
  ASSUME IInv, spawned # <<>>, spawned' = Tail(spawned),
         \A q \in Requests \ {Head(spawned)} : stage'[q] = stage[q]
  PROVE  LET r == Head(spawned)
             s == SessionOf[r]
         IN  /\ r \in Requests
             /\ stage[r] = "spawned"
             /\ laneOf[r] = None
             /\ s \in Sessions
             /\ lanes[s] # None
             /\ lanes[s] \in LaneRefs
             /\ laneObj[lanes[s]] \in LaneType
             /\ \A c \in {"put", "task"} : LaneFor(s, <<r, c>>) = lanes[s]
             /\ LaneState(s) = laneObj[lanes[s]]
             /\ spawned' \in Seq(Requests)
             /\ AllIn(spawned, {"spawned"})'
             /\ NoRepeat(spawned)'
  <1> DEFINE r == Head(spawned)
             s == SessionOf[r]
  <1>1. spawned \in Seq(Requests) /\ NoRepeat(spawned) /\ AllIn(spawned, {"spawned"})
    BY DEF IInv, TypeOK, LinesInv
  <1>2. /\ r \in Requests
        /\ r = spawned[1] /\ 1 \in 1..Len(spawned)
        /\ Tail(spawned) \in Seq(Requests)
        /\ NoRepeat(Tail(spawned))
        /\ \A i \in 1..Len(Tail(spawned)) :
              /\ i + 1 \in 1..Len(spawned)
              /\ Tail(spawned)[i] = spawned[i + 1]
              /\ Tail(spawned)[i] # r
              /\ Tail(spawned)[i] \in Requests
    BY <1>1, TailOfLine
  <1>3. stage[r] = "spawned"
    BY <1>1, <1>2 DEF AllIn
  <1>4. laneOf[r] = None
    BY <1>2, <1>3 DEF IInv, LanesInv, HasLane
  <1>5. /\ s \in Sessions
        /\ lanes[s] # None
        /\ lanes[s] \in LaneRefs
        /\ laneObj[lanes[s]] \in LaneType
    BY <1>2, <1>3, OutstandingHasLane DEF InFlight
  <1>6. /\ \A c \in {"put", "task"} : LaneFor(s, <<r, c>>) = lanes[s]
        /\ LaneState(s) = laneObj[lanes[s]]
    BY <1>5 DEF LaneFor, LaneState
  <1>7. AllIn(spawned, {"spawned"})'
    BY <1>1, <1>2 DEF AllIn
  <1>8. NoRepeat(spawned)'
    BY <1>2 DEF NoRepeat
  <1>9. QED
    BY <1>2, <1>3, <1>4, <1>5, <1>6, <1>7, <1>8

LEMMA StartCancelledPreserves ==
  ASSUME IInv, StartCancelled
  PROVE  IInv'
  <1> DEFINE r == Head(spawned)
             s == SessionOf[r]
             l == lanes[s]
             lane == laneObj[l]
  <1>1. /\ spawned # <<>>
        /\ spawned' = Tail(spawned)
        /\ stage' = [stage EXCEPT ![r] = "cancelled"]
        /\ cancelEvents' = [cancelEvents EXCEPT ![s] = None]
        /\ laneObj' = [laneObj EXCEPT ![LaneFor(s, <<r, "task">>)] =
                          [LaneState(s) EXCEPT !.pending = @ - 1]]
        /\ lanes' = Release([lanes EXCEPT ![s] = LaneFor(s, <<r, "task">>)], laneObj', s)
        /\ UNCHANGED <<queue, laneOf, permitLine, payload, collectVars, loopVars,
                       stopVars>>
    BY DEF StartCancelled, ConsumeEvent
  <1>2. \A q \in Requests \ {r} : stage'[q] = stage[q]
    BY <1>1 DEF IInv, TypeOK
  <1>3. /\ r \in Requests
        /\ stage[r] = "spawned"
        /\ laneOf[r] = None
        /\ s \in Sessions
        /\ l # None
        /\ l \in LaneRefs
        /\ lane \in LaneType
        /\ LaneFor(s, <<r, "task">>) = l
        /\ LaneState(s) = lane
        /\ spawned' \in Seq(Requests)
        /\ AllIn(spawned, {"spawned"})'
        /\ NoRepeat(spawned)'
    BY <1>1, <1>2, FirstSpawned, SMTT(30)
  <1>4. /\ laneOf' = [laneOf EXCEPT ![r] = None]
        /\ laneObj' = [laneObj EXCEPT ![l] = [pending |-> @.pending - 1,
                                             line |-> lane.line]]
        /\ lanes' = Release(lanes, laneObj', s)
        /\ lane.line \in Seq(Requests)
    <2>1. laneOf' = [laneOf EXCEPT ![r] = None]
      BY <1>1, <1>3 DEF IInv, TypeOK
    <2>2. [lane EXCEPT !.pending = @ - 1]
             = [pending |-> lane.pending - 1, line |-> lane.line]
      BY <1>3, SMTT(30) DEF LaneType
    <2>3. laneObj' = [laneObj EXCEPT ![l] = [pending |-> @.pending - 1,
                                            line |-> lane.line]]
      BY <1>1, <1>3, <2>2, ZenonT(40) DEF IInv, TypeOK
    <2>4. [lanes EXCEPT ![s] = l] = lanes
      BY <1>3 DEF IInv, TypeOK
    <2>5. QED
      BY <1>1, <1>3, <2>1, <2>3, <2>4, ZenonT(40) DEF LaneType
  <1>5. /\ stage' \in [Requests -> Stages]
        /\ laneOf' \in [Requests -> LaneRefs \cup {None}]
        /\ laneObj' \in [LaneRefs -> LaneType]
        /\ lanes' \in [Sessions -> LaneRefs \cup {None}]
        /\ LanesInv'
        /\ HeadsInv'
    BY <1>1, <1>3, <1>4, LeavePreserves DEF Fates
  <1>6. stage'[r] = "cancelled"
    BY <1>1, <1>3 DEF IInv, TypeOK
  <1>7. cancelEvents' \in [Sessions -> Requests \cup {None}]
    BY <1>1 DEF IInv, TypeOK
  <1>8. TypeOK'
    BY <1>1, <1>3, <1>5, <1>7 DEF IInv, TypeOK, collectVars, loopVars, stopVars
  <1>9. LinesInv'
    BY <1>1, <1>2, <1>3, QueueKept DEF LinesInv
  <1>10. BuffersInv'
    BY <1>1, <1>2, <1>3, BuffersKept DEF collectVars
  <1>11. QED
    BY <1>5, <1>8, <1>9, <1>10 DEF IInv

LEMMA StartTaskPreserves ==
  ASSUME IInv, StartTask
  PROVE  IInv'
  <1> DEFINE r == Head(spawned)
             s == SessionOf[r]
             l == lanes[s]
             lane == laneObj[l]
             k == LaneFor(s, <<r, "task">>)
  <1>1. /\ spawned # <<>>
        /\ spawned' = Tail(spawned)
        /\ lanes' = [lanes EXCEPT ![s] = k]
        /\ laneOf' = [laneOf EXCEPT ![r] = k]
        /\ permitLine' = Append(permitLine, r)
        /\ \/ /\ stage' = [stage EXCEPT ![r] = AtLane(LaneState(s).line)]
              /\ laneObj' = [laneObj EXCEPT
                                ![k] = [LaneState(s) EXCEPT !.line = Append(@, r)]]
           \/ /\ stage' = [stage EXCEPT ![r] = "permit"]
              /\ laneObj' = [laneObj EXCEPT ![k] = LaneState(s)]
        /\ UNCHANGED <<queue, cancelEvents, payload, collectVars, loopVars, stopVars>>
    BY DEF StartTask
  <1>2. \A q \in Requests \ {r} : stage'[q] = stage[q]
    BY <1>1 DEF IInv, TypeOK
  <1>3. /\ r \in Requests
        /\ stage[r] = "spawned"
        /\ laneOf[r] = None
        /\ s \in Sessions
        /\ l # None
        /\ l \in LaneRefs
        /\ lane \in LaneType
        /\ k = l
        /\ LaneState(s) = lane
        /\ spawned' \in Seq(Requests)
        /\ AllIn(spawned, {"spawned"})'
        /\ NoRepeat(spawned)'
    BY <1>1, <1>2, FirstSpawned
  <1>4. lanes' = lanes /\ lane.line \in Seq(Requests)
    BY <1>1, <1>3, SMTT(30) DEF IInv, TypeOK, LaneType
  <1>5. /\ stage' \in [Requests -> Stages]
        /\ laneOf' \in [Requests -> LaneRefs \cup {None}]
        /\ laneObj' \in [LaneRefs -> LaneType]
        /\ LanesInv'
        /\ HeadsInv'
        /\ stage'[r] \in HasLane
    <2>1. CASE /\ stage' = [stage EXCEPT ![r] = AtLane(lane.line)]
               /\ laneObj' = [laneObj EXCEPT
                                 ![l] = [lane EXCEPT !.line = Append(@, r)]]
      <3>1. laneObj' = [laneObj EXCEPT ![l].line = Append(lane.line, r)]
        BY <1>3, <2>1 DEF IInv, TypeOK, LaneType
      <3>2. Append(lane.line, r) \in Seq(Requests)
        BY <1>3, <1>4
      <3>3. AtLane(lane.line) \in {"handling", "lane"}
        BY DEF AtLane
      <3>4. AtLane(lane.line) = "handling" =>
              /\ Append(lane.line, r) # <<>>
              /\ Head(Append(lane.line, r)) = r
        BY <1>3, <1>4, HeadTailAppend, AppendProperties, SMTT(30) DEF AtLane
      <3>5. laneOf' = [laneOf EXCEPT ![r] = IF AtLane(lane.line) \in HasLane
                                            THEN l ELSE None]
        BY <1>1, <1>3, <3>3, ZenonT(40) DEF HasLane
      <3>6. /\ stage' \in [Requests -> Stages]
            /\ laneOf' \in [Requests -> LaneRefs \cup {None}]
            /\ laneObj' \in [LaneRefs -> LaneType]
            /\ LanesInv'
            /\ HeadsInv'
        BY <1>3, <1>4, <2>1, <3>1, <3>2, <3>3, <3>4, <3>5, StayPreserves, ZenonT(40)
           DEF InFlight, HasLane
      <3>7. stage'[r] \in HasLane
        BY <1>3, <2>1, <3>3 DEF IInv, TypeOK, HasLane
      <3>8. QED
        BY <3>6, <3>7
    <2>2. CASE /\ stage' = [stage EXCEPT ![r] = "permit"]
               /\ laneObj' = [laneObj EXCEPT ![l] = lane]
      <3>1. laneObj' = [laneObj EXCEPT ![l].line = lane.line]
        BY <1>3, <2>2 DEF IInv, TypeOK, LaneType
      <3>2. laneOf' = [laneOf EXCEPT ![r] = IF "permit" \in HasLane THEN l ELSE None]
        BY <1>1, <1>3 DEF HasLane
      <3>3. /\ stage' \in [Requests -> Stages]
            /\ laneOf' \in [Requests -> LaneRefs \cup {None}]
            /\ laneObj' \in [LaneRefs -> LaneType]
            /\ LanesInv'
            /\ HeadsInv'
        BY <1>3, <1>4, <2>2, <3>1, <3>2, StayPreserves DEF InFlight, HasLane
      <3>4. stage'[r] \in HasLane
        BY <1>3, <2>2 DEF IInv, TypeOK, HasLane
      <3>5. QED
        BY <3>3, <3>4
    <2>3. QED
      BY <1>1, <1>3, <2>1, <2>2
  <1>6. TypeOK'
    <2>1. permitLine' \in Seq(Requests)
      BY <1>1, <1>3, SMTT(30) DEF IInv, TypeOK
    <2>2. QED
      BY <1>1, <1>3, <1>4, <1>5, <2>1 DEF IInv, TypeOK, collectVars, loopVars, stopVars
  <1>7. LinesInv'
    BY <1>1, <1>2, <1>3, QueueKept DEF LinesInv
  <1>8. BuffersInv'
    BY <1>1, <1>2, <1>3, BuffersKept DEF collectVars
  <1>9. QED
    BY <1>5, <1>6, <1>7, <1>8 DEF IInv

LEMMA ResumeWithPermitPreserves ==
  ASSUME IInv, NEW i \in 1..Len(permitLine), ResumeWithPermit(i)
  PROVE  IInv'
  <1> DEFINE r == permitLine[i]
             s == SessionOf[r]
             l == laneOf[r]
             lane == laneObj[l]
  <1>1. /\ stage[r] = "permit"
        /\ stage' = [stage EXCEPT ![r] = AtLane(lane.line)]
        /\ laneObj' = [laneObj EXCEPT ![l].line = Append(@, r)]
        /\ UNCHANGED <<queue, cancelEvents, lanes, laneOf, payload, collectVars,
                       taskVars, loopVars, stopVars>>
    BY DEF ResumeWithPermit
  <1>2. r \in Requests
    BY ElementOfSeq DEF IInv, TypeOK
  <1>3. \A q \in Requests \ {r} : stage'[q] = stage[q]
    BY <1>1 DEF IInv, TypeOK
  <1>4. /\ s \in Sessions
        /\ lanes[s] \in LaneRefs
        /\ laneObj[lanes[s]] \in LaneType
        /\ l = lanes[s]
    BY <1>1, <1>2, OutstandingHasLane DEF InFlight, IInv, LanesInv, HasLane
  <1>5. AtLane(lane.line) \in {"handling", "lane"}
    BY DEF AtLane
  <1>6. /\ lane.line \in Seq(Requests)
        /\ Append(lane.line, r) \in Seq(Requests)
    BY <1>2, <1>4 DEF LaneType
  <1>7. /\ AtLane(lane.line) = "handling" =>
              Append(lane.line, r) # <<>> /\ Head(Append(lane.line, r)) = r
        /\ laneObj' = [laneObj EXCEPT ![l].line = Append(lane.line, r)]
        /\ laneOf' = [laneOf EXCEPT ![r] = IF AtLane(lane.line) \in HasLane
                                            THEN lanes[s] ELSE None]
    <2>1. AtLane(lane.line) = "handling" =>
            Append(lane.line, r) # <<>> /\ Head(Append(lane.line, r)) = r
      BY <1>2, <1>6, HeadTailAppend, AppendProperties DEF AtLane
    <2>2. laneObj' = [laneObj EXCEPT ![l].line = Append(lane.line, r)]
      BY <1>1, <1>4 DEF IInv, TypeOK
    <2>3. laneOf' = [laneOf EXCEPT ![r] = lanes[s]]
      BY <1>1, <1>2, <1>4, SMTT(30) DEF IInv, TypeOK
    <2>4. QED
      BY <1>5, <2>1, <2>2, <2>3 DEF HasLane
  <1>8. /\ stage' \in [Requests -> Stages]
        /\ laneOf' \in [Requests -> LaneRefs \cup {None}]
        /\ laneObj' \in [LaneRefs -> LaneType]
        /\ LanesInv'
        /\ HeadsInv'
    BY <1>1, <1>2, <1>4, <1>5, <1>6, <1>7, StayPreserves DEF InFlight, HasLane
  <1>9. TypeOK'
    BY <1>1, <1>8 DEF IInv, TypeOK, collectVars, taskVars, loopVars, stopVars
  <1>10. LinesInv'
    BY <1>1, <1>3, QueueKept, SpawnedKept DEF LinesInv, taskVars
  <1>11. BuffersInv'
    BY <1>1, <1>3, BuffersKept DEF collectVars
  <1>12. QED
    BY <1>8, <1>9, <1>10, <1>11 DEF IInv

LEMMA BeginHandlerPreserves ==
  ASSUME IInv, NEW r \in Requests, BeginHandler(r)
  PROVE  IInv'
  <1> DEFINE s == SessionOf[r]
             lane == laneObj[lanes[s]]
  <1>1. /\ stage[r] = "lane"
        /\ laneObj[laneOf[r]].line # <<>>
        /\ Head(laneObj[laneOf[r]].line) = r
        /\ stage' = [stage EXCEPT ![r] = "handling"]
        /\ UNCHANGED <<queue, cancelEvents, payload, collectVars, laneVars, taskVars,
                       loopVars, stopVars>>
    BY DEF BeginHandler
  <1>2. \A q \in Requests \ {r} : stage'[q] = stage[q]
    BY <1>1 DEF IInv, TypeOK
  <1>3. /\ s \in Sessions
        /\ lanes[s] \in LaneRefs
        /\ lane \in LaneType
        /\ laneOf[r] = lanes[s]
    BY <1>1, OutstandingHasLane DEF InFlight, IInv, LanesInv, HasLane
  <1>4. /\ lane.line \in Seq(Requests)
        /\ laneObj' = [laneObj EXCEPT ![lanes[s]].line = lane.line]
        /\ laneOf' = [laneOf EXCEPT ![r] = lanes[s]]
        /\ lanes' = lanes
    <2>1. laneObj' = [laneObj EXCEPT ![lanes[s]].line = lane.line]
      BY <1>1, <1>3 DEF IInv, TypeOK, LaneType, laneVars
    <2>2. laneOf' = [laneOf EXCEPT ![r] = lanes[s]]
      BY <1>1, <1>3 DEF IInv, TypeOK, laneVars
    <2>3. QED
      BY <1>1, <1>3, <2>1, <2>2 DEF LaneType, laneVars
  <1>5. /\ stage' \in [Requests -> Stages]
        /\ laneOf' \in [Requests -> LaneRefs \cup {None}]
        /\ laneObj' \in [LaneRefs -> LaneType]
        /\ LanesInv'
        /\ HeadsInv'
    BY <1>1, <1>3, <1>4, StayPreserves DEF InFlight, HasLane
  <1>6. TypeOK'
    BY <1>1, <1>5 DEF IInv, TypeOK, collectVars, laneVars, taskVars, loopVars, stopVars
  <1>7. LinesInv'
    BY <1>1, <1>2, QueueKept, SpawnedKept DEF LinesInv, taskVars
  <1>8. BuffersInv'
    BY <1>1, <1>2, BuffersKept DEF collectVars
  <1>9. QED
    BY <1>5, <1>6, <1>7, <1>8 DEF IInv

LEMMA FinishHandlerPreserves ==
  ASSUME IInv, NEW i \in 1..Len(permitLine), NEW outcome \in Outcomes,
         FinishHandler(i, outcome)
  PROVE  IInv'
  <1> DEFINE r == permitLine[i]
             s == SessionOf[r]
             l == lanes[s]
             lane == laneObj[l]
  <1>1. /\ stage[r] = "handling"
        /\ stage' = [stage EXCEPT ![r] = outcome]
        /\ laneObj' = [laneObj EXCEPT ![laneOf[r]] =
                          [pending |-> @.pending - 1, line |-> Tail(@.line)]]
        /\ lanes' = Release(lanes, laneObj', s)
        /\ laneOf' = [laneOf EXCEPT ![r] = None]
        /\ permitLine' = RemoveAt(permitLine, i)
        /\ UNCHANGED <<queue, cancelEvents, spawned, payload, collectVars,
                       loopVars, stopVars>>
    BY DEF FinishHandler, ReturnPermit
  <1>2. r \in Requests
    BY ElementOfSeq DEF IInv, TypeOK
  <1>3. \A q \in Requests \ {r} : stage'[q] = stage[q]
    BY <1>1 DEF IInv, TypeOK
  <1>4. /\ l \in LaneRefs
        /\ lane \in LaneType
        /\ laneOf[r] = l
    BY <1>1, <1>2, OutstandingHasLane, SMTT(30) DEF InFlight, IInv, LanesInv, HasLane
  <1>5. lane.line # <<>>
    BY <1>1, <1>2, <1>4 DEF IInv, HeadsInv, Handling
  <1>6. /\ Tail(lane.line) \in Seq(Requests)
        /\ laneObj' = [laneObj EXCEPT ![l] = [pending |-> @.pending - 1,
                                             line |-> Tail(lane.line)]]
    <2>1. Tail(lane.line) \in Seq(Requests)
      BY <1>4, <1>5, HeadTailProperties DEF LaneType
    <2>2. laneObj' = [laneObj EXCEPT ![l] = [pending |-> @.pending - 1,
                                            line |-> Tail(lane.line)]]
      BY <1>1, <1>4, SMTT(30)
    <2>3. QED
      BY <2>1, <2>2
  <1>7. /\ stage' \in [Requests -> Stages]
        /\ laneOf' \in [Requests -> LaneRefs \cup {None}]
        /\ laneObj' \in [LaneRefs -> LaneType]
        /\ lanes' \in [Sessions -> LaneRefs \cup {None}]
        /\ LanesInv'
        /\ HeadsInv'
    BY <1>1, <1>2, <1>6, LeavePreserves DEF Fates
  <1>8. permitLine' \in Seq(Requests)
    BY <1>1, RemoveAtType, SMTT(30) DEF IInv, TypeOK
  <1>9. TypeOK'
    BY <1>1, <1>7, <1>8 DEF IInv, TypeOK, collectVars, loopVars, stopVars
  <1>10. LinesInv'
    BY <1>1, <1>3, QueueKept, SpawnedKept DEF LinesInv
  <1>11. BuffersInv'
    BY <1>1, <1>3, BuffersKept DEF collectVars
  <1>12. QED
    BY <1>7, <1>9, <1>10, <1>11 DEF IInv

-----------------------------------------------------------------------------
(* The invariant is inductive: every step of the queue preserves it.       *)
LEMMA NextPreserves == IInv /\ [Next]_vars => IInv'
  <1> SUFFICES ASSUME IInv, [Next]_vars PROVE IInv'
    OBVIOUS
  <1>1. ASSUME NEW r \in Requests, Enqueue(r) PROVE IInv'
    BY <1>1, RejectFullPreserves, EnqueueFollowupPreserves,
       EnqueueInterruptPreserves, EnqueueCollectPreserves DEF Enqueue
  <1>2. ASSUME NEW s \in Sessions, FlushCollect(s) PROVE IInv'
    BY <1>2, FlushCollectPreserves
  <1>3. CASE LoopTake
    BY <1>3, LoopTakePreserves
  <1>4. CASE ProcessItem
    <2>1. CASE StartCancelled
      BY <2>1, StartCancelledPreserves
    <2>2. CASE StartTask
      BY <2>2, StartTaskPreserves
    <2>3. ASSUME NEW i \in 1..Len(permitLine), ResumeWithPermit(i) PROVE IInv'
      BY <2>3, ResumeWithPermitPreserves
    <2>4. ASSUME NEW r \in Requests, BeginHandler(r) PROVE IInv'
      BY <2>4, BeginHandlerPreserves
    <2>5. ASSUME NEW i \in 1..Len(permitLine), NEW outcome \in Outcomes,
                 FinishHandler(i, outcome)
          PROVE  IInv'
      BY <2>5, FinishHandlerPreserves
    <2>6. QED
      BY <1>4, <2>1, <2>2, <2>3, <2>4, <2>5 DEF ProcessItem
  <1>5. CASE StartLoop \/ LoopExit \/ Stop \/ StopReturn \/ UNCHANGED vars
    BY <1>5, OtherStepsPreserve
  <1>6. QED
    BY <1>1, <1>2, <1>3, <1>4, <1>5 DEF Next

(* The inductive invariant holds in every reachable state.                 *)
THEOREM Inductive == Spec => []IInv
  <1>1. QED
    BY InitIInv, NextPreserves, PTL DEF Spec

(* Every variable keeps its type; in particular no lane's pending count is *)
(* ever decremented below zero (_process_item, both exits).                *)
THEOREM TypeCorrect == Spec => []TypeOK
  <1>1. IInv => TypeOK
    BY DEF IInv
  <1>2. QED
    BY <1>1, Inductive, PTL

(* At most one handler runs per session, for any number of sessions,       *)
(* requests and permits, although lanes are forgotten and rebuilt.         *)
THEOREM SessionExclusionHolds == Spec => []SessionExclusion
  <1>1. QED
    BY Exclusion, Inductive, PTL

(* A lane is in the dictionary exactly while its session has items queued  *)
(* or in a task, and its count is their number.                            *)
THEOREM LaneAccountingHolds == Spec => []LaneAccounting
  <1>1. IInv => LaneAccounting
    BY DEF IInv, LanesInv, LaneAccounting, Outstanding
  <1>2. QED
    BY <1>1, Inductive, PTL

-----------------------------------------------------------------------------
(* Cancel events *)

(* An event is set by an interrupt of its session that has not started.    *)
EventInv ==
    \A s \in Sessions : cancelEvents[s] # None =>
        /\ SessionOf[cancelEvents[s]] = s
        /\ stage[cancelEvents[s]] \in {"queued", "spawned"}

(* An event that stays must have its interrupt stay before its start.      *)
LEMMA EventsKept ==
  ASSUME IInv, EventInv,
         \A s \in Sessions : cancelEvents'[s] \in {cancelEvents[s], None},
         \A s \in Sessions : \A q \in Requests :
            /\ cancelEvents'[s] = q
            /\ SessionOf[q] = s
            /\ stage[q] \in {"queued", "spawned"}
            => stage'[q] \in {"queued", "spawned"}
  PROVE  EventInv'
  BY DEF IInv, TypeOK, EventInv

LEMMA EventStep == IInv /\ EventInv /\ [Next]_vars => EventInv'
  <1> SUFFICES ASSUME IInv, EventInv, [Next]_vars PROVE EventInv'
    OBVIOUS
  <1> USE DEF vars, collectVars, laneVars, taskVars, loopVars, stopVars
  <1>1. TypeOK /\ LinesInv /\ BuffersInv
    BY DEF IInv
  <1>2. ASSUME NEW r \in Requests, Enqueue(r) PROVE EventInv'
    <2>1. CASE RejectFull(r) \/ EnqueueFollowup(r) \/ EnqueueCollect(r)
      <3>1. cancelEvents' = cancelEvents /\ stage[r] = "new"
        BY <2>1 DEF RejectFull, EnqueueFollowup, EnqueueCollect
      <3>2. \A q \in Requests : stage[q] # "new" => stage'[q] = stage[q]
        BY <1>1, <2>1, <3>1 DEF RejectFull, EnqueueFollowup, EnqueueCollect, TypeOK
      <3>3. QED
        BY <3>1, <3>2, EventsKept
    <2>2. CASE EnqueueInterrupt(r)
      <3> DEFINE s == SessionOf[r]
      <3>1. /\ cancelEvents' = [cancelEvents EXCEPT ![s] = r]
            /\ stage'[r] = "queued"
            /\ s \in Sessions
        BY <2>2, SessionOfAssumption DEF EnqueueInterrupt
      <3>2. ASSUME NEW q \in Requests, stage[q] \in {"queued", "spawned"}
            PROVE  stage'[q] = stage[q]
        <4>1. \A i \in 1..Len(buffers[s]) : buffers[s][i] # q
          BY <1>1, <3>1, <3>2 DEF BuffersInv
        <4>2. q # r
          BY <2>2, <3>2 DEF EnqueueInterrupt
        <4>3. QED
          BY <2>2, <4>1, <4>2 DEF EnqueueInterrupt
      <3>3. ASSUME NEW t \in Sessions, cancelEvents'[t] # None
            PROVE  /\ SessionOf[cancelEvents'[t]] = t
                   /\ stage'[cancelEvents'[t]] \in {"queued", "spawned"}
        <4>1. CASE t = s
          BY <1>1, <3>1, <4>1 DEF TypeOK
        <4>2. CASE t # s
          <5>1. cancelEvents'[t] = cancelEvents[t]
            BY <1>1, <3>1, <4>2 DEF TypeOK
          <5>2. cancelEvents[t] \in Requests
            BY <1>1, <3>3, <5>1 DEF TypeOK
          <5>3. QED
            BY <3>2, <3>3, <5>1, <5>2 DEF EventInv
        <4>3. QED
          BY <4>1, <4>2
      <3>4. QED
        BY <3>3 DEF EventInv
    <2>3. QED
      BY <1>2, <2>1, <2>2 DEF Enqueue
  <1>3. ASSUME NEW s \in Sessions, FlushCollect(s) PROVE EventInv'
    <2> DEFINE buf == buffers[s]
               last == buf[Len(buf)]
    <2>1. cancelEvents' = cancelEvents
      BY <1>3 DEF FlushCollect
    <2>2. ASSUME NEW q \in Requests, stage[q] \in {"queued", "spawned"}
          PROVE  stage'[q] = stage[q]
      <3>1. CASE buf = <<>>
        BY <1>3, <3>1 DEF FlushCollect
      <3>2. CASE buf # <<>>
        <4>1. buf \in Seq(Requests) /\ Len(buf) \in 1..Len(buf)
          BY <1>1, <3>2, EmptySeq DEF TypeOK
        <4>2. \A i \in 1..Len(buf) : buf[i] # q
          BY <1>1, <2>2 DEF BuffersInv
        <4>3. QED
          BY <1>3, <3>2, <4>1, <4>2 DEF FlushCollect
      <3>3. QED
        BY <3>1, <3>2
    <2>3. QED
      BY <2>1, <2>2, EventsKept
  <1>4. CASE LoopTake
    <2>1. Head(queue) \in Requests /\ stage' = [stage EXCEPT ![Head(queue)] = "spawned"]
      BY <1>1, <1>4, TailOfLine DEF TypeOK, LinesInv, LoopTake
    <2>2. cancelEvents' = cancelEvents
      BY <1>4 DEF LoopTake
    <2>3. QED
      BY <1>1, <2>1, <2>2, EventsKept DEF TypeOK
  <1>5. CASE StartCancelled
    <2> DEFINE r == Head(spawned)
               s == SessionOf[r]
    <2>1. /\ r \in Requests /\ s \in Sessions
          /\ stage' = [stage EXCEPT ![r] = "cancelled"]
          /\ cancelEvents' = [cancelEvents EXCEPT ![s] = None]
      BY <1>1, <1>5, TailOfLine, SessionOfAssumption DEF TypeOK, LinesInv, StartCancelled, ConsumeEvent
    <2>2. \A t \in Sessions : cancelEvents'[t] = IF t = s THEN None ELSE cancelEvents[t]
      BY <1>1, <2>1 DEF TypeOK
    <2>3. \A q \in Requests : q # r => stage'[q] = stage[q]
      BY <1>1, <2>1 DEF TypeOK
    <2>4. QED
      BY <2>1, <2>2, <2>3, EventsKept, RequestIsNotNone
  <1>6. CASE StartTask
    <2> DEFINE r == Head(spawned)
    <2>1. /\ r \in Requests /\ SessionOf[r] \in Sessions
          /\ cancelEvents[SessionOf[r]] = None
          /\ cancelEvents' = cancelEvents
      BY <1>1, <1>6, TailOfLine, SessionOfAssumption DEF TypeOK, LinesInv, StartTask
    <2>2. \A q \in Requests : q # r => stage'[q] = stage[q]
      BY <1>1, <1>6 DEF TypeOK, StartTask
    <2>3. QED
      BY <2>1, <2>2, EventsKept, RequestIsNotNone
  <1>7. ASSUME NEW i \in 1..Len(permitLine), ResumeWithPermit(i) PROVE EventInv'
    <2>1. stage[permitLine[i]] = "permit" /\ cancelEvents' = cancelEvents
      BY <1>7 DEF ResumeWithPermit
    <2>2. \A q \in Requests : q # permitLine[i] => stage'[q] = stage[q]
      BY <1>1, <1>7 DEF ResumeWithPermit, TypeOK
    <2>3. QED
      BY <2>1, <2>2, EventsKept
  <1>8. ASSUME NEW r \in Requests, BeginHandler(r) PROVE EventInv'
    BY <1>1, <1>8, EventsKept DEF BeginHandler, TypeOK
  <1>9. ASSUME NEW i \in 1..Len(permitLine), NEW outcome \in Outcomes,
               FinishHandler(i, outcome)
        PROVE  EventInv'
    <2>1. stage[permitLine[i]] = "handling" /\ cancelEvents' = cancelEvents
      BY <1>9 DEF FinishHandler
    <2>2. \A q \in Requests : q # permitLine[i] => stage'[q] = stage[q]
      BY <1>1, <1>9 DEF FinishHandler, TypeOK
    <2>3. QED
      BY <2>1, <2>2, EventsKept
  <1>10. CASE StartLoop \/ LoopExit \/ Stop \/ StopReturn \/ UNCHANGED vars
    BY <1>10, EventsKept DEF StartLoop, LoopExit, Stop, StopReturn
  <1>11. QED
    BY <1>2, <1>3, <1>4, <1>5, <1>6, <1>7, <1>8, <1>9, <1>10 DEF Next, ProcessItem

(* A cancel event that is set belongs to an interrupt that has not         *)
(* started, so no message that is sent after it is cancelled by it.        *)
THEOREM CancelEventsEnd == Spec => []CancelEventBounded
  <1>1. Init => EventInv
    BY DEF Init, EventInv
  <1>2. EventInv => CancelEventBounded
    BY DEF EventInv, CancelEventBounded
  <1>3. QED
    BY <1>1, <1>2, EventStep, Inductive, PTL DEF Spec

-----------------------------------------------------------------------------
(* Debounce timers *)

LEMMA ArmedKept ==
  ASSUME BufferArmed, buffers' = buffers, timers' = timers,
         stopping' = "no" => stopping = "no"
  PROVE  BufferArmed'
  BY DEF BufferArmed

LEMMA ArmedStep == IInv /\ BufferArmed /\ [Next]_vars => BufferArmed'
  <1> SUFFICES ASSUME IInv, BufferArmed, [Next]_vars PROVE BufferArmed'
    OBVIOUS
  <1> USE DEF vars, collectVars, laneVars, taskVars, loopVars, stopVars
  <1>1. buffers \in [Sessions -> Seq(Requests)] /\ timers \subseteq Sessions
    BY DEF IInv, TypeOK
  <1>2. ASSUME NEW s \in Sessions, TakeBuffer(s), stopping' = stopping
        PROVE  BufferArmed'
    BY <1>1, <1>2 DEF BufferArmed, TakeBuffer
  <1>3. ASSUME NEW r \in Requests, Enqueue(r) PROVE BufferArmed'
    <2>1. SessionOf[r] \in Sessions
      BY SessionOfAssumption
    <2>2. CASE RejectFull(r) \/ EnqueueFollowup(r)
      BY <2>2, ArmedKept DEF RejectFull, EnqueueFollowup
    <2>3. CASE EnqueueInterrupt(r)
      BY <1>2, <2>1, <2>3 DEF EnqueueInterrupt
    <2>4. CASE EnqueueCollect(r)
      <3> DEFINE s == SessionOf[r]
      <3>1. /\ buffers' = [buffers EXCEPT ![s] = Append(@, r)]
            /\ timers' = timers \cup {s} /\ stopping' = stopping
        BY <2>4 DEF EnqueueCollect, ArmTimer
      <3>2. Append(buffers[s], r) # <<>>
        <4>1. buffers[s] \in Seq(Requests)
          BY <1>1, <2>1
        <4>2. Len(Append(buffers[s], r)) = Len(buffers[s]) + 1 /\ Len(buffers[s]) \in Nat
          BY <4>1, AppendProperties
        <4>3. QED
          BY <4>2
      <3>3. QED
        BY <1>1, <2>1, <3>1, <3>2 DEF BufferArmed
    <2>5. QED
      BY <1>3, <2>2, <2>3, <2>4 DEF Enqueue
  <1>4. ASSUME NEW s \in Sessions, FlushCollect(s) PROVE BufferArmed'
    BY <1>2, <1>4 DEF FlushCollect
  <1>5. CASE LoopTake \/ StartLoop \/ LoopExit \/ StopReturn \/ UNCHANGED vars
    BY <1>5, ArmedKept DEF LoopTake, StartLoop, LoopExit, StopReturn
  <1>6. CASE ProcessItem
    BY <1>6, ArmedKept
       DEF ProcessItem, StartCancelled, StartTask, ResumeWithPermit, BeginHandler, FinishHandler
  <1>7. CASE Stop
    BY <1>7 DEF Stop, BufferArmed
  <1>8. QED
    BY <1>3, <1>4, <1>5, <1>6, <1>7 DEF Next

(* Until stop() no buffered text is without its timer, and no timer finds  *)
(* an empty buffer.                                                        *)
THEOREM BuffersStayArmed == Spec => []BufferArmed
  <1>1. Init => BufferArmed
    BY DEF Init, BufferArmed
  <1>2. QED
    BY <1>1, ArmedStep, Inductive, PTL DEF Spec

-----------------------------------------------------------------------------
(* Permits *)

(* permitLine holds requests of its stages, none twice, and whoever has    *)
(* gone past the global semaphore is among its first MaxConcurrency.       *)
PermitInv ==
    /\ AllIn(permitLine, HasLane)
    /\ NoRepeat(permitLine)
    /\ \A r \in Requests : stage[r] \in {"lane", "handling"} =>
          \E i \in 1..Len(permitLine) : i <= MaxConcurrency /\ permitLine[i] = r

LEMMA PermitLineElements ==
  IInv => /\ permitLine \in Seq(Requests) /\ Len(permitLine) \in Nat
          /\ \A i \in 1..Len(permitLine) : permitLine[i] \in Requests
  BY ElementOfSeq DEF IInv, TypeOK

(* The requests in the line may change stages as long as they stay in it.  *)
LEMMA PermitsKept ==
  ASSUME IInv, PermitInv, permitLine' = permitLine,
         \A q \in Requests :
            \/ stage'[q] = stage[q]
            \/ stage[q] \notin HasLane /\ stage'[q] \notin HasLane
  PROVE  PermitInv'
  <1>1. \A i \in 1..Len(permitLine) : stage'[permitLine[i]] \in HasLane
    BY PermitLineElements DEF PermitInv, AllIn
  <1>2. \A q \in Requests : stage'[q] \in {"lane", "handling"} => stage[q] = stage'[q]
    BY DEF HasLane
  <1>3. QED
    BY <1>1, <1>2 DEF PermitInv, AllIn, NoRepeat

(* Removing a position moves those behind it up by one.                    *)
LEMMA RemoveAtElements ==
  ASSUME NEW line \in Seq(Requests), NEW i \in 1..Len(line)
  PROVE  /\ Len(RemoveAt(line, i)) = Len(line) - 1
         /\ \A j \in 1..(Len(line) - 1) :
               RemoveAt(line, i)[j] = line[IF j < i THEN j ELSE j + 1]
  <1>1. /\ Len(line) \in Nat
        /\ Len(SubSeq(line, 1, i - 1)) = i - 1
        /\ Len(SubSeq(line, i + 1, Len(line))) = Len(line) - i
        /\ SubSeq(line, 1, i - 1) \in Seq(Requests)
        /\ SubSeq(line, i + 1, Len(line)) \in Seq(Requests)
    OBVIOUS
  <1>2. /\ \A j \in 1..(i - 1) : SubSeq(line, 1, i - 1)[j] = line[j]
        /\ \A j \in 1..(Len(line) - i) : SubSeq(line, i + 1, Len(line))[j] = line[j + i]
    <2>1. \A j \in 1..Len(line) : line[j] \in Requests
      BY ElementOfSeq
    <2>2. \A j \in 1..(i - 1) : SubSeq(line, 1, i - 1)[j] = line[j]
      <3>1. /\ 1 \in Int /\ i - 1 \in Int
            /\ \A j \in 1..(i - 1) : line[j] \in Requests
        BY <1>1, <2>1
      <3>2. \A j \in 1..(i - 1 - 1 + 1) : SubSeq(line, 1, i - 1)[j] = line[1 + j - 1]
        BY ONLY <3>1, SubSeqProperties
      <3>3. QED
        BY <1>1, <3>2
    <2>3. \A j \in 1..(Len(line) - i) : SubSeq(line, i + 1, Len(line))[j] = line[j + i]
      <3>1. /\ i + 1 \in Int /\ Len(line) \in Int
            /\ \A j \in (i + 1)..Len(line) : line[j] \in Requests
        BY <1>1, <2>1
      <3>2. \A j \in 1..(Len(line) - (i + 1) + 1) :
               SubSeq(line, i + 1, Len(line))[j] = line[i + 1 + j - 1]
        BY ONLY <3>1, SubSeqProperties
      <3>3. QED
        BY <1>1, <3>2
    <2>4. QED
      BY <2>2, <2>3
  <1>3. /\ Len(RemoveAt(line, i)) = Len(line) - 1
        /\ \A j \in 1..(Len(line) - 1) :
              RemoveAt(line, i)[j] = IF j <= i - 1 THEN SubSeq(line, 1, i - 1)[j]
                                     ELSE SubSeq(line, i + 1, Len(line))[j - (i - 1)]
    <2> DEFINE p == SubSeq(line, 1, i - 1)
               q == SubSeq(line, i + 1, Len(line))
    <2>1. /\ Len(p \o q) = Len(p) + Len(q)
          /\ \A j \in 1..(Len(p) + Len(q)) : (p \o q)[j] = IF j <= Len(p) THEN p[j] ELSE q[j - Len(p)]
      BY <1>1, ConcatProperties
    <2> HIDE DEF p, q
    <2>2. Len(p) = i - 1 /\ Len(q) = Len(line) - i /\ Len(line) \in Nat
      BY <1>1 DEF p, q
    <2>3. Len(p) + Len(q) = Len(line) - 1
      BY <2>2
    <2>4. RemoveAt(line, i) = p \o q
      BY DEF RemoveAt, p, q
    <2>5. QED
      BY <2>1, <2>2, <2>3, <2>4 DEF p, q
  <1>4. ASSUME NEW j \in 1..(Len(line) - 1)
        PROVE  RemoveAt(line, i)[j] = line[IF j < i THEN j ELSE j + 1]
    <2>1. CASE j < i
      <3>1. RemoveAt(line, i)[j] = SubSeq(line, 1, i - 1)[j] /\ j \in 1..(i - 1)
        BY <1>1, <1>3, <2>1
      <3>2. QED
        BY <1>2, <2>1, <3>1
    <2>2. CASE ~(j < i)
      <3>1. /\ RemoveAt(line, i)[j] = SubSeq(line, i + 1, Len(line))[j - (i - 1)]
            /\ j - (i - 1) \in 1..(Len(line) - i)
            /\ j - (i - 1) + i = j + 1
        BY <1>1, <1>3, <2>2
      <3>2. SubSeq(line, i + 1, Len(line))[j - (i - 1)] = line[j - (i - 1) + i]
        BY <1>2, <3>1
      <3>3. QED
        BY <2>2, <3>1, <3>2
    <2>3. QED
      BY <2>1, <2>2
  <1>5. QED
    BY <1>3, <1>4

LEMMA StartTaskPermits == IInv /\ PermitInv /\ StartTask => PermitInv'
  <1> SUFFICES ASSUME IInv, PermitInv, StartTask PROVE PermitInv'
    OBVIOUS
  <1> DEFINE r == Head(spawned)
             n == Len(permitLine)
  <1>1. /\ r \in Requests /\ stage[r] = "spawned"
        /\ permitLine' = Append(permitLine, r)
        /\ stage \in [Requests -> Stages]
    BY TailOfLine DEF IInv, TypeOK, LinesInv, AllIn, StartTask
  <1>2. \A i \in 1..n : permitLine[i] # r
    BY <1>1 DEF PermitInv, AllIn, HasLane
  <1>3. /\ n \in Nat /\ Len(permitLine') = n + 1
        /\ \A i \in 1..n : permitLine'[i] = permitLine[i] /\ permitLine[i] \in Requests
        /\ permitLine'[n + 1] = r
    BY <1>1, PermitLineElements, AppendProperties
  <1>4. /\ \A q \in Requests : q # r => stage'[q] = stage[q]
        /\ stage'[r] \in HasLane
        /\ stage'[r] # "permit" => n < MaxConcurrency
    BY <1>1 DEF StartTask, PermitFree, AtLane, HasLane
  <1>5. \A i \in 1..(n + 1) : i \in 1..n \/ i = n + 1
    BY <1>3
  <1>6. AllIn(permitLine, HasLane)'
    BY <1>2, <1>3, <1>4, <1>5 DEF PermitInv, AllIn
  <1>7. NoRepeat(permitLine)'
    BY <1>2, <1>3, <1>5 DEF PermitInv, NoRepeat
  <1>8. ASSUME NEW q \in Requests, stage'[q] \in {"lane", "handling"}
        PROVE  \E i \in 1..Len(permitLine') : i <= MaxConcurrency /\ permitLine'[i] = q
    <2>1. CASE q = r
      <3>1. n + 1 <= MaxConcurrency /\ n + 1 \in 1..Len(permitLine')
        BY <1>3, <1>4, <1>8, <2>1, MaxConcurrencyAssumption
      <3>2. QED
        BY <1>3, <2>1, <3>1
    <2>2. CASE q # r
      <3>1. PICK i \in 1..n : i <= MaxConcurrency /\ permitLine[i] = q
        BY <1>4, <1>8, <2>2 DEF PermitInv
      <3>2. i \in 1..Len(permitLine') /\ permitLine'[i] = q
        BY <1>3, <3>1
      <3>3. QED
        BY <3>1, <3>2
    <2>3. QED
      BY <2>1, <2>2
  <1>9. QED
    BY <1>6, <1>7, <1>8 DEF PermitInv

LEMMA FinishHandlerPermits ==
  ASSUME IInv, PermitInv, NEW i \in 1..Len(permitLine), NEW outcome \in Outcomes,
         FinishHandler(i, outcome)
  PROVE  PermitInv'
  <1> DEFINE r == permitLine[i]
             n == Len(permitLine)
             Was(j) == IF j < i THEN j ELSE j + 1
  <1>1. /\ permitLine \in Seq(Requests) /\ n \in Nat
        /\ \A j \in 1..n : permitLine[j] \in Requests
    BY PermitLineElements
  <1>2. permitLine' = RemoveAt(permitLine, i)
    BY DEF FinishHandler, ReturnPermit
  <1>3. /\ Len(permitLine') = n - 1
        /\ \A j \in 1..(n - 1) : permitLine'[j] = permitLine[Was(j)]
    BY <1>1, <1>2, RemoveAtElements
  <1>4. \A j \in 1..(n - 1) : Was(j) \in 1..n /\ Was(j) # i
    BY <1>1
  <1>5. \A j, k \in 1..(n - 1) : Was(j) = Was(k) => j = k
    BY <1>1
  <1>6. /\ \A q \in Requests : q # r => stage'[q] = stage[q]
        /\ stage'[r] \notin HasLane
    BY <1>1 DEF FinishHandler, IInv, TypeOK, Outcomes, HasLane
  <1>7. \A j \in 1..n : j # i => permitLine[j] # r
    BY DEF PermitInv, NoRepeat
  <1> HIDE DEF Was
  <1>8. AllIn(permitLine, HasLane)'
    <2> SUFFICES ASSUME NEW j \in 1..(n - 1) PROVE stage'[permitLine'[j]] \in HasLane
      BY <1>3 DEF AllIn
    <2>1. permitLine'[j] # r /\ permitLine'[j] \in Requests /\ stage[permitLine'[j]] \in HasLane
      BY <1>1, <1>3, <1>4, <1>7 DEF PermitInv, AllIn
    <2>2. QED
      BY <1>6, <2>1
  <1>9. NoRepeat(permitLine)'
    <2> SUFFICES ASSUME NEW j \in 1..(n - 1), NEW k \in 1..(n - 1), permitLine'[j] = permitLine'[k]
                 PROVE  j = k
      BY <1>3 DEF NoRepeat
    <2>1. Was(j) = Was(k)
      BY <1>3, <1>4 DEF PermitInv, NoRepeat
    <2>2. QED
      BY <1>5, <2>1
  <1>10. ASSUME NEW q \in Requests, stage'[q] \in {"lane", "handling"}
         PROVE  \E j \in 1..Len(permitLine') : j <= MaxConcurrency /\ permitLine'[j] = q
    <2>1. q # r /\ stage[q] \in {"lane", "handling"}
      BY <1>6, <1>10 DEF HasLane
    <2>2. PICK k \in 1..n : k <= MaxConcurrency /\ permitLine[k] = q
      BY <2>1 DEF PermitInv
    <2>3. k # i
      BY <2>1, <2>2
    <2>4. CASE k < i
      <3>1. k \in 1..(n - 1) /\ Was(k) = k
        BY <1>1, <2>4 DEF Was
      <3>2. QED
        BY <1>3, <2>2, <3>1
    <2>5. CASE k > i
      <3>1. k - 1 \in 1..(n - 1) /\ Was(k - 1) = k /\ k - 1 <= MaxConcurrency
        BY <1>1, <2>2, <2>5, MaxConcurrencyAssumption DEF Was
      <3>2. QED
        BY <1>3, <2>2, <3>1
    <2>6. QED
      BY <1>1, <2>3, <2>4, <2>5
  <1>11. QED
    BY <1>8, <1>9, <1>10 DEF PermitInv

LEMMA PermitStep == IInv /\ PermitInv /\ [Next]_vars => PermitInv'
  <1> SUFFICES ASSUME IInv, PermitInv, [Next]_vars PROVE PermitInv'
    OBVIOUS
  <1> USE DEF vars, collectVars, laneVars, taskVars, loopVars, stopVars
  <1>1. TypeOK /\ LinesInv /\ BuffersInv
    BY DEF IInv
  <1>2. ASSUME NEW r \in Requests, Enqueue(r) PROVE PermitInv'
    <2>1. stage[r] = "new" /\ permitLine' = permitLine
      BY <1>2 DEF Enqueue, RejectFull, EnqueueFollowup, EnqueueInterrupt, EnqueueCollect
    <2>2. CASE RejectFull(r) \/ EnqueueFollowup(r) \/ EnqueueCollect(r)
      BY <1>1, <2>1, <2>2, PermitsKept
         DEF RejectFull, EnqueueFollowup, EnqueueCollect, TypeOK, HasLane
    <2>3. CASE EnqueueInterrupt(r)
      <3>1. SessionOf[r] \in Sessions
        BY SessionOfAssumption
      <3>2. \A q \in Requests :
               \/ stage'[q] = stage[q]
               \/ q = r /\ stage'[q] = "queued"
               \/ stage[q] = "buffered" /\ stage'[q] = "discarded"
        BY <1>1, <2>3, <3>1 DEF EnqueueInterrupt, BuffersInv
      <3>3. QED
        BY <2>1, <3>2, PermitsKept DEF HasLane
    <2>4. QED
      BY <1>2, <2>2, <2>3 DEF Enqueue
  <1>3. ASSUME NEW s \in Sessions, FlushCollect(s) PROVE PermitInv'
    <2> DEFINE buf == buffers[s]
    <2>1. \A q \in Requests : stage'[q] = stage[q] \/ (stage[q] = "buffered" /\ stage'[q] \in {"queued", "absorbed"})
      <3>1. CASE buf = <<>>
        BY <1>3, <3>1 DEF FlushCollect
      <3>2. CASE buf # <<>>
        <4>1. buf \in Seq(Requests) /\ Len(buf) \in 1..Len(buf)
          BY <1>1, <3>2, EmptySeq DEF TypeOK
        <4>2. \A i \in 1..Len(buf) : stage[buf[i]] = "buffered"
          BY <1>1 DEF BuffersInv
        <4>3. QED
          BY <1>3, <3>2, <4>1, <4>2 DEF FlushCollect
      <3>3. QED
        BY <3>1, <3>2
    <2>2. permitLine' = permitLine
      BY <1>3 DEF FlushCollect
    <2>3. QED
      BY <2>1, <2>2, PermitsKept DEF HasLane
  <1>4. CASE LoopTake
    <2>1. /\ Head(queue) \in Requests /\ stage[Head(queue)] = "queued"
          /\ stage' = [stage EXCEPT ![Head(queue)] = "spawned"]
      BY <1>1, <1>4, TailOfLine DEF TypeOK, LinesInv, AllIn, LoopTake
    <2>2. permitLine' = permitLine
      BY <1>4 DEF LoopTake
    <2>3. QED
      BY <1>1, <2>1, <2>2, PermitsKept DEF TypeOK, HasLane
  <1>5. CASE StartCancelled
    <2>1. /\ Head(spawned) \in Requests /\ stage[Head(spawned)] = "spawned"
          /\ stage' = [stage EXCEPT ![Head(spawned)] = "cancelled"]
      BY <1>1, <1>5, TailOfLine, ZenonT(40) DEF TypeOK, LinesInv, AllIn, StartCancelled
    <2>2. permitLine' = permitLine
      BY <1>5 DEF StartCancelled
    <2>3. QED
      BY <1>1, <2>1, <2>2, PermitsKept DEF TypeOK, HasLane
  <1>6. CASE StartTask
    BY <1>6, StartTaskPermits
  <1>7. ASSUME NEW i \in 1..Len(permitLine), ResumeWithPermit(i) PROVE PermitInv'
    <2> DEFINE r == permitLine[i]
    <2>1. /\ r \in Requests /\ i <= MaxConcurrency /\ permitLine' = permitLine
          /\ stage'[r] \in HasLane
          /\ \A q \in Requests : q # r => stage'[q] = stage[q]
          /\ \A j \in 1..Len(permitLine) : permitLine[j] \in Requests
      BY <1>1, <1>7, PermitLineElements DEF ResumeWithPermit, AtLane, HasLane, TypeOK
    <2>2. QED
      BY <2>1 DEF PermitInv, AllIn, NoRepeat
  <1>8. ASSUME NEW r \in Requests, BeginHandler(r) PROVE PermitInv'
    <2>1. /\ stage[r] = "lane" /\ stage'[r] = "handling" /\ permitLine' = permitLine
          /\ \A q \in Requests : q # r => stage'[q] = stage[q]
          /\ \A j \in 1..Len(permitLine) : permitLine[j] \in Requests
      BY <1>1, <1>8, PermitLineElements DEF BeginHandler, TypeOK
    <2>2. \A q \in Requests : stage'[q] \in {"lane", "handling"} => stage[q] \in {"lane", "handling"}
      BY <2>1
    <2>3. \A q \in Requests : stage[q] \in HasLane => stage'[q] \in HasLane
      BY <2>1 DEF HasLane
    <2>4. QED
      BY <2>1, <2>2, <2>3 DEF PermitInv, AllIn, NoRepeat
  <1>9. ASSUME NEW i \in 1..Len(permitLine), NEW outcome \in Outcomes,
               FinishHandler(i, outcome)
        PROVE  PermitInv'
    BY <1>9, FinishHandlerPermits
  <1>10. CASE StartLoop \/ LoopExit \/ Stop \/ StopReturn \/ UNCHANGED vars
    BY <1>10, PermitsKept DEF StartLoop, LoopExit, Stop, StopReturn
  <1>11. QED
    BY <1>2, <1>3, <1>4, <1>5, <1>6, <1>7, <1>8, <1>9, <1>10 DEF Next, ProcessItem

(* Requests that are at different places among the first MaxConcurrency    *)
(* are at most MaxConcurrency.                                             *)
LEMMA PermitsCap == IInv /\ PermitInv => ConcurrencyCap /\ IsFiniteSet(Handling)
  <1> SUFFICES ASSUME IInv, PermitInv PROVE ConcurrencyCap /\ IsFiniteSet(Handling)
    OBVIOUS
  <1> DEFINE place == [r \in Handling |->
                          CHOOSE i \in 1..Len(permitLine) : i <= MaxConcurrency /\ permitLine[i] = r]
  <1>1. \A r \in Handling :
           /\ place[r] \in 1..MaxConcurrency
           /\ permitLine[place[r]] = r
    <2> SUFFICES ASSUME NEW r \in Handling
                 PROVE  place[r] \in 1..MaxConcurrency /\ permitLine[place[r]] = r
      OBVIOUS
    <2>1. \E i \in 1..Len(permitLine) : i <= MaxConcurrency /\ permitLine[i] = r
      BY DEF PermitInv, Handling
    <2>2. place[r] \in 1..Len(permitLine) /\ place[r] <= MaxConcurrency /\ permitLine[place[r]] = r
      BY <2>1
    <2>3. QED
      BY <2>2, MaxConcurrencyAssumption, PermitLineElements
  <1>2. place \in Injection(Handling, 1..MaxConcurrency)
    BY <1>1 DEF Injection, IsInjective
  <1>3. IsFiniteSet(1..MaxConcurrency) /\ Cardinality(1..MaxConcurrency) = MaxConcurrency
    BY FS_Interval, MaxConcurrencyAssumption
  <1>4. Cardinality(Handling) <= Cardinality(1..MaxConcurrency) /\ IsFiniteSet(Handling)
    BY <1>2, <1>3, FS_Injection
  <1>5. QED
    BY <1>3, <1>4 DEF ConcurrencyCap

(* Never more handlers run than the global semaphore has permits, although *)
(* waiters are woken one step before they resume.                          *)
THEOREM ConcurrencyCapHolds == Spec => []ConcurrencyCap
  <1>1. Init => PermitInv
    BY DEF Init, PermitInv, AllIn, NoRepeat
  <1>2. QED
    BY <1>1, PermitStep, PermitsCap, Inductive, PTL DEF Spec
=============================================================================
