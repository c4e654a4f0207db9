---------------------------- MODULE LookupsProofs ----------------------------
(***************************************************************************)
(* Proofs about what is looked up for a message, for any bindings,         *)
(* settings, plugins, skill files and memories: the one pass of            *)
(* resolve_bindings gives it to the most specific binding; whatever        *)
(* plugins register, the built-in and memory tools an agent has are the    *)
(* program's; a match is the best skill of its scan; a search joins what   *)
(* belongs to one text and re-ranks by likeness only; and each of the four *)
(* keeps its types.                                                        *)
(***************************************************************************)
EXTENDS MCLookups, FiniteSetTheorems, WellFoundedInduction, TLAPS

(* Routing *)

LEMMA PriorityRange == \A b \in Binding : Priority(b) \in 0..15
  BY DEF Priority

(* The weights 8, 4, 2, 1 order bindings by the first field that only one  *)
(* of them sets.                                                           *)
LEMMA PriorityIsSpecificity ==
  ASSUME NEW b \in Binding, NEW c \in Binding
  PROVE  Beats(b, c) <=> Priority(b) > Priority(c)
  <1>1. Beats(b, c) <=>
          \/ Sets(b)[1] /\ ~Sets(c)[1]
          \/ Sets(b)[2] /\ ~Sets(c)[2] /\ Sets(b)[1] = Sets(c)[1]
          \/ Sets(b)[3] /\ ~Sets(c)[3] /\ Sets(b)[1] = Sets(c)[1] /\ Sets(b)[2] = Sets(c)[2]
          \/ Sets(b)[4] /\ ~Sets(c)[4] /\ Sets(b)[1] = Sets(c)[1] /\ Sets(b)[2] = Sets(c)[2]
               /\ Sets(b)[3] = Sets(c)[3]
    <2> DEFINE C(k) == /\ Sets(b)[k] /\ ~Sets(c)[k]
                       /\ \A m \in 1..4 : m < k => Sets(b)[m] = Sets(c)[m]
    <2> HIDE DEF C
    <2>1. Beats(b, c) <=> \E k \in 1..4 : C(k)
      BY DEF Beats, C
    <2>2. (\E k \in 1..4 : C(k)) <=> C(1) \/ C(2) \/ C(3) \/ C(4)
      OBVIOUS
    <2>3. C(1) <=> Sets(b)[1] /\ ~Sets(c)[1]
      BY DEF C
    <2>4. C(2) <=> Sets(b)[2] /\ ~Sets(c)[2] /\ Sets(b)[1] = Sets(c)[1]
      BY DEF C
    <2>5. C(3) <=> Sets(b)[3] /\ ~Sets(c)[3] /\ Sets(b)[1] = Sets(c)[1] /\ Sets(b)[2] = Sets(c)[2]
      BY DEF C
    <2>6. C(4) <=> /\ Sets(b)[4] /\ ~Sets(c)[4]
                   /\ Sets(b)[1] = Sets(c)[1] /\ Sets(b)[2] = Sets(c)[2] /\ Sets(b)[3] = Sets(c)[3]
      BY DEF C
    <2>7. QED
      BY <2>1, <2>2, <2>3, <2>4, <2>5, <2>6
  <1>2. ASSUME NEW d \in Binding
        PROVE  /\ Sets(d)[1] = (d.peer # None) /\ Sets(d)[2] = (d.channel # None)
               /\ Sets(d)[3] = (d.roles # {}) /\ Sets(d)[4] = (d.account # None)
    BY DEF Sets
  <1>3. Beats(b, c) <=>
          \/ b.peer # None /\ c.peer = None
          \/ b.channel # None /\ c.channel = None /\ (b.peer # None <=> c.peer # None)
          \/ b.roles # {} /\ c.roles = {} /\ (b.peer # None <=> c.peer # None)
               /\ (b.channel # None <=> c.channel # None)
          \/ b.account # None /\ c.account = None /\ (b.peer # None <=> c.peer # None)
               /\ (b.channel # None <=> c.channel # None) /\ (b.roles # {} <=> c.roles # {})
    BY <1>1, <1>2
  <1>4. QED
    BY <1>3 DEF Priority

(* The fallback always answers something.                                  *)
LEMMA RoutedAnswers == \A a \in Agent \cup {None} : Routed(a) \in Registered \cup {Error} /\ Routed(a) # None
  BY NoneIsNobody, ErrorIsNobody, DefaultAssumption DEF Routed

LEMMA RoutingInitInv == RoutingInit => RoutingInv
  BY DEF RoutingInit, RoutingStart, RoutingInv, RoutingTypeOK

(* Looking at one more binding keeps the best of those seen.               *)
LEMMA ExaminePreserves == RoutingInv /\ Examine => RoutingInv'
  <1> SUFFICES ASSUME RoutingInv, Examine PROVE RoutingInv'
    OBVIOUS
  <1> DEFINE b == bindings[next]
  <1>1. /\ bindings \in Seq(Binding) /\ next \in 1..Len(bindings) /\ priority \in -1..15
        /\ bindings' = bindings /\ who' = who /\ answer' = answer /\ next' = next + 1
        /\ Len(bindings) \in Nat
    BY DEF RoutingInv, RoutingTypeOK, Examine
  <1>2. /\ b \in Binding /\ Priority(b) \in 0..15 /\ b.agent \in Agent
        /\ \A j \in 1..Len(bindings) : bindings[j] \in Binding /\ Priority(bindings[j]) \in 0..15
    <2>1. \A j \in 1..Len(bindings) : bindings[j] \in Binding
      BY <1>1
    <2>2. b \in Binding /\ (b \in Binding => b.agent \in Agent)
      BY <1>1, <2>1 DEF Binding
    <2>3. QED
      BY <2>1, <2>2, PriorityRange
  <1>3. \A c : Matches(c)' <=> Matches(c)
    BY <1>1 DEF Matches, Fits
  <1>4. answer = None
    BY <1>1 DEF RoutingInv
  <1>5. RoutingTypeOK'
    <2>1. \/ best' = b.agent /\ priority' = Priority(b)
          \/ best' = best /\ priority' = priority
      BY DEF Examine
    <2>2. best' \in Agent \cup {None} /\ priority' \in -1..15
      <3>1. best \in Agent \cup {None}
        BY DEF RoutingInv, RoutingTypeOK
      <3>2. Priority(b) \in -1..15
        BY <1>2
      <3>3. QED
        BY <1>1, <1>2, <2>1, <3>1, <3>2
    <2>3. next' \in 1..(Len(bindings) + 1)
      BY <1>1
    <2>4. QED
      BY <1>1, <2>2, <2>3 DEF RoutingInv, RoutingTypeOK
  <1>6. CASE Matches(b) /\ Priority(b) > priority
    <2>1. best' = b.agent /\ priority' = Priority(b)
      BY <1>6 DEF Examine
    <2>2. \A j \in 1..(next - 1) : Matches(bindings[j]) => Priority(bindings[j]) <= priority
      BY <1>1, <1>2 DEF RoutingInv, IsBest
    <2>3. ASSUME NEW i, i = next
          PROVE  IsBest(i)'
      <3>1. Matches(bindings[i])' /\ best' = bindings'[i].agent /\ priority' = Priority(bindings'[i])
        BY <1>1, <1>3, <1>6, <2>1, <2>3 DEF Matches, Fits
      <3>2. ASSUME NEW j \in 1..(next' - 1), Matches(bindings[j])
            PROVE  /\ Priority(bindings[j]) <= priority'
                   /\ j < i => Priority(bindings[j]) < priority'
        <4>1. j \in 1..Len(bindings) /\ (j = next \/ j \in 1..(next - 1))
          BY <1>1
        <4>2. CASE j = next
          BY <1>1, <1>2, <2>1, <2>3, <4>1, <4>2
        <4>3. CASE j \in 1..(next - 1)
          <5>1. Priority(bindings[j]) <= priority
            BY <2>2, <3>2, <4>3
          <5>2. QED
            <6>1. Priority(bindings[j]) \in Int /\ Priority(b) \in Int /\ priority \in Int
              BY <1>1, <1>2, <4>1
            <6>2. QED
              BY <1>6, <2>1, <5>1, <6>1
        <4>4. QED
          BY <4>1, <4>2, <4>3
      <3>3. \A j : Matches(bindings[j])' <=> Matches(bindings[j])
        BY <1>1 DEF Matches, Fits
      <3>4. QED
        BY <1>1, <3>1, <3>2, <3>3 DEF IsBest, Priority
    <2>4. next \in 1..(next' - 1)
      BY <1>1
    <2>5. QED
      BY <1>1, <1>4, <1>5, <2>3, <2>4 DEF RoutingInv
  <1>7. CASE ~(Matches(b) /\ Priority(b) > priority)
    <2>1. best' = best /\ priority' = priority
      BY <1>7 DEF Examine
    <2>2. CASE best = None /\ priority = -1 /\ \A j \in 1..(next - 1) : ~Matches(bindings[j])
      <3>1. ~Matches(b)
        BY <1>2, <1>7, <2>2
      <3>2. \A j \in 1..(next' - 1) : ~Matches(bindings[j])
        BY <1>1, <2>2, <3>1
      <3>3. QED
        BY <1>1, <1>3, <1>4, <1>5, <2>1, <2>2, <3>2 DEF RoutingInv
    <2>3. CASE \E i \in 1..(next - 1) : IsBest(i)
      <3>1. PICK i \in 1..(next - 1) : IsBest(i)
        BY <2>3
      <3>2. /\ i \in 1..Len(bindings) /\ i < next
            /\ Matches(bindings[i]) /\ best = bindings[i].agent
            /\ priority = Priority(bindings[i])
        BY <1>1, <3>1 DEF IsBest
      <3>3. /\ Matches(bindings[i])' /\ best' = bindings'[i].agent
            /\ priority' = Priority(bindings'[i])
        <4>1. Matches(bindings[i])'
          BY <1>1, <3>2 DEF Matches, Fits
        <4>2. QED
          BY <1>1, <2>1, <3>2, <4>1
      <3>4. ASSUME NEW j \in 1..(next' - 1), Matches(bindings[j])
            PROVE  Priority(bindings[j]) <= priority /\ (j < i => Priority(bindings[j]) < priority)
        <4>1. CASE j = next
          <5>1. ~(Priority(bindings[j]) > priority) /\ Priority(bindings[j]) \in 0..15
            BY <1>2, <1>7, <3>4, <4>1
          <5>2. QED
            BY <1>1, <3>2, <4>1, <5>1, SMTT(30)
        <4>2. CASE j \in 1..(next - 1)
          BY <3>1, <3>4, <4>2 DEF IsBest
        <4>3. QED
          BY <1>1, <4>1, <4>2
      <3>5. \A j : Matches(bindings[j])' <=> Matches(bindings[j])
        BY <1>1 DEF Matches, Fits
      <3>6. IsBest(i)'
        <4>1. Priority(bindings'[i]) = Priority(bindings[i])'
          BY DEF Priority
        <4>2. \A j \in 1..(next' - 1) : Matches(bindings[j])' =>
                 /\ Priority(bindings[j]) <= priority'
                 /\ j < i => Priority(bindings[j]) < priority'
          BY <2>1, <3>4, <3>5
        <4>3. QED
          BY <1>1, <3>3, <4>1, <4>2, SMTT(30) DEF IsBest, Priority
      <3>7. QED
        BY <1>1, <1>4, <1>5, <3>6 DEF RoutingInv
    <2>4. QED
      BY <2>2, <2>3 DEF RoutingInv
  <1>8. QED
    BY <1>6, <1>7

LEMMA ResolvePreserves == RoutingInv /\ Resolve => RoutingInv'
  <1> SUFFICES ASSUME RoutingInv, Resolve PROVE RoutingInv'
    OBVIOUS
  <1>1. /\ UNCHANGED <<bindings, who, next, best, priority>>
        /\ answer' = Routed(best) /\ next = Len(bindings) + 1 /\ best \in Agent \cup {None}
    BY DEF RoutingInv, RoutingTypeOK, Resolve
  <1>2. RoutingTypeOK'
    BY <1>1, RoutedAnswers DEF RoutingInv, RoutingTypeOK
  <1>3. \A i : IsBest(i)' <=> IsBest(i)
    BY <1>1 DEF IsBest, Matches, Fits
  <1>4. \A j : Matches(bindings[j])' <=> Matches(bindings[j])
    BY <1>1 DEF Matches, Fits
  <1>5. QED
    BY <1>1, <1>2, <1>3, <1>4 DEF RoutingInv, Routed

LEMMA RoutingInductive == RoutingSpec => []RoutingInv
  <1>1. RoutingInv /\ [RoutingNext]_routingVars => RoutingInv'
    <2>1. RoutingInv /\ UNCHANGED routingVars => RoutingInv'
      BY SMTT(30) DEF RoutingInv, RoutingTypeOK, routingVars, IsBest, Matches, Fits, Routed
    <2>2. QED
      BY <2>1, ExaminePreserves, ResolvePreserves DEF RoutingNext
  <1>2. QED
    BY <1>1, RoutingInitInv, PTL DEF RoutingSpec

(* When every binding was looked at, the best is as MostSpecificWins says. *)
LEMMA BestIsMostSpecific == RoutingInv => MostSpecificWins
  <1> SUFFICES ASSUME RoutingInv, answer # None PROVE MostSpecificWins
    BY DEF MostSpecificWins
  <1> DEFINE M == {i \in 1..Len(bindings) : Matches(bindings[i])}
  <1>1. /\ next - 1 = Len(bindings) /\ answer = Routed(best)
        /\ bindings \in Seq(Binding) /\ Len(bindings) \in Nat
    BY DEF RoutingInv, RoutingTypeOK
  <1>2. CASE best = None /\ \A j \in 1..(next - 1) : ~Matches(bindings[j])
    BY <1>1, <1>2 DEF MostSpecificWins
  <1>3. CASE \E i \in 1..(next - 1) : IsBest(i)
    <2>1. PICK i \in 1..(next - 1) : IsBest(i)
      BY <1>3
    <2>2. i \in M /\ answer = Routed(bindings[i].agent)
      BY <1>1, <2>1 DEF IsBest
    <2>3. ASSUME NEW j \in M
          PROVE  ~Beats(bindings[j], bindings[i]) /\ (j < i => Beats(bindings[i], bindings[j]))
      <3>1. bindings[i] \in Binding /\ bindings[j] \in Binding
        BY <1>1, <2>1
      <3>2. /\ Priority(bindings[j]) <= Priority(bindings[i])
            /\ j < i => Priority(bindings[j]) < Priority(bindings[i])
        BY <1>1, <2>1 DEF IsBest
      <3>3. Priority(bindings[i]) \in 0..15 /\ Priority(bindings[j]) \in 0..15
        BY <3>1, PriorityRange
      <3>4. /\ Priority(bindings[j]) > Priority(bindings[i]) <=> Beats(bindings[j], bindings[i])
            /\ Priority(bindings[i]) > Priority(bindings[j]) <=> Beats(bindings[i], bindings[j])
        BY <3>1, PriorityIsSpecificity
      <3> HIDE DEF M
      <3>5. QED
        BY <3>2, <3>3, <3>4
    <2>4. QED
      BY <2>2, <2>3 DEF MostSpecificWins
  <1>4. QED
    BY <1>2, <1>3 DEF RoutingInv

(* Every message goes to the agent of the most specific binding that       *)
(* matches it, the first of equals, and to the default agent only if none  *)
(* matches, whatever bindings the settings hold.                           *)
THEOREM MostSpecificBindingWins == RoutingSpec => []MostSpecificWins
  BY RoutingInductive, BestIsMostSpecific, PTL

(* The router looks at no binding beyond the list, and its answer is an    *)
(* agent that exists, one that a binding names, or an error.               *)
THEOREM RoutingTypes == RoutingSpec => []RoutingTypeOK
  <1>1. RoutingInv => RoutingTypeOK
    BY DEF RoutingInv
  <1>2. QED
    BY <1>1, RoutingInductive, PTL

-----------------------------------------------------------------------------
(* Wiring *)

(* No memory tool has the name of a built-in one.                          *)
LEMMA ToolsAreDistinct == BuiltinTools \cap MemoryTools = {}
  BY DEF BuiltinTools, BuiltinGroups, MemoryTools, GroupNames

LEMMA InitWired == WiringStart => WiringInv
  BY DEF WiringStart, WiringInv

LEMMA LoadPluginWired == WiringInv /\ LoadPlugin => WiringInv'
  <1> SUFFICES ASSUME WiringInv, LoadPlugin PROVE WiringInv'
    OBVIOUS
  <1>1. phase = "plugins" /\ ~memoryOn /\ DOMAIN team = {}
    BY DEF LoadPlugin, WiringInv
  <1>2. UNCHANGED <<phase, memoryOn, team>>
    BY DEF LoadPlugin
  <1>3. QED
    BY <1>1, <1>2 DEF WiringInv

LEMMA RegisterBuiltinsWired == WiringInv /\ RegisterBuiltins => WiringInv'
  <1> SUFFICES ASSUME WiringInv, RegisterBuiltins PROVE WiringInv'
    OBVIOUS
  <1>1. ~memoryOn /\ DOMAIN team = {} /\ UNCHANGED <<memoryOn, team>>
    BY DEF RegisterBuiltins, WiringInv
  <1>2. BuiltinsOwned'
    BY DEF RegisterBuiltins, Register, BuiltinsOwned
  <1>3. QED
    BY <1>1, <1>2 DEF WiringInv, RegisterBuiltins

LEMMA RegisterMemoryWired == WiringInv /\ RegisterMemory => WiringInv'
  <1> SUFFICES ASSUME WiringInv, RegisterMemory PROVE WiringInv'
    OBVIOUS
  <1>1. ~memoryOn /\ DOMAIN team = {} /\ BuiltinsOwned /\ UNCHANGED team /\ phase' = "agents"
    BY DEF RegisterMemory, WiringInv
  <1>2. CASE UNCHANGED <<owner, memoryOn>>
    BY <1>1, <1>2 DEF WiringInv, BuiltinsOwned
  <1>3. CASE owner' = Register(owner, MemoryTools, "memory")
    <2>1. MemoryOwned'
      BY <1>3 DEF Register, MemoryOwned
    <2>2. BuiltinsOwned'
      BY <1>1, <1>3, ToolsAreDistinct DEF Register, BuiltinsOwned
    <2>3. QED
      BY <1>1, <2>1, <2>2 DEF WiringInv
  <1>4. QED
    BY <1>2, <1>3 DEF RegisterMemory

LEMMA CreateAgentWired == WiringInv /\ CreateAgent => WiringInv'
  <1> SUFFICES ASSUME WiringInv, CreateAgent PROVE WiringInv'
    OBVIOUS
  <1>1. phase = "agents" /\ phase' \in {"agents", "failed"} /\ UNCHANGED <<owner, memoryOn>>
    BY DEF CreateAgent
  <1>2. BuiltinsOwned' /\ (memoryOn' => MemoryOwned')
    BY <1>1 DEF WiringInv, BuiltinsOwned, MemoryOwned
  <1>3. \A a \in DOMAIN team' : \A t \in DOMAIN team'[a].tools : team'[a].tools[t] = owner[t]
    <2>1. CASE UNCHANGED team
      BY <2>1 DEF WiringInv
    <2>2. CASE ~UNCHANGED team
      <3> DEFINE config == setup.agents[created + 1]
                 new == [tools |-> [t \in ToolsOf(config) |-> owner[t]], engine |-> engine]
      <3>1. team' = [a \in {config.id} \cup DOMAIN team |-> IF a = config.id THEN new ELSE team[a]]
        BY <2>2 DEF CreateAgent
      <3>2. \A t \in DOMAIN new.tools : new.tools[t] = owner[t]
        OBVIOUS
      <3> HIDE DEF new, config
      <3>3. \A a \in DOMAIN team' : team'[a] = new \/ (a \in DOMAIN team /\ team'[a] = team[a])
        BY <3>1
      <3>4. QED
        BY <3>2, <3>3 DEF WiringInv
    <2>3. QED
      BY <2>1, <2>2
  <1>4. QED
    BY <1>1, <1>2, <1>3 DEF WiringInv

(* Whatever tools and groups plugins register before they return or raise, *)
(* the built-in tools of an agent are the built-in ones, and its memory    *)
(* tools those of the memory subsystem.                                    *)
THEOREM BuiltinsStayTheirs == WiringSpec => []BuiltinsAreTheirs
  <1>1. WiringInv /\ [WiringNext]_wiringVars => WiringInv'
    <2>1. WiringInv /\ Discover => WiringInv'
      BY DEF WiringInv, Discover, BuiltinsOwned, MemoryOwned
    <2>2. WiringInv /\ UNCHANGED wiringVars => WiringInv'
      BY DEF WiringInv, wiringVars, BuiltinsOwned, MemoryOwned
    <2>3. QED
      BY <2>1, <2>2, LoadPluginWired, RegisterBuiltinsWired, RegisterMemoryWired, CreateAgentWired
         DEF WiringNext
  <1>2. WiringInv => BuiltinsAreTheirs
    BY DEF WiringInv, BuiltinsAreTheirs, BuiltinsOwned, MemoryOwned
  <1>3. QED
    BY <1>1, <1>2, InitWired, PTL DEF WiringSpec

(* Every number up to the size of a finite set is the rank of a member.    *)
LEMMA RankedIsMember ==
  ASSUME NEW S \in SUBSET Int, IsFiniteSet(S), NEW k \in 1..Cardinality(S)
  PROVE  Ranked(S, k) \in S
  <1> DEFINE Upto(i) == {j \in S : j =< i}
  <1>1. PICK n \in Nat : n = Cardinality(S)
    BY FS_CardinalityType
  <1>2. ASSUME NEW i \in S
        PROVE  IsFiniteSet(Upto(i)) /\ Cardinality(Upto(i)) \in 1..n
    <2>1. Upto(i) \in SUBSET S /\ i \in Upto(i)
      OBVIOUS
    <2> HIDE DEF Upto
    <2>2. IsFiniteSet(Upto(i)) /\ Cardinality(Upto(i)) =< n
      BY <1>1, <2>1, FS_Subset
    <2>3. Cardinality(Upto(i)) \in Nat /\ Cardinality(Upto(i)) # 0
      BY <2>1, <2>2, FS_CardinalityType, FS_EmptySet
    <2>4. QED
      BY <2>2, <2>3
  <1>3. ASSUME NEW i \in S, NEW j \in S, i < j
        PROVE  Cardinality(Upto(i)) # Cardinality(Upto(j))
    <2>1. i \in Int /\ j \in Int /\ \A x \in S : x =< i => x =< j
      BY <1>3
    <2>2. Upto(i) \in SUBSET Upto(j) /\ j \in Upto(j) /\ j \notin Upto(i)
      <3>1. Upto(i) \in SUBSET Upto(j)
        BY <2>1
      <3>2. j =< j /\ ~(j =< i)
        BY <1>3, <2>1
      <3>3. QED
        BY <3>1, <3>2
    <2> HIDE DEF Upto
    <2>3. IsFiniteSet(Upto(j)) /\ Upto(i) # Upto(j)
      BY <1>2, <2>2
    <2>4. QED
      BY <2>2, <2>3, FS_Subset
  <1> HIDE DEF Upto
  <1>4. \A i, j \in S : Cardinality(Upto(i)) = Cardinality(Upto(j)) => i = j
    <2> SUFFICES ASSUME NEW i \in S, NEW j \in S, i # j
                 PROVE  Cardinality(Upto(i)) # Cardinality(Upto(j))
      OBVIOUS
    <2>1. i < j \/ j < i
      OBVIOUS
    <2>2. QED
      BY <1>3, <2>1
  <1>5. PICK rank : rank = [i \in S |-> Cardinality(Upto(i))]
    OBVIOUS
  <1>6. rank \in Injection(S, 1..n)
    BY <1>2, <1>4, <1>5 DEF Injection, IsInjective
  <1>7. IsFiniteSet(1..n) /\ Cardinality(1..n) = n
    BY FS_Interval
  <1>8. rank \in Surjection(S, 1..n)
    BY <1>1, <1>6, <1>7, FS_Injection
  <1>9. \E i \in S : Cardinality(Upto(i)) = k
    BY <1>1, <1>5, <1>8 DEF Surjection
  <1>10. QED
    BY <1>9 DEF Upto, Ranked

LEMMA DiscoveredArePlugins ==
  ASSUME setup \in Setup
  PROVE  Discovered \in Seq(Plugin)
  <1> DEFINE dir == setup.directories
             new == {i \in 1..Len(dir) : \A j \in 1..(i - 1) : dir[j].name # dir[i].name}
  <1>1. setup.entryPoints \in Seq(Plugin) /\ dir \in Seq(Plugin)
    BY SetupAssumption
  <1>2. PICK n \in Nat : n = Len(dir)
    BY <1>1
  <1>3. IsFiniteSet(1..n)
    BY FS_Interval
  <1>4. new \in SUBSET (1..n) /\ \A i \in new : dir[i] \in Plugin
    BY <1>1, <1>2
  <1> HIDE DEF new
  <1>5. IsFiniteSet(new) /\ new \in SUBSET Int
    <2>1. new \in SUBSET (1..n)
      BY <1>4
    <2>2. IsFiniteSet(new)
      BY <1>3, <2>1, FS_Subset
    <2>3. QED
      BY <2>1, <2>2
  <1>6. PICK m \in Nat : m = Cardinality(new)
    BY <1>5, FS_CardinalityType
  <1> HIDE DEF dir
  <1>7. [k \in 1..Cardinality(new) |-> dir[Ranked(new, k)]] \in Seq(Plugin)
    <2>1. \A k \in 1..m : Ranked(new, k) \in new
      BY <1>5, <1>6, RankedIsMember
    <2>2. \A k \in 1..m : dir[Ranked(new, k)] \in Plugin
      BY <1>4, <2>1
    <2>3. [k \in 1..m |-> dir[Ranked(new, k)]] \in Seq(Plugin)
      BY <2>2
    <2>4. QED
      BY <1>6, <2>3
  <1>8. setup.entryPoints \o [k \in 1..Cardinality(new) |-> dir[Ranked(new, k)]] \in Seq(Plugin)
    BY <1>1, <1>7
  <1>9. QED
    BY <1>8 DEF Discovered, new, dir

LEMMA GroupsHoldTools ==
  /\ BuiltinGroups \in [GroupNames -> SUBSET ToolNames]
  /\ BuiltinTools \subseteq ToolNames /\ MemoryTools \subseteq ToolNames
  <1>1. \A g \in GroupNames : BuiltinGroups[g] \subseteq ToolNames
    <2>1. DOMAIN BuiltinGroups = GroupNames
      BY DEF BuiltinGroups
    <2>2. QED
      BY <2>1 DEF ToolNames, Range
  <1>2. BuiltinGroups \in [GroupNames -> SUBSET ToolNames]
    <2> DEFINE Tools(g) == CASE g = "group:memory"  -> {"save_memory"}
                             [] g = "group:cron"    -> {"create_cron", "list_crons"}
                             [] g = "group:session" -> {"list_sessions"}
                             [] g = "group:fs"      -> {}
    <2>1. BuiltinGroups = [g \in GroupNames |-> Tools(g)]
      BY DEF BuiltinGroups
    <2> HIDE DEF Tools
    <2>2. QED
      BY <1>1, <2>1
  <1>3. {"group:cron", "group:session"} \subseteq GroupNames
    BY DEF GroupNames
  <1>4. BuiltinTools \subseteq ToolNames
    BY <1>1, <1>3 DEF BuiltinTools
  <1>5. MemoryTools \subseteq ToolNames
    BY DEF ToolNames
  <1>6. QED
    BY <1>2, <1>4, <1>5

LEMMA AgentsAreASequence ==
  ASSUME setup \in Setup
  PROVE  Len(setup.agents) \in Nat
  BY SetupAssumption

(* Registering tools keeps those that agents hold registered.              *)
LEMMA RegisteredStay ==
  ASSUME WiringTypeOK, NEW tools \in SUBSET ToolNames, NEW by,
         owner' = Register(owner, tools, by), UNCHANGED team
  PROVE  /\ DOMAIN owner' \subseteq ToolNames
         /\ \A a \in DOMAIN team' : DOMAIN team'[a].tools \subseteq DOMAIN owner'
  <1>1. DOMAIN owner' = tools \cup DOMAIN owner
    BY DEF Register
  <1>2. QED
    BY <1>1 DEF WiringTypeOK

LEMMA FirstAndRest ==
  ASSUME NEW S, NEW seq \in Seq(S), seq # <<>>
  PROVE  Head(seq) \in S /\ Tail(seq) \in Seq(S)
  OBVIOUS

LEMMA LoadPluginTyped == ASSUME WiringTypeOK, LoadPlugin PROVE WiringTypeOK'
  <1>1. PICK p : p = Head(manifests)
    OBVIOUS
  <1>2. p \in Plugin /\ manifests' \in Seq(Plugin)
    <2>1. manifests \in Seq(Plugin) /\ manifests # <<>> /\ manifests' = Tail(manifests)
      BY DEF WiringTypeOK, LoadPlugin
    <2>2. QED
      BY <1>1, <2>1, FirstAndRest
  <1>3. UNCHANGED <<setup, phase, memoryOn, created, team>>
    BY DEF LoadPlugin
  <1>4. CASE UNCHANGED <<owner, groups, engine, loaded>>
    BY <1>2, <1>3, <1>4 DEF WiringTypeOK
  <1>5. CASE ~UNCHANGED <<owner, groups, engine, loaded>>
    <2>1. /\ owner' = Register(owner, {c.tool : c \in p.calls}, p.name)
          /\ groups' = [g \in GroupNames |->
                           groups[g] \cup {c.tool : c \in {d \in p.calls : g \in d.groups}}]
          /\ loaded' = [n \in {p.name} \cup DOMAIN loaded |->
                           IF n = p.name THEN p.outcome = "returns" ELSE loaded[n]]
      BY <1>1, <1>5 DEF LoadPlugin
    <2>2. \A c \in p.calls : c.tool \in ToolNames
      BY <1>2 DEF Plugin
    <2>3. PICK tools : tools = {c.tool : c \in p.calls}
      OBVIOUS
    <2>4. tools \in SUBSET ToolNames
      BY <2>2, <2>3
    <2>5. /\ DOMAIN owner' \subseteq ToolNames
          /\ \A a \in DOMAIN team' : DOMAIN team'[a].tools \subseteq DOMAIN owner'
      BY <1>3, <2>1, <2>3, <2>4, RegisteredStay
    <2>6. groups' \in [GroupNames -> SUBSET ToolNames]
      BY <2>1, <2>2 DEF WiringTypeOK
    <2>7. \A n \in DOMAIN loaded' : loaded'[n] \in BOOLEAN
      <3>1. \A n \in DOMAIN loaded' : loaded'[n] = (p.outcome = "returns")
                                       \/ (n \in DOMAIN loaded /\ loaded'[n] = loaded[n])
        BY <2>1, Zenon
      <3>2. QED
        BY <3>1, Zenon DEF WiringTypeOK
    <2>8. QED
      BY <1>2, <1>3, <2>5, <2>6, <2>7 DEF WiringTypeOK
  <1>6. QED
    BY <1>4, <1>5

LEMMA RegisterBuiltinsTyped == ASSUME WiringTypeOK, RegisterBuiltins PROVE WiringTypeOK'
  <1>1. /\ UNCHANGED <<setup, manifests, loaded, memoryOn, created, team>> /\ phase' = "memory"
        /\ owner' = Register(owner, BuiltinTools, "builtin")
        /\ groups' = [g \in GroupNames |-> groups[g] \cup (BuiltinGroups[g] \cap BuiltinTools)]
    BY DEF RegisterBuiltins
  <1>2. groups' \in [GroupNames -> SUBSET ToolNames]
    BY <1>1, GroupsHoldTools DEF WiringTypeOK
  <1>3. /\ DOMAIN owner' \subseteq ToolNames
        /\ \A a \in DOMAIN team' : DOMAIN team'[a].tools \subseteq DOMAIN owner'
    BY <1>1, GroupsHoldTools, RegisteredStay
  <1>4. QED
    BY <1>1, <1>2, <1>3 DEF WiringTypeOK

LEMMA RegisterMemoryTyped == ASSUME WiringTypeOK, RegisterMemory PROVE WiringTypeOK'
  <1>1. UNCHANGED <<setup, manifests, loaded, groups, created, team>> /\ phase' = "agents"
    BY DEF RegisterMemory
  <1>2. CASE UNCHANGED <<owner, memoryOn>>
    BY <1>1, <1>2 DEF WiringTypeOK
  <1>3. CASE owner' = Register(owner, MemoryTools, "memory") /\ memoryOn' \in BOOLEAN
    <2>1. /\ DOMAIN owner' \subseteq ToolNames
          /\ \A a \in DOMAIN team' : DOMAIN team'[a].tools \subseteq DOMAIN owner'
      BY <1>1, <1>3, GroupsHoldTools, RegisteredStay
    <2>2. QED
      BY <1>1, <1>3, <2>1 DEF WiringTypeOK
  <1>4. QED
    BY <1>2, <1>3 DEF RegisterMemory

LEMMA CreateAgentTyped == ASSUME WiringTypeOK, CreateAgent PROVE WiringTypeOK'
  <1>1. /\ UNCHANGED <<setup, manifests, loaded, owner, groups, memoryOn>>
        /\ phase' \in {"agents", "failed"} /\ created < Len(setup.agents)
    BY DEF CreateAgent, WiringTypeOK
  <1>2. CASE UNCHANGED <<team, created>>
    BY <1>1, <1>2 DEF WiringTypeOK
  <1>3. CASE ~UNCHANGED <<team, created>>
    <2>1. PICK config : config = setup.agents[created + 1]
      OBVIOUS
    <2>2. PICK new : new = [tools |-> [t \in ToolsOf(config) |-> owner[t]], engine |-> engine]
      OBVIOUS
    <2>3. /\ team' = [a \in {config.id} \cup DOMAIN team |-> IF a = config.id THEN new ELSE team[a]]
          /\ created' = created + 1
      BY <1>3, <2>1, <2>2 DEF CreateAgent
    <2>4. DOMAIN new.tools \subseteq DOMAIN owner
      BY <2>2 DEF ToolsOf
    <2>5. created \in Nat /\ created' \in 0..Len(setup.agents)
      BY <1>1, <2>3, AgentsAreASequence DEF WiringTypeOK
    <2>6. DOMAIN team' = {setup.agents[i].id : i \in 1..created'}
      <3>1. 1..created' = (1..created) \cup {created + 1}
        BY <2>3, <2>5
      <3>2. DOMAIN team = {setup.agents[i].id : i \in 1..created}
        BY DEF WiringTypeOK
      <3>3. DOMAIN team' = {config.id} \cup DOMAIN team
        BY <2>3
      <3>4. QED
        BY <2>1, <3>1, <3>2, <3>3
    <2>7. \A a \in DOMAIN team' : DOMAIN team'[a].tools \subseteq DOMAIN owner
      <3>1. \A a \in DOMAIN team' : team'[a] = new \/ (a \in DOMAIN team /\ team'[a] = team[a])
        BY <2>3
      <3>2. QED
        BY <2>4, <3>1 DEF WiringTypeOK
    <2>8. QED
      BY <1>1, <2>5, <2>6, <2>7 DEF WiringTypeOK
  <1>4. QED
    BY <1>2, <1>3

(* While plugins, tools and agents are registered, in groups there are     *)
(* only known tools, the team has the agents of the configurations done,   *)
(* and an agent holds only tools that are registered.                      *)
THEOREM WiringTypes == WiringSpec => []WiringTypeOK
  <1>1. setup \in Setup /\ WiringStart => WiringTypeOK
    <2> SUFFICES ASSUME setup \in Setup, WiringStart PROVE WiringTypeOK
      OBVIOUS
    <2>1. DOMAIN team = {} /\ DOMAIN owner = {} /\ DOMAIN loaded = {} /\ manifests \in Seq(Plugin)
          /\ groups = BuiltinGroups /\ created = 0 /\ phase = "discover" /\ memoryOn = FALSE
      BY DEF WiringStart
    <2>2. {setup.agents[i].id : i \in 1..0} = {}
      OBVIOUS
    <2>3. QED
      <3>1. created \in 0..Len(setup.agents)
        BY <2>1, AgentsAreASequence
      <3>2. DOMAIN team = {setup.agents[i].id : i \in 1..created}
        BY <2>1, <2>2
      <3>3. groups \in [GroupNames -> SUBSET ToolNames]
        BY <2>1, GroupsHoldTools
      <3>4. QED
        BY <2>1, <3>1, <3>2, <3>3 DEF WiringTypeOK
  <1>2. WiringTypeOK /\ [WiringNext]_wiringVars => WiringTypeOK'
    <2>1. ASSUME WiringTypeOK, Discover PROVE WiringTypeOK'
      <3>1. setup \in Setup
        BY <2>1 DEF WiringTypeOK
      <3>2. manifests' \in Seq(Plugin) /\ phase' = "plugins"
            /\ UNCHANGED <<setup, loaded, owner, groups, memoryOn, created, team>>
        BY <2>1, <3>1, DiscoveredArePlugins DEF Discover
      <3>3. QED
        BY <2>1, <3>2 DEF WiringTypeOK
    <2>2. WiringTypeOK /\ UNCHANGED wiringVars => WiringTypeOK'
      BY DEF WiringTypeOK, wiringVars
    <2>3. QED
      BY <2>1, <2>2, LoadPluginTyped, RegisterBuiltinsTyped, RegisterMemoryTyped, CreateAgentTyped
         DEF WiringNext
  <1>3. QED
    BY <1>1, <1>2, PTL DEF WiringSpec

-----------------------------------------------------------------------------
(* Greatest elements *)

LEMMA LeastNumber ==
  ASSUME NEW S \in SUBSET Nat, S # {}
  PROVE  \E m \in S : \A n \in S : m =< n
  <1>1. PICK R : R = OpToRel(<, Nat)
    OBVIOUS
  <1>2. IsWellFoundedOn(R, Nat)
    BY <1>1, NatLessThanWellFounded
  <1>3. PICK m \in S : \A n \in S : <<n, m>> \notin R
    BY <1>2, WFMin
  <1>4. ASSUME NEW n \in S, n < m
        PROVE  FALSE
    BY <1>1, <1>3, <1>4 DEF OpToRel
  <1>5. QED
    BY <1>3, <1>4

HasMax(S) == \E m \in S : \A n \in S : n =< m

LEMMA FiniteImage ==
  ASSUME NEW S, IsFiniteSet(S), NEW f, f = [x \in S |-> f[x]]
  PROVE  IsFiniteSet({f[x] : x \in S})
  <1>1. PICK T : T = {f[x] : x \in S}
    OBVIOUS
  <1>2. f \in Surjection(S, T)
    BY <1>1 DEF Surjection
  <1>3. QED
    BY <1>1, <1>2, FS_Surjection

LEMMA FiniteHasMax ==
  ASSUME NEW S \in SUBSET Int, IsFiniteSet(S), S # {}
  PROVE  HasMax(S)
  <1> DEFINE Bad == {n \in Nat : \E T \in SUBSET S : T # {} /\ Cardinality(T) = n /\ ~HasMax(T)}
  <1>1. \A T \in SUBSET S : IsFiniteSet(T) /\ Cardinality(T) \in Nat
    BY FS_Subset, FS_CardinalityType
  <1>2. SUFFICES ASSUME ~HasMax(S) PROVE FALSE
    OBVIOUS
  <1>3. Bad # {}
    <2>1. S \in SUBSET S /\ Cardinality(S) \in Nat
      BY <1>1
    <2>2. QED
      BY <1>2, <2>1
  <1>4. PICK k \in Bad : \A n \in Bad : k =< n
    <2> HIDE DEF Bad
    <2>1. Bad \in SUBSET Nat
      BY DEF Bad
    <2>2. QED
      BY <1>3, <2>1, LeastNumber
  <1>5. PICK T \in SUBSET S : T # {} /\ Cardinality(T) = k /\ ~HasMax(T)
    BY <1>4
  <1>6. PICK x : x \in T
    BY <1>5
  <1>7. Cardinality(T \ {x}) = k - 1
    BY <1>1, <1>5, <1>6, FS_RemoveElement
  <1>8. T \ {x} # {}
    BY <1>5, <1>6 DEF HasMax
  <1>9. HasMax(T \ {x})
    BY <1>1, <1>4, <1>7, <1>8
  <1>10. PICK m \in T \ {x} : \A n \in T \ {x} : n =< m
    BY <1>9 DEF HasMax
  <1>11. CASE x =< m
    BY <1>5, <1>6, <1>10, <1>11 DEF HasMax
  <1>12. CASE m < x
    BY <1>5, <1>6, <1>10, <1>12 DEF HasMax
  <1>13. QED
    BY <1>6, <1>10, <1>11, <1>12

LEMMA MaxOfFinite ==
  ASSUME NEW S \in SUBSET Int, IsFiniteSet(S), S # {}
  PROVE  Max(S) \in S /\ \A n \in S : n =< Max(S)
  <1>1. \E m \in S : \A n \in S : m >= n
    BY FiniteHasMax DEF HasMax
  <1>2. Max(S) \in S /\ \A n \in S : Max(S) >= n
    BY <1>1 DEF Max
  <1>3. QED
    BY <1>2

-----------------------------------------------------------------------------
(* Skills *)

LEMMA FullIsNat == Unit \in Nat \ {0} /\ Full \in Nat /\ Full = 10 * Unit /\ 0 \in 0..Full
  BY UnitAssumption DEF Full

LEMMA TriggerScores == \A trigger \in Trigger : TriggerScore(trigger) \in 0..Full
  <1> SUFFICES ASSUME NEW trigger \in Trigger PROVE TriggerScore(trigger) \in 0..Full
    OBVIOUS
  <1>1. PICK found \in Nat, words \in Nat :
          found = trigger.found /\ words = trigger.words /\ found =< words
    BY TriggerAssumption
  <1>2. ASSUME words > 0
        PROVE  3 * Unit + 4 * found * (Unit \div words) \in 0..Full
    <2>1. PICK q : q = Unit \div words
      OBVIOUS
    <2>2. q \in Int /\ words * q =< Unit /\ Unit < words * q + words
      BY <1>2, <2>1, FullIsNat
    <2>3. q >= 0
      <3>1. ASSUME q < 0
            PROVE  words * q + words =< 0
        BY <1>2, <2>2, <3>1
      <3>2. QED
        BY <2>2, <3>1, FullIsNat
    <2>4. PICK share : share = found * q
      OBVIOUS
    <2>5. share \in Int /\ 0 =< share /\ share =< words * q
      BY <1>1, <2>2, <2>3, <2>4
    <2>6. 4 * found * q = 4 * share
      BY <1>1, <2>2, <2>4
    <2>7. 3 * Unit + 4 * share \in 0..Full
      BY <2>2, <2>5, FullIsNat
    <2>8. QED
      BY <2>1, <2>6, <2>7
  <1>3. QED
    BY <1>1, <1>2, FullIsNat DEF TriggerScore

LEMMA ScoreInRange == \A triggers \in Skill : Score(triggers) \in 0..Full
  <1> SUFFICES ASSUME NEW triggers \in Skill PROVE Score(triggers) \in 0..Full
    OBVIOUS
  <1>1. IsFiniteSet(triggers) /\ triggers \subseteq Trigger
    BY DEF Skill
  <1>2. PICK f : f = [trigger \in triggers |-> TriggerScore(trigger)]
    OBVIOUS
  <1>3. PICK G : G = {f[trigger] : trigger \in triggers}
    OBVIOUS
  <1>4. f = [trigger \in triggers |-> f[trigger]]
    BY <1>2
  <1>5. IsFiniteSet(G) /\ IsFiniteSet({0})
    BY <1>1, <1>3, <1>4, FiniteImage, FS_Singleton
  <1>6. G \in SUBSET (0..Full) /\ G = {TriggerScore(trigger) : trigger \in triggers}
    BY <1>1, <1>2, <1>3, TriggerScores
  <1>7. PICK V : V = G \cup {0}
    OBVIOUS
  <1>8. IsFiniteSet(V) /\ V \in SUBSET (0..Full) /\ 0 \in V
    <2>1. IsFiniteSet(G \cup {0})
      BY <1>5, FS_Union
    <2>2. QED
      BY <1>6, <1>7, <2>1, FullIsNat
  <1>9. PICK m : m = Max(V)
    OBVIOUS
  <1>10. m \in V
    <2>1. V \in SUBSET Int
      BY <1>8
    <2>2. QED
      BY <1>8, <1>9, <2>1, MaxOfFinite
  <1>11. m \in 0..Full
    BY <1>8, <1>10
  <1>12. QED
    BY <1>6, <1>7, <1>9, <1>11 DEF Score

LEMMA SkillScores ==
  ASSUME SkillInv
  PROVE  \A i \in 1..Len(skills) :
           /\ skills[i].path \in Path /\ skills[i].triggers \in Skill
           /\ Score(skills[i].triggers) \in Nat /\ Score(skills[i].triggers) =< Full
  <1>1. skills \in Seq([path : Path, triggers : Skill])
    BY DEF SkillInv
  <1>2. \A i \in 1..Len(skills) : skills[i] \in [path : Path, triggers : Skill]
    <2>1. PICK R : R = [path : Path, triggers : Skill]
      OBVIOUS
    <2>2. skills \in Seq(R)
      BY <1>1, <2>1
    <2>3. \A i \in 1..Len(skills) : skills[i] \in R
      BY <2>2
    <2>4. QED
      BY <2>1, <2>3
  <1>3. \A i \in 1..Len(skills) : Score(skills[i].triggers) \in 0..Full
    BY <1>2, ScoreInRange
  <1>4. \A i \in 1..Len(skills) : /\ Score(skills[i].triggers) \in Nat
                                  /\ Score(skills[i].triggers) =< Full
    <2>1. \A n \in 0..Full : n \in Nat /\ n =< Full
      BY FullIsNat
    <2>2. QED
      BY <1>3, <2>1, Zenon
  <1>5. \A i \in 1..Len(skills) : skills[i].path \in Path /\ skills[i].triggers \in Skill
    BY <1>2
  <1>6. QED
    BY <1>4, <1>5

LEMMA PathsAreASequence ==
  Len(Paths) \in Nat /\ \A i \in 1..Len(Paths) : Paths[i] \in Path
  BY PathsAssumption DEF Path, Range

LEMMA SkillsStartInv == folder \in [Path -> File] /\ SkillsStart => SkillInv
  BY PathsAreASequence DEF SkillsStart, SkillInv, BestSkill

LEMMA EditKeeps == ASSUME SkillInv, NEW p \in Path, NEW file \in File, Edit(p, file) PROVE SkillInv'
  <1>1. folder' \in [Path -> File]
    BY DEF Edit, SkillInv
  <1>2. UNCHANGED <<listed, reading, skills, at, entry, score, matched>>
    BY DEF Edit
  <1>3. QED
    BY <1>1, <1>2 DEF SkillInv, BestSkill

LEMMA ScanKeeps == ASSUME SkillInv, Scan PROVE SkillInv'
  <1>1. /\ skills' = <<>> /\ reading' = 1 /\ at' = 1 /\ score' = 0 /\ matched' = "pending"
        /\ UNCHANGED folder
    BY DEF Scan
  <1>2. Len(skills') = 0 /\ skills' \in Seq([path : Path, triggers : Skill])
    BY <1>1
  <1>3. QED
    BY <1>1, <1>2, PathsAreASequence DEF SkillInv, BestSkill

LEMMA ParseKeeps == ASSUME SkillInv, Parse PROVE SkillInv'
  <1> DEFINE path == Paths[reading]
             row == [path |-> path, triggers |-> folder[path].triggers]
  <1>1. /\ at = 1 /\ reading \in 1..Len(Paths) /\ reading' = reading + 1
        /\ UNCHANGED <<folder, score, entry>>
    BY DEF Parse
  <1>2. path \in Path /\ folder[path] \in File
    BY <1>1, PathsAreASequence DEF SkillInv
  <1>3. folder[path].kind = "skill" => row \in [path : Path, triggers : Skill]
    BY <1>2 DEF File
  <1>4. skills' = skills \/ (skills' = Append(skills, row) /\ folder[path].kind = "skill")
    BY DEF Parse
  <1>5. skills' \in Seq([path : Path, triggers : Skill])
    <2>1. PICK R : R = [path : Path, triggers : Skill]
      OBVIOUS
    <2>2. skills \in Seq(R)
      BY <2>1 DEF SkillInv
    <2>3. folder[path].kind = "skill" => row \in R
      BY <1>3, <2>1
    <2> HIDE DEF row, path
    <2>4. skills' \in Seq(R)
      BY <1>4, <2>2, <2>3
    <2>5. QED
      BY <2>1, <2>4
  <1>6. (at' = 1 /\ matched' = matched) \/ (at' = 0 /\ matched' = "raised")
    BY <1>1 DEF Parse
  <1>7. score = 0
    BY <1>1 DEF SkillInv
  <1>8. reading' \in 1..(Len(Paths) + 1)
    BY <1>1, PathsAreASequence
  <1>9. Len(skills') \in Nat
    BY <1>5
  <1>10. BestSkill'
    BY <1>6 DEF BestSkill
  <1>11. QED
    BY <1>1, <1>5, <1>6, <1>7, <1>8, <1>9, <1>10 DEF SkillInv

LEMMA WeighKeeps == ASSUME SkillInv, Weigh PROVE SkillInv'
  <1> DEFINE S(i) == Score(skills[i].triggers)
  <1>1. /\ at \in 1..Len(skills) /\ at' = at + 1 /\ reading = Len(Paths) + 1
        /\ UNCHANGED <<folder, reading, skills, matched>>
        /\ IF S(at) > score THEN entry' = skills[at].path /\ score' = S(at)
           ELSE UNCHANGED <<entry, score>>
    BY DEF Weigh, AllRead, Better
  <1>2. \A i \in 1..Len(skills) : S(i) \in Nat
    BY SkillScores
  <1>3. /\ Len(skills) \in Nat /\ score \in Nat
        /\ \/ score = 0 /\ \A j \in 1..(at - 1) : S(j) = 0
           \/ \E i \in 1..(at - 1) :
                /\ entry = skills[i].path /\ score = S(i)
                /\ \A j \in 1..(at - 1) : S(j) <= S(i) /\ (j < i => S(j) < S(i))
    BY <1>1 DEF SkillInv
  <1> HIDE DEF S
  <1>4. score' \in Nat
    BY <1>1, <1>2, <1>3
  <1>5. \/ score' = 0 /\ \A j \in 1..at : S(j) = 0
        \/ \E i \in 1..at :
             /\ entry' = skills[i].path /\ score' = S(i)
             /\ \A j \in 1..at : S(j) <= S(i) /\ (j < i => S(j) < S(i))
    <2>1. \A j \in 1..(at - 1) : S(j) \in Nat /\ S(j) =< score
      BY <1>1, <1>2, <1>3
    <2>2. CASE S(at) > score
      <3>1. \A j \in 1..at : S(j) <= S(at) /\ (j < at => S(j) < S(at))
        BY <1>1, <1>2, <1>3, <2>1, <2>2
      <3>2. QED
        BY <1>1, <2>2, <3>1
    <2>3. CASE ~(S(at) > score)
      <3>1. S(at) =< score /\ entry' = entry /\ score' = score
        BY <1>1, <1>2, <1>3, <2>3
      <3>2. CASE score = 0 /\ \A j \in 1..(at - 1) : S(j) = 0
        BY <1>1, <1>2, <3>1, <3>2
      <3>3. CASE \E i \in 1..(at - 1) :
                /\ entry = skills[i].path /\ score = S(i)
                /\ \A j \in 1..(at - 1) : S(j) <= S(i) /\ (j < i => S(j) < S(i))
        <4>1. PICK i \in 1..(at - 1) :
                /\ entry = skills[i].path /\ score = S(i)
                /\ \A j \in 1..(at - 1) : S(j) <= S(i) /\ (j < i => S(j) < S(i))
          BY <3>3
        <4>2. \A j \in 1..at : S(j) <= S(i) /\ (j < i => S(j) < S(i))
          BY <1>1, <3>1, <4>1
        <4>3. i \in 1..at
          BY <1>1
        <4>4. QED
          BY <3>1, <4>1, <4>2, <4>3
      <3>4. QED
        BY <1>3, <3>2, <3>3
    <2>4. QED
      BY <2>2, <2>3
  <1>6. at' - 1 = at /\ at' > 0 /\ at' \in 0..(Len(skills) + 1)
    BY <1>1, <1>3
  <1>7. BestSkill'
    BY <1>6 DEF BestSkill
  <1>8. QED
    BY <1>1, <1>4, <1>5, <1>6, <1>7 DEF SkillInv, S

LEMMA DecideKeeps == ASSUME SkillInv, Decide PROVE SkillInv'
  <1> DEFINE S(i) == Score(skills[i].triggers)
  <1>1. /\ at = Len(skills) + 1 /\ at' = 0
        /\ matched' = IF score >= Threshold THEN entry ELSE NoSkill
        /\ UNCHANGED <<folder, reading, skills, score>>
    BY DEF Decide
  <1>2. \A i \in 1..Len(skills) : S(i) \in Nat
    BY SkillScores
  <1>3. Len(skills) \in Nat /\ score \in Nat
    BY DEF SkillInv
  <1>4. \/ score = 0 /\ \A j \in 1..Len(skills) : S(j) = 0
        \/ \E i \in 1..Len(skills) :
             /\ entry = skills[i].path /\ score = S(i)
             /\ \A j \in 1..Len(skills) : S(j) <= S(i) /\ (j < i => S(j) < S(i))
    BY <1>1, <1>3 DEF SkillInv
  <1> HIDE DEF S
  <1>5. Threshold \in Nat \ {0}
    BY ThresholdAssumption, FullIsNat
  <1>6. \/ matched' = NoSkill /\ \A j \in 1..Len(skills) : ~(S(j) >= Threshold)
        \/ \E i \in 1..Len(skills) :
             /\ matched' = skills[i].path /\ S(i) >= Threshold
             /\ \A j \in 1..Len(skills) : S(j) <= S(i) /\ (j < i => S(j) < S(i))
    <2> DEFINE NoneFits == matched' = NoSkill /\ \A j \in 1..Len(skills) : ~(S(j) >= Threshold)
               Suits(i) == /\ matched' = skills[i].path /\ S(i) >= Threshold
                          /\ \A j \in 1..Len(skills) : S(j) <= S(i) /\ (j < i => S(j) < S(i))
    <2>1. CASE score = 0 /\ \A j \in 1..Len(skills) : S(j) = 0
      BY <1>1, <1>5, <2>1
    <2>2. ASSUME NEW i \in 1..Len(skills), entry = skills[i].path, score = S(i),
                 \A j \in 1..Len(skills) : S(j) <= S(i) /\ (j < i => S(j) < S(i))
          PROVE  NoneFits \/ Suits(i)
      <3>1. CASE score >= Threshold
        BY <1>1, <2>2, <3>1
      <3>2. CASE ~(score >= Threshold)
        BY <1>1, <1>2, <1>3, <1>5, <2>2, <3>2
      <3>3. QED
        BY <3>1, <3>2
    <2>3. QED
      BY <1>4, <2>1, <2>2
  <1>7. BestSkill'
    BY <1>1, <1>6 DEF BestSkill, S
  <1>8. QED
    BY <1>1, <1>3, <1>7 DEF SkillInv

LEMMA SkillsStep == SkillInv /\ [SkillsNext]_skillVars => SkillInv'
  <1>1. SkillInv /\ UNCHANGED skillVars => SkillInv'
    BY DEF skillVars, SkillInv, BestSkill
  <1>2. QED
    BY <1>1, EditKeeps, ScanKeeps, ParseKeeps, WeighKeeps, DecideKeeps DEF SkillsNext

LEMMA SkillsInductive == SkillsSpec => []SkillInv
  BY SkillsStartInv, SkillsStep, PTL DEF SkillsSpec

(* Every match gives the message to the first of the best skills that it   *)
(* found in the directory, however the files change, or to none if none    *)
(* reaches the threshold.                                                  *)
THEOREM BestSkillIsMatched == SkillsSpec => []BestSkill
  <1>1. SkillInv => BestSkill
    BY DEF SkillInv
  <1>2. QED
    BY <1>1, SkillsInductive, PTL

(* What a match finds and returns is of the skills it read, its position   *)
(* in them in range, and its score at most 1, whatever the files are.    *)
THEOREM SkillsTypes == SkillsSpec => []SkillsTypeOK
  <1>1. folder \in [Path -> File] /\ SkillsStart => SkillsTypeOK
    <2>1. MaxEdits \in Nat
      BY EditsAssumption
    <2>2. QED
      BY <2>1, PathsAreASequence, FullIsNat DEF SkillsStart, SkillsTypeOK
  <1>2. SkillInv /\ SkillsTypeOK /\ [SkillsNext]_skillVars => SkillsTypeOK'
    <2> SUFFICES ASSUME SkillInv, SkillsTypeOK, SkillInv', [SkillsNext]_skillVars
                 PROVE  SkillsTypeOK'
      BY SkillsStep
    <2>1. /\ folder' \in [Path -> File]
          /\ reading' \in 1..(Len(Paths) + 1)
          /\ skills' \in Seq([path : Path, triggers : Skill])
          /\ at' \in 0..(Len(skills') + 1)
      BY DEF SkillInv
    <2>2. listed' \subseteq Path
      BY DEF SkillsTypeOK, SkillsNext, skillVars, Edit, Scan, Parse, Weigh, Decide
    <2>3. entry' \in Path \cup {NoSkill} /\ score' \in 0..Full
      <3>1. CASE Weigh
        <4>1. at \in 1..Len(skills)
          BY <3>1 DEF Weigh
        <4>2. \/ /\ entry' = skills[at].path /\ score' = Score(skills[at].triggers)
              \/ UNCHANGED <<entry, score>>
          BY <3>1 DEF Weigh
        <4>3. /\ skills[at].path \in Path
              /\ Score(skills[at].triggers) \in Nat /\ Score(skills[at].triggers) =< Full
          BY <4>1, SkillScores
        <4>4. entry \in Path \cup {NoSkill} /\ score \in 0..Full
          BY DEF SkillsTypeOK
        <4>5. QED
          BY <4>2, <4>3, <4>4
      <3>2. CASE ~Weigh
        <4>1. (entry' = NoSkill /\ score' = 0) \/ UNCHANGED <<entry, score>>
          BY <3>2 DEF SkillsNext, skillVars, Edit, Scan, Parse, Decide
        <4>2. entry \in Path \cup {NoSkill} /\ score \in 0..Full
          BY DEF SkillsTypeOK
        <4>3. QED
          BY <4>1, <4>2, FullIsNat
      <3>3. QED
        BY <3>1, <3>2
    <2>4. matched' \in Path \cup {NoSkill, "raised", "pending"}
      <3>1. matched' \in {matched, entry, NoSkill, "raised", "pending"}
        BY DEF SkillsNext, skillVars, Edit, Scan, Parse, Weigh, Decide
      <3>2. QED
        BY <3>1 DEF SkillsTypeOK
    <2>5. edits' \in 0..MaxEdits
      <3>1. edits \in 0..MaxEdits /\ MaxEdits \in Nat
        BY EditsAssumption DEF SkillsTypeOK
      <3>2. (edits < MaxEdits /\ edits' = edits + 1) \/ edits' = edits
        BY DEF SkillsNext, skillVars, Edit, Scan, Parse, Weigh, Decide
      <3>3. QED
        BY <3>1, <3>2
    <2>6. QED
      BY <2>1, <2>2, <2>3, <2>4, <2>5 DEF SkillsTypeOK
  <1>3. QED
    BY <1>1, <1>2, SkillsInductive, PTL DEF SkillsSpec

-----------------------------------------------------------------------------
(* Searching the memory *)

(* A call's record has the fields of Blank.                                *)
Fields(q) == q = [pc |-> q.pc, fts |-> q.fts, of |-> q.of, rows |-> q.rows,
                  gone |-> q.gone, found |-> q.found, results |-> q.results, noted |-> q.noted]

Searching ==
    /\ RecallInv
    /\ search = [s \in Searchers |-> search[s]]
    /\ \A s \in Searchers : Fields(search[s])

(* A record with two fields replaced.                                      *)
LEMMA PcOfReplaced ==
  ASSUME NEW q, Fields(q), NEW x, NEW y
  PROVE  [q EXCEPT !.pc = x, !.of = y] =
           [pc |-> x, fts |-> q.fts, of |-> y, rows |-> q.rows, gone |-> q.gone,
            found |-> q.found, results |-> q.results, noted |-> q.noted]
  <1>1. PICK u : u = [q EXCEPT !.pc = x]
    OBVIOUS
  <1>2. u = [pc |-> x, fts |-> q.fts, of |-> q.of, rows |-> q.rows, gone |-> q.gone,
             found |-> q.found, results |-> q.results, noted |-> q.noted]
    BY <1>1 DEF Fields
  <1>3. [u EXCEPT !.of = y] =
          [pc |-> x, fts |-> q.fts, of |-> y, rows |-> q.rows, gone |-> q.gone,
           found |-> q.found, results |-> q.results, noted |-> q.noted]
    BY <1>2
  <1>4. [q EXCEPT !.pc = x, !.of = y] = [u EXCEPT !.of = y]
    BY <1>1 DEF Fields
  <1>5. QED
    BY <1>3, <1>4

LEMMA RowsGoneReplaced ==
  ASSUME NEW q, Fields(q), NEW x, NEW y
  PROVE  [q EXCEPT !.rows = x, !.gone = y] =
           [pc |-> q.pc, fts |-> q.fts, of |-> q.of, rows |-> x, gone |-> y,
            found |-> q.found, results |-> q.results, noted |-> q.noted]
  <1>1. PICK u : u = [q EXCEPT !.rows = x]
    OBVIOUS
  <1>2. u = [pc |-> q.pc, fts |-> q.fts, of |-> q.of, rows |-> x, gone |-> q.gone,
             found |-> q.found, results |-> q.results, noted |-> q.noted]
    BY <1>1 DEF Fields
  <1>3. [u EXCEPT !.gone = y] =
          [pc |-> q.pc, fts |-> q.fts, of |-> q.of, rows |-> x, gone |-> y,
           found |-> q.found, results |-> q.results, noted |-> q.noted]
    BY <1>2
  <1>4. [q EXCEPT !.rows = x, !.gone = y] = [u EXCEPT !.gone = y]
    BY <1>1 DEF Fields
  <1>5. QED
    BY <1>3, <1>4

LEMMA PcFoundReplaced ==
  ASSUME NEW q, Fields(q), NEW x, NEW y
  PROVE  [q EXCEPT !.pc = x, !.found = y] =
           [pc |-> x, fts |-> q.fts, of |-> q.of, rows |-> q.rows, gone |-> q.gone,
            found |-> y, results |-> q.results, noted |-> q.noted]
  <1>1. PICK u : u = [q EXCEPT !.pc = x]
    OBVIOUS
  <1>2. u = [pc |-> x, fts |-> q.fts, of |-> q.of, rows |-> q.rows, gone |-> q.gone,
             found |-> q.found, results |-> q.results, noted |-> q.noted]
    BY <1>1 DEF Fields
  <1>3. [u EXCEPT !.found = y] =
          [pc |-> x, fts |-> q.fts, of |-> q.of, rows |-> q.rows, gone |-> q.gone,
           found |-> y, results |-> q.results, noted |-> q.noted]
    BY <1>2
  <1>4. [q EXCEPT !.pc = x, !.found = y] = [u EXCEPT !.found = y]
    BY <1>1 DEF Fields
  <1>5. QED
    BY <1>3, <1>4

LEMMA NotedPcReplaced ==
  ASSUME NEW q, Fields(q), NEW x, NEW y
  PROVE  [q EXCEPT !.noted = x, !.pc = y] =
           [pc |-> y, fts |-> q.fts, of |-> q.of, rows |-> q.rows, gone |-> q.gone,
            found |-> q.found, results |-> q.results, noted |-> x]
  <1>1. PICK u : u = [q EXCEPT !.noted = x]
    OBVIOUS
  <1>2. u = [pc |-> q.pc, fts |-> q.fts, of |-> q.of, rows |-> q.rows, gone |-> q.gone,
             found |-> q.found, results |-> q.results, noted |-> x]
    BY <1>1 DEF Fields
  <1>3. [u EXCEPT !.pc = y] =
          [pc |-> y, fts |-> q.fts, of |-> q.of, rows |-> q.rows, gone |-> q.gone,
           found |-> q.found, results |-> q.results, noted |-> x]
    BY <1>2
  <1>4. [q EXCEPT !.noted = x, !.pc = y] = [u EXCEPT !.pc = y]
    BY <1>1 DEF Fields
  <1>5. QED
    BY <1>3, <1>4

LEMMA RowsReplaced ==
  ASSUME NEW q, Fields(q), NEW x
  PROVE  [q EXCEPT !.rows = x] =
           [pc |-> q.pc, fts |-> q.fts, of |-> q.of, rows |-> x, gone |-> q.gone,
            found |-> q.found, results |-> q.results, noted |-> q.noted]
  BY DEF Fields

(* How like a text is to what is selected; only common words make it so.   *)
LEMMA ShareOfWords ==
  ASSUME NEW a \in Memo, NEW b \in Memo, a \cup b # {}
  PROVE  LET share == (Scale * Cardinality(a \cap b)) \div Cardinality(a \cup b)
         IN share \in Int /\ (a \cap b = {} => share = 0)
  <1>1. IsFiniteSet(a) /\ IsFiniteSet(b)
    BY MemoAssumption
  <1>2. IsFiniteSet(a \cap b) /\ IsFiniteSet(a \cup b)
    BY <1>1, FS_Union, FS_Subset
  <1>3. Cardinality(a \cap b) \in Nat /\ Cardinality(a \cup b) \in Nat
    BY <1>2, FS_CardinalityType
  <1>4. Cardinality(a \cup b) # 0 /\ (a \cap b = {} => Cardinality(a \cap b) = 0)
    BY <1>2, FS_EmptySet
  <1>5. \A x \in Nat, y \in Nat \ {0} : x \div y \in Int /\ (x = 0 => x \div y = 0)
    OBVIOUS
  <1>6. Scale * Cardinality(a \cap b) \in Nat /\ (a \cap b = {} => Scale * Cardinality(a \cap b) = 0)
    BY <1>3, <1>4 DEF Scale
  <1>7. QED
    BY <1>3, <1>4, <1>5, <1>6

LEMMA LikenessIsCommonWords ==
  ASSUME NEW S, NEW selected \in Seq(S), \A r \in S : r.text \in Memo, NEW c, c.text \in Memo
  PROVE  /\ Likeness(c, selected) \in Nat
         /\ Likeness(c, selected) > 0 =>
              \E j \in 1..Len(selected) : c.text \cap selected[j].text # {}
  <1> DEFINE Share(r) == (Scale * Cardinality(c.text \cap r.text)) \div Cardinality(c.text \cup r.text)
             others == {q \in Range(selected) : c.text \cup q.text # {}}
             shares == {Share(r) : r \in others}
             all == {0} \cup shares
  <1>1. /\ DOMAIN selected = 1..Len(selected) /\ Len(selected) \in Nat
        /\ \A j \in 1..Len(selected) : selected[j] \in S
    OBVIOUS
  <1>2. \A r \in Range(selected) : r.text \in Memo /\ \E j \in 1..Len(selected) : r = selected[j]
    BY <1>1 DEF Range
  <1>3. ASSUME NEW r \in others
        PROVE  Share(r) \in Int /\ (c.text \cap r.text = {} => Share(r) = 0)
    BY <1>2, ShareOfWords
  <1>4. IsFiniteSet(all)
    <2>1. IsFiniteSet(1..Len(selected))
      BY <1>1, FS_Interval
    <2>2. selected = [j \in 1..Len(selected) |-> selected[j]]
      BY <1>1
    <2>3. IsFiniteSet(Range(selected))
      BY <1>1, <2>1, <2>2, FiniteImage DEF Range
    <2>4. IsFiniteSet(others)
      BY <2>3, FS_Subset
    <2>5. PICK f : f = [r \in others |-> Share(r)]
      OBVIOUS
    <2>6. IsFiniteSet({f[r] : r \in others})
      <3> HIDE DEF others, Share
      <3>1. f = [r \in others |-> f[r]]
        BY <2>5
      <3>2. QED
        BY <2>4, <3>1, FiniteImage
    <2>7. shares = {f[r] : r \in others}
      BY <2>5
    <2>8. IsFiniteSet({0})
      BY FS_Singleton
    <2>9. IsFiniteSet(shares)
      BY <2>6, <2>7
    <2>10. QED
      <3> HIDE DEF shares
      <3>1. QED
        BY <2>8, <2>9, FS_Union
  <1>5. PICK V : V = all
    OBVIOUS
  <1>6. V \in SUBSET Int /\ IsFiniteSet(V) /\ 0 \in V
    <2> HIDE DEF Share, others
    <2>1. shares \in SUBSET Int
      BY <1>3
    <2>2. QED
      BY <1>4, <1>5, <2>1
  <1>7. Max(V) \in V /\ \A n \in V : n =< Max(V)
    BY <1>6, MaxOfFinite
  <1>8. Likeness(c, selected) = Max(V)
    BY <1>5 DEF Likeness
  <1>9. Max(V) \in Nat
    <2> HIDE DEF all
    <2>1. Max(V) \in Int /\ 0 =< Max(V)
      BY <1>6, <1>7
    <2>2. QED
      BY <2>1
  <1>10. ASSUME Max(V) > 0
         PROVE  \E j \in 1..Len(selected) : c.text \cap selected[j].text # {}
    <2>1. Max(V) # 0
      BY <1>10
    <2>2. PICK r \in others : Max(V) = Share(r)
      BY <1>5, <1>7, <2>1
    <2>3. c.text \cap r.text # {}
      BY <1>3, <2>1, <2>2
    <2>4. QED
      BY <1>2, <2>3
  <1>11. QED
    BY <1>8, <1>9, <1>10

LEMMA ScoresAreIntegers ==
  ASSUME NEW s \in Searchers, SearchInv(search[s]), RankInv(search[s]), last \in Nat, NEW c
  PROVE  Fused(s, c) \in Int
  <1> DEFINE ranks == {r \in DOMAIN search[s].fts : search[s].fts[r] = c.id}
             of == search[s].of
             nears == {1} \cup {Near[s][of[j]] : j \in DOMAIN of}
  <1>1. \A a \in Int, b \in Nat \ {0} : a \div b \in Int
    OBVIOUS
  <1>2. RankScore(s, c.id) \in Int
    <2>1. search[s].fts \in Seq(Int)
      BY DEF RankInv
    <2>2. DOMAIN search[s].fts = 1..Len(search[s].fts) /\ Len(search[s].fts) \in Nat
      BY <2>1
    <2>3. IsFiniteSet(1..Len(search[s].fts))
      BY <2>2, FS_Interval
    <2>4. PICK R : R = ranks
      OBVIOUS
    <2>5. IsFiniteSet(R) /\ R \in SUBSET Nat
      BY <2>2, <2>3, <2>4, FS_Subset
    <2>6. R # {} => Max(R) \in Nat
      <3>1. R \in SUBSET Int
        BY <2>5
      <3>2. R # {} => Max(R) \in R
        BY <2>5, <3>1, MaxOfFinite
      <3>3. QED
        BY <2>5, <3>2
    <2>7. R # {} => 60 + Max(R) \in Nat \ {0}
      BY <2>6
    <2>8. R # {} => Scale \div (60 + Max(R)) \in Int
      BY <1>1, <2>7 DEF Scale
    <2>9. QED
      BY <2>4, <2>8 DEF RankScore
  <1>3. \A j \in DOMAIN of : Near[s][of[j]] \in Int
    <2>1. \A j \in DOMAIN of : of[j] \in Memo
      BY DEF RankInv
    <2>2. ASSUME NEW text \in Memo
          PROVE  Near[s][text] \in Int
      <3>1. Near[s][text] \in -100..100
        BY NearAssumption
      <3>2. \A n \in -100..100 : n \in Int
        OBVIOUS
      <3>3. QED
        BY <3>1, <3>2
    <2> HIDE DEF of, nears, ranks
    <2>3. QED
      BY <2>1, <2>2
  <1>4. VectorScore(s, c.id) \in Int
    <2>1. IsFiniteSet(1..last)
      BY FS_Interval
    <2>2. IsFiniteSet(DOMAIN of)
      BY <2>1, FS_Subset DEF SearchInv
    <2>3. PICK f : f = [j \in DOMAIN of |-> Near[s][of[j]]]
      OBVIOUS
    <2>4. IsFiniteSet({f[j] : j \in DOMAIN of})
      BY <2>2, <2>3, FiniteImage
    <2>5. {f[j] : j \in DOMAIN of} = {Near[s][of[j]] : j \in DOMAIN of}
      BY <2>3
    <2>6. IsFiniteSet({1}) /\ IsFiniteSet({0}) /\ \A x : IsFiniteSet({x})
      BY FS_Singleton
    <2>7. PICK N : N = nears
      OBVIOUS
    <2>8. IsFiniteSet(N) /\ N \in SUBSET Int /\ 1 \in N
      <3>1. PICK G : G = {Near[s][of[j]] : j \in DOMAIN of}
        OBVIOUS
      <3>2. IsFiniteSet(G) /\ G \in SUBSET Int /\ N = {1} \cup G
        BY <1>3, <2>4, <2>5, <2>7, <3>1
      <3>3. IsFiniteSet({1} \cup G)
        BY <2>6, <3>2, FS_Union
      <3>4. QED
        BY <3>2, <3>3
    <2>9. Max(N) \in Nat \ {0}
      <3>1. PICK m : m = Max(N)
        OBVIOUS
      <3>2. m \in N /\ 1 =< m
        BY <2>8, <3>1, MaxOfFinite
      <3>3. m \in Int
        BY <2>8, <3>2
      <3>4. QED
        BY <3>1, <3>2, <3>3
    <2>10. ASSUME c.id \in DOMAIN of
           PROVE  Max({0, Scale * Near[s][of[c.id]]}) \in Int
      <3>1. PICK x \in Int : x = Scale * Near[s][of[c.id]]
        BY <1>3, <2>10 DEF Scale
      <3>2. IsFiniteSet({0, x})
        <4>1. IsFiniteSet({0} \cup {x}) /\ {0} \cup {x} = {0, x}
          BY <2>6, FS_Union
        <4>2. QED
          BY <4>1
      <3>3. Max({0, x}) \in Int
        <4>1. {0, x} \in SUBSET Int /\ {0, x} # {}
          OBVIOUS
        <4>2. Max({0, x}) \in {0, x}
          BY <3>2, <4>1, MaxOfFinite
        <4>3. QED
          BY <4>1, <4>2
      <3>4. QED
        BY <3>1, <3>3
    <2>11. QED
      BY <1>1, <2>7, <2>9, <2>10, SMTT(30) DEF VectorScore
  <1>5. \A a, b \in Int : (7 * a + 3 * b) \div 10 \in Int /\ a \div 2 \in Int
    OBVIOUS
  <1>6. QED
    BY <1>2, <1>4, <1>5 DEF Fused

LEMMA BlankKeeps == \A q : q = Blank => SearchInv(q) /\ RankInv(q) /\ Fields(q)
  <1>1. <<>> \in Seq({}) /\ IsInjective(<<>>) /\ DOMAIN <<>> = {}
    BY DEF IsInjective
  <1>2. QED
    BY <1>1, LimitAssumption, FS_EmptySet DEF SearchInv, RankInv, Scored, Blank, Fields

LEMMA RecallStartInv == RecallStart => Searching
  <1> SUFFICES ASSUME RecallStart PROVE Searching
    OBVIOUS
  <1>1. search = [s \in Searchers |-> Blank] /\ \A s \in Searchers : search[s] = Blank
    BY DEF RecallStart
  <1>2. \A s \in Searchers : SearchInv(search[s]) /\ RankInv(search[s]) /\ Fields(search[s])
    BY <1>1, BlankKeeps
  <1>3. QED
    BY <1>1, <1>2, FS_EmptySet DEF RecallStart, Searching, RecallInv

(* A step of one search that leaves the index alone but for the recalls.   *)
LEMMA SearchStep ==
  ASSUME Searching, NEW s \in Searchers, NEW q, SearchInv(q), RankInv(q), Fields(q),
         search' = [search EXCEPT ![s] = q], UNCHANGED <<chunk, vector, last>>,
         \A r \in recall' : \E c \in chunk : c.id = r.id /\ c.text = r.text
  PROVE  Searching'
  <1>1. /\ search' = [t \in Searchers |-> search'[t]]
        /\ \A t \in Searchers : search'[t] = IF t = s THEN q ELSE search[t]
    BY DEF Searching
  <1>2. \A t \in Searchers : SearchInv(search'[t]) /\ RankInv(search'[t]) /\ Fields(search'[t])
    BY <1>1 DEF Searching, RecallInv
  <1>3. ASSUME NEW t \in Searchers
        PROVE  SearchInv(search[t])'
    <2>1. SearchInv(search'[t]) /\ last' = last /\ chunk' = chunk
      BY <1>2
    <2>2. QED
      BY <2>1 DEF SearchInv, Scored
  <1>4. ASSUME NEW t \in Searchers
        PROVE  Fields(search[t])'
    BY <1>2 DEF Fields
  <1>5. ASSUME NEW t \in Searchers
        PROVE  RankInv(search[t])'
    BY <1>2 DEF RankInv
  <1>6. RecallInv'
    BY <1>3, <1>5 DEF Searching, RecallInv
  <1>7. QED
    BY <1>1, <1>4, <1>6 DEF Searching

(* A step of the index.                                                    *)
LEMMA IndexStep ==
  ASSUME Searching, UNCHANGED search, RecallInv'
  PROVE  Searching'
  BY DEF Searching, Fields

(* A step of the index leaves what the searches have ranked.               *)
LEMMA RanksStay ==
  ASSUME Searching, UNCHANGED search
  PROVE  \A s \in Searchers : RankInv(search[s])'
  <1> SUFFICES ASSUME NEW s \in Searchers PROVE RankInv(search'[s])
    OBVIOUS
  <1>1. RankInv(search[s]) /\ search'[s] = search[s]
    BY DEF Searching, RecallInv
  <1>2. QED
    BY <1>1

LEMMA AddChunkKeeps ==
  ASSUME Searching, NEW text \in Memo, AddChunk(text)
  PROVE  Searching'
  <1> DEFINE new == [id |-> last + 1, text |-> text]
  <1>1. /\ chunk' = chunk \cup {new} /\ last' = last + 1 /\ last \in Nat
        /\ UNCHANGED <<vector, recall, search>>
    BY DEF AddChunk, FreshId, Searching, RecallInv
  <1>2. 1..last \subseteq 1..last' /\ last + 1 \in 1..last' /\ last + 1 \notin 1..last
    BY <1>1
  <1>3. chunk \subseteq [id : 1..last, text : Memo]
    BY DEF Searching, RecallInv
  <1>4. new \in [id : 1..last', text : Memo] /\ new.id = last + 1 /\ \A c \in chunk : c.id # new.id
    BY <1>2, <1>3
  <1>5. chunk' \subseteq [id : 1..last', text : Memo]
    BY <1>1, <1>2, <1>3, <1>4
  <1>6. \A c, d \in chunk' : c.id = d.id => c = d
    BY <1>1, <1>4 DEF Searching, RecallInv
  <1>7. ASSUME NEW s \in Searchers
        PROVE  SearchInv(search[s])'
    <2> PICK q : q = search[s]
      OBVIOUS
    <2>1. SearchInv(q)
      BY DEF Searching, RecallInv
    <2>2. q.rows \subseteq [id : 1..last', text : Memo] /\ DOMAIN q.of \subseteq 1..last'
      BY <2>1, <1>2 DEF SearchInv
    <2>3. \A c \in q.rows \cup Scored(q) : c.id \in 1..last
      BY <2>1 DEF SearchInv, Scored
    <2>4. \A c \in q.rows \cup Scored(q), d \in q.rows \cup Scored(q) \cup chunk' :
             c.id = d.id => c.text = d.text
      BY <2>1, <2>3, <1>1, <1>2, <1>4 DEF SearchInv
    <2>5. search'[s] = q
      BY <1>1
    <2>6. QED
      BY <2>1, <2>2, <2>4, <2>5 DEF SearchInv, Scored
  <1>8. IsFiniteSet(chunk')
    BY <1>1, FS_AddElement DEF Searching, RecallInv
  <1>9. \A s \in Searchers : RankInv(search[s])'
    BY <1>1, RanksStay
  <1>10. RecallInv'
    BY <1>1, <1>5, <1>6, <1>7, <1>8, <1>9 DEF Searching, RecallInv
  <1>11. QED
    BY <1>1, <1>10, IndexStep

LEMMA AddVectorKeeps ==
  ASSUME Searching, NEW c \in chunk, AddVector(c)
  PROVE  Searching'
  <1>1. /\ vector' = vector \cup {[id |-> c.id, of |-> c.text]}
        /\ UNCHANGED <<chunk, recall, last, search>>
    BY DEF AddVector
  <1>2. \A v \in vector' : \E d \in chunk : d.id = v.id /\ d.text = v.of
    BY <1>1 DEF Searching, RecallInv
  <1>3. ASSUME NEW s \in Searchers
        PROVE  SearchInv(search[s])'
    BY <1>1 DEF Searching, RecallInv, SearchInv, Scored
  <1>4. \A s \in Searchers : RankInv(search[s])'
    BY <1>1, RanksStay
  <1>5. RecallInv'
    BY <1>1, <1>2, <1>3, <1>4 DEF Searching, RecallInv
  <1>6. QED
    BY <1>1, <1>5, IndexStep

LEMMA DropChunkKeeps ==
  ASSUME Searching, NEW c \in chunk, DropChunk(c)
  PROVE  Searching'
  <1>1. /\ chunk' = chunk \ {c} /\ UNCHANGED <<last, search>>
        /\ vector' = {v \in vector : v.id # c.id} /\ recall' = {r \in recall : r.id # c.id}
    BY DEF DropChunk
  <1>2. \A v \in vector' : \E d \in chunk' : d.id = v.id /\ d.text = v.of
    BY <1>1 DEF Searching, RecallInv
  <1>3. \A r \in recall' : \E d \in chunk' : d.id = r.id /\ d.text = r.text
    BY <1>1 DEF Searching, RecallInv
  <1>4. ASSUME NEW s \in Searchers
        PROVE  SearchInv(search[s])'
    <2> PICK q : q = search[s]
      OBVIOUS
    <2>1. SearchInv(q) /\ search'[s] = q
      BY <1>1 DEF Searching, RecallInv
    <2>2. QED
      BY <1>1, <2>1 DEF SearchInv, Scored
  <1>5. IsFiniteSet(chunk') /\ \A s \in Searchers : RankInv(search[s])'
    <2>1. IsFiniteSet(chunk) /\ chunk' \subseteq chunk
      BY <1>1 DEF Searching, RecallInv
    <2>2. IsFiniteSet(chunk')
      BY <2>1, FS_Subset
    <2>3. \A s \in Searchers : RankInv(search[s])'
      BY <1>1, RanksStay
    <2>4. QED
      BY <2>2, <2>3
  <1>6. RecallInv'
    <2>1. last' \in Nat /\ chunk' \subseteq [id : 1..last', text : Memo]
      BY <1>1 DEF Searching, RecallInv
    <2>2. \A d, e \in chunk' : d.id = e.id => d = e
      BY <1>1 DEF Searching, RecallInv
    <2>3. QED
      BY <1>2, <1>3, <1>4, <1>5, <2>1, <2>2 DEF RecallInv
  <1>7. QED
    BY <1>1, <1>6, IndexStep

(* The recalls of a step that writes none.                                 *)
LEMMA RecallsStay ==
  ASSUME Searching, UNCHANGED recall
  PROVE  \A r \in recall' : \E c \in chunk : c.id = r.id /\ c.text = r.text
  BY DEF Searching, RecallInv

LEMMA FtsSearchKeeps ==
  ASSUME Searching, NEW s \in Searchers, FtsSearch(s)
  PROVE  Searching'
  <1>1. WordHits(s) \subseteq chunk
    BY DEF WordHits
  <1>2. PICK top \in SUBSET WordHits(s), fts \in Seq(Int) :
          search' = [search EXCEPT ![s] = [Blank EXCEPT !.pc = Embedding, !.fts = fts, !.rows = top]]
    <2> DEFINE k == Min({3 * Limit, Cardinality(WordHits(s))})
    <2>1. PICK top \in kSubset(k, WordHits(s)) : \E line \in SetToSeqs(top) :
            search' = [search EXCEPT ![s] =
                [Blank EXCEPT !.pc = Embedding, !.fts = [i \in 1..k |-> line[i].id], !.rows = top]]
      BY DEF FtsSearch
    <2>2. PICK line \in SetToSeqs(top) :
            search' = [search EXCEPT ![s] =
                [Blank EXCEPT !.pc = Embedding, !.fts = [i \in 1..k |-> line[i].id], !.rows = top]]
      BY <2>1
    <2>3. top \in SUBSET WordHits(s) /\ Cardinality(top) = k /\ IsFiniteSet(top)
      BY <1>1, <2>1, FS_Subset DEF kSubset, Searching, RecallInv
    <2>4. k \in Nat
      BY <2>3, FS_CardinalityType
    <2>5. \A i \in 1..k : line[i] \in top
      BY <2>2, <2>3 DEF SetToSeqs
    <2>6. \A i \in 1..k : line[i].id \in Int
      <3>1. \A c \in chunk : c.id \in Int
        BY DEF Searching, RecallInv
      <3>2. QED
        BY <1>1, <2>3, <2>5, <3>1
    <2> HIDE DEF k
    <2>7. [i \in 1..k |-> line[i].id] \in Seq(Int)
      BY <2>4, <2>6
    <2>8. QED
      BY <2>2, <2>3, <2>7
  <1>3. PICK q : q = [pc |-> Embedding, fts |-> fts, of |-> <<>>, rows |-> top,
                      gone |-> {}, found |-> {}, results |-> <<>>, noted |-> 0]
    OBVIOUS
  <1>4. search' = [search EXCEPT ![s] = q]
    <2>1. PICK u : u = [Blank EXCEPT !.pc = Embedding, !.fts = fts]
      OBVIOUS
    <2>2. u = [pc |-> Embedding, fts |-> fts, of |-> <<>>, rows |-> {},
               gone |-> {}, found |-> {}, results |-> <<>>, noted |-> 0]
      <3>1. PICK w : w = [Blank EXCEPT !.pc = Embedding]
        OBVIOUS
      <3>2. w = [pc |-> Embedding, fts |-> <<>>, of |-> <<>>, rows |-> {},
                 gone |-> {}, found |-> {}, results |-> <<>>, noted |-> 0]
        BY <3>1 DEF Blank
      <3>3. u = [w EXCEPT !.fts = fts]
        BY <2>1, <3>1 DEF Blank
      <3>4. QED
        BY <3>2, <3>3
    <2>3. [u EXCEPT !.rows = top] = q
      <3>1. Fields(u) /\ u.pc = Embedding /\ u.fts = fts /\ u.of = <<>> /\ u.found = {}
            /\ u.gone = {} /\ u.results = <<>> /\ u.noted = 0
        BY <2>2 DEF Fields
      <3>2. q = [pc |-> u.pc, fts |-> u.fts, of |-> u.of, rows |-> top,
                 gone |-> u.gone, found |-> u.found, results |-> u.results, noted |-> u.noted]
        BY <1>3, <3>1
      <3>3. QED
        BY <3>1, <3>2, RowsReplaced
    <2>4. [Blank EXCEPT !.pc = Embedding, !.fts = fts, !.rows = top] = [u EXCEPT !.rows = top]
      BY <2>1 DEF Blank
    <2>5. QED
      BY <1>2, <2>3, <2>4
  <1>5. UNCHANGED <<chunk, vector, recall, last>>
    BY DEF FtsSearch, index
  <1>6. Scored(q) = {}
    BY <1>3 DEF Scored
  <1>7. q.rows \subseteq chunk
    BY <1>1, <1>3
  <1>8. /\ q.rows \subseteq [id : 1..last, text : Memo]
        /\ \A c \in q.rows \cup Scored(q), d \in q.rows \cup Scored(q) \cup chunk :
              c.id = d.id => c.text = d.text
    BY <1>6, <1>7 DEF Searching, RecallInv
  <1>9. q.results \in Seq(q.found) /\ IsInjective(q.results) /\ DOMAIN q.of = {} /\ q.found = {}
        /\ q.results = <<>> /\ q.noted = 0 /\ q.pc \in {"embed", "fetch"}
    BY <1>3 DEF IsInjective, Embedding
  <1>10. SearchInv(q) /\ Fields(q)
    BY <1>3, <1>8, <1>9 DEF SearchInv, Fields
  <1>11. RankInv(q)
    <2>1. IsFiniteSet(q.rows) /\ IsFiniteSet(q.found)
      BY <1>7, <1>9, FS_Subset, FS_EmptySet DEF Searching, RecallInv
    <2>2. q.fts \in Seq(Int) /\ Len(q.results) =< Limit
      BY <1>2, <1>3, <1>9, LimitAssumption
    <2>3. QED
      BY <1>9, <2>1, <2>2 DEF RankInv
  <1>12. QED
    BY <1>4, <1>5, <1>10, <1>11, SearchStep, RecallsStay

LEMMA EmbedQueryKeeps ==
  ASSUME Searching, NEW s \in Searchers, EmbedQuery(s)
  PROVE  Searching'
  <1>1. PICK old : old = search[s]
    OBVIOUS
  <1>2. PICK pc \in {"vectors", "fetch"} : search' = [search EXCEPT ![s].pc = pc]
    BY DEF EmbedQuery
  <1>3. PICK q : q = [pc |-> pc, fts |-> old.fts, of |-> old.of, rows |-> old.rows,
                      gone |-> old.gone,
                      found |-> old.found, results |-> old.results, noted |-> old.noted]
    OBVIOUS
  <1>4. SearchInv(old) /\ RankInv(old) /\ Fields(old) /\ old.pc = "embed"
    BY <1>1 DEF Searching, RecallInv, EmbedQuery
  <1>5. [search[s] EXCEPT !.pc = pc] = q
    BY <1>1, <1>3, <1>4 DEF Fields
  <1>6. search' = [search EXCEPT ![s] = q]
    BY <1>2, <1>5
  <1>7. UNCHANGED <<chunk, vector, recall, last>>
    BY DEF EmbedQuery, index
  <1>8. SearchInv(q) /\ Fields(q)
    BY <1>3, <1>4 DEF SearchInv, Scored, Fields
  <1>9. RankInv(q)
    BY <1>3, <1>4 DEF RankInv
  <1>10. QED
    BY <1>6, <1>7, <1>8, <1>9, SearchStep, RecallsStay

(* What the vectors say of a text is what its chunk says.                  *)
LEMMA VectorsKnowTexts ==
  ASSUME Searching, NEW top \in SUBSET vector, NEW of,
         of = [i \in Ids(top) |-> (CHOOSE v \in top : v.id = i).of], NEW i \in DOMAIN of
  PROVE  \E c \in chunk : c.id = i /\ c.text = of[i]
  <1>1. i \in Ids(top) /\ of[i] = (CHOOSE v \in top : v.id = i).of
    OBVIOUS
  <1>2. \E v \in top : v.id = i
    BY <1>1 DEF Ids
  <1>3. PICK v : v = CHOOSE w \in top : w.id = i
    OBVIOUS
  <1>4. v \in top /\ v.id = i
    BY <1>2, <1>3
  <1>5. of[i] = v.of
    BY <1>1, <1>3
  <1>6. PICK c \in chunk : c.id = v.id /\ c.text = v.of
    BY <1>4 DEF Searching, RecallInv
  <1>7. QED
    BY <1>4, <1>5, <1>6

LEMMA VectorSearchKeeps ==
  ASSUME Searching, NEW s \in Searchers, VectorSearch(s)
  PROVE  Searching'
  <1>1. PICK old : old = search[s]
    OBVIOUS
  <1>2. /\ SearchInv(old) /\ RankInv(old) /\ Fields(old) /\ old.pc = "vectors"
        /\ chunk \subseteq [id : 1..last, text : Memo]
    BY <1>1 DEF Searching, RecallInv, VectorSearch
  <1>3. UNCHANGED <<chunk, vector, recall, last>>
    BY DEF VectorSearch, index
  <1>4. CASE search' = [search EXCEPT ![s].pc = "fetch"]
    <2>1. PICK q : q = [pc |-> "fetch", fts |-> old.fts, of |-> old.of, rows |-> old.rows,
                        gone |-> old.gone,
                        found |-> old.found, results |-> old.results, noted |-> old.noted]
      OBVIOUS
    <2>2. [search[s] EXCEPT !.pc = "fetch"] = q
      BY <1>1, <1>2, <2>1 DEF Fields
    <2>3. search' = [search EXCEPT ![s] = q]
      BY <1>4, <2>2
    <2>4. SearchInv(q) /\ Fields(q)
      BY <1>2, <2>1 DEF SearchInv, Scored, Fields
    <2>5. RankInv(q)
      BY <1>2, <2>1 DEF RankInv
    <2>6. QED
      BY <1>3, <2>3, <2>4, <2>5, SearchStep, RecallsStay
  <1>5. CASE \E top \in SUBSET vector :
                search' = [search EXCEPT ![s].pc = "fetch",
                      ![s].of = [i \in Ids(top) |-> (CHOOSE v \in top : v.id = i).of]]
    <2>1. PICK top \in SUBSET vector :
                search' = [search EXCEPT ![s].pc = "fetch",
                      ![s].of = [i \in Ids(top) |-> (CHOOSE v \in top : v.id = i).of]]
      BY <1>5
    <2>2. PICK of : of = [i \in Ids(top) |-> (CHOOSE v \in top : v.id = i).of]
      OBVIOUS
    <2>3. search' = [search EXCEPT ![s].pc = "fetch", ![s].of = of]
      BY <2>1, <2>2
    <2>4. PICK q : q = [pc |-> "fetch", fts |-> old.fts, of |-> of, rows |-> old.rows,
                        gone |-> old.gone,
                        found |-> old.found, results |-> old.results, noted |-> old.noted]
      OBVIOUS
    <2>5. [old EXCEPT !.pc = "fetch", !.of = of] = q
      BY <1>2, <2>4, PcOfReplaced
    <2>6. search' = [search EXCEPT ![s] = q]
      BY <1>1, <2>3, <2>5
    <2>7. \A i \in DOMAIN of : \E c \in chunk : c.id = i /\ c.text = of[i]
      BY <2>2, VectorsKnowTexts
    <2>8. DOMAIN of \subseteq 1..last
      BY <1>2, <2>7
    <2>9. \A c \in Scored(q) : \E d \in chunk : d.id = c.id /\ d.text = c.text
      BY <2>4, <2>7 DEF Scored
    <2>10. \A c \in q.rows \cup Scored(q), d \in q.rows \cup Scored(q) \cup chunk :
             c.id = d.id => c.text = d.text
      <3>1. \A c, d \in chunk : c.id = d.id => c.text = d.text
        BY DEF Searching, RecallInv
      <3>2. \A c \in old.rows, d \in old.rows \cup chunk : c.id = d.id => c.text = d.text
        BY <1>2 DEF SearchInv
      <3>3. q.rows = old.rows
        BY <2>4
      <3>4. QED
        BY <2>9, <3>1, <3>2, <3>3
    <2>11. SearchInv(q) /\ Fields(q)
      <3>1. /\ q.rows \subseteq [id : 1..last, text : Memo]
            /\ \A f \in q.found : /\ f.of \in {NoText, f.text}
                                  /\ \E c \in q.rows : c.id = f.id /\ c.text = f.text
            /\ \A f, g \in q.found : f.id = g.id => f = g
            /\ q.results \in Seq(q.found) /\ IsInjective(q.results) /\ q.results = <<>>
            /\ q.noted = 0 /\ q.pc = "fetch"
        BY <1>2, <2>4 DEF SearchInv
      <3>2. DOMAIN q.of \subseteq 1..last
        BY <2>4, <2>8
      <3>3. Fields(q)
        BY <2>4 DEF Fields
      <3>4. QED
        BY <2>10, <3>1, <3>2, <3>3 DEF SearchInv
    <2>12. RankInv(q)
      <3>1. \A i \in DOMAIN of : of[i] \in Memo
        BY <1>2, <2>7
      <3>2. QED
        BY <1>2, <2>4, <3>1 DEF RankInv
    <2>13. QED
      BY <1>3, <2>6, <2>11, <2>12, SearchStep, RecallsStay
  <1>6. QED
    BY <1>4, <1>5 DEF VectorSearch, kSubset

LEMMA FetchKeeps ==
  ASSUME Searching, NEW s \in Searchers, NEW i, Fetch(s, i)
  PROVE  Searching'
  <1>1. PICK old : old = search[s]
    OBVIOUS
  <1>2. PICK rows : rows = search[s].rows \cup {c \in chunk : c.id = i}
    OBVIOUS
  <1>3. PICK gone : gone = search[s].gone \cup ({i} \ Ids(chunk))
    OBVIOUS
  <1>4. /\ SearchInv(old) /\ RankInv(old) /\ Fields(old) /\ old.pc = "fetch"
        /\ chunk \subseteq [id : 1..last, text : Memo]
    BY <1>1 DEF Searching, RecallInv, Fetch
  <1>5. PICK q : q = [pc |-> old.pc, fts |-> old.fts, of |-> old.of, rows |-> rows,
                      gone |-> gone,
                      found |-> old.found, results |-> old.results, noted |-> old.noted]
    OBVIOUS
  <1>6. search' = [search EXCEPT ![s] = q]
    <2>1. search' = [search EXCEPT ![s].rows = rows, ![s].gone = gone]
      BY <1>2, <1>3 DEF Fetch
    <2>2. [old EXCEPT !.rows = rows, !.gone = gone] = q
      BY <1>4, <1>5, RowsGoneReplaced
    <2>3. QED
      BY <1>1, <2>1, <2>2
  <1>7. UNCHANGED <<chunk, vector, recall, last>>
    BY DEF Fetch, index
  <1>8. q.of = old.of
    BY <1>5
  <1>9. Scored(q) = Scored(old)
    BY <1>8 DEF Scored
  <1>10. \A c \in q.rows \cup Scored(q), d \in q.rows \cup Scored(q) \cup chunk :
            c.id = d.id => c.text = d.text
    <2>1. \A c, d \in chunk : c.id = d.id => c.text = d.text
      BY DEF Searching, RecallInv
    <2>2. \A c \in old.rows \cup Scored(old), d \in old.rows \cup Scored(old) \cup chunk :
            c.id = d.id => c.text = d.text
      BY <1>4 DEF SearchInv
    <2>3. q.rows \subseteq old.rows \cup chunk
      BY <1>1, <1>2, <1>5
    <2>4. QED
      BY <1>9, <2>1, <2>2, <2>3
  <1>11. SearchInv(q) /\ Fields(q)
    <2>1. q.rows \subseteq [id : 1..last, text : Memo]
      BY <1>1, <1>2, <1>4, <1>5 DEF SearchInv
    <2>2. DOMAIN q.of \subseteq 1..last
      BY <1>4, <1>5, <1>8 DEF SearchInv
    <2>3. /\ \A f \in q.found : f.of \in {NoText, f.text}
          /\ \A f, g \in q.found : f.id = g.id => f = g
          /\ q.results \in Seq(q.found) /\ IsInjective(q.results) /\ q.results = <<>>
          /\ q.noted = 0 /\ q.pc = "fetch"
      BY <1>4, <1>5 DEF SearchInv
    <2>4. \A f \in q.found : \E c \in q.rows : c.id = f.id /\ c.text = f.text
      BY <1>1, <1>2, <1>4, <1>5 DEF SearchInv
    <2>5. Fields(q)
      BY <1>5 DEF Fields
    <2>6. QED
      BY <1>10, <2>1, <2>2, <2>3, <2>4, <2>5 DEF SearchInv
  <1>12. RankInv(q)
    <2>1. IsFiniteSet(q.rows)
      <3>1. IsFiniteSet(chunk) /\ IsFiniteSet(old.rows)
        BY <1>4 DEF Searching, RecallInv, RankInv
      <3>2. IsFiniteSet({c \in chunk : c.id = i})
        BY <3>1, FS_Subset
      <3>3. QED
        BY <1>1, <1>2, <1>5, <3>1, <3>2, FS_Union
    <2>2. \A j \in DOMAIN q.of : q.of[j] \in Memo
      BY <1>4, <1>5, <1>8 DEF RankInv
    <2>3. QED
      BY <1>4, <1>5, <2>1, <2>2 DEF RankInv
  <1>13. QED
    BY <1>6, <1>7, <1>11, <1>12, SearchStep, RecallsStay

(* A search has one row, and so one candidate, per id, and the vector that *)
(* scored it is that of its text.                                          *)
LEMMA CandidatesAreTrue ==
  ASSUME NEW s \in Searchers, SearchInv(search[s])
  PROVE  /\ \A f \in Candidates(s) : f.of \in {NoText, f.text}
         /\ \A f, g \in Candidates(s) : f.id = g.id => f = g
         /\ \A f \in Candidates(s) : \E c \in search[s].rows : c.id = f.id /\ c.text = f.text
  <1> DEFINE Of(c) == IF c.id \in DOMAIN search[s].of THEN search[s].of[c.id] ELSE NoText
             Made(c) == [id |-> c.id, text |-> c.text, score |-> Fused(s, c), of |-> Of(c)]
  <1>1. Candidates(s) = {Made(c) : c \in search[s].rows}
    BY DEF Candidates
  <1>2. ASSUME NEW c \in search[s].rows
        PROVE  Of(c) \in {NoText, c.text}
    <2>1. CASE c.id \in DOMAIN search[s].of
      <3>1. PICK d : d = [id |-> c.id, text |-> search[s].of[c.id]]
        OBVIOUS
      <3>2. d \in Scored(search[s]) /\ d.id = c.id /\ d.text = Of(c)
        BY <2>1, <3>1 DEF Scored
      <3>3. d.text = c.text
        BY <3>2 DEF SearchInv
      <3>4. QED
        BY <3>2, <3>3
    <2>2. QED
      BY <2>1
  <1>3. \A c, d \in search[s].rows : c.id = d.id => c = d
    BY DEF SearchInv
  <1>4. \A c \in search[s].rows : Made(c).id = c.id /\ Made(c).text = c.text /\ Made(c).of = Of(c)
    OBVIOUS
  <1> HIDE DEF Made, Of
  <1>5. QED
    BY <1>1, <1>2, <1>3, <1>4

LEMMA CandidatesAreScored ==
  ASSUME NEW s \in Searchers, SearchInv(search[s]), RankInv(search[s]), last \in Nat
  PROVE  IsFiniteSet(Candidates(s)) /\ \A f \in Candidates(s) : f.score \in Int
  <1> DEFINE Of(c) == IF c.id \in DOMAIN search[s].of THEN search[s].of[c.id] ELSE NoText
             Made(c) == [id |-> c.id, text |-> c.text, score |-> Fused(s, c), of |-> Of(c)]
  <1>1. Candidates(s) = {Made(c) : c \in search[s].rows}
    BY DEF Candidates
  <1>2. \A c : Made(c).score = Fused(s, c)
    OBVIOUS
  <1> HIDE DEF Made
  <1>3. \A f \in Candidates(s) : f.score \in Int
    BY <1>1, <1>2, ScoresAreIntegers
  <1>4. PICK f : f = [c \in search[s].rows |-> Made(c)]
    OBVIOUS
  <1>5. IsFiniteSet({f[c] : c \in search[s].rows})
    <2>1. IsFiniteSet(search[s].rows)
      BY DEF RankInv
    <2>2. f = [c \in search[s].rows |-> f[c]]
      BY <1>4
    <2>3. QED
      BY <2>1, <2>2, FiniteImage
  <1>6. QED
    BY <1>1, <1>3, <1>4, <1>5

LEMMA GatherKeeps ==
  ASSUME Searching, NEW s \in Searchers, Gather(s)
  PROVE  Searching'
  <1>1. PICK old : old = search[s]
    OBVIOUS
  <1>2. PICK found : found = Candidates(s)
    OBVIOUS
  <1>3. SearchInv(old) /\ RankInv(old) /\ Fields(old) /\ old.pc = "fetch"
    BY <1>1 DEF Searching, RecallInv, Gather
  <1>4. PICK q : q = [pc |-> "rerank", fts |-> old.fts, of |-> old.of, rows |-> old.rows,
                      gone |-> old.gone,
                      found |-> found, results |-> old.results, noted |-> old.noted]
    OBVIOUS
  <1>5. search' = [search EXCEPT ![s] = q]
    <2>1. search' = [search EXCEPT ![s].pc = "rerank", ![s].found = found]
      BY <1>2 DEF Gather
    <2>2. [old EXCEPT !.pc = "rerank", !.found = found] = q
      BY <1>3, <1>4, PcFoundReplaced
    <2>3. QED
      BY <1>1, <2>1, <2>2
  <1>6. UNCHANGED <<chunk, vector, recall, last>>
    BY DEF Gather, index
  <1>7. \A f \in q.found : f.of \in {NoText, f.text}
    BY <1>1, <1>2, <1>3, <1>4, CandidatesAreTrue
  <1>8. \A f, g \in q.found : f.id = g.id => f = g
    BY <1>1, <1>2, <1>3, <1>4, CandidatesAreTrue
  <1>9. q.results \in Seq(q.found) /\ IsInjective(q.results)
    <2>1. q.results = <<>>
      BY <1>3, <1>4 DEF SearchInv
    <2>2. QED
      BY <2>1 DEF IsInjective
  <1>10. /\ q.rows \subseteq [id : 1..last, text : Memo] /\ DOMAIN q.of \subseteq 1..last
         /\ \A c \in q.rows \cup Scored(q), d \in q.rows \cup Scored(q) \cup chunk :
              c.id = d.id => c.text = d.text
    BY <1>3, <1>4 DEF SearchInv, Scored
  <1>11. q.pc = "rerank" /\ q.noted = 0 /\ Fields(q)
    BY <1>3, <1>4 DEF Fields, SearchInv
  <1>12. \A f \in q.found : \E c \in q.rows : c.id = f.id /\ c.text = f.text
    BY <1>1, <1>2, <1>3, <1>4, CandidatesAreTrue
  <1>13. SearchInv(q)
    BY <1>7, <1>8, <1>9, <1>10, <1>11, <1>12 DEF SearchInv
  <1>14. RankInv(q)
    <2>1. IsFiniteSet(q.found) /\ \A c \in q.found : c.score \in Int
      BY <1>1, <1>2, <1>3, <1>4, CandidatesAreScored DEF Searching, RecallInv
    <2>2. q.results = <<>> /\ DOMAIN q.results = {}
      BY <1>3, <1>4 DEF SearchInv
    <2>3. QED
      BY <1>3, <1>4, <2>1, <2>2 DEF RankInv
  <1>15. QED
    BY <1>5, <1>6, <1>11, <1>13, <1>14, SearchStep, RecallsStay

LEMMA AppendToSeq ==
  ASSUME NEW S, NEW seq \in Seq(S), NEW c \in S
  PROVE  /\ Append(seq, c) \in Seq(S) /\ DOMAIN Append(seq, c) = 1..(Len(seq) + 1)
         /\ Append(seq, c)[Len(seq) + 1] = c
         /\ \A i \in 1..Len(seq) : Append(seq, c)[i] = seq[i]
         /\ Len(Append(seq, c)) = Len(seq) + 1
  OBVIOUS

(* What scores more than the best by margin is like something selected.    *)
LEMMA PassedOverForLikeness ==
  ASSUME NEW q, SearchInv(q), RankInv(q), NEW c \in q.found, NEW d \in q.found,
         Marginal(c, q.results) >= Marginal(d, q.results), d.score > c.score
  PROVE  \E j \in 1..Len(q.results) : d.text \cap q.results[j].text # {}
  <1>1. \A r \in q.found : r.text \in Memo /\ r.score \in Int
    BY DEF SearchInv, RankInv
  <1>2. q.results \in Seq(q.found)
    BY DEF SearchInv
  <1>3. PICK S : S = q.found
    OBVIOUS
  <1>4. PICK selected \in Seq(S) : selected = q.results
    BY <1>2, <1>3
  <1>5. \A r \in S : r.text \in Memo
    BY <1>1, <1>3
  <1>6. Likeness(c, selected) \in Nat
    BY <1>1, <1>5, LikenessIsCommonWords
  <1>7. /\ Likeness(d, selected) \in Nat
        /\ Likeness(d, selected) > 0 =>
              \E j \in 1..Len(selected) : d.text \cap selected[j].text # {}
    BY <1>1, <1>5, LikenessIsCommonWords
  <1>8. 7 * c.score - 3 * Likeness(c, selected) >= 7 * d.score - 3 * Likeness(d, selected)
    BY <1>4 DEF Marginal
  <1>9. Likeness(d, selected) > 0
    BY <1>1, <1>6, <1>7, <1>8
  <1>10. QED
    BY <1>7, <1>9, <1>4

LEMMA SelectKeeps ==
  ASSUME Searching, NEW s \in Searchers, Select(s)
  PROVE  Searching'
  <1>1. PICK old : old = search[s]
    OBVIOUS
  <1>2. /\ SearchInv(old) /\ RankInv(old) /\ Fields(old) /\ old.pc = "rerank"
        /\ Len(old.results) < Limit
    BY <1>1 DEF Searching, RecallInv, Select
  <1>3. PICK c \in old.found \ Range(old.results) :
          /\ \A d \in old.found \ Range(old.results) :
                Marginal(c, old.results) >= Marginal(d, old.results)
          /\ search' = [search EXCEPT ![s].results = Append(@, c)]
    BY <1>1 DEF Select, Open
  <1>4. PICK results : results = Append(old.results, c)
    OBVIOUS
  <1>5. PICK q : q = [pc |-> old.pc, fts |-> old.fts, of |-> old.of, rows |-> old.rows,
                      gone |-> old.gone,
                      found |-> old.found, results |-> results, noted |-> old.noted]
    OBVIOUS
  <1>6. search' = [search EXCEPT ![s] = q]
    <2>1. [search[s] EXCEPT !.results = results] = q
      BY <1>1, <1>2, <1>5 DEF Fields
    <2>2. QED
      BY <1>1, <1>3, <1>4, <2>1
  <1>7. UNCHANGED <<chunk, vector, recall, last>>
    BY DEF Select, index
  <1>8. q.results \in Seq(q.found) /\ IsInjective(q.results)
    <2>1. old.results \in Seq(old.found) /\ IsInjective(old.results)
      BY <1>2 DEF SearchInv
    <2>2. \A i \in DOMAIN old.results : old.results[i] # c
      BY <1>3 DEF Range
    <2>3. /\ results \in Seq(old.found) /\ DOMAIN results = 1..(Len(old.results) + 1)
          /\ results[Len(old.results) + 1] = c
          /\ \A i \in 1..Len(old.results) : results[i] = old.results[i]
      <3>1. PICK S, seq : S = old.found /\ seq = old.results
        OBVIOUS
      <3>2. seq \in Seq(S) /\ c \in S /\ results = Append(seq, c)
        BY <1>3, <1>4, <2>1, <3>1
      <3>3. /\ results \in Seq(S) /\ DOMAIN results = 1..(Len(seq) + 1)
            /\ results[Len(seq) + 1] = c
        BY <3>2, AppendToSeq
      <3>4. \A i \in 1..Len(seq) : results[i] = seq[i]
        BY <3>2, AppendToSeq
      <3>5. QED
        BY <3>1, <3>3, <3>4
    <2>4. DOMAIN old.results = 1..Len(old.results) /\ Len(old.results) \in Nat
      BY <2>1
    <2>5. ASSUME NEW a \in DOMAIN results, NEW b \in DOMAIN results, results[a] = results[b]
          PROVE  a = b
      BY <2>1, <2>2, <2>3, <2>4, <2>5 DEF IsInjective
    <2>6. QED
      BY <1>5, <2>3, <2>5 DEF IsInjective
  <1>9. SearchInv(q) /\ Fields(q)
    BY <1>2, <1>5, <1>8 DEF SearchInv, Scored, Fields
  <1>10. RankInv(q)
    <2> DEFINE n == Len(old.results)
    <2>1. old.results \in Seq(old.found) /\ n \in Nat /\ DOMAIN old.results = 1..n
      BY <1>2 DEF SearchInv
    <2>2. /\ results \in Seq(old.found) /\ Len(results) = n + 1 /\ DOMAIN results = 1..(n + 1)
          /\ results[n + 1] = c /\ \A i \in 1..n : results[i] = old.results[i]
      <3>1. PICK S, seq : S = old.found /\ seq = old.results
        OBVIOUS
      <3>2. seq \in Seq(S) /\ c \in S /\ results = Append(seq, c)
        BY <1>3, <1>4, <2>1, <3>1
      <3>3. /\ results \in Seq(S) /\ Len(results) = Len(seq) + 1
            /\ DOMAIN results = 1..(Len(seq) + 1) /\ results[Len(seq) + 1] = c
        BY <3>2, AppendToSeq
      <3>4. \A i \in 1..Len(seq) : results[i] = seq[i]
        BY <3>2, AppendToSeq
      <3>5. QED
        BY <3>1, <3>3, <3>4
    <2>3. Range(results) = Range(old.results) \cup {c}
      BY <2>1, <2>2 DEF Range
    <2>4. ASSUME NEW d \in old.found \ Range(results), d.score > c.score
          PROVE  \E j \in 1..n : d.text \cap old.results[j].text # {}
      BY <1>2, <1>3, <2>3, <2>4, PassedOverForLikeness
    <2>5. ASSUME NEW d \in old.found \ Range(results), NEW i \in 1..(n + 1),
                 d.score > results[i].score
          PROVE  \E j \in 1..(i - 1) : d.text \cap results[j].text # {}
      <3>1. CASE i = n + 1
        BY <2>1, <2>2, <2>4, <2>5, <3>1
      <3>2. CASE i \in 1..n
        <4>1. PICK j \in 1..(i - 1) : d.text \cap old.results[j].text # {}
          BY <1>2, <2>1, <2>2, <2>3, <2>5, <3>2 DEF RankInv
        <4>2. QED
          BY <2>1, <2>2, <3>2, <4>1
      <3>3. QED
        BY <2>1, <3>1, <3>2
    <2>6. /\ q.results = results /\ q.found = old.found /\ q.pc = "rerank" /\ q.of = old.of
          /\ q.fts = old.fts /\ q.rows = old.rows
      BY <1>2, <1>5
    <2>7. Len(results) =< Limit
      BY <1>2, <2>1, <2>2, LimitAssumption
    <2>8. /\ old.fts \in Seq(Int) /\ IsFiniteSet(old.rows) /\ IsFiniteSet(old.found)
          /\ \A i \in DOMAIN old.of : old.of[i] \in Memo
          /\ \A e \in old.found : e.score \in Int
      BY <1>2 DEF RankInv
    <2>9. \A d \in old.found \ Range(results), i \in DOMAIN results : d.score > results[i].score =>
             \E j \in 1..(i - 1) : d.text \cap results[j].text # {}
      BY <2>2, <2>5
    <2>10. QED
      BY <2>6, <2>7, <2>8, <2>9, SMTT(30) DEF RankInv
  <1>11. QED
    BY <1>6, <1>7, <1>9, <1>10, SearchStep, RecallsStay

LEMMA SelectedKeeps ==
  ASSUME Searching, NEW s \in Searchers, Selected(s)
  PROVE  Searching'
  <1>1. PICK old : old = search[s]
    OBVIOUS
  <1>2. PICK pc \in {"done", "record"} :
          /\ search' = [search EXCEPT ![s].pc = pc] /\ (pc = "record" => old.results # <<>>)
          /\ old.found \ Range(old.results) = {} \/ Len(old.results) = Limit
    BY <1>1 DEF Selected, Open
  <1>3. PICK q : q = [pc |-> pc, fts |-> old.fts, of |-> old.of, rows |-> old.rows,
                      gone |-> old.gone,
                      found |-> old.found, results |-> old.results, noted |-> old.noted]
    OBVIOUS
  <1>4. SearchInv(old) /\ RankInv(old) /\ Fields(old) /\ old.pc = "rerank"
    BY <1>1 DEF Searching, RecallInv, Selected
  <1>5. [search[s] EXCEPT !.pc = pc] = q
    BY <1>1, <1>3, <1>4 DEF Fields
  <1>6. search' = [search EXCEPT ![s] = q]
    BY <1>2, <1>5
  <1>7. UNCHANGED <<chunk, vector, recall, last>>
    BY DEF Selected, index
  <1>8. old.noted = 0 /\ (pc = "record" => old.noted \in 0..(Len(old.results) - 1))
    <2>1. old.noted = 0 /\ old.results \in Seq(old.found)
      BY <1>4 DEF SearchInv
    <2>2. old.results # <<>> => Len(old.results) \in Nat \ {0}
      BY <2>1
    <2>3. QED
      BY <1>2, <2>1, <2>2
  <1>9. SearchInv(q) /\ Fields(q)
    BY <1>2, <1>3, <1>4, <1>8 DEF SearchInv, Scored, Fields
  <1>10. RankInv(q)
    BY <1>2, <1>3, <1>4 DEF RankInv
  <1>11. QED
    BY <1>6, <1>7, <1>9, <1>10, SearchStep, RecallsStay

LEMMA RecordKeeps ==
  ASSUME Searching, NEW s \in Searchers, Record(s)
  PROVE  Searching'
  <1>1. PICK old : old = search[s]
    OBVIOUS
  <1>2. PICK r : r = old.results[old.noted + 1]
    OBVIOUS
  <1>3. SearchInv(old) /\ RankInv(old) /\ Fields(old)
    BY <1>1 DEF Searching, RecallInv
  <1>4. old.pc = "record" /\ UNCHANGED <<chunk, vector, last>>
    BY <1>1 DEF Record
  <1>5. CASE r.id \notin Ids(chunk)
    <2>1. PICK q : q = [pc |-> "raised", fts |-> old.fts, of |-> old.of, rows |-> old.rows,
                        gone |-> old.gone,
                        found |-> old.found, results |-> old.results, noted |-> old.noted]
      OBVIOUS
    <2>2. [old EXCEPT !.pc = "raised"] = q
      BY <1>3, <2>1 DEF Fields
    <2>3. search' = [search EXCEPT ![s].pc = "raised"] /\ UNCHANGED recall
      BY <1>1, <1>2, <1>5 DEF Record
    <2>4. search' = [search EXCEPT ![s] = q]
      BY <1>1, <2>2, <2>3
    <2>5. SearchInv(q) /\ Fields(q)
      BY <1>3, <2>1 DEF SearchInv, Scored, Fields
    <2>6. RankInv(q)
      BY <1>3, <2>1, SMTT(30) DEF RankInv
    <2>7. QED
      BY <1>4, <2>3, <2>4, <2>5, <2>6, SearchStep, RecallsStay
  <1>6. CASE r.id \in Ids(chunk)
    <2>1. PICK pc \in {"done", "record"} :
            /\ recall' = recall \cup {[id |-> r.id, text |-> r.text]}
            /\ search' = [search EXCEPT ![s].noted = @ + 1, ![s].pc = pc]
            /\ pc = "record" => old.noted + 1 # Len(old.results)
      BY <1>1, <1>2, <1>6 DEF Record
    <2>2. PICK noted : noted = old.noted + 1
      OBVIOUS
    <2>3. PICK q : q = [pc |-> pc, fts |-> old.fts, of |-> old.of, rows |-> old.rows,
                        gone |-> old.gone,
                        found |-> old.found, results |-> old.results, noted |-> noted]
      OBVIOUS
    <2>4. [old EXCEPT !.noted = noted, !.pc = pc] = q
      BY <1>3, <2>3, NotedPcReplaced
    <2>5. search' = [search EXCEPT ![s] = q]
      BY <1>1, <2>1, <2>2, <2>4
    <2>6. /\ old.noted \in 0..(Len(old.results) - 1) /\ Len(old.results) \in Nat
          /\ old.results \in Seq(old.found)
      BY <1>3, <1>4 DEF SearchInv
    <2>7. pc = "record" => noted \in 0..(Len(old.results) - 1)
      BY <2>1, <2>2, <2>6
    <2>8. SearchInv(q) /\ Fields(q)
      BY <1>3, <2>1, <2>3, <2>7 DEF SearchInv, Scored, Fields
    <2>9. \E c \in chunk : c.id = r.id /\ c.text = r.text
      <3>1. r \in old.found
        BY <1>2, <2>6
      <3>2. PICK c \in old.rows : c.id = r.id /\ c.text = r.text
        BY <1>3, <3>1 DEF SearchInv
      <3>3. PICK d \in chunk : d.id = r.id
        BY <1>6 DEF Ids
      <3>4. c.text = d.text
        BY <1>3, <3>2, <3>3 DEF SearchInv
      <3>5. QED
        BY <3>2, <3>3, <3>4
    <2>10. \A m \in recall' : \E c \in chunk : c.id = m.id /\ c.text = m.text
      BY <2>1, <2>9 DEF Searching, RecallInv
    <2>11. RankInv(q)
      <3>1. /\ q.fts = old.fts /\ q.of = old.of /\ q.rows = old.rows /\ q.found = old.found
            /\ q.results = old.results /\ q.pc \in {"done", "record"}
        BY <2>1, <2>3
      <3>2. old.found \ Range(old.results) = {} \/ Len(old.results) = Limit
        BY <1>3, <1>4 DEF RankInv
      <3>3. QED
        BY <1>3, <3>1, <3>2, SMTT(30) DEF RankInv
    <2>12. QED
      BY <1>4, <2>5, <2>8, <2>10, <2>11, SearchStep
  <1>7. QED
    BY <1>5, <1>6

LEMMA SearchingInductive == RecallSpec => []Searching
  <1>1. Searching /\ [RecallNext]_recallVars => Searching'
    <2>1. Searching /\ UNCHANGED recallVars => Searching'
      <3> SUFFICES ASSUME Searching, UNCHANGED recallVars PROVE Searching'
        OBVIOUS
      <3>1. \A s \in Searchers : SearchInv(search[s])'
        BY DEF recallVars, Searching, RecallInv, SearchInv, Scored
      <3>2. \A s \in Searchers : RankInv(search[s])'
        <4>1. ASSUME NEW s \in Searchers
              PROVE  RankInv(search[s])'
          <5>1. RankInv(search[s]) /\ search'[s] = search[s]
            BY DEF recallVars, Searching, RecallInv
          <5>2. QED
            BY <5>1 DEF RankInv
        <4>2. QED
          BY <4>1
      <3>3. RecallInv'
        BY <3>1, <3>2 DEF recallVars, Searching, RecallInv
      <3>4. QED
        BY <3>3, IndexStep DEF recallVars
    <2>2. QED
      BY <2>1, AddChunkKeeps, AddVectorKeeps, DropChunkKeeps, FtsSearchKeeps, EmbedQueryKeeps,
         VectorSearchKeeps, FetchKeeps, GatherKeeps, SelectKeeps, SelectedKeeps, RecordKeeps
         DEF RecallNext
  <1>2. QED
    BY <1>1, RecallStartInv, PTL DEF RecallSpec

(* However the index changes between the reads of a search and the writes  *)
(* of its recalls, a result is scored by the vector of its own text, comes *)
(* once, and is recalled for the text that was shown.                      *)
THEOREM IdsKeepOneText == RecallSpec => []IdsMeanOneText
  <1>1. Searching => IdsMeanOneText
    <2> SUFFICES ASSUME Searching PROVE IdsMeanOneText
      OBVIOUS
    <2>1. ASSUME NEW s \in Searchers
          PROVE  /\ \A c \in search[s].found : c.of \in {NoText, c.text}
                 /\ IsInjective(search[s].results)
                 /\ \A i, j \in DOMAIN search[s].results :
                      search[s].results[i].id = search[s].results[j].id => i = j
      <3>1. SearchInv(search[s])
        BY DEF Searching, RecallInv
      <3>2. \A i \in DOMAIN search[s].results : search[s].results[i] \in search[s].found
        BY <3>1 DEF SearchInv
      <3>3. QED
        BY <3>1, <3>2 DEF SearchInv, IsInjective
    <2>2. QED
      BY <2>1 DEF IdsMeanOneText, Searching, RecallInv
  <1>2. QED
    BY <1>1, SearchingInductive, PTL

(* A result that scores less than a candidate left out has been preferred  *)
(* for the candidate's likeness to a result before it, and no place is     *)
(* left free while there is a candidate.                                   *)
THEOREM LeftOutForLikeness == RecallSpec => []DroppedForLikeness
  <1>1. Searching => DroppedForLikeness
    <2> SUFFICES ASSUME Searching, NEW s \in Searchers, search[s].pc \in {"record", "done"}
                 PROVE  /\ Len(search[s].results) = Min({Limit, Cardinality(search[s].found)})
                        /\ \A c \in Open(s), i \in DOMAIN search[s].results :
                             c.score > search[s].results[i].score =>
                               \E j \in 1..(i - 1) : c.text \cap search[s].results[j].text # {}
      BY DEF DroppedForLikeness
    <2>1. PICK q : q = search[s]
      OBVIOUS
    <2>2. SearchInv(q) /\ RankInv(q) /\ q.pc \in {"record", "done"}
      BY <2>1 DEF Searching, RecallInv
    <2>3. /\ q.results \in Seq(q.found) /\ IsInjective(q.results) /\ IsFiniteSet(q.found)
          /\ Len(q.results) =< Limit
          /\ q.found \ Range(q.results) = {} \/ Len(q.results) = Limit
      BY <2>2 DEF SearchInv, RankInv
    <2>4. PICK n \in Nat : n = Len(q.results) /\ DOMAIN q.results = 1..n
      BY <2>3
    <2>5. PICK R : R = Range(q.results)
      OBVIOUS
    <2>6. R \subseteq q.found /\ R = {q.results[i] : i \in 1..n}
      BY <2>3, <2>4, <2>5 DEF Range
    <2>7. Cardinality(R) = n
      <3>1. q.results \in Bijection(1..n, R)
        <4>1. q.results \in [1..n -> R]
          BY <2>3, <2>4, <2>6
        <4>2. q.results \in Injection(1..n, R)
          BY <2>3, <4>1 DEF Injection
        <4>3. q.results \in Surjection(1..n, R)
          BY <2>6, <4>1 DEF Surjection
        <4>4. QED
          BY <4>2, <4>3 DEF Bijection
      <3>2. IsFiniteSet(1..n) /\ Cardinality(1..n) = n
        BY FS_Interval
      <3>3. QED
        BY <3>1, <3>2, FS_Bijection DEF ExistsBijection
    <2>8. PICK m \in Nat : m = Cardinality(q.found)
      BY <2>3, FS_CardinalityType
    <2>9. n =< m /\ (R = q.found => n = m)
      BY <2>3, <2>6, <2>7, <2>8, FS_Subset
    <2>10. n =< Limit /\ (n = m \/ n = Limit) /\ Limit \in Nat
      BY <2>3, <2>4, <2>5, <2>6, <2>9, LimitAssumption
    <2>11. Min({Limit, m}) = n
      BY <2>9, <2>10 DEF Min
    <2>12. QED
      BY <2>1, <2>2, <2>4, <2>8, <2>11 DEF RankInv, Open
  <1>2. QED
    BY <1>1, SearchingInductive, PTL

-----------------------------------------------------------------------------
(* The types of a search *)

Awaits == {"idle", "embed", "vectors", "fetch", "rerank", "record", "done", "raised"}

(* A step of one search brings it to another await, or to none.            *)
Moves(s) == \E q : search' = [search EXCEPT ![s] = q] /\ q.pc \in Awaits

LEMMA FtsSearchMoves == ASSUME NEW s \in Searchers, FtsSearch(s) PROVE Moves(s)
  <1>1. PICK fts, rows :
          search' = [search EXCEPT ![s] = [Blank EXCEPT !.pc = Embedding, !.fts = fts, !.rows = rows]]
    BY DEF FtsSearch
  <1>2. PICK u : u = [Blank EXCEPT !.pc = Embedding]
    OBVIOUS
  <1>3. Fields(u) /\ u.pc \in Awaits
    BY <1>2 DEF Blank, Fields, Embedding, Awaits
  <1>4. PICK v : v = [u EXCEPT !.fts = fts]
    OBVIOUS
  <1>5. Fields(v) /\ v.pc = u.pc
    BY <1>3, <1>4 DEF Fields
  <1>6. [v EXCEPT !.rows = rows].pc = v.pc
    BY <1>5 DEF Fields
  <1>7. [Blank EXCEPT !.pc = Embedding, !.fts = fts, !.rows = rows] = [v EXCEPT !.rows = rows]
    BY <1>2, <1>4 DEF Blank
  <1>8. QED
    BY <1>1, <1>3, <1>5, <1>6, <1>7 DEF Moves

LEMMA PcMoves ==
  ASSUME Searching, NEW s \in Searchers, NEW pc \in Awaits,
         search' = [search EXCEPT ![s].pc = pc]
  PROVE  Moves(s)
  <1>1. Fields(search[s])
    BY DEF Searching
  <1>2. PICK q : q = [search[s] EXCEPT !.pc = pc]
    OBVIOUS
  <1>3. q.pc = pc
    BY <1>1, <1>2 DEF Fields
  <1>4. search' = [search EXCEPT ![s] = q]
    BY <1>2
  <1>5. QED
    BY <1>3, <1>4 DEF Moves

LEMMA VectorSearchMoves == ASSUME Searching, NEW s \in Searchers, VectorSearch(s) PROVE Moves(s)
  <1>1. Fields(search[s]) /\ "fetch" \in Awaits
    BY DEF Searching, Awaits
  <1>2. CASE search' = [search EXCEPT ![s].pc = "fetch"]
    BY <1>1, <1>2, PcMoves
  <1>3. CASE \E of : search' = [search EXCEPT ![s].pc = "fetch", ![s].of = of]
    <2>1. PICK of : search' = [search EXCEPT ![s].pc = "fetch", ![s].of = of]
      BY <1>3
    <2>2. PICK q : q = [search[s] EXCEPT !.pc = "fetch", !.of = of]
      OBVIOUS
    <2>3. q.pc = "fetch"
      BY <1>1, <2>2, PcOfReplaced
    <2>4. search' = [search EXCEPT ![s] = q]
      BY <2>1, <2>2
    <2>5. QED
      BY <1>1, <2>3, <2>4 DEF Moves
  <1>4. QED
    BY <1>2, <1>3 DEF VectorSearch

LEMMA FetchMoves == ASSUME Searching, NEW s \in Searchers, NEW i, Fetch(s, i) PROVE Moves(s)
  <1>1. Fields(search[s]) /\ search[s].pc \in Awaits
    BY DEF Searching, Awaits, Fetch
  <1>2. PICK rows, gone : search' = [search EXCEPT ![s].rows = rows, ![s].gone = gone]
    BY DEF Fetch
  <1>3. PICK q : q = [search[s] EXCEPT !.rows = rows, !.gone = gone]
    OBVIOUS
  <1>4. q.pc = search[s].pc
    BY <1>1, <1>3, RowsGoneReplaced
  <1>5. search' = [search EXCEPT ![s] = q]
    BY <1>2, <1>3
  <1>6. QED
    BY <1>1, <1>4, <1>5 DEF Moves

LEMMA GatherMoves == ASSUME Searching, NEW s \in Searchers, Gather(s) PROVE Moves(s)
  <1>1. Fields(search[s]) /\ "rerank" \in Awaits
    BY DEF Searching, Awaits
  <1>2. search' = [search EXCEPT ![s].pc = "rerank", ![s].found = Candidates(s)]
    BY DEF Gather
  <1>3. PICK q : q = [search[s] EXCEPT !.pc = "rerank", !.found = Candidates(s)]
    OBVIOUS
  <1>4. q.pc = "rerank"
    BY <1>1, <1>3, PcFoundReplaced
  <1>5. search' = [search EXCEPT ![s] = q]
    BY <1>2, <1>3
  <1>6. QED
    BY <1>1, <1>4, <1>5 DEF Moves

LEMMA SelectMoves == ASSUME Searching, NEW s \in Searchers, Select(s) PROVE Moves(s)
  <1>1. Fields(search[s]) /\ search[s].pc \in Awaits
    BY DEF Searching, Awaits, Select
  <1>2. PICK c : search' = [search EXCEPT ![s].results = Append(@, c)]
    BY DEF Select
  <1>3. PICK q : q = [search[s] EXCEPT !.results = Append(search[s].results, c)]
    OBVIOUS
  <1>4. q.pc = search[s].pc
    BY <1>1, <1>3 DEF Fields
  <1>5. search' = [search EXCEPT ![s] = q]
    BY <1>2, <1>3
  <1>6. QED
    BY <1>1, <1>4, <1>5 DEF Moves

LEMMA RecordMoves == ASSUME Searching, NEW s \in Searchers, Record(s) PROVE Moves(s)
  <1>1. Fields(search[s]) /\ {"raised", "done", "record"} \subseteq Awaits
    BY DEF Searching, Awaits
  <1>2. CASE search' = [search EXCEPT ![s].pc = "raised"]
    BY <1>1, <1>2, PcMoves
  <1>3. CASE \E pc \in {"done", "record"} :
               search' = [search EXCEPT ![s].noted = @ + 1, ![s].pc = pc]
    <2>1. PICK pc \in {"done", "record"} :
            search' = [search EXCEPT ![s].noted = @ + 1, ![s].pc = pc]
      BY <1>3
    <2>2. PICK noted : noted = search[s].noted + 1
      OBVIOUS
    <2>3. PICK q : q = [search[s] EXCEPT !.noted = noted, !.pc = pc]
      OBVIOUS
    <2>4. q.pc = pc
      <3>1. q = [pc |-> pc, fts |-> search[s].fts, of |-> search[s].of, rows |-> search[s].rows,
                 gone |-> search[s].gone,
                 found |-> search[s].found, results |-> search[s].results, noted |-> noted]
        BY <1>1, <2>3, NotedPcReplaced
      <3>2. QED
        BY <3>1
    <2>5. search' = [search EXCEPT ![s] = q]
      BY <2>1, <2>2, <2>3
    <2>6. QED
      BY <1>1, <2>4, <2>5 DEF Moves
  <1>4. QED
    BY <1>2, <1>3 DEF Record

LEMMA AwaitsKept ==
  ASSUME Searching, \A s \in Searchers : search[s].pc \in Awaits, [RecallNext]_recallVars
  PROVE  \A s \in Searchers : search'[s].pc \in Awaits
  <1>1. UNCHANGED search \/ \E s \in Searchers : Moves(s)
    <2>1. ASSUME NEW s \in Searchers, EmbedQuery(s)
          PROVE  Moves(s)
      <3>1. PICK pc \in {"vectors", "fetch"} : search' = [search EXCEPT ![s].pc = pc]
        BY <2>1 DEF EmbedQuery
      <3>2. QED
        BY <3>1, PcMoves DEF Awaits
    <2>2. ASSUME NEW s \in Searchers, Selected(s)
          PROVE  Moves(s)
      <3>1. PICK pc \in {"done", "record"} : search' = [search EXCEPT ![s].pc = pc]
        BY <2>2 DEF Selected
      <3>2. QED
        BY <3>1, PcMoves DEF Awaits
    <2>3. ASSUME NEW s \in Searchers, Select(s)
          PROVE  Moves(s)
      BY <2>3, SelectMoves
    <2>4. CASE UNCHANGED recallVars
      BY <2>4 DEF recallVars
    <2>5. CASE \E text \in Memo : AddChunk(text)
      BY <2>5 DEF AddChunk
    <2>6. CASE \E c \in chunk : AddVector(c) \/ DropChunk(c)
      BY <2>6 DEF AddVector, DropChunk
    <2>7. QED
      BY <2>1, <2>2, <2>3, <2>4, <2>5, <2>6, FtsSearchMoves, VectorSearchMoves, FetchMoves, GatherMoves,
         RecordMoves DEF RecallNext
  <1>2. ASSUME NEW t \in Searchers, Moves(t)
        PROVE  \A s \in Searchers : search'[s].pc \in Awaits
    <2>1. PICK q : search' = [search EXCEPT ![t] = q] /\ q.pc \in Awaits
      BY <1>2 DEF Moves
    <2>2. \A s \in Searchers : search'[s] = IF s = t THEN q ELSE search[s]
      BY <2>1 DEF Searching
    <2>3. QED
      BY <2>1, <2>2
  <1>3. QED
    BY <1>1, <1>2

(* What is recorded is typed like the row it was found in.                 *)
LEMMA RecordsTyped ==
  ASSUME Searching, NEW s \in Searchers, Record(s), recall \subseteq [id : 1..last, text : Memo]
  PROVE  recall' \subseteq [id : 1..last, text : Memo]
  <1>1. PICK old : old = search[s]
    OBVIOUS
  <1>2. PICK r : r = old.results[old.noted + 1]
    OBVIOUS
  <1>3. SearchInv(old) /\ old.pc = "record"
    BY <1>1 DEF Searching, RecallInv, Record
  <1>4. r \in old.found
    <2>1. /\ old.noted \in 0..(Len(old.results) - 1) /\ Len(old.results) \in Nat
          /\ old.results \in Seq(old.found)
      BY <1>3 DEF SearchInv
    <2>2. QED
      BY <1>2, <2>1
  <1>5. PICK c \in old.rows : c.id = r.id /\ c.text = r.text
    BY <1>3, <1>4 DEF SearchInv
  <1>6. [id |-> r.id, text |-> r.text] \in [id : 1..last, text : Memo]
    BY <1>3, <1>5 DEF SearchInv
  <1>7. UNCHANGED recall \/ recall' = recall \cup {[id |-> r.id, text |-> r.text]}
    BY <1>1, <1>2 DEF Record
  <1>8. QED
    BY <1>6, <1>7

(* Whatever is indexed, deleted, searched and recalled in whatever order,  *)
(* rows are typed, a search is at one of its awaits and has at most as     *)
(* many results as were asked for.                                         *)
THEOREM RecallTypes == RecallSpec => []RecallTypeOK
  <1> DEFINE Typed ==
        /\ vector \subseteq [id : 1..last, of : Memo] /\ recall \subseteq [id : 1..last, text : Memo]
        /\ last \in 0..MaxChunks /\ failures \in Nat /\ disabled \in BOOLEAN
        /\ \A s \in Searchers : search[s].pc \in Awaits
  <1>1. RecallStart => Typed
    <2> SUFFICES ASSUME RecallStart PROVE Typed
      OBVIOUS
    <2>1. \A s \in Searchers : search[s].pc = "idle"
      BY DEF RecallStart, Blank
    <2>2. 0 \in 0..MaxChunks
      BY BoundsAssumption
    <2>3. failures \in Nat /\ last \in 0..MaxChunks
      BY <2>2 DEF RecallStart, DisabledAfter
    <2>4. QED
      BY <2>1, <2>3 DEF RecallStart, Awaits
  <1>2. Searching /\ Typed /\ [RecallNext]_recallVars => Typed'
    <2> SUFFICES ASSUME Searching, Typed, [RecallNext]_recallVars PROVE Typed'
      OBVIOUS
    <2>1. \A s \in Searchers : search'[s].pc \in Awaits
      BY AwaitsKept
    <2>2. last' \in 0..MaxChunks /\ 1..last \subseteq 1..last'
      <3>1. last' = last \/ (last < MaxChunks /\ last' = last + 1)
        BY DEF RecallNext, recallVars, AddChunk, AddVector, DropChunk, FtsSearch, EmbedQuery, VectorSearch,
               Fetch, Gather, Select, Selected, Record, index
      <3>2. QED
        BY <3>1, BoundsAssumption
    <2>3. failures' \in Nat /\ disabled' \in BOOLEAN
      <3>1. ASSUME NEW s \in Searchers, EmbedQuery(s)
            PROVE  failures' \in Nat /\ disabled' \in BOOLEAN
        <4>1. failures' = 0 \/ failures' = failures + 1
          BY <3>1 DEF EmbedQuery
        <4>2. disabled' = disabled \/ disabled' = (disabled \/ failures + 1 >= DisabledAfter)
          BY <3>1 DEF EmbedQuery
        <4>3. disabled' \in BOOLEAN
          BY <4>2, Zenon
        <4>4. QED
          BY <4>1, <4>3
      <3>2. CASE UNCHANGED provider
        BY <3>2 DEF provider
      <3>3. UNCHANGED provider \/ \E s \in Searchers : EmbedQuery(s)
        BY DEF RecallNext, recallVars, AddChunk, AddVector, DropChunk, FtsSearch, VectorSearch,
               Fetch, Gather, Select, Selected, Record, provider
      <3>4. QED
        BY <3>1, <3>2, <3>3
    <2>4. vector' \subseteq [id : 1..last', of : Memo]
      <3>1. vector \subseteq [id : 1..last', of : Memo]
        BY <2>2
      <3>2. ASSUME NEW c \in chunk, AddVector(c)
            PROVE  vector' \subseteq [id : 1..last', of : Memo]
        <4>1. c.id \in 1..last' /\ c.text \in Memo
          BY <2>2 DEF Searching, RecallInv
        <4>2. QED
          BY <3>1, <3>2, <4>1 DEF AddVector
      <3>3. vector' \subseteq vector \/ \E c \in chunk : AddVector(c)
        BY DEF RecallNext, recallVars, AddChunk, DropChunk, FtsSearch, EmbedQuery, VectorSearch,
               Fetch, Gather, Select, Selected, Record, index
      <3>4. QED
        BY <3>1, <3>2, <3>3
    <2>5. recall' \subseteq [id : 1..last', text : Memo]
      <3>1. recall \subseteq [id : 1..last', text : Memo]
        BY <2>2
      <3>2. ASSUME NEW s \in Searchers, Record(s)
            PROVE  recall' \subseteq [id : 1..last', text : Memo]
        BY <2>2, <3>2, RecordsTyped
      <3>3. recall' \subseteq recall \/ \E s \in Searchers : Record(s)
        BY DEF RecallNext, recallVars, AddChunk, AddVector, DropChunk, FtsSearch, EmbedQuery, VectorSearch,
               Fetch, Gather, Select, Selected, index
      <3>4. QED
        BY <3>1, <3>2, <3>3
    <2>6. QED
      BY <2>1, <2>2, <2>3, <2>4, <2>5
  <1>3. Searching /\ Typed => RecallTypeOK
    <2> SUFFICES ASSUME Searching, Typed PROVE RecallTypeOK
      OBVIOUS
    <2>1. 1..last \subseteq 1..MaxChunks
      BY BoundsAssumption
    <2>2. chunk \subseteq ChunkRow
      BY <2>1 DEF Searching, RecallInv, ChunkRow
    <2>3. \A s \in Searchers : search[s].rows \subseteq ChunkRow /\ Len(search[s].results) <= Limit
      BY <2>1 DEF Searching, RecallInv, SearchInv, RankInv, ChunkRow
    <2>4. QED
      BY <2>1, <2>2, <2>3 DEF RecallTypeOK, Awaits
  <1> HIDE DEF Typed
  <1>4. QED
    BY <1>1, <1>2, <1>3, SearchingInductive, PTL DEF RecallSpec

(* The four lookups share no state, so what TLC checks of them in one run  *)
(* holds of any that go on side by side.                                   *)
THEOREM LookupTypes == RoutingSpec /\ SkillsSpec /\ WiringSpec /\ RecallSpec => []MCTypeOK
  <1>1. RoutingTypeOK /\ SkillsTypeOK /\ WiringTypeOK /\ RecallTypeOK => MCTypeOK
    BY DEF MCTypeOK
  <1>2. QED
    BY <1>1, RoutingTypes, SkillsTypes, WiringTypes, RecallTypes, PTL
=============================================================================
