------------------------------ MODULE Routing ------------------------------
(***************************************************************************)
(* Choosing the agent of a message (polarsclaw/routing): resolve_bindings  *)
(* goes once through the list of bindings and keeps the best that matches, *)
(* and the router applies its fallback.  A step is one binding.            *)
(***************************************************************************)
EXTENDS Integers, Sequences

CONSTANTS
    Agent,       \* agent ids that bindings name
    Registered,  \* the agents that were created
    Default,     \* the first of them, or None
    Peer, Channel, Role, Account,
    None,        \* no agent, no peer, no channel, no account
    Error,       \* RoutingError
    MaxBindings  \* bound: bindings in the settings

ASSUME NoneIsNobody == None \notin Agent \cup Peer \cup Channel \cup Account
ASSUME ErrorIsNobody == Error \notin Agent \cup Registered \cup {None}
ASSUME DefaultAssumption == Default \in Registered \cup {None} /\ None \notin Registered

Binding == [agent : Agent, peer : Peer \cup {None}, channel : Channel \cup {None},
            roles : SUBSET Role, account : Account \cup {None}]

(* Who sends the message, as far as the caller knows.                      *)
Context == [peer : Peer \cup {None}, channel : Channel \cup {None},
            roles : SUBSET Role, account : Account \cup {None}]

VARIABLES
    bindings,  \* the bindings, in the order of the settings
    who,       \* the context of the message
    next,      \* the binding looked at next
    best,      \* best_agent
    priority,  \* best_priority
    answer     \* the agent id the router returned, Error, or None before

routingVars == <<bindings, who, next, best, priority, answer>>

RoutingTypeOK ==
    /\ bindings \in Seq(Binding)
    /\ who \in Context
    /\ next \in 1..(Len(bindings) + 1)
    /\ best \in Agent \cup {None}
    /\ priority \in -1..15
    /\ answer \in Agent \cup Registered \cup {Error, None}

RoutingStart ==
    /\ next = 1
    /\ best = None
    /\ priority = -1
    /\ answer = None

RoutingInit == bindings \in Seq(Binding) /\ who \in Context /\ RoutingStart

(* Mutant of Priority: roles weigh as much as the channel.                 *)
FlatPriority(b) ==
    (IF b.peer # None THEN 8 ELSE 0) + (IF b.channel # None THEN 2 ELSE 0)
        + (IF b.roles # {} THEN 2 ELSE 0) + (IF b.account # None THEN 1 ELSE 0)

(* compute_priority                                                        *)
Priority(b) ==
    (IF b.peer # None THEN 8 ELSE 0) + (IF b.channel # None THEN 4 ELSE 0)
        + (IF b.roles # {} THEN 2 ELSE 0) + (IF b.account # None THEN 1 ELSE 0)

Fits(wanted, given) == wanted = None \/ wanted = given

Matches(b) ==
    /\ Fits(b.peer, who.peer)
    /\ Fits(b.channel, who.channel)
    /\ b.roles \subseteq who.roles
    /\ Fits(b.account, who.account)

(* resolve_bindings: the next binding.                                     *)
Examine ==
    LET b == bindings[next] IN
    /\ next <= Len(bindings)
    /\ IF Matches(b) /\ Priority(b) > priority
       THEN best' = b.agent /\ priority' = Priority(b)
       ELSE UNCHANGED <<best, priority>>
    /\ next' = next + 1
    /\ UNCHANGED <<bindings, who, answer>>

(* What resolve_agent_id makes of the agent the bindings named.            *)
Routed(agent) ==
    IF agent = None /\ Default # None THEN Default
    ELSE IF agent \in Registered THEN agent ELSE Error

Resolve ==
    /\ next > Len(bindings)
    /\ answer = None
    /\ answer' = Routed(best)
    /\ UNCHANGED <<bindings, who, next, best, priority>>

RoutingNext == Examine \/ Resolve

RoutingSpec == RoutingInit /\ [][RoutingNext]_routingVars

-----------------------------------------------------------------------------
(* Properties *)

(* The fields a binding sets, the most specific first.                     *)
Sets(b) == <<b.peer # None, b.channel # None, b.roles # {}, b.account # None>>

(* b is more specific than c: of the fields only one of them sets, the     *)
(* first is set by b.                                                      *)
Beats(b, c) ==
    \E k \in 1..4 : /\ Sets(b)[k] /\ ~Sets(c)[k]
                    /\ \A m \in 1..4 : m < k => Sets(b)[m] = Sets(c)[m]

(* A message goes to the agent of the binding that matches it, is as       *)
(* specific as any that does, and comes first among those; the weights of  *)
(* compute_priority and the single pass over the list amount to that.  The *)
(* default agent gets what no binding matches.                             *)
MostSpecificWins ==
    LET M == {i \in 1..Len(bindings) : Matches(bindings[i])} IN
    answer # None =>
        \/ M = {} /\ answer = Routed(None)
        \/ \E i \in M :
             /\ answer = Routed(bindings[i].agent)
             /\ \A j \in M : /\ ~Beats(bindings[j], bindings[i])
                             /\ j < i => Beats(bindings[i], bindings[j])

(* The inductive invariant of LookupsProofs: of the bindings looked at so  *)
(* far, best is the agent of the first that matches with the greatest      *)
(* priority, and an answer is only given when all were looked at.          *)
IsBest(i) ==
    /\ Matches(bindings[i])
    /\ best = bindings[i].agent
    /\ priority = Priority(bindings[i])
    /\ \A j \in 1..(next - 1) : Matches(bindings[j]) =>
          /\ Priority(bindings[j]) <= priority
          /\ j < i => Priority(bindings[j]) < priority

RoutingInv ==
    /\ RoutingTypeOK
    /\ \/ /\ best = None /\ priority = -1
          /\ \A j \in 1..(next - 1) : ~Matches(bindings[j])
       \/ \E i \in 1..(next - 1) : IsBest(i)
    /\ answer # None => next = Len(bindings) + 1 /\ answer = Routed(best)
=============================================================================
