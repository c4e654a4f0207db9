----------------------------- MODULE SerialLanes -----------------------------
(***************************************************************************)
(* What the command queue promises of the items put on it: the items of a  *)
(* session are handled in the order they were put, one at a time, at most  *)
(* MaxConcurrency of all sessions at once; an item may be withdrawn before *)
(* its handler is called, never after, and is never put twice.             *)
(***************************************************************************)
EXTENDS Integers, Sequences, FiniteSets, SequencesExt

CONSTANTS Sessions, Requests, SessionOf, MaxConcurrency

VARIABLES
    accepted,  \* the requests that were ever put
    backlog,   \* session -> items put and not finished, in order
    active     \* the items being handled

vars == <<accepted, backlog, active>>

TypeOK ==
    /\ accepted \in SUBSET Requests
    /\ backlog \in [Sessions -> Seq(accepted)]
    /\ active \in SUBSET accepted

Init ==
    /\ accepted = {}
    /\ backlog = [s \in Sessions |-> <<>>]
    /\ active = {}

Accept(r) ==
    /\ r \notin accepted
    /\ accepted' = accepted \cup {r}
    /\ backlog' = [backlog EXCEPT ![SessionOf[r]] = Append(@, r)]
    /\ UNCHANGED active

Begin(s) ==
    /\ backlog[s] # <<>>
    /\ Head(backlog[s]) \notin active
    /\ Cardinality(active) < MaxConcurrency
    /\ active' = active \cup {Head(backlog[s])}
    /\ UNCHANGED <<accepted, backlog>>

Finish(s) ==
    /\ backlog[s] # <<>>
    /\ Head(backlog[s]) \in active
    /\ active' = active \ {Head(backlog[s])}
    /\ backlog' = [backlog EXCEPT ![s] = Tail(@)]
    /\ UNCHANGED accepted

Withdraw(s, i) ==
    /\ backlog[s][i] \notin active
    /\ backlog' = [backlog EXCEPT ![s] = RemoveAt(@, i)]
    /\ UNCHANGED <<accepted, active>>

Next ==
    \/ \E r \in Requests : Accept(r)
    \/ \E s \in Sessions :
          \/ Begin(s)
          \/ Finish(s)
          \/ \E i \in 1..Len(backlog[s]) : Withdraw(s, i)

Spec == Init /\ [][Next]_vars
=============================================================================
