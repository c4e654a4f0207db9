------------------------------ MODULE MCGateway ------------------------------
(* Instances of Gateway for TLC: two clients in one session, and a request *)
(* without a client in another.                                            *)
EXTENDS Gateway, TLC

CONSTANTS c1, c2, a, b, d, s1, s2

MCConnections == {c1, c2}
MCRequests == {a, b, d}
MCSessions == {s1, s2}
MCConnectionOf == a :> c1 @@ b :> c2 @@ d :> None
MCSessionOf == a :> s1 @@ b :> s1 @@ d :> s2

(* Bound: of the three requests, two are made.                             *)
MCInit ==
    \E absent \in Requests :
        /\ phase = [r \in Requests |-> IF r = absent THEN "refused" ELSE "unsent"]
        /\ InitExceptPhase

MCSpec == MCInit /\ [][Next]_vars /\ Fairness
=============================================================================
