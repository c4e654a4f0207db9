--------------------------- MODULE MCConversations ---------------------------
(* Instances of Conversations for TLC: two queued turns of one session,    *)
(* one cron job and one chat terminal.                                     *)
EXTENDS Conversations, TLC

CONSTANTS q1, q2, c1, h1, h2, s1, t1

MCQueuedTurns == {q1, q2}
MCCronTurns == {c1}
MCChatTurns == {h1}
MCSessions == {s1}
MCTerminals == {t1}
MCSessionOf == q1 :> s1 @@ q2 :> s1
MCTerminalOf == h1 :> t1

(* Bound: of the four turns, three take place.  A terminal nobody types at *)
(* is in no session.                                                       *)
MCInit ==
    \E absent \in Turns :
        /\ pc = [t \in Turns |-> IF t = absent THEN "ended" ELSE "new"]
        /\ InitExceptPc
        /\ absent = h1 => active[t1] = None

MCSpec == MCInit /\ [][Next]_vars

Symmetry == Permutations(MCQueuedTurns)
=============================================================================
