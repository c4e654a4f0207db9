---------------------------- MODULE MCMemoryIndex ----------------------------
(* Instances of MemoryIndex for TLC.                                       *)
EXTENDS MemoryIndex, TLC

CONSTANTS f1, f2, x, y, tool

MCFiles == {f1, f2}
MCTexts == {x, y}
MCSimilar == {<<x, x>>, <<y, y>>}
MCTools == {tool}

(* Bound: at first one file holds two chunks, the other one of them again. *)
MCInit ==
    /\ content = (f1 :> <<x, y>> @@ f2 :> <<x>>)
    /\ InitExceptContent

MCSpec == MCInit /\ [][Next]_vars
=============================================================================
