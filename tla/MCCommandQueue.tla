--------------------------- MODULE MCCommandQueue ---------------------------
(* Instances of CommandQueue for TLC: three requests of one session and    *)
(* one of another.                                                         *)
EXTENDS CommandQueue, TLC

CONSTANTS s1, s2, r1, r2, r3, r4

MCSessions == {s1, s2}
MCRequests == {r1, r2, r3, r4}
MCSessionOf == r1 :> s1 @@ r2 :> s1 @@ r3 :> s1 @@ r4 :> s2

MCFewRequests == {r1, r2, r4}
MCFewSessionOf == r1 :> s1 @@ r2 :> s1 @@ r4 :> s2

Symmetry == Permutations({r1, r2, r3})
=============================================================================
