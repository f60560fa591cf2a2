-------------------------- MODULE MCFrontierCache --------------------------
(* Two charts, each of its own song. *)
EXTENDS FrontierCache, TLC
CONSTANTS p1, p2, c1, c2, s1, s2
MCSongOf == c1 :> s1 @@ c2 :> s2
ProcsAlike == Permutations({p1, p2})
=============================================================================
