----------------------------- MODULE MCCasting -----------------------------
(* A small instance of Casting for TLC: three ballots of one voter, one of *)
(* another.                                                                *)
EXTENDS Casting, TLC

CONSTANTS c1, c2, u1, u2, v1, v2, v3, w1

MCCredOf == (v1 :> c1) @@ (v2 :> c1) @@ (v3 :> c1) @@ (w1 :> c2)
MCOwner == (c1 :> u1) @@ (c2 :> u2)
MCSymmetry == Permutations({v1, v2, v3})
=============================================================================
