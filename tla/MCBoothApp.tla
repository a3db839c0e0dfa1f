----------------------------- MODULE MCBoothApp -----------------------------
(* A small instance of BoothApp for TLC.                                   *)
EXTENDS BoothApp, TLC

CONSTANTS c1, c2, bad, a1, a2, garbled
=============================================================================
