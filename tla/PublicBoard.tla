---------------------------- MODULE PublicBoard ----------------------------
(***************************************************************************)
(* What the public archive of an election promises to its readers: a log   *)
(* of events, to which an operation adds all its events at once, or none.  *)
(***************************************************************************)
EXTENDS Sequences

CONSTANT Operations     \* the sequences of events that operations add

VARIABLE log

Init == log = <<>>

Publish(events) == log' = log \o events

Next == \E events \in Operations : Publish(events)

Spec == Init /\ [][Next]_log
=============================================================================
