-------------------------- MODULE MCElectionCrash --------------------------
(* Small instances of ElectionCrash for TLC.                               *)
EXTENDS ElectionCrash, TLC

CONSTANTS alice, bob, server, t1

MCCredentials == {alice, bob}
MCTrustees == {server, t1}
MCShufflers == {t1}
MCDateValues == {NoDate}
=============================================================================
