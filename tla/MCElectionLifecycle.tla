------------------------ MODULE MCElectionLifecycle ------------------------
(* Small instances of ElectionLifecycle for TLC.                           *)
EXTENDS ElectionLifecycle, TLC

CONSTANTS alice, bob, server, t1, t2

MCCredentials == {alice, bob}
MCTrustees == {server, t1, t2}
MCShufflers == {t1}
MCDateValues == {NoDate, 1}
=============================================================================
