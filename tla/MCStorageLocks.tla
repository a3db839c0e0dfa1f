--------------------------- MODULE MCStorageLocks ---------------------------
(* Small instances of StorageLocks for TLC.                                *)
EXTENDS StorageLocks, TLC

CONSTANTS t1, t2, t3, e1, e2

MCCrossing == {<<e1, e2>>, <<e2, e1>>}
=============================================================================
