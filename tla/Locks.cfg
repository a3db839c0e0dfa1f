\* Three transactions, two elections, imports both ways.
CONSTANTS
    t1 = t1
    t2 = t2
    t3 = t3
    e1 = e1
    e2 = e2
    Txs = {t1, t2, t3}
    Elections = {e1, e2}
    Global = Global
    Imports <- MCCrossing
    Deferrers = {"records"}
SPECIFICATION FairSpec
CHECK_DEADLOCK FALSE
INVARIANTS
    MutualExclusion
    NoLeak
    OnlyImportsDeadlock
PROPERTIES
    EveryoneServed
