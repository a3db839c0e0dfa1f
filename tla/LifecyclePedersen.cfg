\* A threshold election: one of the two external trustees is enough.
CONSTANTS
    alice = alice
    bob = bob
    server = server
    t1 = t1
    t2 = t2
    Credentials = {alice}
    Trustees <- MCTrustees
    Shufflers <- MCShufflers
    Server = server
    Threshold = 1
    Pedersen = TRUE
    NoDate = NoDate
    DateValues <- MCDateValues
    Grace = 1
    MaxTime = 2
    MaxBallots = 1
    MaxShuffles = 2
    MaxSeals = 1
SPECIFICATION FairSpec
CHECK_DEADLOCK FALSE
INVARIANTS
    StateAgreesWithLog
    ArchiveVerifies
PROPERTIES
    ResultComesOut
