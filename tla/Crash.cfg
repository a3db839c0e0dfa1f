\* Kills inside any handler of a small election.
CONSTANTS
    alice = alice
    bob = bob
    server = server
    t1 = t1
    Credentials <- MCCredentials
    Trustees <- MCTrustees
    Shufflers <- MCShufflers
    Server = server
    Threshold = 1
    Pedersen = FALSE
    NoDate = NoDate
    DateValues <- MCDateValues
    Grace = 1
    MaxTime = 0
    MaxBallots = 2
    MaxShuffles = 2
    MaxSeals = 1
    MaxKills = 2
    MaxLog = 10
SPECIFICATION CrashSpec
CHECK_DEADLOCK FALSE
INVARIANTS
    StateNeverAheadOfLog
    OrderedArchiveVerifies
PROPERTIES
    DraftGivenUp
    RepeatedTallyAgrees
