\* A release asked for by the administrator when it was due anyway.
CONSTANTS
    alice = alice
    bob = bob
    server = server
    t1 = t1
    t2 = t2
    Credentials <- MCCredentials
    Trustees <- MCTrustees
    Shufflers <- MCShufflers
    Server = server
    Threshold = 2
    Pedersen = FALSE
    NoDate = NoDate
    DateValues <- MCDateValues
    Grace = 1
    MaxTime = 2
    MaxBallots = 2
    MaxShuffles = 2
    MaxSeals = 1
SPECIFICATION Spec
CHECK_DEADLOCK FALSE
INVARIANTS
    ResultIsLast
