\* Three ballots of one voter and one of another, two sessions at a time.
CONSTANTS
    c1 = c1
    c2 = c2
    u1 = u1
    u2 = u2
    v1 = v1
    v2 = v2
    v3 = v3
    w1 = w1
    None = None
    Credentials = {c1, c2}
    Users = {u1, u2}
    Ballots = {v1, v2, v3, w1}
    CredOf <- MCCredOf
    Owner <- MCOwner
    MaxSessions = 2
    MaxFaults = 1
SYMMETRY MCSymmetry
SPECIFICATION Spec
INVARIANTS
    ReplacesWhatWasSeen
    NoBallotTwice
    ReadBackAsCast
