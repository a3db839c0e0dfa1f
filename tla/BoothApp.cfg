\* Two good credentials and a bad one, two good ballots and a bad one.
CONSTANTS
    c1 = c1
    c2 = c2
    bad = bad
    a1 = a1
    a2 = a2
    garbled = garbled
    None = None
    Credentials = {c1, c2, bad}
    Valid = {c1, c2}
    DraftCredential = c1
    Answers = {a1, a2, garbled}
    Encodable = {a1, a2}
    MaxLoads = 2
    MaxChecks = 2
    MaxEncryptions = 2
SPECIFICATION FairSpec
CHECK_DEADLOCK FALSE
INVARIANTS
    TypeOK
    ShownIsSent
    ReviewFaithful
    OnlyUnderValid
PROPERTIES
    WaitsEnd
    ReceiptShown
