\* Appends, kills, failed writes and expired indexes.
CONSTANTS
    setup = setup
    b = b
    tally = tally
    pd = pd
    srv = srv
    res = res
    NoHash = NoHash
    Batches <- MCBatches
    Checked <- MCChecked
    Hash <- MCHash
    ReadErrors = FALSE
    MaxRecords = 8
SPECIFICATION Spec
INVARIANTS
    IndexAgrees
    ChainOK
PROPERTIES
    ImplementsBoard
