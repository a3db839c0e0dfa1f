\* A read of Last_event that fails.
CONSTANTS
    setup = setup
    b = b
    tally = tally
    pd = pd
    srv = srv
    res = res
    NoHash = NoHash
    Batches <- MCBatches
    Checked <- MCChecked
    Hash <- MCHash
    ReadErrors = TRUE
    MaxRecords = 8
SPECIFICATION Spec
PROPERTIES
    EventsStay
