\* Every kind of question; up to two levels added.
CONSTANTS
    NotRanked = NotRanked
    Ranked = Ranked
    None = None
    EmptyText = EmptyText
    BlankMark = BlankMark
    ErrorMark = ErrorMark
    Texts <- MCTexts
    Elections <- MCElections
    MaxColumns = 5
SPECIFICATION Spec
INVARIANTS
    TypeOK
    CandidatesOnce
    ColumnsInOrder
    CountedAsArranged
    EarlierQuestionsValid
    SubmittedCountable
    RecapFollowsVotes
    NoStaleAlert
