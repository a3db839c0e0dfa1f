\* One question with preference levels.
CONSTANTS
    NotRanked = NotRanked
    Ranked = Ranked
    None = None
    EmptyText = EmptyText
    BlankMark = BlankMark
    ErrorMark = ErrorMark
    Texts <- MCTexts
    Elections <- MCSchulze
    MaxColumns = 4
SPECIFICATION Spec
INVARIANT NotRankedIsZero
