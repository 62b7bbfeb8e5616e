SPECIFICATION ConvSpec
CONSTANTS
    ErrnoCount = 134
    BILLION = 10
    U64_MAX = 63
    CLOCK_MAX = 7
    Texts <- MCTexts
    Values <- MCValues
    Options <- MCOptions
    Fields <- MCConsistentFields
    Files <- MCFiles
    Clocks <- MCClocks
    Times <- MCTimes
INVARIANTS
    TextReadsBack
    EscapedReadsBack
    JsonDenotesText
    FieldReadsBack
    FormatReadsBack
    ClockReadsBack
CHECK_DEADLOCK FALSE
