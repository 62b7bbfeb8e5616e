CONSTANTS
    Payloads <- MCPayloads
    Strings <- MCStrings
    Names <- MCNames
    IsWide <- MCIsWide
    Attrs <- MCAttrs
    IdLists <- MCIdLists
    Formats <- MCFormats
    Sessions <- MCSessions
    Blobs <- MCBlobs
    Wide = FALSE
    BILLION = 3
    U64_MAX = 1000000
    CLOCK_MAX = 99
    FullSize <- MCFullSize
    SECTION_LIMIT = 16
    IDS_LIMIT = 2
    STRING_LIMIT = 8
    NAME_MAX_SIZE = 8
    SAMPLE_IDS_MAX_SIZE = 4
    MaxCalls = 4
SPECIFICATION Spec
CHECK_DEADLOCK FALSE
INVARIANTS AcceptedIsComplete FinalizedOpens FinalizeReturns
