SPECIFICATION BenchSpec
CONSTANTS
    Files <- MCAllFiles
    Numbers <- MCNumbers
    AsFloat <- MCAsFloat
    ArgLists <- MCArgLists
    Requests <- MCRequests
    Jobs <- MCJobs
CHECK_DEADLOCK FALSE
INVARIANTS
    RowsDecidedOnce
    DrawsStayInside
    SymmetricWhenAsked
    MakesWhatWasDrawn
    LoadsWhatIsStored
    RoundTrip
    NothingLeaks
    CheckedCanBeSquared
PROPERTIES
    NeverClobbersUnread
