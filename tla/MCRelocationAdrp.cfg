SPECIFICATION RelocationSpec
CONSTANTS
    Base = 103
    MovedCount = 3
    MaxInstructions = 3
    Starts <- MCStarts
    Alias = 5000
    Instructions <- MCInstructions
    WideLimit = 256
    NarrowLimit = 64
    TestLimit = 32
    HighWords = 1024
    PageWords = 8
INVARIANTS
    AdrpRefersBack
CHECK_DEADLOCK FALSE
