SPECIFICATION Spec
CONSTANTS
    Words <- MCWords
    CallsAt <- MCCallsAt
    TargetsAt <- MCTargetsAt
    Functions <- MCFunctions
    Length <- MCLength
    Hooks <- MCHooks
    Kind <- MCKind
    Callback <- MCCallback
    BySymbol <- MCBySymbol
    HookPool = 400
    HookMax = 1
    TrampolineSize = 8
    JitWords = 10
    InlinePool = 500
    InlinePoolCount = 1
    Impl = 600
INVARIANTS
    EncodedAsMeant
    NothingStale
    CallsRunTheirHooks
    PoolLimits
CHECK_DEADLOCK FALSE
