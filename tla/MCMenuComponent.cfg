SPECIFICATION Spec
CONSTANTS
    Descs <- MCDescs
    HoldDelay = 3
    PadStates <- MCPadStates
INVARIANTS
    LookupInTable
PROPERTIES
    StepNeedsButton
    FocusedPatternClearsNoclip
    HoldingReachesTheEnd
