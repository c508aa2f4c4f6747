SPECIFICATION Spec
CONSTANTS
    Options <- MCOptions
    Nerves <- MCNerves
    LastScene = 3
    MaxMoves = 2
CHECK_DEADLOCK FALSE
INVARIANTS
    PuppetIsNoclips
    UnpairedEndNeedsCause
    StaleTargetNeedsUnseenMap
    OneKiller
    CrashNeedsAbsentPlayer
    
