SPECIFICATION Spec
CONSTANTS
    Stages <- MCStages
    NoStage <- MCNoStage
    SplitTicks = 2
    mTimerStartType <- MCNone
    MaxTick = 5
INVARIANTS
    NegativeOnlyUnderOldSplit
    OneStagePerRun
PROPERTIES
    ResultStays
