SPECIFICATION ConfigSpec
CONSTANTS
    SaveEvery = 3
    MaxRuns = 3
    MaxEdits = 2
    MaxFaults = 2
INVARIANTS
    WholeUnlessTrouble
    HoldsLastAttempt
PROPERTIES
    LeakFreezesFile
    SavesArrive
