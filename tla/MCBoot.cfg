SPECIFICATION Spec
CONSTANTS
    Maps <- MCMaps
    Kernels <- MCKernels
    MaxModules = 3
    Mesospheres = {TRUE, FALSE}
    PlainMap <- MCPlainMap
    PlainKernel <- MCPlainKernel
    Demands <- MCDemands
    MaxFrames = 3
    MaxFailures = 1
    MaxInFlight = 2
    WindowWidth = 101
    Makers = {1, 2}
    CmdBufs = {1}
    WindowSizes <- MCWindowSizes
    LoadModules = {1, 2}
    Images <- MCImages
    Manual <- MCManual
INVARIANTS
    LayoutIsTheMemory
    OverlayBegunWhole
    FramesReadTheirData
    InputsKept
    ScreenFollowsWindow
    ModulesBound
PROPERTY HandleArrives
CHECK_DEADLOCK FALSE
