SPECIFICATION WheelSpec
CONSTANTS
    NumDirections = 2
    FullyOpen = 2
    MaxDelay = 2
PROPERTIES
    ImplementsActionWheel
    WheelSettles
