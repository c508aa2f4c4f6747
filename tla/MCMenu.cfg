SPECIFICATION Spec
CONSTANTS
    NumCategories = 3
    Size <- MCSize
    Focusable <- MCFocusable
    Bound <- MCBound
    PadStates <- MCPadStates
INVARIANTS
    AccessInBounds
    PressesGoOneWay
PROPERTIES
    FocusHoldsTheCursor
    GhostOrigin
    HighlightIsFocus
