SPECIFICATION Spec
CONSTANTS
    Claims = {c1, c2, c3}
    NULL = NULL
    PageSize = 4
    RoPageCount = 3
    RangeStarts <- MCRangeStarts
    AslrPages <- MCAslrPages
    AvoidedPages <- MCAvoidedPages
    Requests <- MCRequests
CHECK_DEADLOCK FALSE
INVARIANTS
    ListIsReservations
    ViewsAreExact
PROPERTIES
    ImplementsAddressSpace
