SPECIFICATION Spec
CONSTANTS
    Claims = {c1, c2, c3}
    NULL = NULL
    PageSize = 4
    RoPageCount = 3
    RangeStarts <- MCRangeStarts
    AslrPages <- MCAslrPages
    AvoidedPages <- MCAvoidedPages
    Requests <- MCRequestsAcross
CHECK_DEADLOCK FALSE
INVARIANT
    WholeClaimMirrored
