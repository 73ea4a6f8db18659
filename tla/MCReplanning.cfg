\* Groups of two; the events end.
SPECIFICATION Spec
CHECK_DEADLOCK FALSE
CONSTANTS
    MaxRanks = 4
    GroupSize = 2
    MaxRing = 3
    MaxEvents = 2
INVARIANT TypeOK
INVARIANT ReplannedIsRoutable
INVARIANT NoPathMeansNoPath
