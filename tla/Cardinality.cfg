CONSTANTS
    a = a
    b = b
    c = c
    Ids <- MC_Ids
    Buckets <- MC_Buckets
    Window <- MC_Window
    SizeLimit <- MC_SizeLimit
    CopySlots <- MC_CopySlots
    MaxTime <- MC_MaxTime
    ClockStep <- MC_ClockStep
    MaxClockSteps <- MC_NoClockSteps

SPECIFICATION Spec

INVARIANT TypeOK
INVARIANT ValidUntilIncreasing
INVARIANT ForgottenInTime
INVARIANT DistinctBound
