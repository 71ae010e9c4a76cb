---------------------------- MODULE MC_Cardinality ----------------------------
EXTENDS Cardinality

CONSTANTS a, b, c

MC_Ids == {a, b, c}
MC_Buckets == 2
MC_Window == 2
MC_SizeLimit == 1
MC_CopySlots == 8
MC_MaxTime == 12
\* A step of three windows; two steps allow one forward and one back.
MC_ClockStep == 6
MC_MaxClockSteps == 2
MC_NoClockSteps == 0
=============================================================================
