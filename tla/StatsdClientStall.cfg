CONSTANTS
    MaxPdus <- MC_MaxPdus
    QueueCap <- MC_QueueCap
    Threshold <- MC_Threshold
    ChanCap <- MC_ChanCap
    MaxAborts <- MC_MaxAborts

SPECIFICATION StalledSpec

PROPERTY TeardownTerminates
