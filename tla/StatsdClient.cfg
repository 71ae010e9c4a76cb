CONSTANTS
    MaxPdus <- MC_MaxPdus
    QueueCap <- MC_QueueCap
    Threshold <- MC_Threshold
    ChanCap <- MC_ChanCap
    MaxAborts <- MC_MaxAborts

SPECIFICATION FairSpec

INVARIANT TypeOK
INVARIANT Conservation

INVARIANT PeerLinesWhole
INVARIANT LossPerAbort

PROPERTY TeardownTerminates
PROPERTY ImplementsLossyFifo
PROPERTY ImplementsClientQueue
PROPERTY EventuallyResolved
