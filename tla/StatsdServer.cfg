CONSTANTS
    Bodies <- MC_Bodies
    Datagrams <- MC_Datagrams
    MaxMsgs <- MC_MaxMsgs
    MaxDatagrams <- MC_MaxDatagrams

SPECIFICATION FairSpec

INVARIANT TypeOK
INVARIANT TcpFramesAnySplit
PROPERTY ShutdownCompletes
