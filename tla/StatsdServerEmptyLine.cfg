CONSTANTS
    Bodies <- MC_BodiesEmpty
    Datagrams <- MC_Datagrams
    MaxMsgs <- MC_MaxMsgs
    MaxDatagrams <- MC_MaxDatagrams

SPECIFICATION Spec

INVARIANT IngressNeverPanics
