--------------------------- MODULE MC_StatsdClient ---------------------------
EXTENDS StatsdClient

MC_MaxPdus == 4
MC_QueueCap == 2
MC_Threshold == 4
MC_ChanCap == 2
MC_MaxAborts == 2
=============================================================================
