------------------------------- MODULE MC_Relay -------------------------------
(* One sender behind the process lifecycle: three PDUs, a buffer that     *)
(* flushes at two PDUs, and one connection death.                        *)
EXTENDS Relay

MC_MaxPdus == 3
MC_QueueCap == 2
MC_Threshold == 4
MC_ChanCap == 2
MC_MaxAborts == 1
=============================================================================
