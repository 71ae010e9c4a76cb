--------------------------- MODULE MC_StatsdServer ---------------------------
(* Two lines, each of one or two payload bytes ended by LF or CR LF, then  *)
(* an optional tail and EOF, read in every split; one UDP datagram with a  *)
(* line and a tail.  MC_BodiesEmpty adds the empty line.                   *)
EXTENDS StatsdServer

MC_Bodies == {<<"a">>, <<"a", "b">>}
MC_BodiesEmpty == MC_Bodies \cup {<<>>}
MC_Datagrams == {<<"a", LF, "b">>}
MC_MaxMsgs == 2
MC_MaxDatagrams == 1
=============================================================================
