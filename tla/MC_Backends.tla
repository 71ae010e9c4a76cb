----------------------------- MODULE MC_Backends -----------------------------
(* Backends with two targets over three endpoints.  t1 shards over two     *)
(* endpoints and takes every name; t2 lists e1 twice, so add_statsd_backend *)
(* must share one client, and its filter takes n1 only.  A reload may      *)
(* swap a ring to a map that keeps e2 and adds e3, to one that lists the   *)
(* new e3 twice, or to an empty map.                                  *)
EXTENDS Backends

CONSTANTS t1, t2, e1, e2, e3, n1, n2

MC_Targets == {t1, t2}
MC_Endpoints == {e1, e2, e3}
MC_Names == {n1, n2}
MC_ShardMap == (t1 :> <<e1, e2>>) @@ (t2 :> <<e1, e1>>)
MC_ReloadMaps == {<<e2, e3>>, <<e3, e3>>, <<e1>>}
MC_Admits == (t1 :> {n1, n2}) @@ (t2 :> {n1})
MC_Hash == (n1 :> 6) @@ (n2 :> 3)
MC_QueueCap == 2
MC_MaxPdus == 3
MC_MaxReloads == 2
=============================================================================
