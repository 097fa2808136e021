-------------------------- MODULE MCSharedProxies --------------------------
(* Two fault jobs, one toxic of the scenarios, one of a profile.           *)
EXTENDS SharedProxies

MCRunners == {"r1", "r2"}
MCToxicNames == {"net_latency"}
MCProfileNames == {"latency_down"}
=============================================================================
