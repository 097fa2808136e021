---------------------------- MODULE MCFaultProxy ----------------------------
(* Small instances of the layer-7 proxy for TLC.                           *)
EXTENDS FaultProxy

\* Topologies of one, two and three ranges are armed while clients drain; the
\* request for none is raised to one.
MCRanges == {0, 2, 3}
=============================================================================
