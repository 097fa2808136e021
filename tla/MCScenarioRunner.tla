-------------------------- MODULE MCScenarioRunner --------------------------
(* The two runners of one orchestrated run: one scenario, one run id, one of *)
(* each language.  The first has fault controllers and a management endpoint;*)
(* an operator works on the same Toxiproxy.                                  *)
EXTENDS ScenarioRunner

MCRunners == {"r1", "r2"}
MCJavaRunners == {{"r1"}, {"r2"}}
MCFaultRunners == {"r1"}
MCScenarioOf == [r \in MCRunners |-> "C-101"]
MCRunIdOf == [r \in MCRunners |-> "run1"]
MCToxicNames == {"net_latency", "region_down"}
MCProfileNames == {"region_down"}
MCSteps  == [r \in MCRunners |-> IF r = "r1" THEN 1 ELSE 0]
MCEvents == [r \in MCRunners |-> 2]
MCHazards == {"refused", "lost"}
=============================================================================
