------------------------ MODULE ScenarioRunnerProofs ------------------------
(***************************************************************************)
(* Proofs about ScenarioRunner: what a runner leaves behind on the services *)
(* it shares, whatever ended its scenario and whatever the others do.      *)
(***************************************************************************)
EXTENDS ScenarioRunner, TLAPS

\* Until its finally, a runner is at its fixture, its steps or in a reset that
\* its timeline asked for.
AtSteps(r) == \/ pc[r] \in {"fixture", "before", "step", "loop", "after"}
              \/ pc[r] = "toxics" /\ back[r] # "fault"

\* Where a runner comes back to; and that its fixture was not there before.
ReturnInv == \A r \in Runners :
    /\ pc[r] = "await" => back[r] \in {"before", "after"}
    /\ pc[r] = "fixture" => ~created[r]

\* A runner without controllers has neither toxics nor L7 faults.
PlainInv == \A r \in Runners \ FaultRunners :
    /\ added[r] = {} /\ Owned(r) = {} /\ \A x \in L7 : l7[x] # r
    /\ pc[r] \notin {"toxics", "fault", "topology"}

\* As long as every call to Toxiproxy was answered the runner tracks each of its
\* toxics; its reset still has to delete all of them, and leaves none.
ToxicInv == \A r \in Runners : ~trouble4[r] =>
    /\ Owned(r) \subseteq added[r]
    /\ pc[r] = "toxics" => added[r] \subseteq doomed[r]
    /\ pc[r] \in {"fault", "topology", "teardown", "done"} => added[r] = {}

\* The L7 reset clears one feature after the other.
FaultInv == \A r \in Runners : ~trouble7[r] =>
    /\ pc[r] = "topology" => l7["fault"] # r
    /\ pc[r] \in {"teardown", "done"} => \A x \in L7 : l7[x] # r

\* An operation is under way only while its runner polls it or gave up.
OpInv == \A r \in Runners : AtSteps(r) => op[r] # "running"

\* A name that a runner tracks is that of a toxic of its own, unless the toxic
\* was taken off behind its back; and a reset deletes tracked names only.
TrackInv == \A r \in Runners :
    /\ \A n \in added[r] : toxics[n] = r \/ n \in astray[r]
    /\ pc[r] = "toxics" => doomed[r] \subseteq added[r]

RInv == /\ TypeOK /\ ReturnInv /\ PlainInv /\ ToxicInv /\ FaultInv /\ OpInv /\ TrackInv
-----------------------------------------------------------------------------
(* Types.                                                                  *)

LEMMA NamesKnown == ToxicNames \subseteq Names /\ "region_down" \in ToxicNames
BY RunnerAssumption DEF Names

LEMMA InitTypeOK == Init => TypeOK
BY RunnerAssumption DEF Init, TypeOK, PCs, L7

\* TypeOK without the databases.
Typed ==
    /\ java \in JavaRunners
    /\ toxics \in [Names -> Runners \cup {"operator", NoOne}]
    /\ astray \in [Runners -> SUBSET Names] /\ l7 \in [L7 -> Runners \cup {NoOne}]
    /\ operated \in 0..MaxOperator /\ doing \in {"idle", "deletes"}
    /\ listed \subseteq Names
    /\ pc \in [Runners -> PCs] /\ step \in [Runners -> Nat]
    /\ left \in [Runners -> 0..LoopCount] /\ fired \in [Runners -> Nat]
    /\ failed \in [Runners -> BOOLEAN]
    /\ status \in [Runners -> {"pass", "fail", "error"}]
    /\ added \in [Runners -> SUBSET ToxicNames]
    /\ doomed \in [Runners -> SUBSET ToxicNames]
    /\ back \in [Runners -> {"fault", "before", "after"}]
    /\ op \in [Runners -> {"none", "running", "succeeded", "failed"}]
    /\ created \in [Runners -> BOOLEAN]
    /\ trouble4 \in [Runners -> BOOLEAN] /\ trouble7 \in [Runners -> BOOLEAN]

\* What an exception does to its runner.
LEMMA RaiseTypes ==
    ASSUME Typed, NEW r \in Runners, RaiseFrom(r)
    PROVE  /\ pc' \in [Runners -> PCs] /\ status' \in [Runners -> {"pass", "fail", "error"}]
           /\ failed' = failed /\ added' = added /\ doomed' \in [Runners -> SUBSET ToxicNames]
           /\ back' \in [Runners -> {"fault", "before", "after"}]
BY DEF Typed, RaiseFrom, Raise, Goto, Set, Finally, PCs

\* The databases are those of runners, under names that stay.
LEMMA DbsStep ==
    ASSUME TypeOK, UNCHANGED java, NEW r \in Runners,
           dbs' \in {dbs, dbs \cup {DbName(r)}, dbs \ {DbName(r)}}
    PROVE  dbs' \subseteq {DbName(q) : q \in Runners}'
<1>1. \A q \in Runners : DbName(q)' = DbName(q)
  BY DEF DbName, Sdk, Python
<1>2. {DbName(q) : q \in Runners}' = {DbName(q) : q \in Runners}
  BY <1>1
<1> QED
  BY <1>2 DEF TypeOK

LEMMA TypedStep == ASSUME Typed, Next PROVE Typed'
<1> USE RunnerAssumption, NamesKnown
    DEF Typed, Goto, Set, Continue, operator, services, proxy, control, verdict, toxicity, troubles
<1>1. ASSUME NEW r \in Runners, SetupFixture(r), UNCHANGED java PROVE Typed'
  BY <1>1, RaiseTypes DEF SetupFixture, PythonFixture, JavaFixture, DbName, Sdk, Python, PCs
<1>2. ASSUME NEW r \in Runners, BeginStep(r), UNCHANGED java PROVE Typed'
  BY <1>2, RaiseTypes DEF BeginStep, PCs
<1>3. ASSUME NEW r \in Runners, RunStep(r), UNCHANGED java PROVE Typed'
  <2>1. created' \in [Runners -> BOOLEAN]
    BY <1>3, ZenonT(60) DEF RunStep, StepDatabase
  <2>2. CASE RaiseFrom(r)
    BY <1>3, <2>1, <2>2, RaiseTypes DEF RunStep
  <2>3. CASE ~RaiseFrom(r)
    BY <1>3, <2>1, <2>3 DEF RunStep, PCs
  <2> QED
    BY <2>2, <2>3
<1>4. ASSUME NEW r \in Runners, RunLoop(r), UNCHANGED java PROVE Typed'
  <2>1. created' \in [Runners -> BOOLEAN]
    <3>1. UNCHANGED created \/ \E b \in BOOLEAN : created' = [created EXCEPT ![r] = b]
      BY <1>4 DEF RunLoop, StepDatabase
    <3> QED
      BY <3>1
  <2>2. CASE RaiseFrom(r)
    BY <1>4, <2>1, <2>2, RaiseTypes DEF RunLoop
  <2>3. CASE ~RaiseFrom(r)
    BY <1>4, <2>1, <2>3 DEF RunLoop, PCs
  <2> QED
    BY <2>2, <2>3
<1>5. ASSUME NEW r \in Runners, EndStep(r), UNCHANGED java PROVE Typed'
  BY <1>5, RaiseTypes DEF EndStep, PCs
<1>6. ASSUME NEW r \in Runners, Verdict(r), UNCHANGED java PROVE Typed'
  BY <1>6, RaiseTypes DEF Verdict, Finally, PCs
<1>7. ASSUME NEW r \in Runners, AwaitOperation(r), UNCHANGED java PROVE Typed'
  BY <1>7, RaiseTypes DEF AwaitOperation, PCs
<1>8. ASSUME NEW r \in Runners, EndResetToxics(r), UNCHANGED java PROVE Typed'
  BY <1>8, RaiseTypes DEF EndResetToxics, PCs
<1>9. ASSUME NEW r \in Runners, ResetProtocol(r), UNCHANGED java PROVE Typed'
  BY <1>9, RaiseTypes DEF ResetProtocol, NextReset, L7, PCs
<1>10. ASSUME NEW r \in Runners, Teardown(r), UNCHANGED java PROVE Typed'
  BY <1>10, RaiseTypes DEF Teardown, DbName, Sdk, Python, PCs
<1>11. ASSUME NEW r \in Runners, RegionUp(r), UNCHANGED java PROVE Typed'
  BY <1>11, RaiseTypes DEF RegionUp, AtEvents, DeleteToxic, TakeOff, Deleted
<1>12. ASSUME NEW r \in Runners, ResetFaults(r), UNCHANGED java PROVE Typed'
  BY <1>12, RaiseTypes DEF ResetFaults, AtEvents, PCs
<1>13. ASSUME NEW r \in Runners, Protocol(r), UNCHANGED java PROVE Typed'
  BY <1>13, RaiseTypes DEF Protocol, AtEvents, Post
<1>14. ASSUME NEW r \in Runners, Manage(r), UNCHANGED java PROVE Typed'
  BY <1>14, RaiseTypes, SMTT(30) DEF Manage, MaybeAwait, AtEvents, PCs
<1>15. ASSUME NEW r \in Runners, EngineFinishes(r), UNCHANGED java PROVE Typed'
  BY <1>15, RaiseTypes DEF EngineFinishes
<1>16. ASSUME NEW r \in Runners, NEW n \in ToxicNames, AddToxic(r, n), UNCHANGED java PROVE Typed'
  <2>1. toxics' = toxics \/ toxics' = [toxics EXCEPT ![n] = r]
    BY <1>16 DEF AddToxic
  <2>2. \/ /\ added' = [added EXCEPT ![r] = added[r] \cup {n}]
           /\ UNCHANGED <<pc, status, failed, doomed, back, trouble4>>
        \/ RaiseFrom(r) /\ \E b \in BOOLEAN : trouble4' = [trouble4 EXCEPT ![r] = b]
    BY <1>16 DEF AddToxic
  <2>3. /\ UNCHANGED <<l7, operated, doing, listed, step, left, op, created, trouble7>>
        /\ fired' \in [Runners -> Nat]
    BY <1>16 DEF AddToxic, AtEvents
  <2>4. /\ toxics' \in [Names -> Runners \cup {"operator", NoOne}]
        /\ astray' \in [Runners -> SUBSET Names]
    BY <1>16, <2>1 DEF AddToxic
  <2>5. CASE RaiseFrom(r)
    BY <1>16, <2>2, <2>3, <2>4, <2>5, RaiseTypes
  <2>6. CASE ~RaiseFrom(r)
    BY <1>16, <2>2, <2>3, <2>4, <2>6
  <2> QED
    BY <2>5, <2>6
<1>17. ASSUME NEW r \in Runners, NEW n \in ToxicNames, ResetToxic(r, n), UNCHANGED java PROVE Typed'
  BY <1>17, RaiseTypes, SMTT(30) DEF ResetToxic, DeleteToxic, TakeOff, Deleted, PCs
<1>18. ASSUME Operator, UNCHANGED java PROVE Typed'
  BY <1>18 DEF Operator, OperatorLists, OperatorDeletes, OperatorEnds, Work, TakeOff, Deleted, Names
<1> QED
  BY <1>1, <1>2, <1>3, <1>4, <1>5, <1>6, <1>7, <1>8, <1>9, <1>10,
     <1>11, <1>12, <1>13, <1>14, <1>15, <1>16, <1>17, <1>18 DEF Next, Run, Timeline

LEMMA StepTypeOK == TypeOK /\ [Next]_vars => TypeOK'
<1> SUFFICES ASSUME TypeOK, [Next]_vars PROVE TypeOK'
  OBVIOUS
<1>1. Typed
  BY DEF TypeOK, Typed
<1>2. CASE Next
  <2>1. Typed'
    BY <1>1, <1>2, TypedStep
  <2>2. \/ dbs' = dbs
        \/ \E r \in Runners : SetupFixture(r) \/ RunStep(r) \/ RunLoop(r) \/ Teardown(r)
    BY <1>2 DEF Next, Run, Timeline, Operator, BeginStep, EndStep, Verdict,
       AwaitOperation, EndResetToxics, ResetProtocol, RegionUp, ResetFaults, Protocol, Post,
       Manage, EngineFinishes, AddToxic, ResetToxic, OperatorLists, OperatorDeletes,
       OperatorEnds, Work, services, proxy
  <2>3. \/ dbs' = dbs
        \/ \E r \in Runners : dbs' \in {dbs, dbs \cup {DbName(r)}, dbs \ {DbName(r)}}
    <3>1. ASSUME NEW r \in Runners, SetupFixture(r)
          PROVE  dbs' \in {dbs, dbs \cup {DbName(r)}, dbs \ {DbName(r)}}
      BY <3>1 DEF SetupFixture
    <3>2. ASSUME NEW r \in Runners, Teardown(r)
          PROVE  dbs' \in {dbs, dbs \cup {DbName(r)}, dbs \ {DbName(r)}}
      BY <3>2 DEF Teardown
    <3>3. ASSUME NEW r \in Runners, RunStep(r) \/ RunLoop(r)
          PROVE  dbs' \in {dbs, dbs \cup {DbName(r)}, dbs \ {DbName(r)}}
      BY <3>3 DEF RunStep, RunLoop, StepDatabase
    <3> QED
      BY <2>2, <3>1, <3>2, <3>3
  <2>4. java' = java
    BY <1>2 DEF Next
  <2>5. dbs' \subseteq {DbName(q) : q \in Runners}'
    <3>1. CASE dbs' = dbs
      <4>1. \A q \in Runners : DbName(q)' = DbName(q)
        BY <2>4 DEF DbName, Sdk, Python
      <4> QED
        BY <3>1, <4>1 DEF TypeOK
    <3>2. CASE dbs' # dbs
      BY <2>3, <2>4, <3>2, DbsStep
    <3> QED
      BY <3>1, <3>2
  <2> QED
    BY <2>1, <2>5 DEF TypeOK, Typed
<1>3. CASE UNCHANGED vars
  <2>1. /\ UNCHANGED <<java, toxics, astray, l7, dbs, operated, doing, listed, pc, step, left, fired>>
        /\ UNCHANGED <<failed, status, added, doomed, back, op, created, trouble4, trouble7>>
    BY <1>3 DEF vars, services, proxy, operator, control, verdict, toxicity, troubles
  <2>2. \A q \in Runners : DbName(q)' = DbName(q)
    BY <2>1 DEF DbName, Sdk, Python
  <2> QED
    BY <2>1, <2>2 DEF TypeOK
<1> QED
  BY <1>2, <1>3
-----------------------------------------------------------------------------
(* The invariant.                                                          *)

LEMMA InitRInv == Init => RInv
BY InitTypeOK, RunnerAssumption
   DEF Init, RInv, TypeOK, ReturnInv, PlainInv, ToxicInv, FaultInv, OpInv, TrackInv, AtSteps,
       Owned, L7

\* A step of a runner changes what is kept of that runner only.
LEMMA RunnerFrame ==
    ASSUME TypeOK, NEW r \in Runners, Run(r) \/ Timeline(r) \/ EngineFinishes(r)
    PROVE  /\ \A q \in Runners \ {r} :
               /\ pc'[q] = pc[q] /\ added'[q] = added[q] /\ doomed'[q] = doomed[q]
               /\ back'[q] = back[q] /\ op'[q] = op[q] /\ created'[q] = created[q]
               /\ trouble4'[q] = trouble4[q] /\ trouble7'[q] = trouble7[q]
           /\ UNCHANGED operator
<1> USE DEF TypeOK, Goto, Set, Continue, Raise, RaiseFrom, Finally, operator, services, proxy, control,
        verdict, toxicity, troubles
<1>1. CASE SetupFixture(r)
  BY <1>1 DEF SetupFixture, PythonFixture, JavaFixture
<1>2. CASE BeginStep(r) \/ RunStep(r) \/ EndStep(r) \/ Verdict(r) \/ RunLoop(r)
  BY <1>2 DEF BeginStep, RunStep, StepDatabase, EndStep, Verdict, RunLoop
<1>3. CASE AwaitOperation(r) \/ EndResetToxics(r) \/ Teardown(r) \/ EngineFinishes(r)
  BY <1>3 DEF AwaitOperation, EndResetToxics, Teardown, EngineFinishes
<1>4. CASE ResetProtocol(r)
  BY <1>4 DEF ResetProtocol
<1>5. CASE RegionUp(r)
  BY <1>5 DEF RegionUp, DeleteToxic
<1>6. CASE ResetFaults(r) \/ Manage(r)
  BY <1>6 DEF ResetFaults, Manage, MaybeAwait
<1>7. CASE Protocol(r)
  BY <1>7 DEF Protocol, Post
<1>8. ASSUME NEW n \in ToxicNames, AddToxic(r, n)
      PROVE  /\ \A q \in Runners \ {r} :
               /\ pc'[q] = pc[q] /\ added'[q] = added[q] /\ doomed'[q] = doomed[q]
               /\ back'[q] = back[q] /\ op'[q] = op[q] /\ created'[q] = created[q]
               /\ trouble4'[q] = trouble4[q] /\ trouble7'[q] = trouble7[q]
             /\ UNCHANGED operator
  BY <1>8 DEF AddToxic
<1>9. ASSUME NEW n \in ToxicNames, ResetToxic(r, n)
      PROVE  /\ \A q \in Runners \ {r} :
               /\ pc'[q] = pc[q] /\ added'[q] = added[q] /\ doomed'[q] = doomed[q]
               /\ back'[q] = back[q] /\ op'[q] = op[q] /\ created'[q] = created[q]
               /\ trouble4'[q] = trouble4[q] /\ trouble7'[q] = trouble7[q]
             /\ UNCHANGED operator
  BY <1>9 DEF ResetToxic, DeleteToxic
<1> QED
  BY <1>1, <1>2, <1>3, <1>4, <1>5, <1>6, <1>7, <1>8, <1>9 DEF Run, Timeline

\* What a step of a runner does to the toxics: none, a toxic of its own, or a
\* toxic deleted by a name of the timeline.
LEMMA ToxicsFrame ==
    ASSUME TypeOK, NEW r \in Runners, Run(r) \/ Timeline(r) \/ EngineFinishes(r)
    PROVE  \/ toxics' = toxics
           \/ \E n \in ToxicNames : toxics[n] = NoOne /\ toxics' = [toxics EXCEPT ![n] = r]
           \/ \E n \in ToxicNames : toxics' = [toxics EXCEPT ![n] = NoOne]
<1>1. ASSUME NEW n \in ToxicNames, AddToxic(r, n)
      PROVE  toxics' = toxics \/ (toxics[n] = NoOne /\ toxics' = [toxics EXCEPT ![n] = r])
  BY <1>1 DEF AddToxic, Set
<1>2. ASSUME NEW n \in ToxicNames, ResetToxic(r, n)
      PROVE  toxics' = toxics \/ toxics' = [toxics EXCEPT ![n] = NoOne]
  BY <1>2 DEF ResetToxic, DeleteToxic, TakeOff, Deleted, Set, proxy
<1>3. CASE RegionUp(r)
  BY <1>3, NamesKnown DEF RegionUp, DeleteToxic, TakeOff, Deleted, Set, proxy
<1> QED
  BY <1>1, <1>2, <1>3 DEF Run, Timeline, BeginStep, RunStep, RunLoop, EndStep, Verdict,
     AwaitOperation, EndResetToxics, ResetProtocol, ResetFaults, Protocol, Post, Manage,
     EngineFinishes, SetupFixture, Teardown, services, proxy

\* A runner's own step keeps where it returns to and what is settled.
LEMMA ReturnStep ==
    ASSUME TypeOK, ReturnInv, OpInv, NEW r \in Runners,
           Run(r) \/ Timeline(r) \/ EngineFinishes(r)
    PROVE  /\ pc'[r] = "await" => back'[r] \in {"before", "after"}
           /\ pc'[r] = "fixture" => ~created'[r]
           /\ AtSteps(r)' => op'[r] # "running"
<1> DEFINE Kept == /\ pc'[r] = "await" => back'[r] \in {"before", "after"}
                   /\ pc'[r] = "fixture" => ~created'[r]
                   /\ AtSteps(r)' => op'[r] # "running"
<1> USE DEF TypeOK, ReturnInv, OpInv, AtSteps, Goto, Set, Continue, operator, services, proxy, control,
        verdict, toxicity, troubles
<1>1. ASSUME RaiseFrom(r) PROVE pc'[r] \in {"toxics", "teardown"} /\ back'[r] = "fault"
  BY <1>1 DEF RaiseFrom, Raise, Finally
<1>2. CASE SetupFixture(r)
  BY <1>1, <1>2 DEF SetupFixture, PythonFixture, JavaFixture
<1>3. CASE BeginStep(r) \/ RunStep(r) \/ EndStep(r) \/ RunLoop(r)
  BY <1>1, <1>3 DEF BeginStep, RunStep, EndStep, RunLoop
<1>4. CASE Verdict(r)
  BY <1>4 DEF Verdict, Finally
<1>5. CASE AwaitOperation(r)
  BY <1>1, <1>5 DEF AwaitOperation
<1>6. CASE EndResetToxics(r) \/ Teardown(r) \/ EngineFinishes(r)
  BY <1>6 DEF EndResetToxics, Teardown, EngineFinishes
<1>7. CASE ResetProtocol(r)
  BY <1>7 DEF ResetProtocol, NextReset
<1>8. CASE RegionUp(r)
  BY <1>1, <1>8 DEF RegionUp, AtEvents
<1>9. CASE ResetFaults(r)
  BY <1>9 DEF ResetFaults, AtEvents
<1>10. CASE Manage(r)
  BY <1>1, <1>10 DEF Manage, MaybeAwait, AtEvents
<1>11. CASE Protocol(r)
  BY <1>1, <1>11 DEF Protocol, Post, AtEvents
<1>12. ASSUME NEW n \in ToxicNames, AddToxic(r, n) PROVE Kept
  <2>1. /\ RaiseFrom(r) \/ UNCHANGED <<pc, back>>
        /\ UNCHANGED <<op, created>>
        /\ pc[r] \in {"before", "after"}
    BY <1>12 DEF AddToxic, AtEvents
  <2> QED
    BY <1>1, <2>1
<1>13. ASSUME NEW n \in ToxicNames, ResetToxic(r, n) PROVE Kept
  <2>1. /\ pc[r] = "toxics" /\ UNCHANGED <<op, created>>
        /\ \/ UNCHANGED <<pc, back>>
           \/ pc' = [pc EXCEPT ![r] = "fault"] /\ UNCHANGED back
           \/ RaiseFrom(r)
    BY <1>13 DEF ResetToxic
  <2> QED
    BY <1>1, <2>1
<1> QED
  BY <1>2, <1>3, <1>4, <1>5, <1>6, <1>7, <1>8, <1>9, <1>10, <1>11, <1>12, <1>13
     DEF Run, Timeline

\* A runner's own step with its toxics.
LEMMA ToxicStep ==
    ASSUME TypeOK, ReturnInv, PlainInv, ToxicInv, NEW r \in Runners,
           Run(r) \/ Timeline(r) \/ EngineFinishes(r)
    PROVE  /\ r \notin FaultRunners =>
                 added'[r] = {} /\ pc'[r] \notin {"toxics", "fault", "topology"}
           /\ ~trouble4'[r] =>
                 /\ Owned(r)' \subseteq added'[r]
                 /\ pc'[r] = "toxics" => added'[r] \subseteq doomed'[r]
                 /\ pc'[r] \in {"fault", "topology", "teardown", "done"} => added'[r] = {}
<1> DEFINE Plain == r \notin FaultRunners =>
                       added'[r] = {} /\ pc'[r] \notin {"toxics", "fault", "topology"}
           Kept == ~trouble4'[r] =>
                     /\ Owned(r)' \subseteq added'[r]
                     /\ pc'[r] = "toxics" => added'[r] \subseteq doomed'[r]
                     /\ pc'[r] \in {"fault", "topology", "teardown", "done"} => added'[r] = {}
<1> USE RunnerAssumption, NamesKnown
    DEF TypeOK, PlainInv, ToxicInv, Goto, Set, Continue, operator, services, proxy, control, verdict,
        toxicity, troubles
<1>1. ASSUME RaiseFrom(r)
      PROVE  /\ added' = added /\ doomed'[r] = added[r]
             /\ pc'[r] = IF r \in FaultRunners THEN "toxics" ELSE "teardown"
  BY <1>1 DEF RaiseFrom, Raise, Finally
<1>2. CASE SetupFixture(r)
  BY <1>1, <1>2 DEF SetupFixture, PythonFixture, JavaFixture, Owned
<1>3. CASE BeginStep(r) \/ RunStep(r) \/ EndStep(r) \/ RunLoop(r)
  BY <1>1, <1>3 DEF BeginStep, RunStep, EndStep, RunLoop, Owned
<1>4. CASE Verdict(r)
  BY <1>4 DEF Verdict, Finally, Owned
<1>5. CASE AwaitOperation(r)
  BY <1>1, <1>5 DEF AwaitOperation, ReturnInv, Owned
<1>6. CASE EndResetToxics(r) \/ Teardown(r) \/ EngineFinishes(r)
  BY <1>6 DEF EndResetToxics, Teardown, EngineFinishes, Owned
<1>7. CASE ResetProtocol(r)
  BY <1>7 DEF ResetProtocol, NextReset, L7, Owned
<1>8. CASE RegionUp(r)
  <2>1. /\ r \in FaultRunners /\ pc[r] \in {"before", "after"}
        /\ \/ trouble4'[r]
           \/ /\ toxics' = [toxics EXCEPT !["region_down"] = NoOne]
              /\ added' = [added EXCEPT ![r] = added[r] \ {"region_down"}]
              /\ UNCHANGED <<pc, doomed, trouble4>>
    <3>1. PICK e \in Endings :
             /\ DeleteToxic(r, "region_down", e)
             /\ IF Escapes(r, e) THEN RaiseFrom(r)
                ELSE /\ added' = [added EXCEPT ![r] = added[r] \ {"region_down"}]
                     /\ UNCHANGED <<pc, doomed>>
      BY <1>8 DEF RegionUp
    <3>2. CASE e = "ok"
      BY <1>8, <3>1, <3>2 DEF RegionUp, AtEvents, DeleteToxic, TakeOff, Deleted, Escapes
    <3>3. CASE e # "ok"
      <4>1. trouble4' = [trouble4 EXCEPT ![r] = trouble4[r] \/ e # "ok"]
        BY <3>1 DEF DeleteToxic
      <4>2. (trouble4[r] \/ e # "ok") = TRUE
        BY <3>3
      <4>3. trouble4' = [trouble4 EXCEPT ![r] = TRUE]
        BY <4>1, <4>2, Zenon
      <4>4. trouble4'[r]
        BY <4>3
      <4> QED
        BY <1>8, <4>4 DEF RegionUp, AtEvents
    <3> QED
      BY <3>2, <3>3
  <2> QED
    BY <2>1 DEF Owned
<1>9. CASE ResetFaults(r)
  BY <1>9 DEF ResetFaults, AtEvents, Owned
<1>10. CASE Manage(r)
  BY <1>1, <1>10 DEF Manage, MaybeAwait, AtEvents, Owned
<1>11. CASE Protocol(r)
  BY <1>1, <1>11 DEF Protocol, Post, AtEvents, Owned
<1>12. ASSUME NEW n \in ToxicNames, AddToxic(r, n) PROVE Plain /\ Kept
  <2>1. /\ r \in FaultRunners /\ pc[r] \in {"before", "after"}
        /\ \/ trouble4'[r]
           \/ toxics' = toxics /\ RaiseFrom(r) /\ trouble4' = trouble4
           \/ /\ toxics' = toxics \/ toxics' = [toxics EXCEPT ![n] = r]
              /\ added' = [added EXCEPT ![r] = added[r] \cup {n}]
              /\ UNCHANGED <<pc, doomed, trouble4>>
    <3>1. PICK e \in Endings \cup {"missing"} :
            LET works == e \in {"ok", "lost"} /\ toxics[n] = NoOne
                told  == (e = "ok" /\ works) \/ JavaTold(r, e)
            IN  /\ \/ works /\ toxics' = [toxics EXCEPT ![n] = r]
                   \/ (~works \/ e = "lost") /\ UNCHANGED toxics
                /\ IF told
                   THEN /\ added' = [added EXCEPT ![r] = added[r] \cup {n}]
                        /\ UNCHANGED <<pc, doomed, trouble4>>
                   ELSE /\ RaiseFrom(r)
                        /\ trouble4' = [trouble4 EXCEPT ![r] = trouble4[r] \/ e = "lost"]
      BY <1>12 DEF AddToxic
    <3>2. r \in FaultRunners /\ pc[r] \in {"before", "after"}
      BY <1>12 DEF AddToxic, AtEvents
    <3>3. CASE e = "lost"
      <4>1. trouble4' = [trouble4 EXCEPT ![r] = trouble4[r] \/ e = "lost"]
        BY <3>1, <3>3 DEF JavaTold
      <4>2. (trouble4[r] \/ e = "lost") = TRUE
        BY <3>3
      <4>3. trouble4' = [trouble4 EXCEPT ![r] = TRUE]
        BY <4>1, <4>2, Zenon
      <4>4. trouble4'[r]
        BY <4>3
      <4> QED
        BY <3>2, <4>4
    <3>4. CASE e # "lost" /\ ~((e = "ok" /\ toxics[n] = NoOne) \/ JavaTold(r, e))
      <4>1. /\ toxics' = toxics /\ RaiseFrom(r)
            /\ trouble4' = [trouble4 EXCEPT ![r] = trouble4[r] \/ e = "lost"]
        BY <3>1, <3>4
      <4>2. trouble4'[r] = trouble4[r] /\ \A q \in Runners : trouble4'[q] = trouble4[q]
        BY <3>4, <4>1
      <4>3. trouble4' = trouble4
        BY <4>1, <4>2
      <4> QED
        BY <3>2, <4>1, <4>3
    <3>5. CASE e # "lost" /\ ((e = "ok" /\ toxics[n] = NoOne) \/ JavaTold(r, e))
      BY <3>1, <3>2, <3>5
    <3> QED
      BY <3>3, <3>4, <3>5
  <2> QED
    BY <1>1, <2>1 DEF Owned
<1>13. ASSUME NEW n \in ToxicNames, ResetToxic(r, n) PROVE Plain /\ Kept
  <2>1. /\ r \in FaultRunners /\ pc[r] = "toxics"
        /\ \/ trouble4'[r]
           \/ /\ toxics' = [toxics EXCEPT ![n] = NoOne]
              /\ added' = [added EXCEPT ![r] = added[r] \ {n}]
              /\ doomed' = [doomed EXCEPT ![r] = doomed[r] \ {n}]
              /\ UNCHANGED <<pc, trouble4>>
    <3>1. PICK e \in Endings :
             /\ DeleteToxic(r, n, e)
             /\ ~Escapes(r, e) => /\ added' = [added EXCEPT ![r] = added[r] \ {n}]
                                  /\ doomed' = [doomed EXCEPT ![r] = doomed[r] \ {n}]
                                  /\ UNCHANGED pc
      BY <1>13 DEF ResetToxic
    <3>2. CASE e = "ok"
      BY <1>13, <3>1, <3>2 DEF ResetToxic, DeleteToxic, TakeOff, Deleted, Escapes
    <3>3. CASE e # "ok"
      <4>1. trouble4' = [trouble4 EXCEPT ![r] = trouble4[r] \/ e # "ok"]
        BY <3>1 DEF DeleteToxic
      <4>2. (trouble4[r] \/ e # "ok") = TRUE
        BY <3>3
      <4>3. trouble4' = [trouble4 EXCEPT ![r] = TRUE]
        BY <4>1, <4>2, Zenon
      <4>4. trouble4'[r]
        BY <4>3
      <4> QED
        BY <1>13, <4>4 DEF ResetToxic
    <3> QED
      BY <3>2, <3>3
  <2> QED
    BY <2>1 DEF Owned
<1> QED
  BY <1>2, <1>3, <1>4, <1>5, <1>6, <1>7, <1>8, <1>9, <1>10, <1>11, <1>12, <1>13
     DEF Run, Timeline

\* A runner's own step with the L7 features; nobody else's are armed by it.
LEMMA FaultStep ==
    ASSUME TypeOK, PlainInv, FaultInv, NEW r \in Runners,
           Run(r) \/ Timeline(r) \/ EngineFinishes(r)
    PROVE  /\ \A x \in L7 : \/ l7'[x] \in {l7[x], NoOne}
                            \/ l7'[x] = r /\ r \in FaultRunners
           /\ ~trouble7'[r] =>
                 /\ pc'[r] = "topology" => l7'["fault"] # r
                 /\ pc'[r] \in {"teardown", "done"} => \A x \in L7 : l7'[x] # r
<1> DEFINE Shape == \A x \in L7 : \/ l7'[x] \in {l7[x], NoOne}
                                  \/ l7'[x] = r /\ r \in FaultRunners
           Kept == ~trouble7'[r] =>
                     /\ pc'[r] = "topology" => l7'["fault"] # r
                     /\ pc'[r] \in {"teardown", "done"} => \A x \in L7 : l7'[x] # r
<1> USE RunnerAssumption
    DEF TypeOK, PlainInv, FaultInv, Goto, Set, Continue, operator, services, proxy, control, verdict,
        toxicity, troubles
<1>1. ASSUME RaiseFrom(r)
      PROVE  pc'[r] = IF r \in FaultRunners THEN "toxics" ELSE "teardown"
  BY <1>1 DEF RaiseFrom, Raise, Finally
<1>2. CASE SetupFixture(r)
  BY <1>1, <1>2 DEF SetupFixture, PythonFixture, JavaFixture
<1>3. CASE BeginStep(r) \/ RunStep(r) \/ EndStep(r) \/ RunLoop(r)
  BY <1>1, <1>3 DEF BeginStep, RunStep, EndStep, RunLoop
<1>4. CASE Verdict(r)
  BY <1>4 DEF Verdict, Finally
<1>5. CASE AwaitOperation(r)
  BY <1>1, <1>5 DEF AwaitOperation
<1>6. CASE EndResetToxics(r) \/ Teardown(r) \/ EngineFinishes(r)
  BY <1>6 DEF EndResetToxics, Teardown, EngineFinishes
<1>7. CASE ResetProtocol(r)
  <2>1. PICK e \in Endings :
           /\ \/ e # "refused" /\ l7' = [l7 EXCEPT ![pc[r]] = NoOne]
              \/ e # "ok" /\ UNCHANGED l7
           /\ trouble7' = [trouble7 EXCEPT ![r] = trouble7[r] \/ e # "ok"]
           /\ pc' = [pc EXCEPT ![r] = NextReset(r, pc[r], e)]
    BY <1>7 DEF ResetProtocol
  <2>2. pc[r] \in L7 /\ pc[r] \in {"fault", "topology"}
    BY <1>7 DEF ResetProtocol, L7
  <2>3. Shape
    BY <2>1, <2>2
  <2>4. CASE e # "ok"
    <3>1. (trouble7[r] \/ e # "ok") = TRUE
      BY <2>4
    <3>2. trouble7' = [trouble7 EXCEPT ![r] = TRUE]
      BY <2>1, <3>1, Zenon
    <3>3. trouble7'[r]
      BY <3>2
    <3> QED
      BY <2>3, <3>3
  <2>5. CASE e = "ok"
    <3>1. ~trouble7'[r] => ~trouble7[r]
      BY <2>1
    <3>2. l7' = [l7 EXCEPT ![pc[r]] = NoOne] /\ pc'[r] = NextReset(r, pc[r], e)
      BY <2>1, <2>5
    <3> QED
      BY <2>2, <2>3, <2>5, <3>1, <3>2 DEF NextReset, Escapes, L7
  <2> QED
    BY <2>4, <2>5
<1>8. CASE RegionUp(r)
  BY <1>1, <1>8 DEF RegionUp, AtEvents
<1>9. CASE ResetFaults(r)
  BY <1>9 DEF ResetFaults, AtEvents
<1>10. CASE Manage(r)
  BY <1>1, <1>10 DEF Manage, MaybeAwait, AtEvents
<1>11. ASSUME NEW x \in L7, NEW who \in {r, NoOne}, AtEvents(r), r \in FaultRunners,
              Post(r, x, who)
       PROVE  Shape /\ Kept
  <2>1. l7' = l7 \/ l7' = [l7 EXCEPT ![x] = who]
    BY <1>11 DEF Post
  <2>2. pc[r] \in {"before", "after"} /\ (UNCHANGED pc \/ RaiseFrom(r))
    BY <1>11 DEF Post, AtEvents
  <2> QED
    BY <1>1, <1>11, <2>1, <2>2
<1>12. ASSUME NEW n \in ToxicNames, AddToxic(r, n) PROVE Shape /\ Kept
  <2>1. /\ RaiseFrom(r) \/ UNCHANGED pc
        /\ l7' = l7 /\ r \in FaultRunners /\ pc[r] \in {"before", "after"}
    BY <1>12 DEF AddToxic, AtEvents
  <2> QED
    BY <1>1, <2>1
<1>13. ASSUME NEW n \in ToxicNames, ResetToxic(r, n) PROVE Shape /\ Kept
  <2>1. /\ l7' = l7 /\ pc[r] = "toxics"
        /\ UNCHANGED pc \/ RaiseFrom(r) \/ pc' = [pc EXCEPT ![r] = "fault"]
    BY <1>13 DEF ResetToxic
  <2> QED
    BY <1>1, <2>1
<1> QED
  BY <1>2, <1>3, <1>4, <1>5, <1>6, <1>7, <1>8, <1>9, <1>10, <1>11, <1>12, <1>13
     DEF Run, Timeline, Protocol

\* Whoever takes a toxic off leaves its name astray with those that track it.
LEMMA Strays ==
    ASSUME TypeOK, NEW n \in Names, NEW F, TakeOff(n, F)
    PROVE  \A q \in Runners, m \in Names :
              /\ m \in astray[q] => m \in astray'[q]
              /\ toxics[m] = q /\ (m # n \/ q \notin F) => toxics'[m] = q \/ m \in astray'[q]
BY DEF TakeOff, Deleted, Set, TypeOK

\* A runner's own step with the names that it and others track.
LEMMA TrackStep ==
    ASSUME TypeOK, TrackInv, NEW r \in Runners, Run(r) \/ Timeline(r) \/ EngineFinishes(r)
    PROVE  /\ \A q \in Runners \ {r} : \A m \in added[q] : toxics'[m] = q \/ m \in astray'[q]
           /\ \A m \in added'[r] : toxics'[m] = r \/ m \in astray'[r]
           /\ pc'[r] = "toxics" => doomed'[r] \subseteq added'[r]
<1> DEFINE Theirs == \A q \in Runners \ {r} : \A m \in added[q] :
                        toxics'[m] = q \/ m \in astray'[q]
           Mine   == \A m \in added'[r] : toxics'[m] = r \/ m \in astray'[r]
           Doomed == pc'[r] = "toxics" => doomed'[r] \subseteq added'[r]
<1> USE RunnerAssumption, NamesKnown
    DEF TypeOK, TrackInv, Goto, Set, Continue, operator, services, proxy, control, verdict,
        toxicity, troubles
<1>1. ASSUME RaiseFrom(r) PROVE added' = added /\ doomed'[r] = added[r]
  BY <1>1 DEF RaiseFrom, Raise
<1>2. CASE UNCHANGED proxy /\ added' = added /\ Doomed
  BY <1>2
<1>3. CASE SetupFixture(r) \/ BeginStep(r) \/ RunStep(r) \/ EndStep(r) \/ RunLoop(r)
  BY <1>1, <1>2, <1>3 DEF SetupFixture, PythonFixture, JavaFixture, BeginStep, RunStep, EndStep,
     RunLoop
<1>4. CASE Verdict(r) \/ AwaitOperation(r) \/ ResetFaults(r) \/ Manage(r)
  <2>1. UNCHANGED proxy /\ added' = added
    BY <1>1, <1>4 DEF Verdict, AwaitOperation, ResetFaults, Manage, MaybeAwait
  <2>2. Doomed
    BY <1>1, <1>4 DEF Verdict, AwaitOperation, ResetFaults, Manage, MaybeAwait, AtEvents
  <2> QED
    BY <1>2, <2>1, <2>2
<1>5. CASE EndResetToxics(r) \/ ResetProtocol(r) \/ Teardown(r) \/ EngineFinishes(r)
  <2>1. UNCHANGED proxy /\ added' = added /\ doomed' = doomed
    BY <1>5 DEF EndResetToxics, ResetProtocol, Teardown, EngineFinishes
  <2>2. Doomed
    BY <1>5 DEF EndResetToxics, ResetProtocol, NextReset, Teardown, EngineFinishes
  <2> QED
    BY <1>2, <2>1, <2>2
<1>6. CASE Protocol(r)
  <2>1. UNCHANGED proxy /\ added' = added /\ Doomed
    BY <1>1, <1>6 DEF Protocol, Post, AtEvents
  <2> QED
    BY <1>2, <2>1
<1>7. ASSUME NEW n \in ToxicNames, AddToxic(r, n) PROVE Theirs /\ Mine /\ Doomed
  <2>1. PICK e \in Endings \cup {"missing"} :
          LET works == e \in {"ok", "lost"} /\ toxics[n] = NoOne
              told  == (e = "ok" /\ works) \/ JavaTold(r, e)
          IN  /\ \/ works /\ toxics' = [toxics EXCEPT ![n] = r]
                 \/ (~works \/ e = "lost") /\ UNCHANGED toxics
              /\ astray' = IF JavaTold(r, e)
                           THEN [astray EXCEPT ![r] = astray[r] \cup {n}] ELSE astray
              /\ IF told
                 THEN /\ added' = [added EXCEPT ![r] = added[r] \cup {n}]
                      /\ UNCHANGED <<pc, doomed>>
                 ELSE RaiseFrom(r)
    BY <1>7 DEF AddToxic
  <2>2. \A q \in Runners : astray[q] \subseteq astray'[q]
    BY <2>1
  <2>3. \A q \in Runners, m \in Names : toxics[m] = q => toxics'[m] = q
    BY <2>1
  <2>4. Theirs
    BY <2>2, <2>3
  <2>5. pc[r] \in {"before", "after"}
    BY <1>7 DEF AddToxic, AtEvents
  <2>6. Doomed
    BY <1>1, <2>1, <2>5
  <2>7. Mine
    <3>1. CASE added' = added
      BY <2>2, <2>3, <3>1
    <3>2. CASE JavaTold(r, e)
      BY <2>1, <2>2, <2>3, <3>2
    <3>3. CASE e = "ok" /\ toxics[n] = NoOne
      BY <2>1, <2>2, <2>3, <3>3
    <3> QED
      BY <1>1, <2>1, <3>1, <3>2, <3>3
  <2> QED
    BY <2>4, <2>6, <2>7
<1>8. ASSUME NEW n \in ToxicNames, NEW e \in Endings, DeleteToxic(r, n, e)
      PROVE  /\ Theirs
             /\ \A m \in added[r] :
                   (m # n \/ Escapes(r, e)) => toxics'[m] = r \/ m \in astray'[r]
  <2>1. CASE TakeOff(n, IF Escapes(r, e) THEN {} ELSE {r})
    <3>1. \A q \in Runners, m \in Names :
             /\ m \in astray[q] => m \in astray'[q]
             /\ toxics[m] = q /\ (m # n \/ q \notin IF Escapes(r, e) THEN {} ELSE {r})
                   => toxics'[m] = q \/ m \in astray'[q]
      BY <2>1, Strays
    <3> QED
      BY <3>1
  <2>2. CASE UNCHANGED proxy
    BY <2>2
  <2> QED
    BY <1>8, <2>1, <2>2 DEF DeleteToxic
<1>9. CASE RegionUp(r)
  <2>1. PICK e \in Endings :
           /\ DeleteToxic(r, "region_down", e)
           /\ IF Escapes(r, e) THEN RaiseFrom(r)
              ELSE /\ added' = [added EXCEPT ![r] = added[r] \ {"region_down"}]
                   /\ UNCHANGED <<pc, doomed>>
    BY <1>9 DEF RegionUp
  <2>2. pc[r] \in {"before", "after"}
    BY <1>9 DEF RegionUp, AtEvents
  <2> QED
    BY <1>1, <1>8, <2>1, <2>2
<1>10. ASSUME NEW n \in ToxicNames, ResetToxic(r, n) PROVE Theirs /\ Mine /\ Doomed
  <2>1. PICK e \in Endings :
           /\ DeleteToxic(r, n, e)
           /\ IF ~Escapes(r, e)
              THEN /\ added' = [added EXCEPT ![r] = added[r] \ {n}]
                   /\ doomed' = [doomed EXCEPT ![r] = doomed[r] \ {n}]
                   /\ UNCHANGED pc
              ELSE \/ added' = added /\ pc' = [pc EXCEPT ![r] = "fault"]
                   \/ RaiseFrom(r)
    BY <1>10 DEF ResetToxic
  <2>2. pc[r] = "toxics"
    BY <1>10 DEF ResetToxic
  <2> QED
    BY <1>1, <1>8, <2>1, <2>2
<1> QED
  BY <1>3, <1>4, <1>5, <1>6, <1>7, <1>9, <1>10 DEF Run, Timeline

\* The operator touches the toxics only, and adds its own only.
LEMMA OperatorFrame ==
    ASSUME TypeOK, Operator
    PROVE  /\ UNCHANGED <<l7, dbs, pc, added, doomed, back, op, created, trouble4, trouble7>>
           /\ \/ toxics' = toxics
              \/ \E m \in Names : toxics' = [toxics EXCEPT ![m] = NoOne]
              \/ \E n \in ProfileNames :
                    toxics[n] = NoOne /\ toxics' = [toxics EXCEPT ![n] = "operator"]
           /\ \A q \in Runners, m \in Names : toxics[m] = q \/ m \in astray[q]
                 => toxics'[m] = q \/ m \in astray'[q]
<1>1. ASSUME NEW m \in Names, OperatorDeletes(m)
      PROVE  /\ toxics' = [toxics EXCEPT ![m] = NoOne]
             /\ \A q \in Runners, x \in Names : toxics[x] = q \/ x \in astray[q]
                   => toxics'[x] = q \/ x \in astray'[q]
  <2>1. TakeOff(m, {})
    BY <1>1 DEF OperatorDeletes
  <2>2. toxics' = [toxics EXCEPT ![m] = NoOne]
    BY <2>1 DEF TakeOff, Deleted, Set
  <2> QED
    BY <2>1, <2>2, Strays
<1>2. ASSUME OperatorLists \/ OperatorEnds
      PROVE  /\ \/ toxics' = toxics
                \/ \E n \in ProfileNames :
                      toxics[n] = NoOne /\ toxics' = [toxics EXCEPT ![n] = "operator"]
             /\ astray' = astray
  BY <1>2 DEF OperatorLists, OperatorEnds, proxy, Set
<1>3. UNCHANGED <<l7, dbs, pc, added, doomed, back, op, created, trouble4, trouble7>>
  BY DEF Operator, OperatorLists, OperatorEnds, OperatorDeletes, Work, control, toxicity, troubles
<1> QED
  <2>1. CASE OperatorLists \/ OperatorEnds
    <3>1. \A q \in Runners, m \in Names : toxics[m] = q => toxics'[m] = q
      BY <1>2, <2>1, RunnerAssumption DEF TypeOK, Names
    <3> QED
      BY <1>2, <1>3, <2>1, <3>1
  <2>2. ASSUME NEW m \in Names, OperatorDeletes(m)
        PROVE  /\ \E x \in Names : toxics' = [toxics EXCEPT ![x] = NoOne]
               /\ \A q \in Runners, x \in Names : toxics[x] = q \/ x \in astray[q]
                     => toxics'[x] = q \/ x \in astray'[q]
    BY <1>1, <2>2
  <2> QED
    BY <1>3, <2>1, <2>2 DEF Operator

LEMMA StepRInv == RInv /\ [Next]_vars => RInv'
<1> SUFFICES ASSUME RInv, [Next]_vars PROVE RInv'
  OBVIOUS
<1>1. TypeOK'
  BY StepTypeOK DEF RInv
<1>2. ASSUME NEW r \in Runners, Run(r) \/ Timeline(r) \/ EngineFinishes(r)
      PROVE  ReturnInv' /\ PlainInv' /\ ToxicInv' /\ FaultInv' /\ OpInv' /\ TrackInv'
  <2>1. \A q \in Runners \ {r} :
           /\ pc'[q] = pc[q] /\ added'[q] = added[q] /\ doomed'[q] = doomed[q]
           /\ back'[q] = back[q] /\ op'[q] = op[q] /\ created'[q] = created[q]
           /\ trouble4'[q] = trouble4[q] /\ trouble7'[q] = trouble7[q]
    BY <1>2, RunnerFrame DEF RInv
  <2>2. \A q \in Runners \ {r} : Owned(q)' \subseteq Owned(q)
    <3>1. \/ toxics' = toxics
          \/ \E n \in ToxicNames : toxics[n] = NoOne /\ toxics' = [toxics EXCEPT ![n] = r]
          \/ \E n \in ToxicNames : toxics' = [toxics EXCEPT ![n] = NoOne]
      BY <1>2, ToxicsFrame DEF RInv
    <3>2. ASSUME NEW q \in Runners \ {r}, NEW m \in Names, toxics'[m] = q
          PROVE  toxics[m] = q
      BY <3>1, <3>2, NamesKnown, RunnerAssumption DEF RInv, TypeOK
    <3> QED
      BY <3>2 DEF Owned
  <2>3. \A x \in L7 : \/ l7'[x] \in {l7[x], NoOne}
                      \/ l7'[x] = r /\ r \in FaultRunners
    BY <1>2, FaultStep DEF RInv
  <2>4. ReturnInv' /\ OpInv'
    BY <1>2, <2>1, ReturnStep DEF RInv, ReturnInv, OpInv, AtSteps
  <2>5. ToxicInv'
    BY <1>2, <2>1, <2>2, ToxicStep DEF RInv, ToxicInv
  <2>6. FaultInv'
    BY <1>2, <2>1, <2>3, FaultStep, RunnerAssumption DEF RInv, FaultInv, L7
  <2>7. PlainInv'
    <3>1. r \notin FaultRunners => Owned(r)' = {}
      <4>1. ASSUME NEW n \in ToxicNames, AddToxic(r, n) PROVE r \in FaultRunners
        BY <4>1 DEF AddToxic
      <4>2. r \notin FaultRunners => Owned(r)' \subseteq Owned(r)
        <5>1. ASSUME NEW n \in ToxicNames, ResetToxic(r, n)
              PROVE  toxics' = toxics \/ toxics' = [toxics EXCEPT ![n] = NoOne]
          BY <5>1 DEF ResetToxic, DeleteToxic, TakeOff, Deleted, Set, proxy
        <5>2. r \notin FaultRunners => toxics' = toxics
                  \/ \E n \in ToxicNames : toxics' = [toxics EXCEPT ![n] = NoOne]
          BY <1>2, <4>1, <5>1 DEF Run, Timeline, BeginStep, RunStep, RunLoop, EndStep, Verdict,
             AwaitOperation, EndResetToxics, ResetProtocol, ResetFaults, Protocol, Post, Manage,
             RegionUp, EngineFinishes, SetupFixture, Teardown, services, proxy
        <5> QED
          BY <5>2, NamesKnown, RunnerAssumption DEF RInv, TypeOK, Owned
      <4> QED
        BY <4>2 DEF RInv, PlainInv
    <3> QED
      BY <1>2, <2>1, <2>2, <2>3, <3>1, ToxicStep, RunnerAssumption DEF RInv, PlainInv
  <2>8. TrackInv'
    BY <1>2, <2>1, TrackStep DEF RInv, TrackInv
  <2> QED
    BY <2>4, <2>5, <2>6, <2>7, <2>8
<1>3. ASSUME Operator
      PROVE  ReturnInv' /\ PlainInv' /\ ToxicInv' /\ FaultInv' /\ OpInv' /\ TrackInv'
  <2>1. /\ UNCHANGED <<l7, dbs, pc, added, doomed, back, op, created, trouble4, trouble7>>
        /\ \/ toxics' = toxics
           \/ \E m \in Names : toxics' = [toxics EXCEPT ![m] = NoOne]
           \/ \E n \in ProfileNames :
                 toxics[n] = NoOne /\ toxics' = [toxics EXCEPT ![n] = "operator"]
        /\ \A q \in Runners, m \in Names : toxics[m] = q \/ m \in astray[q]
              => toxics'[m] = q \/ m \in astray'[q]
    BY <1>3, OperatorFrame DEF RInv
  <2>2. \A q \in Runners : Owned(q)' \subseteq Owned(q)
    BY <2>1, RunnerAssumption DEF RInv, TypeOK, Owned, Names
  <2>3. TrackInv'
    BY <2>1, NamesKnown DEF RInv, TypeOK, TrackInv
  <2> QED
    BY <2>1, <2>2, <2>3 DEF RInv, ReturnInv, PlainInv, ToxicInv, FaultInv, OpInv, AtSteps
<1>4. CASE UNCHANGED vars
  <2>1. UNCHANGED <<toxics, astray, l7, pc, added, doomed, back, op, created, trouble4, trouble7>>
    BY <1>4 DEF vars, services, proxy, control, toxicity, troubles
  <2>2. ReturnInv' /\ OpInv' /\ TrackInv'
    BY <2>1 DEF RInv, ReturnInv, OpInv, TrackInv, AtSteps
  <2>3. PlainInv' /\ ToxicInv' /\ FaultInv'
    BY <2>1 DEF RInv, PlainInv, ToxicInv, FaultInv, Owned
  <2> QED
    BY <1>1, <2>2, <2>3 DEF RInv
<1> QED
  BY <1>1, <1>2, <1>3, <1>4 DEF Next, RInv
-----------------------------------------------------------------------------
(* What it is for.                                                         *)

\* Types, bookkeeping and the services keep step (executor.py 272-312, faults.py
\* 60-119, 189-282; ScenarioExecutor.java and its controllers).
THEOREM RunnerInv == Spec => []RInv
<1> QED
  BY InitRInv, StepRInv, PTL DEF Spec

\* However a scenario ends, and whatever siblings and the operator do: when its
\* Toxiproxy calls were all answered none of its toxics stays behind
\* (executor.py 298-303, faults.py 115-119).
THEOREM ToxicsRemoved == Spec => []OwnToxicsRemoved
<1>1. RInv => OwnToxicsRemoved
  BY DEF RInv, ToxicInv, OwnToxicsRemoved
<1> QED
  BY <1>1, RunnerInv, PTL

\* ... and when its mitmproxy calls were, no fault and no topology of its own
\* stays armed (executor.py 304-308, faults.py 189-197).
THEOREM FaultsCleared == Spec => []OwnFaultsCleared
<1>1. RInv => OwnFaultsCleared
  BY DEF RInv, FaultInv, OwnFaultsCleared
<1> QED
  BY <1>1, RunnerInv, PTL

\* No step runs while the operation its timeline waits for is under way
\* (faults.py 249-263, 282).
THEOREM Settled == Spec => []SettledBeforeStep
<1>1. RInv => SettledBeforeStep
  BY DEF RInv, OpInv, AtSteps, SettledBeforeStep
<1> QED
  BY <1>1, RunnerInv, PTL

\* A runner takes off another's toxic only by region_up, or by a name that it
\* tracks although the toxic it stood for was taken off or never there
\* (faults.py 37-38, 71-84, 108-119): never because its own POST was refused.
THEOREM OthersKept == Spec => OthersToxicsKept
<1>1. ASSUME RInv, NEW r \in Runners, NEW n \in Names, TakesAnothers(r, n)
      PROVE  (n = "region_down" /\ RegionUp(r)) \/ n \in astray[r]
  <2>1. toxics[n] \notin {r, NoOne} /\ toxics'[n] = NoOne
    BY <1>1 DEF TakesAnothers
  <2>2. ASSUME NEW m \in ToxicNames, ResetToxic(r, m) PROVE n \in astray[r]
    <3>1. toxics' = toxics \/ toxics' = [toxics EXCEPT ![m] = NoOne]
      BY <2>2 DEF ResetToxic, DeleteToxic, TakeOff, Deleted, Set, proxy
    <3>2. n = m
      BY <1>1, <2>1, <3>1 DEF RInv, TypeOK
    <3>3. n \in added[r]
      BY <1>1, <2>2, <3>2 DEF ResetToxic, RInv, TrackInv
    <3> QED
      BY <1>1, <2>1, <3>3 DEF RInv, TrackInv
  <2>3. ASSUME RegionUp(r) PROVE n = "region_down"
    <3>1. toxics' = toxics \/ toxics' = [toxics EXCEPT !["region_down"] = NoOne]
      BY <2>3 DEF RegionUp, DeleteToxic, TakeOff, Deleted, Set, proxy
    <3> QED
      BY <1>1, <2>1, <3>1 DEF RInv, TypeOK
  <2>4. ASSUME NEW m \in ToxicNames, AddToxic(r, m) PROVE FALSE
    <3>1. toxics' = toxics \/ toxics' = [toxics EXCEPT ![m] = r]
      BY <2>4 DEF AddToxic, Set
    <3> QED
      BY <1>1, <2>1, <3>1, RunnerAssumption DEF RInv, TypeOK
  <2>5. \/ toxics' = toxics \/ RegionUp(r)
        \/ \E m \in ToxicNames : ResetToxic(r, m) \/ AddToxic(r, m)
    BY <1>1 DEF TakesAnothers, Run, Timeline, BeginStep, RunStep, RunLoop, EndStep, Verdict,
       AwaitOperation, EndResetToxics, ResetProtocol, ResetFaults, Protocol, Post, Manage,
       SetupFixture, Teardown, services, proxy
  <2> QED
    BY <2>1, <2>2, <2>3, <2>4, <2>5
<1>2. RInv /\ [Next]_vars
        => [\A r \in Runners, n \in Names : TakesAnothers(r, n) =>
                \/ n = "region_down" /\ RegionUp(r)
                \/ n \in astray[r]]_vars
  BY <1>1
<1> QED
  BY <1>2, RunnerInv, PTL DEF Spec, OthersToxicsKept

\* Two executions that run at the same time differ in scenario, run or harness.
NamesApart == \A S \in JavaRunners, r, q \in Runners :
    ScenarioOf[r] = ScenarioOf[q] /\ RunIdOf[r] = RunIdOf[q] /\ (r \in S <=> q \in S) => r = q

FixtureInv == FixtureStays /\ RInv

\* While a runner is at its steps, the database that its fixture or a step of its
\* own created is there until a step of its own deletes it: the names of
\* siblings' databases differ (executor.py 403-409).
THEOREM FixtureKept == ASSUME NamesApart PROVE Spec => []FixtureStays
<1>1. Init => FixtureInv
  BY InitRInv DEF Init, FixtureInv, FixtureStays
<1>2. FixtureInv /\ [Next]_vars => FixtureInv'
  <2> SUFFICES ASSUME FixtureInv, [Next]_vars PROVE FixtureStays'
    BY StepRInv DEF FixtureInv
  <2> USE DEF FixtureInv
  <2>1. java' = java /\ java \in JavaRunners
    BY DEF Next, vars, RInv, TypeOK
  <2>2. \A q \in Runners : DbName(q)' = DbName(q)
    BY <2>1 DEF DbName, Sdk, Python
  <2>3. \A r, q \in Runners : DbName(r) = DbName(q) => r = q
    BY <2>1 DEF DbName, Sdk, Python, NamesApart
  <2>4. ASSUME NEW r \in Runners, Run(r) \/ Timeline(r) \/ EngineFinishes(r)
        PROVE  FixtureStays'
    <3>1. \A q \in Runners \ {r} : pc'[q] = pc[q] /\ created'[q] = created[q]
      BY <2>4, RunnerFrame DEF RInv
    <3>2. CASE SetupFixture(r)
      <4>1. PICK made \in BOOLEAN : /\ dbs' = IF made THEN dbs \cup {DbName(r)} ELSE dbs
                                    /\ created' = [created EXCEPT ![r] = made]
        BY <3>2 DEF SetupFixture, Set
      <4>2. created'[r] => DbName(r) \in dbs'
        BY <4>1 DEF RInv, TypeOK
      <4> QED
        BY <2>2, <3>1, <4>1, <4>2 DEF FixtureStays
    <3>3. CASE Teardown(r)
      <4>1. pc'[r] = "done" /\ (dbs' = dbs \ {DbName(r)} \/ dbs' = dbs)
        BY <3>3 DEF Teardown, Continue, Goto, RInv, TypeOK
      <4>2. ASSUME NEW q \in Runners, created'[q], pc'[q] \notin {"teardown", "done"}
            PROVE  DbName(q) \in dbs'
        <5>1. q # r
          BY <4>1, <4>2
        <5>2. DbName(q) \in dbs /\ DbName(q) # DbName(r)
          BY <2>3, <3>1, <4>2, <5>1 DEF FixtureStays
        <5> QED
          BY <4>1, <5>2
      <4> QED
        BY <2>2, <4>2 DEF FixtureStays
    <3>4. CASE RunStep(r) \/ RunLoop(r)
      <4>1. \/ UNCHANGED <<dbs, created>>
            \/ dbs' = dbs \cup {DbName(r)} /\ created' = [created EXCEPT ![r] = TRUE]
            \/ dbs' = dbs \ {DbName(r)} /\ created' = [created EXCEPT ![r] = FALSE]
        BY <3>4 DEF RunStep, RunLoop, StepDatabase, Set
      <4>2. pc[r] \notin {"teardown", "done"}
        BY <3>4 DEF RunStep, RunLoop
      <4>3. created'[r] => DbName(r) \in dbs'
        BY <4>1, <4>2 DEF RInv, TypeOK, FixtureStays
      <4>4. ASSUME NEW q \in Runners \ {r}, created'[q], pc'[q] \notin {"teardown", "done"}
            PROVE  DbName(q) \in dbs'
        <5>1. DbName(q) \in dbs /\ DbName(q) # DbName(r)
          BY <2>3, <3>1, <4>4 DEF FixtureStays
        <5> QED
          BY <4>1, <5>1
      <4> QED
        BY <2>2, <4>3, <4>4 DEF FixtureStays
    <3>5. CASE ~SetupFixture(r) /\ ~RunStep(r) /\ ~RunLoop(r) /\ ~Teardown(r)
      <4>1. dbs' = dbs /\ created' = created /\ (pc[r] \in {"teardown", "done"} => pc'[r] = pc[r])
        BY <2>4, <3>5 DEF Run, Timeline, BeginStep, RunStep, RunLoop, EndStep, Verdict,
           AwaitOperation, EndResetToxics, ResetProtocol, ResetFaults, Protocol, Post, Manage,
           RegionUp, EngineFinishes, AddToxic, ResetToxic, AtEvents, services, proxy, control, L7
      <4> QED
        BY <2>2, <3>1, <4>1 DEF FixtureStays
    <3> QED
      BY <3>2, <3>3, <3>4, <3>5
  <2>5. CASE Operator
    BY <2>2, <2>5, OperatorFrame DEF RInv, FixtureStays
  <2>6. CASE UNCHANGED vars
    BY <2>2, <2>6 DEF vars, services, proxy, control, FixtureStays
  <2> QED
    BY <2>4, <2>5, <2>6 DEF Next
<1>3. FixtureInv => FixtureStays
  BY DEF FixtureInv
<1> QED
  BY <1>1, <1>2, <1>3, PTL DEF Spec
=============================================================================
