--------------------------- MODULE ScenarioRunner ---------------------------
(***************************************************************************)
(* Scenario runners, Python (executor.py, faults.py) and Java              *)
(* (ScenarioExecutor.java and its controllers), on the services they share:*)
(* the Toxiproxy admin API, the mitmproxy control channel and the backend's*)
(* databases.  An operator may work on Toxiproxy at the same time.         *)
(*                                                                         *)
(* Each HTTP call is one step and ends in one of three ways: answered,     *)
(* refused (nothing happened) or lost (the service may have acted, the     *)
(* caller sees a timeout).  Python turns a refusal into ProxyError and     *)
(* lets a lost answer through as another exception; Java wraps both.       *)
(***************************************************************************)
EXTENDS Naturals, FiniteSets

CONSTANTS
    Runners,        \* scenario executions
    JavaRunners,    \* the sets of them that may be of the Java harness
    FaultRunners,   \* those with L4/L7 controllers: fault_injection, not mock
    Managed,        \* those with a management endpoint
    ScenarioOf, RunIdOf,  \* what names an "auto" database, with the SDK
    ToxicNames,     \* toxic names of the timeline verbs
    ProfileNames,   \* toxic names of the operator's profiles
    Steps,          \* steps of a scenario
    MaxEvents,      \* bound: timeline events of a scenario
    LoopCount,      \* count of a loop step
    MaxOperator,    \* bound: operator actions
    Hazards,        \* bound: call endings besides "ok": {"refused", "lost"}
    NoOne

ASSUME RunnerAssumption ==
    /\ JavaRunners \subseteq SUBSET Runners /\ FaultRunners \subseteq Runners
    /\ Managed \subseteq Runners
    /\ Steps \in [Runners -> Nat] /\ MaxEvents \in [Runners -> Nat] /\ LoopCount \in Nat
    /\ Hazards \subseteq {"refused", "lost"}
    /\ "region_down" \in ToxicNames
    /\ MaxOperator \in Nat /\ NoOne \notin ToxicNames \cup ProfileNames
    /\ NoOne \notin Runners /\ "operator" \notin Runners /\ NoOne # "operator"

VARIABLES
    \* the runners of the Java harness; the others are Python's
    java,
    \* services: who added each toxic, who armed each L7 feature, databases
    toxics, l7, dbs,
    \* the names a runner tracks although the toxic may not be its own: ghost
    astray,
    \* the operator: requests made, what it is doing, the toxics it listed
    operated, doing, listed,
    \* run(): program counter, steps done, loop iterations left, events fired
    pc, step, left, fired,
    \* some assertion failed; the status of the result
    failed, status,
    \* ProxyFaultController._added, the names its reset still has to delete,
    \* and where that reset returns to
    added, doomed, back,
    \* the engine's long-running operation this runner started
    op,
    \* the database is there, as far as the fixture and the steps know; a call of
    \* L4 / of L7 did not succeed
    created, trouble4, trouble7

operator == <<operated, doing, listed>>
proxy    == <<toxics, astray>>
services == <<proxy, l7, dbs, operator>>
control  == <<pc, step, left, fired>>
verdict  == <<failed, status>>
toxicity == <<added, doomed, back>>
troubles == <<trouble4, trouble7>>
vars == <<java, services, control, verdict, toxicity, op, created, troubles>>

L7 == {"fault", "topology"}
Names == ToxicNames \cup ProfileNames
PCs == {"fixture", "before", "step", "loop", "after",
        "await", "toxics", "fault", "topology", "teardown", "done"}
Python(r) == r \notin java
Sdk(r) == IF Python(r) THEN "python" ELSE "java"
Endings == {"ok"} \cup Hazards

Goto(r, where) == pc' = [pc EXCEPT ![r] = where]
Set(f, r, v)   == [f EXCEPT ![r] = v]
Owned(r)       == {n \in Names : toxics[n] = r}

\* Mutant: the SDK is not part of the name.
DbNameShared(r) == <<ScenarioOf[r], RunIdOf[r]>>

\* database: auto
DbName(r) == <<ScenarioOf[r], Sdk(r), RunIdOf[r]>>
-----------------------------------------------------------------------------
Init ==
    /\ java \in JavaRunners
    /\ toxics = [n \in Names |-> NoOne] /\ astray = [r \in Runners |-> {}]
    /\ l7 = [x \in L7 |-> NoOne]
    /\ dbs = {}
    /\ operated = 0 /\ doing = "idle" /\ listed = {}
    /\ pc = [r \in Runners |-> "fixture"]
    /\ step = [r \in Runners |-> 0] /\ left = [r \in Runners |-> 0]
    /\ fired = [r \in Runners |-> 0]
    /\ failed = [r \in Runners |-> FALSE] /\ status = [r \in Runners |-> "pass"]
    /\ added = [r \in Runners |-> {}] /\ doomed = [r \in Runners |-> {}]
    /\ back = [r \in Runners |-> "fault"]
    /\ op = [r \in Runners |-> "none"] /\ created = [r \in Runners |-> FALSE]
    /\ trouble4 = [r \in Runners |-> FALSE] /\ trouble7 = [r \in Runners |-> FALSE]

\* Where the finally starts: the L4 reset, when there are controllers.
Finally(r) == IF r \in FaultRunners THEN "toxics" ELSE "teardown"

\* Mutant: the controllers are reset at the end of the try, not in a finally.
RaiseSkippingReset(r) ==
    /\ status' = Set(status, r, "error")
    /\ Goto(r, "teardown")
    /\ UNCHANGED toxicity

\* An exception inside the try: status "error", then the finally.
Raise(r) ==
    /\ status' = Set(status, r, "error")
    /\ Goto(r, Finally(r))
    /\ doomed' = Set(doomed, r, added[r])
    /\ back' = Set(back, r, "fault")
    /\ UNCHANGED added

\* The exception of a call leaves the other bookkeeping alone.
RaiseFrom(r) == Raise(r) /\ UNCHANGED failed

Continue(r, where) == Goto(r, where) /\ UNCHANGED <<verdict, toxicity>>
-----------------------------------------------------------------------------
(* The fixture.                                                            *)

\* create_client, create_database and create_container, of which only the
\* second reaches what runners share.  A failed call is a result, not an
\* exception: Python raises for it (_require) ...
PythonFixture(r, made, ok) ==
    /\ Python(r) /\ ok => made
    /\ IF ok THEN Continue(r, "before") ELSE RaiseFrom(r)

\* ... and Java goes on.
JavaFixture(r) == ~Python(r) /\ Continue(r, "before")

SetupFixture(r) ==
    /\ pc[r] = "fixture"
    /\ \E made, ok \in BOOLEAN :
        /\ dbs' = IF made THEN dbs \cup {DbName(r)} ELSE dbs
        /\ created' = Set(created, r, made)
        /\ PythonFixture(r, made, ok) \/ JavaFixture(r)
    /\ UNCHANGED <<proxy, l7, operator, step, left, fired, op, troubles>>
-----------------------------------------------------------------------------
(* The steps.                                                              *)

\* Every step has an id here, so that its events fire.
BeginStep(r) ==
    /\ pc[r] = "before" /\ step[r] < Steps[r]
    /\ \/ Goto(r, "step") /\ UNCHANGED left
       \/ Goto(r, "loop") /\ left' = Set(left, r, LoopCount)
    /\ UNCHANGED <<services, step, fired, verdict, toxicity, op, created, troubles>>

\* create_database and delete_database may name the fixture's database; any
\* other is nobody else's here.
StepDatabase(r) ==
    \/ UNCHANGED <<dbs, created>>
    \/ dbs' = dbs \cup {DbName(r)} /\ created' = Set(created, r, TRUE)
    \/ dbs' = dbs \ {DbName(r)} /\ created' = Set(created, r, FALSE)

\* _run_step and the evaluation of its expectations; an action may raise.
RunStep(r) ==
    /\ pc[r] = "step" /\ StepDatabase(r)
    /\ \/ \E bad \in BOOLEAN : /\ failed' = Set(failed, r, failed[r] \/ bad)
                               /\ Goto(r, "after")
                               /\ UNCHANGED <<status, toxicity>>
       \/ RaiseFrom(r)
    /\ UNCHANGED <<proxy, l7, operator, step, left, fired, op, troubles>>

\* _run_loop: the nested steps are evaluated each time, and the loop itself
\* after its last iteration.
RunLoop(r) ==
    /\ pc[r] = "loop"
    /\ IF left[r] > 0 THEN StepDatabase(r) ELSE UNCHANGED <<dbs, created>>
    /\ \/ /\ \E bad \in BOOLEAN : failed' = Set(failed, r, failed[r] \/ bad)
          /\ IF left[r] > 0 THEN left' = Set(left, r, left[r] - 1) /\ UNCHANGED pc
                            ELSE Goto(r, "after") /\ UNCHANGED left
          /\ UNCHANGED <<status, toxicity>>
       \/ left[r] > 0 /\ RaiseFrom(r) /\ UNCHANGED left
    /\ UNCHANGED <<proxy, l7, operator, step, fired, op, troubles>>

EndStep(r) ==
    /\ pc[r] = "after"
    /\ step' = Set(step, r, step[r] + 1)
    /\ Continue(r, "before")
    /\ UNCHANGED <<services, left, fired, op, created, troubles>>

\* The loop over the steps is left: fail if any assertion failed.
Verdict(r) ==
    /\ pc[r] = "before" /\ step[r] = Steps[r]
    /\ status' = Set(status, r, IF failed[r] THEN "fail" ELSE "pass")
    /\ Goto(r, Finally(r))
    /\ doomed' = Set(doomed, r, added[r]) /\ back' = Set(back, r, "fault")
    /\ UNCHANGED <<services, step, left, fired, failed, added, op, created, troubles>>
-----------------------------------------------------------------------------
(* Timeline events, fired before and after a step.                         *)

AtEvents(r) == /\ pc[r] \in {"before", "after"} /\ fired[r] < MaxEvents[r]
               /\ pc[r] = "before" => step[r] < Steps[r]
               /\ fired' = Set(fired, r, fired[r] + 1)

\* A 404 of the POST (the proxy is not there) is success to Java's request.
JavaTold(r, e) == ~Python(r) /\ e = "missing"

\* Mutant: the name is tracked before the POST.
AddToxicTrackedFirst(r, n) ==
    /\ r \in FaultRunners /\ AtEvents(r)
    /\ added' = Set(added, r, added[r] \cup {n})
    /\ \/ /\ toxics[n] = NoOne /\ toxics' = Set(toxics, n, r)
          /\ UNCHANGED <<pc, verdict, doomed, back>>
       \/ /\ toxics[n] # NoOne /\ UNCHANGED <<toxics, failed>>
          /\ status' = Set(status, r, "error") /\ Goto(r, Finally(r))
          /\ doomed' = Set(doomed, r, added'[r]) /\ back' = Set(back, r, "fault")
    /\ UNCHANGED <<astray, l7, dbs, operator, step, left, op, created, troubles>>

\* POST a toxic.  A refusal, a name already taken (409) and, in Python, a
\* proxy that is not there raise.  (_added is a list: a name it holds twice is
\* once in the set, and stays in `astray`.)
AddToxic(r, n) ==
    /\ r \in FaultRunners /\ AtEvents(r)
    /\ \E e \in Endings \cup {"missing"} :
        LET works == e \in {"ok", "lost"} /\ toxics[n] = NoOne
            told  == (e = "ok" /\ works) \/ JavaTold(r, e)
        IN  /\ \/ works /\ toxics' = Set(toxics, n, r)
               \/ (~works \/ e = "lost") /\ UNCHANGED toxics
            /\ astray' = IF JavaTold(r, e) THEN Set(astray, r, astray[r] \cup {n})
                                           ELSE astray
            /\ IF told
               THEN /\ added' = Set(added, r, added[r] \cup {n})
                    /\ UNCHANGED <<pc, verdict, doomed, back, trouble4>>
               ELSE /\ RaiseFrom(r)
                    /\ trouble4' = Set(trouble4, r, trouble4[r] \/ e = "lost")
    /\ UNCHANGED <<l7, dbs, operator, step, left, op, created, trouble7>>

\* DELETE by name: whoever added it.
Deleted(n) == Set(toxics, n, NoOne)

\* The toxic is gone, and whoever added it may still track its name: all but
\* the runner, if any, that deletes it and forgets it.
TakeOff(n, forgets) ==
    /\ toxics' = Deleted(n)
    /\ astray' = [q \in Runners |-> IF toxics[n] = q /\ q \notin forgets
                                   THEN astray[q] \cup {n} ELSE astray[q]]

Escapes(r, e) == e = "lost" /\ Python(r)

\* One _remove_toxic.  Python's `except ProxyError` lets a lost answer
\* through, with the name still tracked; otherwise the name is forgotten,
\* whether or not the toxic is gone.
DeleteToxic(r, n, e) ==
    /\ \/ e # "refused" /\ TakeOff(n, IF Escapes(r, e) THEN {} ELSE {r})
       \/ e # "ok" /\ UNCHANGED proxy
    /\ trouble4' = Set(trouble4, r, trouble4[r] \/ e # "ok")

\* region_up removes region_down, tracked or not.
RegionUp(r) ==
    /\ r \in FaultRunners /\ AtEvents(r)
    /\ \E e \in Endings :
        /\ DeleteToxic(r, "region_down", e)
        /\ IF Escapes(r, e) THEN RaiseFrom(r)
           ELSE /\ added' = Set(added, r, added[r] \ {"region_down"})
                /\ UNCHANGED <<pc, verdict, doomed, back>>
    /\ UNCHANGED <<l7, dbs, operator, step, left, op, created, trouble7>>

\* reset_faults: the controller's reset() inside the timeline.
ResetFaults(r) ==
    /\ r \in FaultRunners /\ AtEvents(r)
    /\ doomed' = Set(doomed, r, added[r])
    /\ back' = Set(back, r, pc[r])
    /\ Goto(r, "toxics")
    /\ UNCHANGED <<services, step, left, verdict, added, op, created, troubles>>

\* A POST to the control paths of the addon: `who` arms feature x, NoOne clears it.
Post(r, x, who) ==
    /\ \E e \in Endings :
        /\ \/ e # "refused" /\ l7' = Set(l7, x, who)
           \/ e # "ok" /\ UNCHANGED l7
        /\ trouble7' = Set(trouble7, r, trouble7[r] \/ e = "lost")
        /\ IF e = "ok" THEN UNCHANGED <<pc, verdict, toxicity>> ELSE RaiseFrom(r)
    /\ UNCHANGED <<proxy, dbs, operator, step, left, op, created, trouble4>>

\* inject_fault, net_throttle_window, advertise_pkranges; and fault_clear,
\* throttle_window_clear, pkranges_clear.
Protocol(r) ==
    /\ r \in FaultRunners /\ AtEvents(r)
    /\ \E x \in L7, who \in {r, NoOne} : Post(r, x, who)

\* Mutant: the operation is not waited for.
ManageUnawaited(r) ==
    /\ r \in Managed /\ AtEvents(r)
    /\ op' = Set(op, r, "running") /\ UNCHANGED <<pc, verdict, toxicity>>
    /\ UNCHANGED <<services, step, left, created, troubles>>

\* The operation is polled unless the verb said wait: false or started none.
MaybeAwait(r) ==
    \/ /\ op' = Set(op, r, "running") /\ back' = Set(back, r, pc[r])
       /\ Goto(r, "await") /\ UNCHANGED <<verdict, added, doomed>>
    \/ UNCHANGED <<op, pc, verdict, toxicity>>

\* split_partition, merge_partitions: POST, then poll the operation.  With
\* wait: false, and for the other verbs, the POST is all.
Manage(r) ==
    /\ r \in Managed /\ AtEvents(r)
    /\ \/ MaybeAwait(r)
       \/ "lost" \in Hazards /\ op' = Set(op, r, "running") /\ RaiseFrom(r)
       \/ "refused" \in Hazards /\ UNCHANGED op /\ RaiseFrom(r)
    /\ UNCHANGED <<services, step, left, created, troubles>>

\* Mutant: polling has no deadline.
AwaitForever(r) ==
    /\ pc[r] = "await"
    /\ \/ op[r] = "succeeded" /\ Continue(r, back[r])
       \/ op[r] = "failed" /\ RaiseFrom(r)
    /\ UNCHANGED <<services, step, left, fired, op, created, troubles>>

\* One poll: terminal, or the deadline has passed, or the call failed; the
\* sleep between polls is the stuttering of this action.
AwaitOperation(r) ==
    /\ pc[r] = "await"
    /\ \/ /\ op[r] = "succeeded" /\ op' = Set(op, r, "none")
          /\ Continue(r, back[r])
       \/ op[r] # "succeeded" /\ RaiseFrom(r) /\ UNCHANGED op
       \/ Hazards # {} /\ RaiseFrom(r) /\ UNCHANGED op
    /\ UNCHANGED <<services, step, left, fired, created, troubles>>
-----------------------------------------------------------------------------
(* The finally.                                                            *)

\* reset() of the L4 controller, one tracked toxic at a time.  What escapes
\* it is logged in the finally and raised in the timeline.
ResetToxic(r, n) ==
    /\ pc[r] = "toxics" /\ n \in doomed[r]
    /\ \E e \in Endings :
        /\ DeleteToxic(r, n, e)
        /\ IF ~Escapes(r, e)
           THEN /\ added' = Set(added, r, added[r] \ {n})
                /\ doomed' = Set(doomed, r, doomed[r] \ {n})
                /\ UNCHANGED <<pc, verdict, back>>
           ELSE IF back[r] = "fault"
           THEN /\ doomed' = Set(doomed, r, {}) /\ Goto(r, "fault")
                /\ UNCHANGED <<verdict, added, back>>
           ELSE RaiseFrom(r)
    /\ UNCHANGED <<l7, dbs, operator, step, left, fired, op, created, trouble7>>

EndResetToxics(r) ==
    /\ pc[r] = "toxics" /\ doomed[r] = {}
    /\ Continue(r, back[r])
    /\ UNCHANGED <<services, step, left, fired, op, created, troubles>>

\* Mutant: the synthetic topology is left out of the reset.
NextResetFaultOnly(r, x, e) == "teardown"

\* After /__fault/clear comes /__topology/clear; an escaping exception of the
\* first skips the second.
NextReset(r, x, e) ==
    IF x = "fault" /\ ~Escapes(r, e) THEN "topology" ELSE "teardown"

\* reset() of the L7 controller.
ResetProtocol(r) ==
    /\ pc[r] \in L7
    /\ \E e \in Endings :
        /\ \/ e # "refused" /\ l7' = Set(l7, pc[r], NoOne)
           \/ e # "ok" /\ UNCHANGED l7
        /\ trouble7' = Set(trouble7, r, trouble7[r] \/ e # "ok")
        /\ Continue(r, NextReset(r, pc[r], e))
    /\ UNCHANGED <<proxy, dbs, operator, step, left, fired, op, created, trouble4>>

\* delete_database: a failure is a result nobody looks at.
Teardown(r) ==
    /\ pc[r] = "teardown"
    /\ \/ dbs' = dbs \ {DbName(r)}
       \/ UNCHANGED dbs
    /\ Continue(r, "done")
    /\ UNCHANGED <<proxy, l7, operator, step, left, fired, op, created, troubles>>
-----------------------------------------------------------------------------
(* The services on their own.                                              *)

\* Of an operation nobody waits for any more nothing is observed.
EngineFinishes(r) ==
    /\ op[r] = "running" /\ pc[r] = "await"
    /\ \E s \in {"succeeded", "failed"} : op' = Set(op, r, s)
    /\ UNCHANGED <<services, control, verdict, toxicity, created, troubles>>

Work(d) == doing' = d /\ UNCHANGED <<l7, dbs, control, verdict, toxicity,
                                      op, created, troubles>>

\* clear() and activate() GET the toxics of the proxy first.
OperatorLists ==
    /\ doing = "idle" /\ operated < MaxOperator /\ operated' = operated + 1
    /\ listed' = {m \in Names : toxics[m] # NoOne}
    /\ UNCHANGED proxy /\ Work("deletes")

\* DELETE each listed toxic; one that is gone meanwhile (404) ends the request.
OperatorDeletes(m) ==
    /\ doing = "deletes" /\ m \in listed
    /\ TakeOff(m, {}) /\ UNCHANGED operated
    /\ IF toxics[m] = NoOne THEN listed' = {} /\ Work("idle")
       ELSE listed' = listed \ {m} /\ Work("deletes")

\* clear() ends here; activate() POSTs the toxic of its profile.
OperatorEnds ==
    /\ doing = "deletes" /\ listed = {}
    /\ \/ UNCHANGED toxics
       \/ \E n \in ProfileNames :
            toxics[n] = NoOne /\ toxics' = Set(toxics, n, "operator")
    /\ UNCHANGED <<astray, operated, listed>> /\ Work("idle")
-----------------------------------------------------------------------------
Timeline(r) ==
    \/ \E n \in ToxicNames : AddToxic(r, n)
    \/ RegionUp(r) \/ ResetFaults(r) \/ Protocol(r) \/ Manage(r)

Run(r) ==
    \/ SetupFixture(r)
    \/ BeginStep(r) \/ RunStep(r) \/ RunLoop(r) \/ EndStep(r) \/ Verdict(r)
    \/ AwaitOperation(r)
    \/ \E n \in ToxicNames : ResetToxic(r, n)
    \/ EndResetToxics(r) \/ ResetProtocol(r) \/ Teardown(r)

Operator == OperatorLists \/ OperatorEnds \/ \E m \in Names : OperatorDeletes(m)

Next ==
    /\ \/ \E r \in Runners : Run(r) \/ Timeline(r) \/ EngineFinishes(r)
       \/ Operator
    /\ UNCHANGED java

Spec == Init /\ [][Next]_vars

\* A runner is one thread and every call of it has a timeout.
FairSpec == Spec /\ \A r \in Runners : WF_vars((Run(r) \/ Timeline(r)) /\ UNCHANGED java)
-----------------------------------------------------------------------------
TypeOK ==
    /\ java \in JavaRunners
    /\ toxics \in [Names -> Runners \cup {"operator", NoOne}]
    /\ astray \in [Runners -> SUBSET Names] /\ l7 \in [L7 -> Runners \cup {NoOne}]
    /\ dbs \subseteq {DbName(r) : r \in Runners}
    /\ operated \in 0..MaxOperator /\ doing \in {"idle", "deletes"}
    /\ listed \subseteq Names
    /\ pc \in [Runners -> PCs] /\ step \in [Runners -> Nat]
    /\ left \in [Runners -> 0..LoopCount] /\ fired \in [Runners -> Nat]
    /\ failed \in [Runners -> BOOLEAN]
    /\ status \in [Runners -> {"pass", "fail", "error"}]
    /\ added \in [Runners -> SUBSET ToxicNames]
    /\ doomed \in [Runners -> SUBSET ToxicNames]
    /\ back \in [Runners -> {"fault", "before", "after"}]
    /\ op \in [Runners -> {"none", "running", "succeeded", "failed"}]
    /\ created \in [Runners -> BOOLEAN]
    /\ trouble4 \in [Runners -> BOOLEAN] /\ trouble7 \in [Runners -> BOOLEAN]

\* A runner whose Toxiproxy calls were all answered leaves none of its toxics
\* behind, whatever ended its scenario (executor.py 298-303, faults.py 115-119).
OwnToxicsRemoved ==
    \A r \in Runners : pc[r] = "done" /\ ~trouble4[r] => Owned(r) = {}

\* A runner whose mitmproxy calls were all answered leaves no fault and no
\* topology of its own armed, even when its L4 reset failed (executor.py
\* 304-308, faults.py 189-197).
OwnFaultsCleared ==
    \A r \in Runners : pc[r] = "done" /\ ~trouble7[r] => \A x \in L7 : l7[x] # r

\* While a runner is at its steps, the database its fixture or a step of its own
\* created is there until a step of its own deletes it: no sibling's step or
\* teardown takes it (executor.py 403-409).
FixtureStays ==
    \A r \in Runners :
        created[r] /\ pc[r] \notin {"teardown", "done"} => DbName(r) \in dbs

\* No step of a scenario runs while the topology operation its timeline waits
\* for is under way (faults.py 249-263, 282).
SettledBeforeStep ==
    \A r \in Runners : pc[r] \in {"step", "loop"} => op[r] # "running"

\* Runner r takes off a toxic that an operator or another runner added.
TakesAnothers(r, n) ==
    (Run(r) \/ Timeline(r)) /\ toxics[n] \notin {r, NoOne} /\ toxics'[n] = NoOne

\* A runner removes "exactly those" toxics it added "and nothing an operator
\* added out of band" (faults.py 37-38), with two exceptions, both in the code:
\* region_up deletes region_down by name, tracked or not (108-109); and a name
\* that r still tracks after its toxic was taken off, or that Java tracks after
\* a 404, may be another's by now.  A POST that was refused never counts as r's.
OthersToxicsKept ==
    [][\A r \in Runners, n \in Names : TakesAnothers(r, n) =>
            \/ n = "region_down" /\ RegionUp(r)
            \/ n \in astray[r]]_vars

\* Every runner reports.
RunnerEnds == \A r \in Runners : <>(pc[r] = "done")
=============================================================================
