--------------------------- MODULE SharedProxies ---------------------------
(***************************************************************************)
(* The orchestrator and its fault runners on the proxies they share, call  *)
(* by call: under _fault_lock a job resets Toxiproxy and the mitmproxy     *)
(* (main.py _reset_shared_proxies, proxy_manager.clear and clear_mitm) and *)
(* then launches a runner (faults.py), which may be killed between any two *)
(* of its calls.  The operator's requests take no lock.                    *)
(*                                                                         *)
(* A call succeeds, is refused (nothing happened), or is given up by its   *)
(* caller after 10 s, while the proxy may still carry it out, at once or   *)
(* much later.  RunExecution has this reset as one step, ScenarioRunner    *)
(* the rest of the runner.                                                 *)
(***************************************************************************)
EXTENDS Naturals

CONSTANTS
    Runners,       \* fault jobs, and the runners they launch
    ToxicNames,    \* toxics of the timeline verbs
    ProfileNames,  \* toxics of the operator's profiles
    Operator,      \* the user of the proxy panel
    NoOne,
    MaxLost,       \* bound: calls that are given up
    MaxOperator    \* bound: requests of the operator

L7 == {"fault", "topology"}

ASSUME ProxyAssumption ==
    /\ ToxicNames \cap ProfileNames = {}
    /\ L7 \cap (ToxicNames \cup ProfileNames) = {}
    /\ Operator \notin Runners /\ NoOne \notin Runners \cup {Operator}
    /\ MaxLost \in Nat /\ MaxOperator \in Nat

Names   == ToxicNames \cup ProfileNames
Clients == Runners \cup {Operator}
Calls   == [by : Clients, what : {"put", "drop"}, on : Names \cup L7]

VARIABLES
    lock,     \* _fault_lock
    pc,       \* a job in its reset, then its runner; the operator's request
    todo,     \* toxics that proxy_manager.clear listed and has not deleted
    added,    \* ProxyFaultController._added of a runner
    holds,    \* who put the toxic or the L7 feature that is on the proxies
    stray,    \* calls that were given up and are not carried out yet
    lost,     \* how many were given up
    operated, \* requests the operator made
    trouble,  \* history: some call of the job's reset did not succeed
    late      \* history: who had a stray call when a later reset began

local   == <<lock, pc, todo, added>>
proxies == <<holds, stray, lost>>
history == <<trouble, late>>
vars    == <<local, proxies, operated, history>>

ResetPCs  == {"list", "delete", "mitm fault", "mitm topology"}
RunnerPCs == {"live", "toxics", "fault", "topology"}
PCs == {"waiting", "ended", "gone"} \cup ResetPCs \cup RunnerPCs

Set(f, k, v)   == [f EXCEPT ![k] = v]
Goto(k, where) == pc' = Set(pc, k, where)
Owned(k)       == {t \in Names \cup L7 : holds[t] = k}

Init ==
    /\ lock = NoOne /\ pc = [k \in Clients |-> "waiting"]
    /\ todo = [k \in Clients |-> {}] /\ added = [r \in Runners |-> {}]
    /\ holds = [t \in Names \cup L7 |-> NoOne]
    /\ stray = {} /\ lost = 0 /\ operated = 0
    /\ trouble = [r \in Runners |-> FALSE] /\ late = {}
-----------------------------------------------------------------------------
(* Calls.                                                                  *)

Put(k, t)  == [by |-> k, what |-> "put", on |-> t]
Drop(k, t) == [by |-> k, what |-> "drop", on |-> t]

\* A toxic's name must be free (409) and be there to be deleted (404); on the
\* mitmproxy a newer fault replaces the older one.
Works(q) == q.on \in Names => (q.what = "put" <=> holds[q.on] = NoOne)
Carried(q) == IF Works(q) THEN Set(holds, q.on, IF q.what = "put" THEN q.by ELSE NoOne)
              ELSE holds

Succeeds(q) == Works(q) /\ holds' = Carried(q) /\ UNCHANGED <<stray, lost>>
Refused     == UNCHANGED proxies
GivenUp     == lost < MaxLost /\ lost' = lost + 1 /\ UNCHANGED holds
Loses(q)    == GivenUp /\ stray' = stray \cup {q}

\* A proxy carries out a call nobody waits for any more.
ServeStray(q) ==
    /\ q \in stray
    /\ stray' = stray \ {q} /\ holds' = Carried(q)
    /\ UNCHANGED <<local, lost, operated, history>>
-----------------------------------------------------------------------------
(* The reset of a fault job.                                               *)

\* Mutant: the lock is not asked for.
BeginUnlocked(r) ==
    /\ pc[r] = "waiting" /\ lock' = r
    /\ late' = late \cup {q.by : q \in stray}
    /\ Goto(r, "list")
    /\ UNCHANGED <<todo, added, proxies, operated, trouble>>

\* _run_job enters `with _fault_lock`.
Begin(r) ==
    /\ pc[r] = "waiting" /\ lock = NoOne
    /\ lock' = r
    /\ late' = late \cup {q.by : q \in stray}
    /\ Goto(r, "list")
    /\ UNCHANGED <<todo, added, proxies, operated, trouble>>

\* A ProxyError ends this clear() and is ignored; any other exception leaves
\* _run_job, where no runner is launched.
Ignored(r) == /\ Goto(r, "mitm fault") /\ todo' = Set(todo, r, {})
              /\ trouble' = Set(trouble, r, TRUE)
Raised(r) == Goto(r, "ended") /\ todo' = Set(todo, r, {}) /\ UNCHANGED trouble

\* clear(): GET the toxics ...
List(r) ==
    /\ pc[r] = "list"
    /\ \/ /\ todo' = Set(todo, r, {n \in Names : holds[n] # NoOne})
          /\ Goto(r, "delete") /\ UNCHANGED <<proxies, trouble>>
       \/ Refused /\ Ignored(r)
       \/ GivenUp /\ UNCHANGED stray /\ Raised(r)
    /\ UNCHANGED <<lock, added, operated, late>>

\* ... and DELETE each.  One that is gone meanwhile is a ProxyError too.
Delete(r, n) ==
    /\ pc[r] = "delete" /\ n \in todo[r]
    /\ \/ /\ Succeeds(Drop(r, n)) /\ todo' = Set(todo, r, todo[r] \ {n})
          /\ UNCHANGED <<pc, trouble>>
       \/ Refused /\ Ignored(r)
       \/ Loses(Drop(r, n)) /\ Raised(r)
    /\ UNCHANGED <<lock, added, operated, late>>

Deleted(r) ==
    /\ pc[r] = "delete" /\ todo[r] = {}
    /\ Goto(r, "mitm fault")
    /\ UNCHANGED <<lock, todo, added, proxies, operated, history>>

\* clear_mitm: what becomes of one POST does not stop the next; without a
\* mitm_endpoint nothing is posted.  The runner is launched after the second.
ClearMitm(r, x, next) ==
    /\ \/ Succeeds(Drop(r, x)) /\ UNCHANGED trouble
       \/ (Refused \/ Loses(Drop(r, x))) /\ trouble' = Set(trouble, r, TRUE)
    /\ Goto(r, next)
    /\ UNCHANGED <<lock, todo, added, operated, late>>

\* Mutant: the synthetic topology is left out.
ClearFaultOnly(r) == pc[r] = "mitm fault" /\ ClearMitm(r, "fault", "live")

ClearFault(r) == pc[r] = "mitm fault" /\ ClearMitm(r, "fault", "mitm topology")

ClearTopology(r) == pc[r] = "mitm topology" /\ ClearMitm(r, "topology", "live")
-----------------------------------------------------------------------------
(* The runner, of which its calls on the proxies are kept, in any order.    *)

Unlogged == UNCHANGED <<lock, todo, operated, history>>

\* A verb that adds a toxic or arms an L7 feature; what fails raises, and the
\* toxic of a lost POST is not tracked.
Arm(r, t) ==
    /\ pc[r] = "live"
    /\ \/ /\ Succeeds(Put(r, t))
          /\ added' = Set(added, r, added[r] \cup ({t} \cap Names))
          /\ UNCHANGED pc
       \/ (Refused \/ Loses(Put(r, t))) /\ Goto(r, "toxics") /\ UNCHANGED added
    /\ Unlogged

\* fault_clear, throttle_window_clear, pkranges_clear.
Disarm(r, x) ==
    /\ pc[r] = "live"
    /\ \/ Succeeds(Drop(r, x)) /\ UNCHANGED pc
       \/ (Refused \/ Loses(Drop(r, x))) /\ Goto(r, "toxics")
    /\ UNCHANGED added /\ Unlogged

\* _remove_toxic: refused or not, the name is forgotten; after a lost answer
\* Python's exception passes (the name stays) and Java's does not.
Remove(r, n, raised) ==
    \/ /\ Succeeds(Drop(r, n)) \/ Refused \/ Loses(Drop(r, n))
       /\ added' = Set(added, r, added[r] \ {n}) /\ UNCHANGED pc
    \/ Loses(Drop(r, n)) /\ Goto(r, raised) /\ UNCHANGED added

\* region_up; reset_faults is a sequence of such steps.
Withdraw(r, n) == pc[r] = "live" /\ Remove(r, n, "toxics") /\ Unlogged

\* The try ends, in one way or another: the finally begins.
EndScenario(r) ==
    /\ pc[r] = "live" /\ Goto(r, "toxics")
    /\ UNCHANGED <<added, proxies>> /\ Unlogged

ResetToxic(r, n) ==
    /\ pc[r] = "toxics" /\ n \in added[r] /\ Remove(r, n, "fault") /\ Unlogged

EndResetToxics(r) ==
    /\ pc[r] = "toxics" /\ added[r] = {} /\ Goto(r, "fault")
    /\ UNCHANGED <<added, proxies>> /\ Unlogged

\* reset() of the L7 controller: Python skips the second POST when the answer
\* to the first is lost.
ResetProtocol(r) ==
    /\ pc[r] \in L7
    /\ \/ /\ Succeeds(Drop(r, pc[r])) \/ Refused \/ Loses(Drop(r, pc[r]))
          /\ Goto(r, IF pc[r] = "fault" THEN "topology" ELSE "ended")
       \/ Loses(Drop(r, pc[r])) /\ Goto(r, "ended")
    /\ UNCHANGED added /\ Unlogged

\* Killed by a cancel or at its timeout, or crashed; a call it waited for is
\* one that was given up just before.
Dies(r) ==
    /\ pc[r] \in RunnerPCs /\ Goto(r, "ended")
    /\ UNCHANGED <<added, proxies>> /\ Unlogged

\* Mutant: an exception of the reset keeps the lock.
LeaveLocked(r) ==
    /\ pc[r] = "ended" /\ Goto(r, "gone")
    /\ UNCHANGED <<lock, todo, added, proxies, operated, history>>

\* The with-block is left, by return or exception.
Leave(r) ==
    /\ pc[r] = "ended" /\ Goto(r, "gone")
    /\ lock' = NoOne
    /\ UNCHANGED <<todo, added, proxies, operated, history>>
-----------------------------------------------------------------------------
(* The operator: /api/proxy/clear and /api/proxy/activate.                 *)

OperatorLists ==
    /\ pc[Operator] = "waiting" /\ operated < MaxOperator
    /\ operated' = operated + 1
    /\ todo' = Set(todo, Operator, {n \in Names : holds[n] # NoOne})
    /\ Goto(Operator, "delete")
    /\ UNCHANGED <<lock, added, proxies, history>>

OperatorDeletes(n) ==
    /\ pc[Operator] = "delete" /\ n \in todo[Operator]
    /\ \/ /\ Succeeds(Drop(Operator, n))
          /\ todo' = Set(todo, Operator, todo[Operator] \ {n}) /\ UNCHANGED pc
       \/ /\ Refused \/ Loses(Drop(Operator, n))
          /\ todo' = Set(todo, Operator, {}) /\ Goto(Operator, "waiting")
    /\ UNCHANGED <<lock, added, operated, history>>

\* clear() is done; activate() POSTs its profile's toxic.
OperatorEnds ==
    /\ pc[Operator] = "delete" /\ todo[Operator] = {}
    /\ \/ Refused
       \/ \E n \in ProfileNames : Succeeds(Put(Operator, n)) \/ Loses(Put(Operator, n))
    /\ Goto(Operator, "waiting")
    /\ UNCHANGED <<lock, todo, added, operated, history>>
-----------------------------------------------------------------------------
Reset(r) == \/ Begin(r) \/ List(r) \/ Deleted(r) \/ ClearFault(r) \/ ClearTopology(r)
            \/ \E n \in Names : Delete(r, n)

Runner(r) ==
    \/ \E t \in ToxicNames \cup L7 : Arm(r, t)
    \/ \E x \in L7 : Disarm(r, x)
    \/ \E n \in ToxicNames : Withdraw(r, n) \/ ResetToxic(r, n)
    \/ EndScenario(r) \/ EndResetToxics(r) \/ ResetProtocol(r)

Panel == OperatorLists \/ OperatorEnds \/ \E n \in Names : OperatorDeletes(n)

Next ==
    \/ \E r \in Runners : Reset(r) \/ Runner(r) \/ Dies(r) \/ Leave(r)
    \/ Panel
    \/ \E q \in stray : ServeStray(q)

Spec == Init /\ [][Next]_vars

\* The worker goes on and its runner's time ends; nothing else is promised.
FairSpec ==
    /\ Spec
    /\ \A r \in Runners : WF_vars(Reset(r)) /\ WF_vars(Dies(r)) /\ WF_vars(Leave(r))
-----------------------------------------------------------------------------
TypeOK ==
    /\ lock \in Runners \cup {NoOne}
    /\ pc \in [Clients -> PCs]
    /\ todo \in [Clients -> SUBSET Names]
    /\ added \in [Runners -> SUBSET Names]
    /\ holds \in [Names \cup L7 -> Clients \cup {NoOne}]
    /\ stray \subseteq Calls
    /\ lost \in 0..MaxLost /\ operated \in 0..MaxOperator
    /\ trouble \in [Runners -> BOOLEAN] /\ late \subseteq Clients

\* The runners whose faults the job of r has to meet no more.
Earlier(r) == Runners \ (late \cup {r})

\* A runner that is launched after a reset whose calls all succeeded meets no
\* fault of an earlier runner, however that one ended: killed between two
\* calls, its toxic untracked after a lost answer, its topology left armed by
\* a skipped clear, with an operator at work beside it (main.py 115-120).
\* Excepted is who had a call still under way when the reset began.
CleanStart ==
    \A r \in Runners : pc[r] \in RunnerPCs /\ ~trouble[r]
        => \A k \in Earlier(r) : Owned(k) = {}

\* Every fault job gets the proxies and gives them back, although calls are
\* refused or lost and its runner hangs (main.py 370-378).
EveryJobGoes == \A r \in Runners : <>(pc[r] = "gone" /\ lock # r)
-----------------------------------------------------------------------------
(* The inductive invariant behind CleanStart.                              *)

\* The lock is held by the one job between its reset and its runner's end.
LockInv == \A r \in Runners : lock = r <=> pc[r] \notin {"waiting", "gone"}

\* Calls still under way are the job's own, the operator's or a latecomer's.
StrayInv == \A r \in Runners : lock = r =>
    \A q \in stray : q.by \in late \cup {r, Operator}

\* What the reset has done so far stays done.
FreeOf(r, T) == \A t \in T : holds[t] \notin Earlier(r)
Progress(r) ==
    /\ pc[r] = "delete" => FreeOf(r, Names \ todo[r])
    /\ pc[r] = "mitm fault" => FreeOf(r, Names)
    /\ pc[r] = "mitm topology" => FreeOf(r, Names \cup {"fault"})
    /\ pc[r] \in RunnerPCs => FreeOf(r, Names \cup L7)
ResetInv == \A r \in Runners : trouble[r] \/ Progress(r)

IInv == TypeOK /\ LockInv /\ StrayInv /\ ResetInv
=============================================================================
