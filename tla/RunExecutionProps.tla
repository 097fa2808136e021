------------------------- MODULE RunExecutionProps -------------------------
(***************************************************************************)
(* What the run engine must guarantee, and what the comments of main.py    *)
(* say of it.                                                              *)
(***************************************************************************)
EXTENDS RunExecution

TypeOK ==
    /\ db \in [Runs -> RunStatus]
    /\ rows \in [Runs -> [Rows -> RowStatus]]
    /\ control \in SUBSET Runs
    /\ cancelled \in [Runs -> BOOLEAN]
    /\ states \in [Runs -> [Keys -> StateNames]]
    /\ procs \in SUBSET Jobs
    /\ col \in [Runs -> ColPCs]
    /\ verdict \in [Runs -> RunStatus]
    /\ queue \in Seq(Jobs)
    /\ jpc \in [Jobs -> JobPCs]
    /\ result \in [Jobs -> Results]
    /\ lock \in Jobs \cup {NoJob}
    /\ proc \in [Jobs -> ProcStates]
    /\ armed \in [Jobs -> SUBSET Proxies]
    /\ canceller \in [Runs -> {"idle", "found", "flagged", "killing"}]
    /\ targets \in [Runs -> SUBSET Jobs]
    /\ answer \in [Runs -> {"none", "inactive", "cancelling"}]
    /\ env \in Urls \cup {NoUrl}
    /\ url \in [Runs -> Urls \cup {NoUrl}]
    /\ cleared \in [Jobs -> Urls \cup {NoUrl}]
    /\ site \in [Jobs -> Urls \cup {NoUrl}]

\* A runner some worker waits for, and one its orchestrator left behind.
Attended(j) == Live(j) /\ ~Lost(j)
LeftBehind(j) == Lost(j) /\ proc[j] # "none"

\* No two fault scenarios have an attended runner at the same time: the fault
\* lock spans everything from the reset to the runner's end (main.py 43-50, 370).
OneFaultRunner ==
    \A j, k \in FaultJobs : Attended(j) /\ Attended(k) => j = k

\* While a fault scenario's runner is attended, it meets no fault of another
\* scenario on the proxies it uses, even after a runner was killed or crashed
\* with faults armed or the orchestrator died: the reset under the lock repairs
\* it (main.py 111-133).  Only a runner left behind may still arm one.
NoFaultBleed ==
    \A j \in FaultJobs, k \in Jobs :
        Attended(j) /\ k # j /\ ~LeftBehind(k) =>
            \A p \in armed[k] : ~FoundAt(k, p, site[j])

\* The reset of a fault job spoke to the very Toxiproxy its runner arms: the
\* URL goes to one through the environment, which other resets rewrite, and to
\* the other through its config or a later copy of the environment
\* (main.py 122-126, runner_dispatcher.py 179, faults.py 43).
ResetReachesOwnProxy ==
    \A j \in FaultJobs : Attended(j) => site[j] = cleared[j]

\* A runner killed by a cancel is never reported as an error: its result, once
\* there is one, is 'cancelled' (runner_dispatcher.py 196, 203-205).
NoSpuriousError ==
    \A j \in Jobs : proc[j] = "killed" /\ result[j] # "none"
                        => result[j] = "cancelled"

\* A run that reached its final status has a row for every pair of its sweep
\* and a status that agrees with its rows (main.py 338-344).
FinalStatusAgrees ==
    \A r \in Runs : db[r] \in Terminal =>
        /\ \A k \in RowsOf(r) : rows[r][k] # "none"
        /\ db[r] = "completed" => \A k \in RowsOf(r) : rows[r][k] # "cancelled"

\* A run that reached its final status has no runner left, registered or not:
\* its status is not reported before its work is over.
NothingLiveAfterFinish ==
    \A r \in Runs : db[r] \in Terminal =>
        \A j \in JobsOf(r) : ~Live(j) /\ j \notin procs

\* A pair that shares its display key with no other is shown as running while
\* its runner is attended, so the dashboard's heartbeat tells what is in flight
\* (main.py 54-63, 375, 380, 383).
LiveIsShownRunning ==
    \A j \in Jobs :
        Attended(j) /\ (\A k \in PlannedOf(RunOf[j]) : KeyOf[k] = KeyOf[j] => k = j)
            => states[RunOf[j]][KeyOf[j]] = "running"

\* The faults an attended fault runner armed are not removed under it by another
\* job's reset or finally (main.py 43-50: the critical section is the reset
\* and the dispatch), while no fault runner of a dead orchestrator is about.
FaultsUndisturbed ==
    [][\A j \in FaultJobs :
          /\ Attended(j) /\ Attended(j)'
          /\ \A k \in FaultJobs : Lost(k) => ~Live(k)
          => armed[j] \subseteq armed'[j]]_vars

\* The run engine implements the lifecycle the API promises.
Lifecycle == INSTANCE RunLifecycle
                 WITH open <- {r \in Runs : col[r] \in {"expand", "active", "verdict"}}
LifecycleSpec == Lifecycle!Spec

\* Read through the API, the run engine is RunView, on which the dashboard
\* rests: a cell is neither saved nor in flight only between its job's finally
\* and the collector's save, and no result is saved of a job still shown as
\* running (main.py 233-249, 338-340, 383).  So where every pair of a sweep has
\* its own display key.
Told(r) ==
    LET cells == {KeyOf[j] : j \in JobsOf(r)} IN
    [cells   |-> cells,
     status  |-> IF db[r] \in Terminal THEN "ended" ELSE "running",
     saved   |-> {KeyOf[j] : j \in {k \in JobsOf(r) : rows[r][RowOf[k]] # "none"}},
     control |-> IF r \in control THEN "published"
                 ELSE IF col[r] = "expand" THEN "none" ELSE "dropped",
     live    |-> IF r \in control
                 THEN {c \in Keys : states[r][c] \in {"queued", "running"}}
                 ELSE IF col[r] = "expand" THEN cells ELSE {},
     cancelled |-> r \in control /\ cancelled[r]]

View == INSTANCE RunView
            WITH Cells <- Keys,
                 srv <- [r \in {q \in Runs : db[q] # "none"} |-> Told(r)]
ViewSpec == View!Spec

\* An exception of a job reached the collector or will, or the process that
\* had the run died: memory knows no result of it.
Broken(r) ==
    \/ \E j \in JobsOf(r) : result[j] \in {"malformed", "raised"}
    \/ col[r] = "closed" /\ \A j \in JobsOf(r) : result[j] = "none"

\* A cancel that arrives while results are still being collected decides the
\* run's final status, however the jobs end (main.py 343), unless the run
\* breaks.
CancelIsHonoured ==
    \A r \in Runs : (cancelled[r] /\ col[r] = "active")
                       ~> (db[r] = "cancelled" \/ Broken(r))

\* Every run that was started reaches a final status although runners hang,
\* crash and are cancelled, also a run over the orphans of a dead orchestrator;
\* only an exception that escapes one of its own jobs, or the death of its
\* process, leaves it "running" for good (main.py 300-347).
RunFinishes ==
    \A r \in Runs : db[r] = "running" ~> (db[r] \in Terminal \/ Broken(r))
-----------------------------------------------------------------------------
(* The inductive invariant behind the safety properties.                   *)

\* The lock is held by exactly the fault job that is inside the with-block;
\* only fault jobs ask for it.
LockInv == \A j \in Jobs :
    /\ lock = j <=> j \in FaultJobs /\ jpc[j] \in LockedPCs
    /\ jpc[j] \in {"lockwait", "locked", "resetting"} => j \in FaultJobs

RunnerPCs == {"spawned", "communicating", "timedout"}
EndPCs == {"returned", "left", "finished", "collected"}

\* A runner lives only between its Popen and the end of communicate(), is
\* registered while its worker waits, and has a result only afterwards.
DispatchInv == \A j \in Jobs :
    /\ Live(j) => jpc[j] \in RunnerPCs \cup {"lost"}
    /\ proc[j] # "none" =>
           jpc[j] \in RunnerPCs \cup {"leaving", "judging", "lost"} \cup EndPCs
    /\ j \in procs <=> jpc[j] \in {"communicating", "timedout", "leaving"}
    /\ result[j] # "none" => jpc[j] \in {"leaving"} \cup EndPCs
    /\ result[j] = "cancelled" => Flagged(j)
    /\ armed[j] # {} => j \in FaultJobs

\* A cancel flags the run before it kills, and kills that run's runners only.
CancelInv ==
    /\ \A r \in Runs :
        /\ canceller[r] # "idle" => db[r] # "none"
        /\ canceller[r] \in {"flagged", "killing"} => cancelled[r]
        /\ targets[r] # {} => canceller[r] = "killing"
        /\ targets[r] \subseteq JobsOf(r)
    /\ \A j \in Jobs : proc[j] = "killed" =>
        /\ Flagged(j)
        /\ result[j] # "none" => result[j] = "cancelled"

\* Between its reset and the end of its runner a fault job's Toxiproxy is the
\* one the reset spoke to: only a reset writes the environment.
UrlInv ==
    /\ \A j \in FaultJobs : jpc[j] = "dispatching" => cleared[j] = AdminUrl(j)
    /\ \A j \in FaultJobs : jpc[j] \in RunnerPCs => cleared[j] = site[j]

\* With every proxy in reach of the reset, the reset's effect lasts until the
\* runner is gone: nobody else can arm a fault meanwhile.
CleanInv == Reachable = Proxies =>
    \A j \in FaultJobs, k \in Jobs :
        k # j /\ ~LeftBehind(k) /\ jpc[j] \in {"dispatching"} \cup RunnerPCs
            => \A p \in armed[k] : ~FoundAt(k, p, cleared[j])

\* The collector's phases against the jobs and the rows of its run.
CollectorInv == \A r \in Runs :
    /\ db[r] = "none" <=> col[r] = "idle"
    /\ col[r] \in {"expand", "active", "verdict"} => db[r] = "running"
    /\ col[r] = "idle" => /\ \A j \in JobsOf(r) : jpc[j] = "new"
                          /\ \A k \in Rows : rows[r][k] = "none"
    /\ col[r] = "expand" => \A j \in PlannedOf(r) : jpc[j] = "new"
    /\ col[r] \in {"active", "verdict"} =>
        \A j \in JobsOf(r) \cap SkippedJobs : jpc[j] = "skipped"
    /\ col[r] \in {"expand", "active", "verdict"} => \A j \in JobsOf(r) :
        jpc[j] \in {"skipped", "collected"} => rows[r][RowOf[j]] # "none"
    /\ col[r] = "verdict" =>
        /\ verdict[r] \in Terminal
        /\ \A j \in PlannedOf(r) : jpc[j] = "collected"
        /\ verdict[r] = "cancelled" => cancelled[r]
        /\ verdict[r] = "completed" => \A k \in RowsOf(r) : rows[r][k] # "cancelled"
    /\ col[r] \in {"expand", "active", "verdict"} =>
           \A k \in Rows : rows[r][k] = "cancelled" => cancelled[r]
    /\ db[r] \in Terminal =>
           \A j \in JobsOf(r) : jpc[j] \in {"skipped", "collected"}

SkippedInv == \A j \in SkippedJobs : jpc[j] \in {"new", "skipped", "lost"}

IInv == /\ TypeOK /\ LockInv /\ DispatchInv /\ CancelInv /\ UrlInv /\ CleanInv
        /\ CollectorInv /\ SkippedInv /\ FinalStatusAgrees
-----------------------------------------------------------------------------
(* Statements of the code's own comments that the code does not keep.      *)

\* RunControl.cancel, main.py 78: "Flag cancellation and kill every live runner
\* subprocess."
CancelKillsEveryRunner ==
    \A r \in Runs : answer[r] = "cancelling" => \A j \in JobsOf(r) : ~Live(j)

\* main.py 48: "Non-fault scenarios are unaffected and still run concurrently":
\* none waits for a worker while workers are parked on the fault lock.
NonFaultUnaffected ==
    \A j \in Jobs \ FaultJobs :
        jpc[j] = "queued" => ~(/\ Cardinality(Busy) = PoolSize
                               /\ \E k \in Busy : jpc[k] = "lockwait" /\ ~LockFree)
=============================================================================
