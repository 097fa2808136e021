--------------------------- MODULE RunExecution ---------------------------
(***************************************************************************)
(* The orchestrator's run engine: src/orchestrator/app/main.py (create_run,*)
(* _execute_run, _run_job, cancel_run, RunControl, _reset_shared_proxies)  *)
(* with runner_dispatcher.dispatch, the two tables of store.py and the     *)
(* toxiproxy_url of config_resolver.resolve.                               *)
(*                                                                         *)
(* Threads: one collector per run (_execute_run), the PoolSize workers of  *)
(* the shared executor (one job each, _run_job), one API thread per cancel *)
(* request, and one subprocess per dispatched job (the runner), which may  *)
(* arm faults on the shared proxies, end, crash or hang.  The process may  *)
(* die and be started again over the same store, proxies and runners.      *)
(***************************************************************************)
EXTENDS Naturals, Sequences, FiniteSets

CONSTANTS
    Runs,          \* run ids
    Jobs,          \* the (scenario, sdk) pairs of all sweeps
    RunOf,         \* the run a pair belongs to
    Rows, RowOf,   \* run_results key (scenario, sdk name, version) of a pair
    Keys, KeyOf,   \* RunControl.states key "sid|sdkname" of a pair
    FaultJobs,     \* pairs whose scenario is a fault scenario
    SkippedJobs,   \* pairs gated out by backend or by runners
    UnbuiltJobs,   \* pairs whose runner is unknown or has no binary
    Proxies,       \* the shared proxies: Toxiproxy's and the mitmproxy
    Toxi,          \* those of them found at a Toxiproxy admin URL
    Reachable,     \* the proxies the pre-run reset gets through to
    PoolSize,      \* ThreadPoolExecutor(max_workers=4)
    Breakdowns,    \* where an exception may escape: "reset","popen","result";
                   \* "death" lets the orchestrator itself die and restart
    Cancellable,   \* bound: the runs a user may cancel
    Urls, NoUrl,   \* Toxiproxy admin URLs; none given
    StartUrl,      \* TOXIPROXY_URL as the orchestrator is started
    DefaultUrl,    \* http://localhost:8474
    AskedUrl,      \* the URL in the request of a run, or NoUrl
    FileUrl,       \* the URL in the config block of its backend, or NoUrl
    MockRuns,      \* runs on the mock backend, whose config is not resolved
    NoJob          \* nobody (holds the fault lock)

ASSUME JobAssumption ==
    /\ RunOf \in [Jobs -> Runs]
    /\ RowOf \in [Jobs -> Rows]
    /\ KeyOf \in [Jobs -> Keys]
    /\ FaultJobs \subseteq Jobs /\ SkippedJobs \subseteq Jobs
    /\ UnbuiltJobs \subseteq Jobs
    /\ NoJob \notin Jobs
ASSUME EnvAssumption ==
    /\ Reachable \subseteq Proxies
    /\ PoolSize \in Nat \ {0}
    /\ Breakdowns \subseteq {"reset", "popen", "result", "death"}
    /\ Cancellable \subseteq Runs
ASSUME UrlAssumption ==
    /\ NoUrl \notin Urls /\ DefaultUrl \in Urls /\ StartUrl \in Urls \cup {NoUrl}
    /\ AskedUrl \in [Runs -> Urls \cup {NoUrl}]
    /\ FileUrl \in [Runs -> Urls \cup {NoUrl}]

VARIABLES
    \* the store
    db, rows,
    \* RunControl of each run, and the _RUN_CONTROL registry of live ones
    control, cancelled, states, procs,
    \* _execute_run, one thread per run
    col, verdict,
    \* _executor's queue, the jobs' program counters and results
    queue, jpc, result,
    \* _fault_lock
    lock,
    \* the runner subprocesses and the faults each has armed and not cleared
    proc, armed,
    \* the cancel request in flight for each run
    canceller, targets, answer,
    \* os.environ["TOXIPROXY_URL"], the resolved toxiproxy_url of each run, the
    \* Toxiproxy a job's reset spoke to and the one its runner speaks to
    env, url, cleared, site

storeVars  == <<db, rows>>
ctlVars    == <<control, cancelled, states, procs>>
colVars    == <<col, verdict>>
jobVars    == <<queue, jpc, result>>
procVars   == <<proc, armed>>
cancelVars == <<canceller, targets, answer>>
urlVars    == <<env, url, cleared, site>>
sideVars   == <<cancelVars, urlVars>>
vars == <<storeVars, ctlVars, colVars, jobVars, lock, procVars, sideVars>>

RunStatus   == {"none", "running", "completed", "cancelled"}
Terminal    == {"completed", "cancelled"}
RowStatus   == {"none", "skip", "ok", "error", "cancelled"}
StateNames  == {"absent", "queued", "running", "done"}
ColPCs      == {"idle", "expand", "active", "verdict", "closing", "closed"}
Results     == {"none", "ok", "error", "cancelled", "malformed", "raised"}
ProcStates  == {"none", "live", "exited", "crashed", "killed", "expired"}

\* Program counters of _run_job: those inside `with _fault_lock`, those on a
\* worker of the pool, those before and after.
LockedPCs   == {"locked", "resetting", "dispatching", "spawned",
                "communicating", "timedout", "leaving", "judging", "returned"}
WorkerPCs   == {"picked", "lockwait", "left"} \cup LockedPCs
JobPCs      == {"new", "skipped", "queued", "finished", "collected", "lost"}
               \cup WorkerPCs

JobsOf(r)  == {j \in Jobs : RunOf[j] = r}
PlannedOf(r) == JobsOf(r) \ SkippedJobs
KeysOf(r)  == {KeyOf[j] : j \in PlannedOf(r)}
RowsOf(r)  == {RowOf[j] : j \in JobsOf(r)}
Busy       == {j \in Jobs : jpc[j] \in WorkerPCs}
Flagged(j) == cancelled[RunOf[j]]
Live(j)    == proc[j] = "live"

Goto(j, pc) == jpc' = [jpc EXCEPT ![j] = pc]
Yield(j, res) == result' = [result EXCEPT ![j] = res]
SetState(j, s) == states' = [states EXCEPT ![RunOf[j]][KeyOf[j]] = s]
-----------------------------------------------------------------------------
Init ==
    /\ db        = [r \in Runs |-> "none"]
    /\ rows      = [r \in Runs |-> [k \in Rows |-> "none"]]
    /\ control   = {}
    /\ cancelled = [r \in Runs |-> FALSE]
    /\ states    = [r \in Runs |-> [k \in Keys |-> "absent"]]
    /\ procs     = {}
    /\ col       = [r \in Runs |-> "idle"]
    /\ verdict   = [r \in Runs |-> "none"]
    /\ queue     = << >>
    /\ jpc       = [j \in Jobs |-> "new"]
    /\ result    = [j \in Jobs |-> "none"]
    /\ lock      = NoJob
    /\ proc      = [j \in Jobs |-> "none"]
    /\ armed     = [j \in Jobs |-> {}]
    /\ canceller = [r \in Runs |-> "idle"]
    /\ targets   = [r \in Runs |-> {}]
    /\ answer    = [r \in Runs |-> "none"]
    /\ env       = StartUrl
    /\ url       = [r \in Runs |-> NoUrl]
    /\ cleared   = [j \in Jobs |-> NoUrl]
    /\ site      = [j \in Jobs |-> NoUrl]
-----------------------------------------------------------------------------
(* The collector thread: create_run and _execute_run.                      *)

\* config_resolver.resolve: the request, else the environment as it is now,
\* else the block of the backend; a mock run keeps what it asked for.
OrElse(u, v) == IF u # NoUrl THEN u ELSE v
Resolved(r) == IF r \in MockRuns THEN AskedUrl[r]
               ELSE OrElse(AskedUrl[r], OrElse(env, FileUrl[r]))

\* POST /api/runs: the config is resolved, the row is stored as "running",
\* then the thread starts.
CreateRun(r) ==
    /\ db[r] = "none"
    /\ url' = [url EXCEPT ![r] = Resolved(r)]
    /\ db'  = [db  EXCEPT ![r] = "running"]
    /\ col' = [col EXCEPT ![r] = "expand"]
    /\ UNCHANGED <<rows, ctlVars, verdict, jobVars, lock, procVars, cancelVars,
                   env, cleared, site>>

\* The expansion loop stores a 'skip' row for each gated pair.
SaveSkipped(r, j) ==
    /\ col[r] = "expand" /\ RunOf[j] = r
    /\ j \in SkippedJobs /\ jpc[j] = "new"
    /\ rows' = [rows EXCEPT ![r][RowOf[j]] = "skip"]
    /\ Goto(j, "skipped")
    /\ UNCHANGED <<db, ctlVars, colVars, queue, result, lock, procVars, sideVars>>

\* The RunControl is built over the planned pairs and published.
PublishControl(r) ==
    /\ col[r] = "expand"
    /\ \A j \in JobsOf(r) \cap SkippedJobs : jpc[j] = "skipped"
    /\ states' = [states EXCEPT ![r] =
                     [k \in Keys |-> IF k \in KeysOf(r) THEN "queued" ELSE "absent"]]
    /\ control' = control \cup {r}
    /\ col' = [col EXCEPT ![r] = "active"]
    /\ UNCHANGED <<storeVars, cancelled, procs, verdict, jobVars, lock,
                   procVars, sideVars>>

\* _executor.submit, pair by pair (any order: the request chooses it).
Submit(r, j) ==
    /\ col[r] = "active" /\ j \in PlannedOf(r) /\ jpc[j] = "new"
    /\ queue' = Append(queue, j)
    /\ Goto(j, "queued")
    /\ UNCHANGED <<storeVars, ctlVars, colVars, result, lock, procVars, sideVars>>

\* as_completed starts only after every pair was submitted.
AllSubmitted(r) == \A j \in PlannedOf(r) : jpc[j] # "new"

\* fut.result() returned a result dict: save_result stores its row.
Collect(r, j) ==
    /\ col[r] = "active" /\ AllSubmitted(r)
    /\ j \in PlannedOf(r) /\ jpc[j] = "finished"
    /\ result[j] \in {"ok", "error", "cancelled"}
    /\ rows' = [rows EXCEPT ![r][RowOf[j]] = result[j]]
    /\ Goto(j, "collected")
    /\ UNCHANGED <<db, ctlVars, colVars, queue, result, lock, procVars, sideVars>>

\* fut.result() re-raises what the job raised, or save_result fails on a
\* dict without the columns: the loop is left, only the finally runs.
CollectRaises(r, j) ==
    /\ col[r] = "active" /\ AllSubmitted(r)
    /\ j \in PlannedOf(r) /\ jpc[j] = "finished"
    /\ result[j] \in {"malformed", "raised"}
    /\ Goto(j, "collected")
    /\ col' = [col EXCEPT ![r] = "closing"]
    /\ UNCHANGED <<storeVars, ctlVars, verdict, queue, result, lock, procVars,
                   sideVars>>

\* Mutant: the verdict forgets the cancel flag.
ReadVerdictCompleted(r) ==
    /\ col[r] = "active"
    /\ \A j \in PlannedOf(r) : jpc[j] = "collected"
    /\ verdict' = [verdict EXCEPT ![r] = "completed"]
    /\ col' = [col EXCEPT ![r] = "verdict"]
    /\ UNCHANGED <<storeVars, ctlVars, jobVars, lock, procVars, sideVars>>

\* Mutant: the verdict does not wait for the pairs still running.
ReadVerdictEarly(r) ==
    /\ col[r] = "active" /\ AllSubmitted(r)
    /\ verdict' = [verdict EXCEPT ![r] =
                      IF cancelled[r] THEN "cancelled" ELSE "completed"]
    /\ col' = [col EXCEPT ![r] = "verdict"]
    /\ UNCHANGED <<storeVars, ctlVars, jobVars, lock, procVars, sideVars>>

\* After the last future: _summarize, then the cancel flag is read once.
ReadVerdict(r) ==
    /\ col[r] = "active"
    /\ \A j \in PlannedOf(r) : jpc[j] = "collected"
    /\ verdict' = [verdict EXCEPT ![r] =
                      IF cancelled[r] THEN "cancelled" ELSE "completed"]
    /\ col' = [col EXCEPT ![r] = "verdict"]
    /\ UNCHANGED <<storeVars, ctlVars, jobVars, lock, procVars, sideVars>>

\* store.finish_run.
FinishRun(r) ==
    /\ col[r] = "verdict"
    /\ db'  = [db  EXCEPT ![r] = verdict[r]]
    /\ col' = [col EXCEPT ![r] = "closing"]
    /\ UNCHANGED <<rows, ctlVars, verdict, jobVars, lock, procVars, sideVars>>

\* The finally: the control leaves the registry on every path.
DropControl(r) ==
    /\ col[r] = "closing"
    /\ control' = control \ {r}
    /\ col' = [col EXCEPT ![r] = "closed"]
    /\ UNCHANGED <<storeVars, cancelled, states, procs, verdict, jobVars, lock,
                   procVars, sideVars>>
-----------------------------------------------------------------------------
(* A worker of the pool: _run_job.                                         *)

\* The executor is FIFO and runs at most PoolSize jobs at a time.
Pick(j) ==
    /\ queue # << >> /\ j = Head(queue) /\ jpc[j] = "queued"
    /\ Cardinality(Busy) < PoolSize
    /\ queue' = Tail(queue)
    /\ Goto(j, "picked")
    /\ UNCHANGED <<storeVars, ctlVars, colVars, result, lock, procVars, sideVars>>

\* First look at the flag, outside the try: a cancelled job returns at once
\* and its display state is not touched.
StartCancelled(j) ==
    /\ jpc[j] = "picked" /\ Flagged(j)
    /\ Yield(j, "cancelled")
    /\ Goto(j, "finished")
    /\ UNCHANGED <<storeVars, ctlVars, colVars, queue, lock, procVars, sideVars>>

\* The admin URL a job's faults go to: of its run's config, else of the
\* environment, else the default (faults.py, proxy_manager._admin_url).
AdminUrl(j) == OrElse(url[RunOf[j]], OrElse(env, DefaultUrl))

\* Where an armed fault sits: a Toxiproxy's at its admin URL, the mitmproxy's
\* at the one mitmproxy.
FoundAt(k, p, u) == p \in Toxi => site[k] = u

\* Mutant: the reset runs but clears nothing.
ClearNothing(S, u) == armed

\* Every fault armed on the proxies S met at u is gone, whoever armed it.
Cleared(S, u) == [k \in Jobs |-> {p \in armed[k] : ~(p \in S /\ FoundAt(k, p, u))}]

\* Mutant: the reset runs before the lock is asked for.
ResetBeforeLock(j) ==
    /\ jpc[j] = "picked" /\ ~Flagged(j) /\ j \in FaultJobs
    /\ armed' = Cleared(Reachable, AdminUrl(j))
    /\ Goto(j, "lockwait")
    /\ UNCHANGED <<storeVars, ctlVars, colVars, queue, result, lock, proc, sideVars>>

\* A fault job goes for the fault lock and stays displayed as queued.
StartFault(j) ==
    /\ jpc[j] = "picked" /\ ~Flagged(j) /\ j \in FaultJobs
    /\ Goto(j, "lockwait")
    /\ UNCHANGED <<storeVars, ctlVars, colVars, queue, result, lock, procVars,
                   sideVars>>

StartPlain(j) ==
    /\ jpc[j] = "picked" /\ ~Flagged(j) /\ j \notin FaultJobs
    /\ SetState(j, "running")
    /\ Goto(j, "dispatching")
    /\ UNCHANGED <<storeVars, control, cancelled, procs, colVars, queue, result,
                   lock, procVars, sideVars>>

\* Mutant: the fault lock is not taken.
NoLock == TRUE

\* threading.Lock: free when nobody holds it.
LockFree == lock = NoJob

AcquireLock(j) ==
    /\ jpc[j] = "lockwait" /\ LockFree
    /\ lock' = j
    /\ Goto(j, "locked")
    /\ UNCHANGED <<storeVars, ctlVars, colVars, queue, result, procVars, sideVars>>

\* Second look at the flag, with the lock held.
RecheckCancelled(j) ==
    /\ jpc[j] = "locked" /\ Flagged(j)
    /\ Yield(j, "cancelled")
    /\ Goto(j, "returned")
    /\ UNCHANGED <<storeVars, ctlVars, colVars, queue, lock, procVars, sideVars>>

\* Mutant: the display state is set before the lock only.
RecheckGoUnshown(j) ==
    /\ jpc[j] = "locked" /\ ~Flagged(j)
    /\ Goto(j, "resetting")
    /\ UNCHANGED <<storeVars, ctlVars, colVars, queue, result, lock, procVars,
                   sideVars>>

RecheckGo(j) ==
    /\ jpc[j] = "locked" /\ ~Flagged(j)
    /\ SetState(j, "running")
    /\ Goto(j, "resetting")
    /\ UNCHANGED <<storeVars, control, cancelled, procs, colVars, queue, result,
                   lock, procVars, sideVars>>

\* The URL of the run's config goes into the environment of the process;
\* proxy_manager then speaks to whatever the environment names.
PointEnv(j) == /\ env' = OrElse(url[RunOf[j]], env)
               /\ cleared' = [cleared EXCEPT ![j] = AdminUrl(j)]

\* _reset_shared_proxies: ProxyError and mitm failures are swallowed, so the
\* proxies that were not reached simply keep their faults.
ResetProxies(j) ==
    /\ jpc[j] = "resetting"
    /\ PointEnv(j)
    /\ armed' = Cleared(Reachable, AdminUrl(j))
    /\ Goto(j, "dispatching")
    /\ UNCHANGED <<storeVars, ctlVars, colVars, queue, result, lock, proc,
                   cancelVars, url, site>>

\* Any other exception (a read timeout, say) leaves _run_job, with part of
\* the proxies cleared.
ResetRaises(j) ==
    /\ "reset" \in Breakdowns /\ jpc[j] = "resetting"
    /\ PointEnv(j)
    /\ \E S \in SUBSET Reachable : armed' = Cleared(S, AdminUrl(j))
    /\ Yield(j, "raised")
    /\ Goto(j, "returned")
    /\ UNCHANGED <<storeVars, ctlVars, colVars, queue, lock, proc, cancelVars,
                   url, site>>

\* Mutant: an early return that keeps the lock.
LeaveLocked(j) ==
    /\ jpc[j] = "returned"
    /\ Goto(j, "left")
    /\ UNCHANGED <<storeVars, ctlVars, colVars, queue, result, lock, procVars,
                   sideVars>>

\* The with-block is left, normally or by return or exception.
Leave(j) ==
    /\ jpc[j] = "returned"
    /\ lock' = IF lock = j THEN NoJob ELSE lock
    /\ Goto(j, "left")
    /\ UNCHANGED <<storeVars, ctlVars, colVars, queue, result, procVars, sideVars>>

\* Mutant: without the finally.
EndUnmarked(j) ==
    /\ jpc[j] = "left"
    /\ Goto(j, "finished")
    /\ UNCHANGED <<storeVars, ctlVars, colVars, queue, result, lock, procVars,
                   sideVars>>

\* The finally: the job is displayed as done, then its future completes.
MarkDone(j) ==
    /\ jpc[j] = "left"
    /\ SetState(j, "done")
    /\ Goto(j, "finished")
    /\ UNCHANGED <<storeVars, control, cancelled, procs, colVars, queue, result,
                   lock, procVars, sideVars>>
-----------------------------------------------------------------------------
(* runner_dispatcher.dispatch, on the worker.                              *)

\* Unknown SDK or no binary: an error result, no subprocess.
ResolveFails(j) ==
    /\ jpc[j] = "dispatching" /\ j \in UnbuiltJobs
    /\ Yield(j, "error")
    /\ Goto(j, "returned")
    /\ UNCHANGED <<storeVars, ctlVars, colVars, queue, lock, procVars, sideVars>>

\* Popen with a copy of the environment.  The flag is not looked at again.
Launch(j) ==
    /\ jpc[j] = "dispatching" /\ j \notin UnbuiltJobs
    /\ proc' = [proc EXCEPT ![j] = "live"]
    /\ site' = [site EXCEPT ![j] = AdminUrl(j)]
    /\ Goto(j, "spawned")
    /\ UNCHANGED <<storeVars, ctlVars, colVars, queue, result, lock, armed,
                   cancelVars, env, url, cleared>>

\* Popen raises OSError, which nothing in dispatch or _run_job catches.
LaunchRaises(j) ==
    /\ "popen" \in Breakdowns
    /\ jpc[j] = "dispatching" /\ j \notin UnbuiltJobs
    /\ Yield(j, "raised")
    /\ Goto(j, "returned")
    /\ UNCHANGED <<storeVars, ctlVars, colVars, queue, lock, procVars, sideVars>>

\* control.register(proc), then communicate() sends the job to the runner.
Register(j) ==
    /\ jpc[j] = "spawned"
    /\ procs' = procs \cup {j}
    /\ Goto(j, "communicating")
    /\ UNCHANGED <<storeVars, control, cancelled, states, colVars, queue, result,
                   lock, procVars, sideVars>>

\* communicate() returns because the runner is gone.
RunnerGone(j) ==
    /\ jpc[j] = "communicating" /\ ~Live(j)
    /\ Goto(j, "leaving")
    /\ UNCHANGED <<storeVars, ctlVars, colVars, queue, result, lock, procVars,
                   sideVars>>

\* communicate(timeout=120) expires.
RunnerTimesOut(j) ==
    /\ jpc[j] = "communicating" /\ Live(j)
    /\ Goto(j, "timedout")
    /\ UNCHANGED <<storeVars, ctlVars, colVars, queue, result, lock, procVars,
                   sideVars>>

\* Mutant: a timed-out runner is given up, not killed.
AbandonTimedOut(j) ==
    /\ jpc[j] = "timedout"
    /\ Yield(j, IF Flagged(j) THEN "cancelled" ELSE "error")
    /\ Goto(j, "leaving")
    /\ UNCHANGED <<storeVars, ctlVars, colVars, queue, lock, procVars, sideVars>>

\* Mutant: every timeout is reported as a cancel.
TimeoutAsCancel(j) ==
    /\ jpc[j] = "timedout"
    /\ proc' = [proc EXCEPT ![j] = IF @ = "live" THEN "expired" ELSE @]
    /\ Yield(j, "cancelled")
    /\ Goto(j, "leaving")
    /\ UNCHANGED <<storeVars, ctlVars, colVars, queue, lock, armed, sideVars>>

\* The runner is killed (if it did not end meanwhile) and reaped; the flag
\* then tells a cancel from a timeout.
KillTimedOut(j) ==
    /\ jpc[j] = "timedout"
    /\ proc' = [proc EXCEPT ![j] = IF @ = "live" THEN "expired" ELSE @]
    /\ Yield(j, IF Flagged(j) THEN "cancelled" ELSE "error")
    /\ Goto(j, "leaving")
    /\ UNCHANGED <<storeVars, ctlVars, colVars, queue, lock, armed, sideVars>>

\* The finally of dispatch.
Unregister(j) ==
    /\ jpc[j] = "leaving"
    /\ procs' = procs \ {j}
    /\ Goto(j, IF result[j] = "none" THEN "judging" ELSE "returned")
    /\ UNCHANGED <<storeVars, control, cancelled, states, colVars, queue, result,
                   lock, procVars, sideVars>>

\* A cancel has precedence over what the runner returned.
JudgeCancelled(j) ==
    /\ jpc[j] = "judging" /\ Flagged(j)
    /\ Yield(j, "cancelled")
    /\ Goto(j, "returned")
    /\ UNCHANGED <<storeVars, ctlVars, colVars, queue, lock, procVars, sideVars>>

\* Exit code, output and JSON decide: "ok" stands for any result dict the
\* runner printed, "malformed" for JSON that is not a result dict.
Verdicts(j) ==
    IF proc[j] = "exited"
    THEN {"ok", "error"} \cup (IF "result" \in Breakdowns THEN {"malformed"} ELSE {})
    ELSE {"error"}

\* Mutant: the flag is not looked at before the exit code.
JudgeExitCode(j) ==
    /\ jpc[j] = "judging"
    /\ \E v \in Verdicts(j) : Yield(j, v)
    /\ Goto(j, "returned")
    /\ UNCHANGED <<storeVars, ctlVars, colVars, queue, lock, procVars, sideVars>>

JudgeOutput(j) ==
    /\ jpc[j] = "judging" /\ ~Flagged(j)
    /\ \E v \in Verdicts(j) : Yield(j, v)
    /\ Goto(j, "returned")
    /\ UNCHANGED <<storeVars, ctlVars, colVars, queue, lock, procVars, sideVars>>
-----------------------------------------------------------------------------
(* The runner subprocess, as the orchestrator sees it.                     *)

\* It has its job and may be anywhere in it, also after the orchestrator died.
AtWork(j) == Live(j) /\ jpc[j] \in {"communicating", "timedout", "lost"}

\* A fault scenario arms a toxic or an L7 fault on a shared proxy.
RunnerArms(j, p) ==
    /\ AtWork(j) /\ j \in FaultJobs
    /\ armed' = [armed EXCEPT ![j] = @ \cup {p}]
    /\ UNCHANGED <<storeVars, ctlVars, colVars, jobVars, lock, proc, sideVars>>

\* executor.run() reaches its finally, which resets the controllers in its
\* reach: its own toxics go by name, the mitmproxy loses everybody's faults.
RunnerExits(j) ==
    /\ AtWork(j)
    /\ proc'  = [proc  EXCEPT ![j] = "exited"]
    /\ armed' = [k \in Jobs |->
                   armed[k] \ IF k = j THEN Reachable
                              ELSE IF j \in FaultJobs THEN Reachable \ Toxi ELSE {}]
    /\ UNCHANGED <<storeVars, ctlVars, colVars, jobVars, lock, sideVars>>

\* The runner dies without its finally; what it armed stays armed.
RunnerCrashes(j) ==
    /\ Live(j)
    /\ proc' = [proc EXCEPT ![j] = "crashed"]
    /\ UNCHANGED <<storeVars, ctlVars, colVars, jobVars, lock, armed, sideVars>>
-----------------------------------------------------------------------------
(* POST /api/runs/{id}/cancel: cancel_run and RunControl.cancel.           *)

\* The run exists but has no control: "run is not active".
CancelInactive(r) ==
    /\ r \in Cancellable
    /\ canceller[r] = "idle" /\ db[r] # "none" /\ r \notin control
    /\ answer' = [answer EXCEPT ![r] = "inactive"]
    /\ UNCHANGED <<storeVars, ctlVars, colVars, jobVars, lock, procVars,
                   canceller, targets, urlVars>>

CancelFound(r) ==
    /\ r \in Cancellable
    /\ canceller[r] = "idle" /\ db[r] # "none" /\ r \in control
    /\ canceller' = [canceller EXCEPT ![r] = "found"]
    /\ UNCHANGED <<storeVars, ctlVars, colVars, jobVars, lock, procVars,
                   targets, answer, urlVars>>

CancelFlag(r) ==
    /\ canceller[r] = "found"
    /\ cancelled' = [cancelled EXCEPT ![r] = TRUE]
    /\ canceller' = [canceller EXCEPT ![r] = "flagged"]
    /\ UNCHANGED <<storeVars, control, states, procs, colVars, jobVars, lock,
                   procVars, targets, answer, urlVars>>

CancelSnapshot(r) ==
    /\ canceller[r] = "flagged"
    /\ targets' = [targets EXCEPT ![r] = procs \cap JobsOf(r)]
    /\ canceller' = [canceller EXCEPT ![r] = "killing"]
    /\ UNCHANGED <<storeVars, ctlVars, colVars, jobVars, lock, procVars, answer, urlVars>>

\* p.kill(): nothing happens to a runner that is already gone.
CancelKill(r, j) ==
    /\ canceller[r] = "killing" /\ j \in targets[r]
    /\ proc' = [proc EXCEPT ![j] = IF @ = "live" THEN "killed" ELSE @]
    /\ targets' = [targets EXCEPT ![r] = @ \ {j}]
    /\ UNCHANGED <<storeVars, ctlVars, colVars, jobVars, lock, armed,
                   canceller, answer, urlVars>>

CancelReturns(r) ==
    /\ canceller[r] = "killing" /\ targets[r] = {}
    /\ canceller' = [canceller EXCEPT ![r] = "idle"]
    /\ answer' = [answer EXCEPT ![r] = "cancelling"]
    /\ UNCHANGED <<storeVars, ctlVars, colVars, jobVars, lock, procVars, targets, urlVars>>
-----------------------------------------------------------------------------
(* The orchestrator process.                                               *)

Lost(j) == jpc[j] = "lost"

\* The orchestrator dies and is started again: memory and daemon threads are
\* gone, the two tables and the faults on the proxies stay, no run is reopened.
\* A runner that has its job goes on without a parent; one still waiting for
\* its stdin ends.
Die ==
    /\ "death" \in Breakdowns
    /\ jpc' = [j \in Jobs |-> IF \/ col[RunOf[j]] = "idle"
                                 \/ jpc[j] \in {"skipped", "collected"}
                              THEN jpc[j] ELSE "lost"]
    /\ proc' = [j \in Jobs |-> IF AtWork(j) THEN "live" ELSE "none"]
    /\ col' = [r \in Runs |-> IF col[r] = "idle" THEN "idle" ELSE "closed"]
    /\ control'   = {}
    /\ cancelled' = [r \in Runs |-> FALSE]
    /\ states'    = [r \in Runs |-> [k \in Keys |-> "absent"]]
    /\ procs'     = {}
    /\ verdict'   = [r \in Runs |-> "none"]
    /\ queue'     = << >>
    /\ result'    = [j \in Jobs |-> "none"]
    /\ lock'      = NoJob
    /\ canceller' = [r \in Runs |-> "idle"]
    /\ targets'   = [r \in Runs |-> {}]
    /\ answer'    = [r \in Runs |-> "none"]
    /\ env'       = StartUrl
    /\ url'       = [r \in Runs |-> NoUrl]
    /\ cleared'   = [j \in Jobs |-> NoUrl]
    /\ UNCHANGED <<storeVars, armed, site>>
-----------------------------------------------------------------------------
Collector(r) ==
    \/ \E j \in JobsOf(r) : \/ SaveSkipped(r, j) \/ Submit(r, j)
                            \/ Collect(r, j) \/ CollectRaises(r, j)
    \/ PublishControl(r) \/ ReadVerdict(r) \/ FinishRun(r) \/ DropControl(r)

Worker(j) ==
    \/ Pick(j) \/ StartCancelled(j) \/ StartFault(j) \/ StartPlain(j)
    \/ AcquireLock(j) \/ RecheckCancelled(j) \/ RecheckGo(j)
    \/ ResetProxies(j) \/ ResetRaises(j) \/ Leave(j) \/ MarkDone(j)
    \/ ResolveFails(j) \/ Launch(j) \/ LaunchRaises(j) \/ Register(j)
    \/ RunnerGone(j) \/ KillTimedOut(j) \/ Unregister(j)
    \/ JudgeCancelled(j) \/ JudgeOutput(j)

Runner(j) == \/ \E p \in Proxies : RunnerArms(j, p)
             \/ RunnerExits(j) \/ RunnerCrashes(j)

Canceller(r) ==
    \/ CancelInactive(r) \/ CancelFound(r) \/ CancelFlag(r) \/ CancelSnapshot(r)
    \/ \E j \in JobsOf(r) : CancelKill(r, j)
    \/ CancelReturns(r)

Next ==
    \/ \E r \in Runs : CreateRun(r) \/ Collector(r) \/ Canceller(r)
    \/ \E j \in Jobs : Worker(j) \/ RunnerTimesOut(j) \/ Runner(j)
    \/ Die

Spec == Init /\ [][Next]_vars

\* The threads are scheduled and the timeout expires; users, runners and
\* their faults owe nothing.
Fairness ==
    /\ \A r \in Runs : WF_vars(Collector(r))
    /\ \A j \in Jobs : WF_vars(Worker(j)) /\ WF_vars(RunnerTimesOut(j))

FairSpec == Spec /\ Fairness
=============================================================================
