# Models and proofs of the Cosmos DB cross-SDK test matrix

This directory holds TLA+ models of the test matrix of this repository: the
orchestrator that runs scenarios against two SDKs, the runners that execute them,
the proxies that inject faults, the mock backends, the gateway proxy in front of
the in-memory emulator, the dashboard and the CI sweep. TLC checks every model on
small instances. TLAPS proves, for all values of the constants, every safety property of
the passing runs (section 5), and that the run engine and the mocks implement the
abstract specifications stated for them.

All line numbers refer to the files of the repository. `PROJECT.json` names, for
every definition that models code, the lines it stands for.

## 1. The system

| Component | State | Operations |
|---|---|---|
| **Run engine** (`orchestrator/app/main.py`, `runner_dispatcher.py`, `store.py`) | tables `runs` and `run_results`, `_RUN_CONTROL` (one `RunControl` per live run: cancel flag, states of the pairs, live subprocesses), a pool of four workers, `_fault_lock` | `create_run`, `_execute_run` (one thread per run), `_run_job` (on the pool), `dispatch` (a subprocess per pair, 120 s), `cancel_run`, `get_run`, `list_runs` |
| **Dashboard** (`static/index.html`) | the grid of results, one poll timer, the current run, the last run in `localStorage` | `startRun`, `applyRun`, `pollRun`, `refreshState`, `stopRun`, `init` |
| **Scenario runner**, Python and Java (`executor.py`, `faults.py`; `ScenarioExecutor.java` and its controllers) | the step it is at, assertion results, the toxics it added, its fixture database | fixture, steps, loops, timeline events (L4 through Toxiproxy, L7 through mitmproxy, topology through the emulator's management API), reset and teardown in the finally |
| **Layer-7 proxy** (`proxy/mitm`) | one fault window (by time or by count), one synthetic topology of partition-key ranges | arm, clear, answer a data request, serve a page of ranges with an ETag |
| **Toxiproxy administration** (`proxy_manager.py`) | none of its own: toxics live in Toxiproxy, and `TOXIPROXY_URL` in the environment says which one | `clear`, `clear_mitm`, `activate` |
| **Config resolver** (`config_resolver.py`) | none; it reads the environment at the time a run is created | `resolve`, `redact` |
| **Mock backends** (`backends.py`, `MockBackend.java`, `mock-profile.json`) | databases, containers, items, touched containers; in Python also the range cache, armed 410s, throttles | the CRUD and query calls of a scenario, control events |
| **Gateway proxy** (`emulator/inmemory/cosmos_gateway_proxy.py`) | two maps from resource ids to names | translate a path, forward, learn, answer |
| **Assertions, reports** (`assertions.py`, `Assertions.java`, `scripts/compare.py`) | none | verdict of a step, divergences between SDKs |
| **CI sweep** (`scripts/run-matrix.py`) | a directory of results | every pair in turn, then an exit code; `compare.py` runs behind it |

How they interact: the page posts a run and polls it; the run engine's workers
start one runner process per pair; a runner drives an SDK (or a mock) and, for a
fault scenario, changes the *shared* proxies; the orchestrator clears those
proxies before each fault scenario, under a lock; an operator may change Toxiproxy
at any time, under none. The reset learns which Toxiproxy a run uses through the
environment of the process, where it leaves the URL behind. Real SDK traffic goes
through Toxiproxy or mitmproxy and, for the in-memory tier, through the gateway
proxy to the emulator.

What is hard in it: four kinds of threads over one lock and one pool in the run
engine; kills and timeouts that race with a runner's own end; runners that die
with faults armed, and runners that outlive the orchestrator that started them;
calls to proxies that are refused, or that act and whose answer is lost, or that
act long after their caller gave them up; a polling page whose requests overtake
each other; windows and caches whose off-by-one errors turn into wrong retry
counts; two implementations that must agree. `PROJECT.json` lists these hazards at
their lines.

## 2. Modules

| Module | Models | Checked by |
|---|---|---|
| `RunLifecycle` | what the API promises of a run: opened once, filled, closed once with a status that agrees with its rows | through `RunExecution` |
| `RunView` | what `get_run` can tell of the runs: rows, saved cells, cells shown in flight | through `RunExecution` and `Dashboard` |
| `RunExecution` | the run engine, one action per statement that another thread can observe, its death and restart, and the environment variable that names the Toxiproxy | `run_safety`, `run_liveness`, two violation runs |
| `RunExecutionProps` | its properties and the inductive invariant `IInv` | |
| `RunExecutionProofs` | `IInv`, the properties, and that the engine implements `RunLifecycle` and `RunView` | TLAPS |
| `SharedProxies` | the reset and the runners of the fault jobs on the shared proxies, call by call, with lost and late calls and an operator | `shared_proxies` |
| `SharedProxiesProofs` | its inductive invariant and `CleanStart` | TLAPS |
| `ScenarioRunner` | the runners of both languages over Toxiproxy, mitmproxy, the databases and an operator | `scenario_runners` |
| `FaultProxy` | the mitmproxy addon with a retrying client and a client that drains the range feed | `fault_proxy` |
| `DocumentStore` | the abstract database both mocks implement | through `MockBackend` |
| `MockBackend` | both mocks side by side, interpreting the step lists of the profile | `mock_backend`, `metadata_drift` |
| `Dashboard` | one page over `RunView` (EXTENDS), against `get_run` and `list_runs` | `dashboard` |
| `GatewayProxy` | the gateway proxy's threads between two clients and the emulator | `gateway_proxy` |
| `ScenarioRunnerProofs`, `FaultProxyProofs`, `MockBackendProofs`, `DashboardProofs`, `GatewayProxyProofs`, `JudgementsProofs` | the inductive invariant and the safety properties of the module each is named after; of the mocks also that they implement `DocumentStore` | TLAPS |
| `KeyRanges`, `Judgements` | the boundaries of synthetic ranges; order scan, percentiles, paged drains and their checks, divergence report, CI sweep | `judgements` |

`MC*.tla` instantiate them. Definitions whose comment starts with "Mutant:" are
variants of the next definition with a plausible bug; no specification uses them.
Each property of a passing run is violated when the definition that `PROJECT.json`
names is replaced by its mutant.

### RunExecution

`col[r]` is the program counter of the thread of `_execute_run`, `jpc[j]` that of
`_run_job` and `dispatch` for the pair `j`, `canceller[r]` that of a cancel
request. `lock` is `_fault_lock`, `queue` and `PoolSize` the executor (FIFO, a
bounded number of pairs not yet returned). A runner process is `proc[j]`: live,
exited, crashed, killed by a cancel or expired. While live it may arm faults on
any proxy; only its regular end withdraws them, so a crash or a kill leaves them.
`ResetProxies` is `_reset_shared_proxies`; `Reachable` are the proxies it gets
through to, since the code swallows failures. `Breakdowns` says where an
exception may escape a pair (the reset, `Popen`, a result without the columns of
the row); the collector then leaves its loop and only its `finally` runs.

`Die` is the death of the process and its next start: the two tables, the faults
on the proxies and the runners that have their job stay; everything in memory is
gone, no run is reopened, and the pairs in flight are "lost". A runner *left
behind* may still arm faults, end, or crash, and nobody waits for it; *attended*
runners are the others.

`env` is `TOXIPROXY_URL` of the process, `url[r]` what `config_resolver.resolve`
gave run `r` (its request, else the environment *at that moment*, else its backend's
block), `cleared[j]` the Toxiproxy that the reset of `j` spoke to and `site[j]` the
one its runner arms. A reset writes the URL of its run into `env` (`main.py` 126),
where later runs, resets and runners find it: `Resolved`, `AdminUrl`, `PointEnv`.
A fault on Toxiproxy is met only at its own admin URL; mitmproxy is one.

`RunLifecycle` and `RunView` are two abstractions of it. The first has the tables
and the flag and says how a run may change; a run given up by an exception or by the
death of the process is `Abandon` and `Restart`. The second has what a reader of the
API sees, with display keys instead of pairs; `Told(r)` is the mapping. It is claimed
where every pair of a sweep has a display key of its own.

### SharedProxies

The reset that `RunExecution` has as one step, here call by call, and of a runner
its calls on the proxies, in any order, so that it may be killed between any two. A
call succeeds, is refused, or is given up by its caller while the proxy may still
carry it out later (`stray`). The operator's requests interleave with all of it. One
toxic map stands for the two Toxiproxy proxies `cosmos` and `cosmos-secondary`, which
`clear` treats one after the other in the same way. `trouble` and `late` are history:
a call of this job's reset failed; somebody's call was still under way when a later
reset began.

### ScenarioRunner

The two runners of one run execute the same scenario. Every call to a service is
one step that ends answered, refused, or lost (acted or not, the caller sees a
timeout). The points where the languages differ are named: `PythonFixture` and
`JavaFixture`, `JavaTold`, `Escapes`. The operator lists, deletes and adds toxics
one request at a time, as `proxy_manager.clear` and `activate` do. `trouble4` and
`trouble7` record that a call to Toxiproxy or to mitmproxy was not answered well.

Nothing is assumed of names: a profile of the operator may use those of a scenario's
timeline (`proxy/README.md` 166-168). `astray[r]` is history: the names that `r` tracks
although their toxic may not be its own, because somebody took it off in between, or
because Java tracks a name whose POST was told 404. Of the steps of a scenario
`create_database` and `delete_database` change a service (`StepDatabase`); the other
operations work on items, which are `MockBackend`.

### FaultProxy

mitmproxy calls the hook for one request at a time, so a request is one action.
An arm request whose count or seconds is not a number raises after the mode, the
fault and the counter were changed (`ArmFails`, `fault_engine.py` 106-119); `granted`
records whether an arm that was answered opened the present window.
The clock is bounded by `MaxNow`; control requests by `MaxArms`. The draining
client follows offsets, which are all a continuation holds, and confirms with
the last ETag.

### MockBackend and DocumentStore

Each call goes to both mocks. A call interprets the step list that
`mock-profile.json` gives for it. The counters are the increments of the last
call. Python's control plane (throttle, split, expired cache) is invisible to
Java; the answers must agree all the same, because the mock retries by itself.
They do for the operations of the profile. Where the languages differ the model does
too: `ReadFeedRanges`, which is not of the profile, tells one range per partition in
Python and one full range in Java; a body whose id is null keeps it in Python and gets
a new id in Java (`NullId`, `LacksId`). Calls that name an item do so by
a string (`backends.py` 93-102), so a null id is put and queried, never named. `nulled` is history: such a body was put into
this container. `split`, `forced` and `fed` are history of Python's range cache since
it went stale last: what made it so, how many refreshes the calls of the profile made,
and whether the feed ranges were read before the first of these.
`Execute` writes the interpreter's loop as six steps, of which those beyond the end of
a list do nothing: no list of the profile is longer, which the lemmas on each list
(`CreateClientRun` ... `QueryItemsRun`) establish from its domain.

### Dashboard

A `get_run` request has three moments: sent, row and results read, live states
read; then its answer is under way until the page receives it, or it is lost.
The engine is `RunView`, which `RunExecution` is shown to implement, so the order in
which it changes what the page reads is the engine's. "queued" and "running" are one
state, as are "completed" and "cancelled": the page treats them alike apart from the
icon. `stopRun` sends a cancel, which is `CancelRun` of the engine and changes nothing
on the page; `Cancellable` bounds which runs get one. `Restart` kills the engine, and
with it the requests it has not answered.

### GatewayProxy

A request is a thread: it arrives (its path is translated), is served, its answer
is learnt from, the answer is sent. The emulator is external: it finds resources
by name only, names are unique, ids are not reused. Python addresses everything
by name. Java reads the ranges of a container by the ids in its answers.

### Judgements and KeyRanges

Each behaviour takes one input and evaluates it. `DrainInTwo` is D-403 and C-311: a
`query_drain` that `max_pages` may stop, and one that goes on from its token, which
passes through a placeholder (`_lookup` turns a missing value into the empty string,
`step_handlers.py` 63 the empty string into "from the beginning"). The service's pages
and the token, which stands for the next page, are external. `Written` and `MatrixExit`
are what `run-matrix.py` leaves in its directory and its exit code; `CompareExit` is
the gate of `compare.py` behind it in `ci.yml`. `Sorted` picks an order in which the
samples ascend; a percentile does not depend on which. A percentile asked for is in
tenths, so that it may be fractional: Python takes it as it is, Java as an `int`
(`AsInt`, `Assertions.java` 81). `KeyRanges` is the topology engine's `_boundary` with
its rounding, half to even, and its cap at `FF`.

## 3. Runs

| Run | Instance | What it shows |
|---|---|---|
| `run_safety` | 2 runs, 4 pairs (two fault pairs in different runs, one plain pair without a runner binary, one gated pair), 2 workers, one proxy at two admin URLs of which one run asks for the second, exceptions from every place, deaths of the orchestrator, one run cancelled | fault scenarios never overlap and never see another's faults; a reset spoke to the Toxiproxy its runner uses; a kill by a cancel is not an error; final statuses agree with the rows; nothing is live after the end; the heartbeat is right; the engine implements `RunLifecycle`; `IInv` |
| `run_liveness` | 2 runs, 2 fault pairs and a gated one, exceptions from `Popen` and from results, deaths | every run finishes and a timely cancel decides its status, unless the run is `Broken`; the engine implements `RunView` |
| `cancel_race` | violation | a runner launched after the cancel's snapshot survives it |
| `pool_starvation` | violation | fault pairs parked on the lock hold the workers a plain pair needs |
| `scenario_runners` | 2 runners (each may be the Java one), 2 toxic names, one of which an operator's profile uses too, 1 step, 2 events, refused and lost calls | what a runner injected is withdrawn; it takes off others' toxics in two named cases only; its database stays, no step runs before its timeline has settled, it ends |
| `shared_proxies` | 2 fault jobs, a toxic of a scenario and one of a profile, both L7 features, 2 lost calls, 1 request of the operator | a runner launched after a reset whose calls all succeeded meets no earlier runner's fault; every job gets the lock and gives it back; its own `IInv` |
| `fault_proxy` | windows of 0 to 2 requests or 1 to 2 ticks, arms that fail halfway, several topologies and page sizes, 3 control requests | windows are exact, a drain under one ETag is complete, clients get through |
| `mock_backend` | 1 id and a null id, 2 partition keys, 2 partitions, throttles of 1 to 2 on one operation | faults are neither lost nor doubled, a split forces one refresh however the feed ranges are read, both mocks give the same answers to the profile's operations until a null id is stored, the store is implemented |
| `metadata_drift` | violation | the two mocks count metadata calls differently |
| `dashboard` | 2 cells, 2 requests in flight, starts of 2 cells in all (one run of both, or two runs that may overlap), a cancel of the run of both, restarts of the orchestrator | a run shown as ended shows all its results; a result does not fall back to a state in flight |
| `gateway_proxy` | 2 clients, 1 database name, 2 container names, 4 resources | a read by ids from answers reaches that very container; no client knows an id before the proxy does |
| `judgements` | every topology of up to 520 ranges, sequences of up to 3 events, samples or results, percentiles that are whole and that are not, drains of up to 4 items and queries of up to 3 pages of 2, every sweep of 2 scenarios on 2 SDKs | the computations give what they are for |

### Why the bounds are enough

- *Runs and pairs.* Every interaction in the engine is between two pairs (lock,
  proxies, pool), between a pair and its run, or between a cancel and a pair. Two
  fault pairs in different runs with a plain and a gated sibling give each of them;
  `PoolSize` 2 fills up. Two URLs are a run that names one and a run that goes by the
  environment. The process may die in any state, any number of times.
- *Runners.* Two runners of one scenario are what the orchestrator starts per
  scenario. Of two toxic names one is `region_down`, which is deleted untracked and
  which the operator's profile uses as well. Two events add a toxic and withdraw it, or start a topology
  operation and change something during it.
- *SharedProxies.* Two lost calls are one of a runner and one of the next reset; a
  single request of the operator already interleaves with either.
- *FaultProxy.* Windows of 0, 1 and 2 hit both sides of each comparison; three
  control requests arm, replace and clear.
- *Dashboard.* Two requests in flight suffice for an answer to overtake another;
  two starts for an answer of an older run to arrive under a newer one; two cells
  for a run that is partly saved.
- *GatewayProxy.* Four ids let a database and its container be deleted and made
  again under the same names.
- *MockBackend.* One id under two partition keys is an item that a query of one
  partition must not see; throttles of 2 are one more than a single retry. With two
  partitions the feed ranges of the languages differ in number.
- *Judgements.* Neighbouring boundaries begin to coincide at 171 and 257 ranges; 520 is
  well past both. Three elements are enough for a scan to go wrong by re-reading an element.

The bounds matter where TLC alone speaks: for liveness. Every other property of a passing
run is proved in section 5 without them.

`CHECK_DEADLOCK FALSE` is set in every configuration: runs end, scenarios end,
a computation is evaluated once, counters reach their bounds.

The type invariants are conjuncts of the inductive invariants of section 5. The runs
list the `IInv` of `RunExecution` and of `SharedProxies`. The other inductive invariants
stand in the proof modules, which TLC does not load; each held on the instance of its
run before it was proved.

## 4. Fairness

- *RunExecution*: weak fairness of each run's thread, of each pair's worker and of
  the 120 s timeout, i.e. the operating system schedules threads and
  `communicate(timeout=...)` returns. Nothing is assumed of runners, users or
  cancels: a runner may hang for ever. Weak fairness is enough for the lock because
  finitely many pairs ask for it, each once, and a waiting pair is overtaken only by
  these. Both liveness properties except a run that is `Broken`: an exception escaped
  one of its own pairs, or its process died. Another run's exceptions, and the orphans
  of a dead orchestrator, must not and do not keep a run from its end.
- *SharedProxies*: weak fairness of a job's reset, of the end of its runner (the
  timeout) and of leaving the lock. Nothing of the operator, of late calls, or of what
  the runner does.
- *FaultProxy*: weak fairness of the clock and of the clients' retries. Arming is
  bounded by `MaxArms`: a control client that re-arms for ever can starve a client.
- *ScenarioRunner*: a runner is one thread and each of its calls has a timeout.
- The other modules have no fairness and no liveness properties.

## 5. Proofs

Each proof module proves one inductive invariant, named in the first row of its table,
and from it the properties. The parameters are arbitrary: sets may be infinite, bounds
are any number of the right type. What is assumed of them are the named `ASSUME`s of the
modules (which TLC evaluates on every run) and the hypotheses under "if".

| Module | Theorem | Statement | if |
|---|---|---|---|
| `RunExecution` | `InductiveInvariant` | `Spec => []IInv` | |
| | `TypeCorrect` | `Spec => []TypeOK` | |
| | `FaultExclusion` | no two fault pairs have attended runners at the same time | |
| | `NoBleed` | with every proxy in reach of the reset, no attended fault runner sees another's faults, save those of a runner left behind | |
| | `ResetMeetsRunner` | the reset of a fault pair spoke to the Toxiproxy its runner arms | |
| | `CancelNotError` | a runner killed by a cancel is reported as cancelled | |
| | `StatusAgrees` | the final status of a run has all its rows and agrees with them | |
| | `QuietAfterFinish` | no runner outlives the final status of its run | |
| | `Undisturbed` | no reset removes the faults of an attended fault runner while none left behind is about | |
| | `Implements` | `Spec => LifecycleSpec` | |
| | `ViewInvariant` | `Spec => []ViewInv` | |
| | `ShownRunning` | a pair with a live runner whose run has a control is shown as running | |
| | `ViewRefined` | `Spec => ViewSpec`: the engine implements `RunView` | `PairsApart` |
| `SharedProxies` | `ProxiesInv` | `Spec => []IInv` | |
| | `StartsClean` | a runner launched after a reset whose calls all succeeded meets no fault of an earlier runner that had no call under way when the reset began | |
| `ScenarioRunner` | `RunnerInv` | `Spec => []RInv` | |
| | `ToxicsRemoved`, `FaultsCleared` | a runner that met no trouble with Toxiproxy (mitmproxy) leaves nothing of its own behind there | |
| | `Settled` | no step runs while the operation its timeline waits for is under way | |
| | `OthersKept` | a runner takes off a toxic that is not its own only by `region_up`, or by a name it tracks that went astray | |
| | `FixtureKept` | the database of a runner stays until a step of its own deletes it or its own teardown | `NamesApart` |
| `FaultProxy` | `FaultProxyInv` | `Spec => []IInv` | |
| | `WindowsExact` | a count window injects what it was set to, and is open only by an arm that was answered | |
| | `DrainsConsistent` | a drain confirmed by the last ETag holds every range of that topology | |
| `MockBackend` | `MockInvariant` | `Spec => []MockInv` | |
| | `AnswersAlike` | both languages give the same answers to the operations of the profile and hold the same items, until a body with a null id is stored | |
| | `FaultsKept` | every 429 and 410 asked for is met once or still to come | |
| | `RefreshedOnce` | a call reads the ranges at most once, and once if it met a 410 | |
| | `RefreshForcedOnce` | a stale cache forces at most one refresh on calls of the profile, a split exactly one, though the feed ranges be read in between | |
| | `MetadataOnce` | the metadata of a container is read once in its life | |
| | `MockImplementsStore` | `Spec => StoreSpec`: the mocks implement `DocumentStore` | |
| `Dashboard` | `PageInv` | `PageSpec => []IInv` | |
| | `EndedComplete` | a run shown as ended shows all its results | |
| | `ResultsKept` | a result never falls back to a state in flight unless the user asks | |
| `GatewayProxy` | `GatewayInv` | `Spec => []IInv` | |
| | `HeldKnown` | no client holds the id of a live resource that the proxy could not translate | |
| | `SelfReads` | a read by ids from answers reaches that very container | |
| `Judgements` | `RangesHold` | the ranges of a topology tile the key space, whatever their number; none is empty exactly up to 170, the interior boundaries are distinct exactly up to 256 | |
| | `ReportsExact` | the comparison fails exactly when two SDKs that ran a scenario ended it apart or there is nothing to compare, and never after a sweep that exits well | `Scenarios`, `Sdks` finite, not empty |
| | `AssertionsHold` | the order scan finds what is there; a drain in two parts passes exactly when no item comes twice and as many as expected | |
| | `PercentilesHold` | Python's value has as many samples on either side as the percentile says, Java's as the whole one below says; Java's is never above Python's, and equal when the percentile is whole | |

The hypotheses:

- `PairsApart`: the pairs of a sweep have different display keys and different rows. A
  row is keyed by scenario, SDK and version, a display key by scenario and SDK
  (`main.py` 63), so this is a request that names no scenario and no SDK twice. The page
  sends such requests only; the API would take others, for which `RunView`, whose cells
  are keys, is not the right abstraction. The other theorems hold for these too.
- `NamesApart`: two runners differ in scenario, run id or language, from which the
  name of a fixture's database is made (`executor.py` 403-409). Two versions of one SDK
  in one run do not: they share the name, and nothing is claimed of them.
- The scenarios are files in a directory and the SDKs come from the command line, so
  both are finite. Without scenarios `run-matrix.py` exits with 2; `--sdks ,`, which names
  no SDK, is the one sweep that exits with 0 and leaves `compare.py` nothing to compare.

### The run engine

None of these properties is inductive. `OneFaultRunner` says nothing of a pair that
holds the lock but has not launched; `NoFaultBleed` nothing of the time between the
reset and the launch; `FinalStatusAgrees` nothing of a run whose verdict is read but
not stored. `IInv` adds what connects them:

- `LockInv`: the lock is held by exactly the fault pair between acquisition and
  release;
- `DispatchInv`: a runner is live only between `Popen` and the end of
  `communicate`, registered while its worker waits, and has a result only later;
- `CancelInv`: a cancel flags before it kills, kills only its run's runners, and a
  killed runner's result is "cancelled";
- `UrlInv`: between its reset and the end of its runner, the Toxiproxy of a fault pair
  is the one the reset spoke to, because only a reset writes the environment and the
  lock admits one;
- `CleanInv`: after the reset and until the runner is gone no other pair's faults
  are armed there, if the reset reaches every proxy, save by a runner left behind;
- `CollectorInv`: each phase of the collector against the pairs, the rows and the
  verdict, including "a cancelled row implies the flag";
- `TypeOK`, `SkippedInv` and `FinalStatusAgrees`.

That a step preserves `IInv` is one lemma per conjunct (`LockStep`, `DispatchStep`,
`CancelStep`, `UrlStep`, `CleanStep`, `CollectorStep`), each with one step per action
that can disturb the conjunct; `WorkerFrame`, `RunnerFrame`, `CollectorFrame` and
`CancellerFrame` state once what the others leave alone. `Undisturbed` uses `IInv` in
the state before: the only actions that clear another pair's faults are the reset of
the lock's holder, and then no other fault runner is live. `Implements` maps every step
to a step of `RunLifecycle` or to one that leaves the tables and flags alone.

What a reader is shown needs more. `ViewInv` adds `StateInv` (the state shown for a pair
against the counter of its job), `ControlInv` (a control exists from its publication to
the `finally`, with a cell for each planned pair and no other), `RowInv` (no row before
its pair is collected) and `RaisedInv` (a collector that goes to its `finally` without a
verdict left a pair without a row, so the run cannot pass for ended). `ViewRefined` then
maps each action to one of `RunView` or to a stutter; the worker's steps that store a
state are the ones that must be shown to move a cell the way `RunView` allows.

### The shared proxies

`CleanStart` speaks of launched runners only. `IInv` adds what the reset has done *so
far*: what is off the proxies after each of its calls stays off (`ResetInv`). For that
nobody else may put it back: by `LockInv` no other runner is in its job, and by
`StrayInv` a late call is the job's own, the operator's or of somebody in `late`. The
operator deletes and adds toxics in the middle, which frees names or takes them for
itself, never for an earlier runner. Two exceptions of `CleanStart` are real: a reset
one of whose calls failed (`trouble`), which the code ignores, and a call given up
before the reset and carried out after it (`late`), which no code on this side can see.
`MoveKeeps` and `AsideKeeps` state what a call of the lock's holder and a step of
anybody else preserve; every action is an instance of one of them.

### The scenario runners

`OwnToxicsRemoved` speaks of a runner that is done. `ToxicInv` says why it gets there: as
long as every answer arrived, each toxic of its own is tracked (`added`), each tracked
one is still to be deleted while its reset is at Toxiproxy (`doomed`), and none is left
after it. `FaultInv` does the same for the two calls of the L7 reset, in their order.
A step of a sibling or of the operator may take a toxic off by its name and put another
in its place; that the name is then `astray` for the runner that still tracks it is
`TrackInv`, from which `OthersKept` follows: what a reset deletes is tracked, and what is
tracked and not astray is the runner's own. `OpInv` gives `Settled`.

### The layer-7 proxy

`WindowInv` ties `remaining`, `injected` and `asked` while the mode is "count"; it must
also hold of negative counts, which are taken as they are. An arm that fails halfway
changes the mode and leaves the old numbers, so whether a window is *open* cannot be tied
to the mode: `GrantInv` says in either mode that numbers which would open one came from an
answered arm. `DrainInv` says that a client which met a single ETag holds exactly the
ranges below its offset, and all of them once there was no continuation.

### The mocks

`MockInv` consists of the five invariants, the types and two facts that make them
inductive: `TouchInv` (both mocks know the container, or neither, and `looked` counts its
one read) and `CacheInv` (a 410 to come is that of the split which made the cache stale
last, and forces the refresh; a stale cache has not been refreshed).
The proof is by operations, bottom up:

1. what each operation on a backend changes and leaves alone (`TouchIs` ... `DoFilter`);
2. what the interpreter makes of each of the ten lists, step by step (`CreateClientRun` ...
   `QueryItemsRun`, `NoContainerRun`);
3. what any call costs, whichever list it is (`ExecuteCalled`), and what the faults met
   before it do (`ThrottledIs`, `ReroutedIs`, `FaultedIs`);
4. what each list answers and stores (`CreateClientAnswer` ... `QueryItemsAnswer`). These
   depend on the items only, which gives `SameRuns`: two backends with the same items
   answer alike, with or without control plane. Once a null id was stored the items
   differ, but which databases and containers there are does not (`SameStands`), and
   only a call that puts a body may store one (`PutAsks`);
5. `AskStep`: what one call to both preserves, and one lemma for each control event;
6. for the refinement, one lemma for each operation of the store (`CreateClientStored` ...
   `QueryItemsStored`), joined in `NextStored`.

### The dashboard

`EndedIsComplete` rests on what is *under way*: an answer that
tells of the end of its run brings all the cells of the run (`AnswerOk`). It stays true
while the answer travels, because the cells of a run never change and an ended run stays
ended; and it is true when the row and the results are read, because the engine closes
only a run that is saved (`RunsInv`). `ResultsKept` is proved action by action.

### The gateway proxy

`SelfReadExact` speaks of a read when it is answered, by which time the container and its
database may have been deleted and others made under their names. `TargetOk` and `AnswerOk`
carry it along the thread: what a request aims at, and what an answer tells, is about the
named resource *if that still lives*. Each such clause needs ids that are never given twice
(`EngineInv`), maps that give a live id its own name (`MapsInv`) and clients whose memory
agrees with them (`HeldInv`). There is one lemma per step of a thread (`ArriveKeeps`,
`ServeKeeps`, `LearnKeeps`, `ReplyKeeps`, ...); `EvolveKeeps` states what any change of the
emulator by one request leaves true of all the others.

### Ranges and reports

A boundary is a rounded quotient, at most a half away from the exact one (`RoundNear`), and
rounding is monotone (`RoundRises`), so no range ends before it starts (`NoneFalls`). The
last boundary before the end is 256 less a step: below `FF`, which is 255, exactly as long
as the step is more than one and a half, that is up to 170 ranges (`LastRange`). The others
lie a step of at least one apart up to 256 ranges (`InteriorRises`); beyond that
the interior boundaries are more than the bytes they can be, and cannot all differ
(`InteriorRepeats`). The report
is about a list of results in which a later one of the same SDK replaces an earlier one:
the last result of a pair exists (the largest index of a finite set), it is what `BySdk`
holds, and two different statuses are two elements of a finite set, hence a cardinality
above one. For a sweep that exits well every pair of a scenario has the same verdict.

### Assertions and percentiles

The order scan, the flattened pages and the sorted samples are recursive or chosen
functions of a sequence of any length. The induction theorems of the library cannot be
instantiated by the provers, so `Upwards` does induction over the members of a *set*: the
least number outside it would follow from the one below (`LeastNat`, from the
well-foundedness of `<`). `Recursion` gives from it that a function which goes on from
each place to the next exists, and two such functions agree.

- *The scan* never is further than any other way to pick the wanted events (`ScanFirst`),
  and one that does not run past the end has picked them (`ScanPicks`).
- *A drain* in two parts joins to the pages as a whole (`FlattenSplit`); a sequence has as
  many elements as it is long exactly when none comes twice (`DistinctCount`), which is
  what both checks count (`ResumesIs`). When the first part came to the end the second is
  the same once more (`DrainIs`, `TwiceIs`).
- *A percentile* needs that samples can be sorted at all (`CanBeSorted`: the greatest goes
  last). The value lies between the samples at the rank rounded down and up (`BetweenIs`,
  `Ranks`), also at 100, where Python takes the last sample and Java interpolates over no
  distance (`PercentileIs`); a lower percentile has a value not above (`ValueRises`), which
  is what truncation does in Java; the samples up to the lower and from the upper rank are on
  their sides of it (`BothSides`).

### Only model-checked

- Liveness: `RunFinishes`, `CancelIsHonoured`, `EveryJobGoes`, `RequestsRecover`,
  `DrainEnds`, `RunnerEnds`. Fairness and ENABLED are out of the prover's reach.

## 6. Where code and comments part

Runs that violate a statement of the code's own comments:

1. `cancel_race`: `RunControl.cancel` "kill every live runner subprocess"
   (`main.py` 78). A pair past the flag check launches and registers its runner
   after the snapshot.
2. `pool_starvation`: "Non-fault scenarios are unaffected and still run
   concurrently" (`main.py` 48). Pairs waiting for the lock keep their workers.
3. `metadata_drift`: the profile's semantics keep the runners from diverging
   (`backends.py` 180-182). Java counts a range read per cross-partition query,
   Python one per cold cache.

Seen while modelling, without a run:

- `_RUN_CONTROL` is "removed when the run finishes" (`main.py` 97), but one exception
  in `fut.result()` or `save_result` takes the control of a run that never finishes
  (345-347): it stays "running" and can no longer be cancelled. So does a run whose
  orchestrator died. `Abandon` and `Restart` of `RunLifecycle`, `Broken` in the
  liveness properties.
- The URL that a request names for its run stays in `TOXIPROXY_URL` after the reset
  (`main.py` 126), and a later run that names none takes it before the block of its own
  backend (`config_resolver.py` 84-86). Reset and runner still agree
  (`ResetReachesOwnProxy`), but on another run's Toxiproxy.
- An arm request with a malformed count or seconds fails with the mode already changed
  (`fault_engine.py` 106-119): an open window of the same mode goes on, under the new
  fault; one of the other mode is shut, and a second failed arm can open it again. A
  cleared window stays closed (`CountWindowExact`).
- A toxic the operator deletes between the listing and the DELETE of a reset turns that
  DELETE into a 404, and the reset skips the rest of Toxiproxy (`SharedProxies`).
- A drain whose `max_pages` is not reached gives no token, and the step that resumes it
  starts over: `resumes_without_gap` then fails although nothing is wrong. D-403 and
  C-311 have enough pages (`AssertionsExact`).
- `topology_engine.py` 44-45 calls the boundaries strictly increasing. From 171 ranges
  on the last one before the end rounds to `FF` and the last range is empty; from 257 on
  interior ones repeat. `RangesTile` says exactly when, over every number of ranges.
- The page has one timer. Starting a second run stops the polling of the first
  (`index.html` 344), and a late last answer of the first clears the timer of the
  second (351): cells stay "running" until the user refreshes, and a refresh only
  asks for the current run. A `fetch` of `startRun` that throws leaves its cells
  "running" as well (284). `Dashboard` has these behaviours; `ResultsStay` and
  `EndedIsComplete` are about what holds in spite of them.
- The gateway proxy never forgets an id: after a container was deleted and made
  again, a Java read by the old id is answered for its namesake. An answer about a
  container teaches only the container's id, so a lost answer to the creation of a
  database leaves Java's reads untranslated until somebody reads that database.
- Java takes a 404 of the POST of a toxic for success
  (`ProxyFaultController.java` 65), and ignores a fixture that could not be made.
- The reset removes "exactly those" toxics the controller added "and nothing an operator
  added out of band" (`faults.py` 37-38). But toxics are deleted by name: `region_up`
  deletes `region_down` whoever added it (108-109), and the reset a name that somebody
  else took off and used again, or that Java tracks after a 404
  (`ProxyFaultController.java` 65). `OthersToxicsKept` names these cases and no other.
- A lost answer to a POST leaves a toxic that is not tracked (`faults.py` 75); a
  lost answer to `/__fault/clear` skips `/__topology/clear` in Python (192).
- A split costs "exactly one" refresh (`backends.py` 198-199), but a feed-range read
  before the 410 is met warms the cache (264) and the 410 refreshes it again (317-318): two
  range reads after one split. `OneForcedRefresh` counts the refreshes of the profile's
  calls, of which there is one in this case too.
- `read_feed_ranges` tells as many ranges as there are partitions in Python
  (`backends.py` 256-267) and one range `FULL` in Java (`MockBackend.java` 163-176). It is
  not of the profile, which is to keep the runners together (180-182). `SameAnswers`
  leaves it out and `ReadFeedRanges` has both answers.
- A body whose id is null keeps it in Python (`setdefault`, `backends.py` 422) and gets a
  new one in Java (`putIfAbsent`, `MockBackend.java` 291), so the mocks hold different
  items from then on; databases and containers still agree (`SameAnswers`).
- A fractional `latency_percentile` is truncated in Java (`Assertions.java` 81, 242-245)
  and not in Python: Java's value may be lower, so that Java alone passes
  (`PercentilesExact`).
- In Java, `metric_equals` compares the text of a double with that of an integer, and
  `metric_zero` raises for a metric that is missing.

## 7. Not modelled, and why

- Of `config_resolver` only `toxiproxy_url`, the one field whose environment variable
  the program itself changes; the others follow the same rule over variables that stay.
- Of `run-matrix.py` only the results and the exit codes: it is a sequential loop whose
  gating repeats `_execute_run` and whose dispatcher is in `RunExecution`.
- What `get_run` and `cancel_run` *answer* beyond `RunView` (403, 404, bodies). A cancel
  between the INSERT of a run and its control is told "not active" (`main.py` 288).
- Single-field assertions (`equals`, `status_code`, ...): each is one comparison.
- The scenario loader, the start-up scripts and the scenarios: input and process start.
- The SDKs, the emulator, Toxiproxy and mitmproxy themselves: external, modelled
  only as the harness uses them.
- Queries and patch documents of the mocks, response templates of the addon, header
  filtering and endpoint rewriting of the gateway proxy, rendering of the page:
  data, layout or I/O.

## 8. Plan

The safety properties planned for proof are proved. Left:

1. A run for the cells the page never polls again (`index.html` 344, 351).
2. A specification of the API's answers with the cancel that comes too early
   (`main.py` 288).
3. Violation runs for the statements of section 6 that so far are covered only by a
   property which names the exception.
