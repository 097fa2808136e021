\* Exceptions may escape every step; one pair is skipped, one has no runner.
CONSTANTS
    r1 = r1
    r2 = r2
    f1 = f1
    f2 = f2
    n1 = n1
    s1 = s1
    NoJob = NoJob
    Runs = {r1, r2}
    Jobs = {f1, f2, n1, s1}
    RunOf <- MCRunOf
    Rows = {f1, f2, n1, s1}
    RowOf <- MCOwn
    Keys = {f1, f2, n1, s1}
    KeyOf <- MCOwn
    FaultJobs = {f1, f2}
    SkippedJobs = {s1}
    UnbuiltJobs = {n1}
    Proxies = {"cosmos"}
    Toxi = {"cosmos"}
    Reachable = {"cosmos"}
    PoolSize = 2
    Breakdowns = {"reset", "popen", "result", "death"}
    Cancellable = {r1}
    Urls = {"local", "staging"}
    NoUrl = "none"
    DefaultUrl = "local"
    StartUrl = "none"
    AskedUrl <- MCOneAsks
    FileUrl <- MCNoneAsked
    MockRuns = {}
SPECIFICATION Spec
INVARIANTS OneFaultRunner NoFaultBleed ResetReachesOwnProxy NoSpuriousError
INVARIANTS FinalStatusAgrees NothingLiveAfterFinish LiveIsShownRunning IInv
PROPERTIES FaultsUndisturbed LifecycleSpec
CHECK_DEADLOCK FALSE
