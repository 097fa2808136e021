\* Fault jobs fill the pool while they wait for the lock.
CONSTANTS
    r1 = r1
    r2 = r2
    f1 = f1
    f2 = f2
    n1 = n1
    s1 = s1
    NoJob = NoJob
    Runs = {r1, r2}
    Jobs = {f1, f2, n1}
    RunOf <- MCRunOf
    Rows = {f1, f2, n1}
    RowOf <- MCOwn
    Keys = {f1, f2, n1}
    KeyOf <- MCOwn
    FaultJobs = {f1, f2}
    SkippedJobs = {}
    UnbuiltJobs = {}
    Proxies = {"cosmos"}
    Toxi = {"cosmos"}
    Reachable = {"cosmos"}
    PoolSize = 2
    Breakdowns = {}
    Cancellable = {}
    Urls = {"local", "staging"}
    NoUrl = "none"
    DefaultUrl = "local"
    StartUrl = "none"
    AskedUrl <- MCNoneAsked
    FileUrl <- MCNoneAsked
    MockRuns = {}
SPECIFICATION Spec
INVARIANT NonFaultUnaffected
CHECK_DEADLOCK FALSE
