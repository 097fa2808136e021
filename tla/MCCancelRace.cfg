\* A cancel overtakes the launch of a runner.
CONSTANTS
    r1 = r1
    r2 = r2
    f1 = f1
    f2 = f2
    n1 = n1
    s1 = s1
    NoJob = NoJob
    Runs = {r1}
    Jobs = {n1}
    RunOf <- MCRunOf
    Rows = {n1}
    RowOf <- MCOwn
    Keys = {n1}
    KeyOf <- MCOwn
    FaultJobs = {}
    SkippedJobs = {}
    UnbuiltJobs = {}
    Proxies = {"cosmos"}
    Toxi = {"cosmos"}
    Reachable = {"cosmos"}
    PoolSize = 2
    Breakdowns = {}
    Cancellable = {r1}
    Urls = {"local", "staging"}
    NoUrl = "none"
    DefaultUrl = "local"
    StartUrl = "none"
    AskedUrl <- MCNoneAsked
    FileUrl <- MCNoneAsked
    MockRuns = {}
SPECIFICATION Spec
INVARIANT CancelKillsEveryRunner
CHECK_DEADLOCK FALSE
