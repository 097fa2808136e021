\* Runners hang, crash and are cancelled; a result may break the collector and
\* the orchestrator may die.
CONSTANTS
    r1 = r1
    r2 = r2
    f1 = f1
    f2 = f2
    n1 = n1
    s1 = s1
    NoJob = NoJob
    Runs = {r1, r2}
    Jobs = {f1, f2, s1}
    RunOf <- MCRunOf
    Rows = {f1, f2, s1}
    RowOf <- MCOwn
    Keys = {f1, f2, s1}
    KeyOf <- MCOwn
    FaultJobs = {f1, f2}
    SkippedJobs = {s1}
    UnbuiltJobs = {}
    Proxies = {"cosmos"}
    Toxi = {"cosmos"}
    Reachable = {"cosmos"}
    PoolSize = 2
    Breakdowns = {"popen", "result", "death"}
    Cancellable = {r1}
    Urls = {"local"}
    NoUrl = "none"
    DefaultUrl = "local"
    StartUrl = "none"
    AskedUrl <- MCNoneAsked
    FileUrl <- MCNoneAsked
    MockRuns = {}
SPECIFICATION FairSpec
PROPERTIES ViewSpec RunFinishes CancelIsHonoured
CHECK_DEADLOCK FALSE
