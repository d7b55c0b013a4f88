\* Two tasks, one ledger write that fails, no kill.
SPECIFICATION Spec
CONSTANTS
    t1 = t1
    t2 = t2
    a = a
    b = b
    u = u
    target = target
    worker = worker
    api = api
    cli = cli
    Task = {t1, t2}
    Plugin = {a, b}
    NoPlugin = NoPlugin
    NoTask = NoTask
    Client = {worker}
    MaxAttempts <- MCMaxAttempts
    Priority <- MCPriority
    Executor = {worker}
    Registered = {a}
    Alternatives <- MCAlternatives
    Target = {target}
    TargetOf <- MCTargetOf
    Scopes <- MCScopesTarget
    SaysStop = {}
    Global = Global
    MaxFaults = 1
    ApiStop = {}
    CliStop = {}
    Keys = {Global}
    MaxCrashes = 0
    MaxDatabaseFaults = 0
PROPERTIES
    WorkerGoesOn
