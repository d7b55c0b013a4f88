\* One worker, one API stop, one CLI stop, one kill and one failed ledger write.
SPECIFICATION Spec
CONSTANTS
    t1 = t1
    t2 = t2
    a = a
    b = b
    u = u
    target = target
    worker = worker
    api = api
    cli = cli
    Task = {t1}
    Plugin = {a, b, u}
    NoPlugin = NoPlugin
    NoTask = NoTask
    Client = {worker, api, cli}
    MaxAttempts <- MCMaxAttempts
    Priority <- MCPriority
    Executor = {worker}
    Registered = {a, b}
    Alternatives <- MCAlternatives
    Target = {target}
    TargetOf <- MCTargetOf
    Scopes <- MCScopes
    SaysStop = {}
    Global = Global
    MaxFaults = 1
    ApiStop = {api}
    CliStop = {cli}
    Keys = {Global}
    MaxCrashes = 1
    MaxDatabaseFaults = 1
INVARIANTS
    TypeOK
    AttemptsBounded
    RecoveryBounded
    AuditCoversAttempts
    AuditAgrees
    NoCallAfterRunEnd
    StopOverrunsOnce
PROPERTIES
    CompletedStaysCompleted
