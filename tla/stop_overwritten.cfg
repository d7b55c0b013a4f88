\* A CLI stop meets a running worker; nothing fails.
SPECIFICATION Spec
CONSTANTS
    t1 = t1
    t2 = t2
    a = a
    b = b
    u = u
    target = target
    worker = worker
    api = api
    cli = cli
    Task = {t1}
    Plugin = {a, b, u}
    NoPlugin = NoPlugin
    NoTask = NoTask
    Client = {worker, cli}
    MaxAttempts <- MCMaxAttempts
    Priority <- MCPriority
    Executor = {worker}
    Registered = {a, b}
    Alternatives <- MCAlternatives
    Target = {target}
    TargetOf <- MCTargetOf
    Scopes <- MCScopes
    SaysStop = {}
    Global = Global
    MaxFaults = 0
    ApiStop = {}
    CliStop = {cli}
    Keys = {Global}
    MaxCrashes = 0
    MaxDatabaseFaults = 0
PROPERTIES
    StopPersists
