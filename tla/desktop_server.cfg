\* Two requests at a time and two actions at a time, a full audit disk and a kill.
SPECIFICATION Spec
CONSTANTS
    apex = apex
    www = www
    Run = {r1}
    Target = {apex, www}
    Kind = {"move_pointer", "click"}
    HostOf <- MCHostOf
    Scope <- MCScope
    DefaultScope <- MCDefaultScope
    Caller = {c1, c2}
    Name = {n1, n2}
    Entry = {e}
    NoEntry = NoEntry
    Key = {k}
    NoKey = NoKey
    MaxChanges = 3
    MaxFailures = 1
    Agent = {a1, a2}
    Surfaces = {"desktop"}
    Nobody = Nobody
    MaxActions = 2
    MaxCuts = 1
    MaxCrashes = 1
SYMMETRY Alike
CONSTRAINT Apart
INVARIANTS
    TypeOK
    ChangesKept
    OrphanKeys
    ScopesAgree
    WithdrawnNeverActs
    ActionsAudited
    AuditReplays
CHECK_DEADLOCK FALSE
