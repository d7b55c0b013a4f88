\* Three threads; two may run on a target, two with the tool, one on a node.
SPECIFICATION Spec
CONSTANTS
    p = p
    q = q
    r = r
    x = x
    y = y
    tool = tool
    m = m
    n = n
    Thread = {p, q, r}
    NoThread = NoThread
    Target = {x, y}
    Tool = {tool}
    Node = {m, n}
    PerTarget = 2
    PerTool = 2
    PerNode = 1
INVARIANTS
    TypeOK
    LimitsHeld
    CountsExact
PROPERTIES
    RefusedWhenFull
    LockReleased
    KeepsPromise
