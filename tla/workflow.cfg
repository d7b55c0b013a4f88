\* Three calls, one write that fails and one kill.
SPECIFICATION Spec
CONSTANTS
    d = d
    a = a
    b = b
    v = v
    w = w
    c = c
    x = x
    y = y
    z = z
    f = f
    bad = bad
    g = g
    Plugin = {d, a, b, v, w, c}
    Target = {x, y, z}
    Finding = {f, bad, g}
    Malformed = {bad}
    Referring = {g}
    Own = Own
    NoState = NoState
    Setups <- MCSetups
    Discovered <- MCDiscovered
    Found <- MCFound
    MaxCalls = 3
    MaxFaults = 1
    MaxCrashes = 1
INVARIANTS
    TypeOK
    EndAgrees
    FindingsAudited
    ValidationApproved
    EvidenceKept
    SucceededInFull
PROPERTIES
    ProgressKept
