\* Two calls and one kill.
SPECIFICATION Spec
CONSTANTS
    d = d
    a = a
    b = b
    v = v
    w = w
    c = c
    x = x
    y = y
    z = z
    f = f
    bad = bad
    g = g
    Plugin = {d, a, b, v, w, c}
    Target = {x, y, z}
    Finding = {f, bad, g}
    Malformed = {bad}
    Referring = {g}
    Own = Own
    NoState = NoState
    Setups <- MCSetupsOne
    Discovered <- MCDiscovered
    Found <- MCFoundOne
    MaxCalls = 2
    MaxFaults = 0
    MaxCrashes = 1
INVARIANTS
    EvidenceIntact
