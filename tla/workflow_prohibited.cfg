\* One call; the fallback of the assessment plugin is prohibited.
SPECIFICATION Spec
CONSTANTS
    d = d
    a = a
    b = b
    v = v
    w = w
    c = c
    x = x
    y = y
    z = z
    f = f
    bad = bad
    g = g
    Plugin = {d, a, b, v, w, c}
    Target = {x, y, z}
    Finding = {f, bad, g}
    Malformed = {bad}
    Referring = {g}
    Own = Own
    NoState = NoState
    Setups <- MCSetupsProhibited
    Discovered <- MCDiscovered
    Found <- MCFoundOne
    MaxCalls = 1
    MaxFaults = 0
    MaxCrashes = 0
INVARIANTS
    ProhibitedNeverCalled
