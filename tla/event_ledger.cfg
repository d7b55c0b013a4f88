\* Two threads, up to three events, two failures and one edit.
SPECIFICATION Spec
CONSTANTS
    h1 = h1
    h2 = h2
    p = p
    q = q
    yes = yes
    no = no
    Handle = {h1}
    Thread = {p, q}
    NoThread = NoThread
    Data = {yes, no}
    MaxSequence = 3
    MaxFaults = 2
    MaxDamage = 1
INVARIANTS
    TypeOK
    ReplaysUntouched
    AcknowledgedStays
    AcceptedWasWritten
    StreamShowsChain
\* The file may be full.
CHECK_DEADLOCK FALSE
