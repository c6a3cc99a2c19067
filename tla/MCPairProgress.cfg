\* Progress of a request for a standalone pair, with a restart or a failed call.
SPECIFICATION FairSpec
CONSTANTS
    q1 = q1
    q2 = q2
    ka = ka
    kb = kb
    s1 = s1
    s2 = s2
    None = None
    Request = {q1}
    Work = {ka, kb}
    Snapshot = {s1}
    Plan <- TwoVolumes
    PvcOf <- OnePair
    Rank <- UIDOrder1
    Admissible = {q1}
    Legacy = {}
    Bindings <- HeldOnly
    MaxTime = 1
    MaxFaults = 0
    MaxInterrupts = 1
PROPERTIES
    FirstCompletes
CHECK_DEADLOCK FALSE
