\* A migration pass that began before the request was Ready, while the cleanup ends it.
SPECIFICATION Spec
CONSTANTS
    q1 = q1
    q2 = q2
    ka = ka
    kb = kb
    s1 = s1
    s2 = s2
    None = None
    Request = {q1}
    Work = {ka}
    Snapshot = {s1}
    Plan <- OneVolume
    PvcOf <- NoPairs
    Rank <- UIDOrder1
    Admissible = {q1}
    Legacy = {}
    Bindings <- HeldOnly
    MaxTime = 1
    MaxFaults = 0
    MaxInterrupts = 0
PROPERTIES
    NoRecreationAfterDetach
CHECK_DEADLOCK FALSE
