\* Two requests for the same claim, filed in the same second.
SPECIFICATION FairSpec
CONSTANTS
    q1 = q1
    q2 = q2
    ka = ka
    kb = kb
    s1 = s1
    s2 = s2
    None = None
    Request = {q1, q2}
    Work = {ka}
    Snapshot = {s1}
    Plan <- SameVolume
    PvcOf <- NoPairs
    Rank <- UIDOrder2
    Admissible = {q1, q2}
    Legacy = {}
    Bindings <- HeldOnly
    MaxTime = 1
    MaxFaults = 0
    MaxInterrupts = 0
PROPERTIES
    OverlapHasWinner
CHECK_DEADLOCK FALSE
