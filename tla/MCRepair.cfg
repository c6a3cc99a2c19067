\* A request staged before Works carried routing annotations; two disturbances, one
\* restart or failed call.
SPECIFICATION FairSpec
CONSTANTS
    q1 = q1
    q2 = q2
    ka = ka
    kb = kb
    s1 = s1
    s2 = s2
    None = None
    Request = {q1}
    Work = {ka}
    Snapshot = {s1, s2}
    Plan <- OneVolume
    PvcOf <- NoPairs
    Rank <- UIDOrder1
    Admissible = {q1}
    Legacy = {q1}
    Bindings <- HeldOnly
    MaxTime = 1
    MaxFaults = 2
    MaxInterrupts = 1
INVARIANTS
    RepairIntended
PROPERTIES
    DetachVerified
    ReadyDurable
    FirstCompletes
CHECK_DEADLOCK FALSE
