\* One request for a standalone PV and PVC pair, one disturbance of any kind.
SPECIFICATION Spec
CONSTANTS
    q1 = q1
    q2 = q2
    ka = ka
    kb = kb
    s1 = s1
    s2 = s2
    None = None
    Request = {q1}
    Work = {ka, kb}
    Snapshot = {s1, s2}
    Plan <- TwoVolumes
    PvcOf <- OnePair
    Rank <- UIDOrder1
    Admissible = {q1}
    Legacy = {}
    Bindings <- HeldOrLoosed
    MaxTime = 1
    MaxFaults = 1
    MaxInterrupts = 0
SYMMETRY SnapshotSymmetry
INVARIANTS
    TypeOK
    WorksFollowPlan
    CompletedDetached
    ReceiptsTruthful
PROPERTIES
    DetachVerified
    ImplementsLifecycle
CHECK_DEADLOCK FALSE
