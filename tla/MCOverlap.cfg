\* Two requests for the same claim, one disturbance.  They may be filed in the same
\* second, and the hold of the ResourceBinding may designate the first.
SPECIFICATION Spec
CONSTANTS
    q1 = q1
    q2 = q2
    ka = ka
    kb = kb
    s1 = s1
    s2 = s2
    None = None
    Request = {q1, q2}
    Work = {ka}
    Snapshot = {s1}
    Plan <- SameVolume
    PvcOf <- NoPairs
    Rank <- UIDOrder2
    Admissible = {q1, q2}
    Legacy = {}
    Bindings <- AnyBinding
    MaxTime = 2
    MaxFaults = 1
    MaxInterrupts = 0
INVARIANTS
    ReservationExclusive
    ReliesOnOwn
    CompletedRetains
PROPERTIES
    ImplementsLifecycle
CHECK_DEADLOCK FALSE
