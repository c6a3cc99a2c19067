\* A StatefulSet of up to two replicas whose pods also name the claim of ordinal 1,
\* which is standalone while there are fewer; two changes or losses, one failed
\* call or restart.
SPECIFICATION FairSpec
CONSTANTS
    data = data
    shared = shared
    v1 = v1
    v2 = v2
    None = None
    Template <- OneTemplate
    Plain = {}
    Refs <- AliasOf1
    Width = 3
    Order <- TwoOrdinals
    Volume = {v1, v2}
    Scales <- UpAndDown
    MaxFaults = 2
    MaxInterrupts = 1
INVARIANTS
    TypeOK
    SnapshotIsOneCollection
    CollectionComplete
    VolumesWereBound
PROPERTIES
    SnapshotAdvances
    QuietSourceReflected
