\* Requests of two mappings, sensible or not, and of four that move two ordinals,
\* over the claims of two templates, one of which may be remade or have another
\* volume; one change of the scale or of the snapshot, which the caches show late.
SPECIFICATION Spec
CONSTANTS
    data = data
    logs = logs
    shared = shared
    nfs1 = nfs1
    nfs2 = nfs2
    csi = csi
    None = None
    Template = {data, logs}
    Plain = {}
    Refs <- AliasOf1
    Width = 3
    Names <- Ordinals
    Requests <- PairsAndMoves
    Scales <- OneOrTwo
    Workload = {1, 2}
    Identity = {1, 2}
    Sources <- OneUnusual
    Content = {nfs1, nfs2, csi}
    Portable = {nfs1, nfs2}
    Claimable = {nfs1}
    MaxChanges = 1
INVARIANTS
    TypeOK
    OrdinalsMoveWhole
    WorksOfOnePlan
PROPERTIES
    SourceUnchanged
    StandaloneClaimsFree
