\* The first ordinal plus the replicas overflows, and the claim has an alias.
SPECIFICATION Spec
CONSTANTS
    data = data
    shared = shared
    v1 = v1
    v2 = v2
    None = None
    Template <- OneTemplate
    Plain = {}
    Refs <- AliasOf1
    Width = 2
    Order <- TwoOrdinals
    Volume = {v1, v2}
    Scales <- LastOrdinal
    MaxFaults = 2
    MaxInterrupts = 1
INVARIANTS
    AliasesCollected
