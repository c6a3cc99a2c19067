\* A placement that moves between two clusters, two moves or deletions, an
\* intrusion, a failed call or restart.
SPECIFICATION FairSpec
CONSTANTS
    aws = aws
    gcp = gcp
    None = None
    Cluster = {aws, gcp}
    Placements <- OneOrBoth
    MaxFaults = 2
    MaxIntrusions = 1
    MaxInterrupts = 1
INVARIANTS
    TypeOK
    StrangersByOrphansOnly
PROPERTIES
    StrangersLeftAlone
    EveryClusterServed
