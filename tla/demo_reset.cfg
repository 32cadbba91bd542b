SPECIFICATION Spec
CONSTANTS
    NoHash = NoHash
    MaxTx = 12
    Reader = {k1}
    MaxEvents = 6
    Touched = {4, 7, 11}
    MaxCommits = 3
INVARIANTS
    TrailExplainsStatus
    StatsNeverMiss
    TrailsMatchUnlessRaced
