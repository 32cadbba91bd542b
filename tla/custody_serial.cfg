SPECIFICATION SerialSpec
CONSTANTS
    NoHash = NoHash
    NoServer = NoServer
    r1 = r1
    r2 = r2
    r3 = r3
    r4 = r4
    r5 = r5
    toA = toA
    toB = toB
    Server = {s1, s2}
    Request = {r1, r2, r3, r4, r5}
    MaxTx = 2
    Transfer = {toA, toB}
    TransferOf <- SameTransfer
    Dust = {}
    Fee = {f1}
    PoolSize = 2
SYMMETRY RequestSymmetry
INVARIANTS
    PaidAtMostOnce
    TrailLegal
    OutcomeIsOnChain
PROPERTY
    LifecycleEdges
    RefinesWithdrawal
