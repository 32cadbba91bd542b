SPECIFICATION RecorderSpec
CONSTANTS
    NoHash = NoHash
    NoServer = NoServer
    toA = toA
    toB = toB
    Server = {s1}
    Request = {r1, r2}
    MaxTx = 2
    Transfer = {toA, toB}
    TransferOf <- SameTransfer
    Dust = {}
    Fee = {f1}
    PoolSize = 2
SYMMETRY RequestSymmetry
INVARIANTS
    SettledIsPaid
    OneOutstanding
    SubmissionsAudited
    RecordedSurvives
    RecordedOnce
