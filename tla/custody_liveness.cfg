SPECIFICATION ProgressSpec
CONSTANTS
    NoHash = NoHash
    NoServer = NoServer
    r1 = r1
    r2 = r2
    r3 = r3
    r4 = r4
    r5 = r5
    toA = toA
    toB = toB
    Server = {s1}
    Request = {r1, r2, r3}
    MaxTx = 2
    Transfer = {toA, toB}
    TransferOf <- OtherTransfer
    Dust = {toB}
    Fee = {f1}
    PoolSize = 2
PROPERTIES
    RequestsEnd
    SignedGoesOnUnlessFault
