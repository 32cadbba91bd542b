SPECIFICATION Spec
CONSTANTS
    NoHash = NoHash
    MaxTx = 1
    Caller = {c1, c2, c3, c4}
    Prime = 5
    MaxSecretSize = 1
    Threshold = 2
    Total = 3
SYMMETRY CallerSymmetry
INVARIANTS
    AnyQuorumRecovers
    FewerNeverAnswer
    OnePayload
    HashSurvives
    EmittedAudited
