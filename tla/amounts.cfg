SPECIFICATION Spec
CONSTANTS
    Precision = 2
    Digits = 4
    DailyLimit = 8
    Asked = {0, 49, 50, 350, 449, 450, 804, 805, 851, 1250, 12550, 999949, 999950}
    MaxRows = 3
CHECK_DEADLOCK FALSE
INVARIANTS
    AllowedWithinLimit
    PaysWhatIsStored
PROPERTY
    WaitsOnlyBehindDust
