SPECIFICATION Spec
CONSTANTS
    Slot = {k1, k2}
    LedgerId = {l1}
    Address = {a1}
    Amount = {2}
    Limit = 2
    MaxRows = 2
    MaxDay = 0
INVARIANT
    DailyLimitHolds
