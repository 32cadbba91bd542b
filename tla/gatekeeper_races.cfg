SPECIFICATION Spec
CONSTANTS
    Slot = {k1, k2}
    LedgerId = {l1}
    Address = {a1}
    Amount = {1}
    Limit = 1
    MaxRows = 3
    MaxDay = 1
SYMMETRY SlotSymmetry
INVARIANTS
    TypeOK
    AllowedWithinSlots
    WhitelistIsCurrent
