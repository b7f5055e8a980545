SPECIFICATION Spec
CONSTANTS
    Count = 2
    MaxCrashes = 1
CHECK_DEADLOCK FALSE
INVARIANTS TypeOK EffectHonest EffectsHoldCompletion LedgerAgrees UndeliveredClosed ApprovedPaired
