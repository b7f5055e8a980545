SPECIFICATION Spec
CONSTANTS
    Count = 2
    MaxCrashes = 0
CHECK_DEADLOCK FALSE
INVARIANT OnlyEffectsHoldCompletion
