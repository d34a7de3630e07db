CONSTANTS
    Speeds <- MCSpeeds
    Counts <- MCCounts
    Stalls = {0, 690, 703}
    MAX_SAMPLES = 3
    SAFE_SAMPLES = 700
SPECIFICATION Spec
INVARIANTS TypeOK TargetIsApplied DriveOpposesError GetIsSample
CHECK_DEADLOCK FALSE
