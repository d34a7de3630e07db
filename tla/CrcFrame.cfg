SPECIFICATION Spec
CONSTANTS
    MAX_LEN = 14
    SAMPLE = {90}
INVARIANTS TableDivides IntactPasses DamageIsDetected
CHECK_DEADLOCK FALSE
