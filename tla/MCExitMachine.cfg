SPECIFICATION Spec
CONSTANTS
    Returns <- Falls
    Distances = {1}
    Opinions = {"none", "ahead", "between"}
    VwapGates = {TRUE, FALSE}
    Graces = {TRUE, FALSE}
    Regimes = {2}
    LiveModes = {TRUE}
    MAGNITUDE_FLOOR_PCT = 1
    ACTIVATION = 1
    VWAP_CROSS_HWM_PCT = 1
    VWAP_BLEED_ARM_PCT <- BleedArm
    DISARM_CONFIRM_TICKS = 2
    TP_CONFIRM_TICKS = 2
    VWAP_BREAK_CONFIRM_TICKS = 2
    VWAP_BLEED_TICKS = 2
    HWM_HOLD_TICKS_THRESHOLD = 2
    Cap = 2
    MaxMoves = 2
    MaxDays = 1
    MaxMisses = 1
    MaxFailures = 1
INVARIANTS ExitedOnce MarkIsPeak
PROPERTIES ExitConfirmed DisarmConfirmed BlindStopFires ReopenedIsReset
