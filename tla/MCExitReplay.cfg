SPECIFICATION ReplaySpec
CONSTANTS
    Returns <- Falls
    Distances = {1, 2}
    Opinions = {"none", "ahead", "between"}
    VwapGates = {TRUE}
    Graces = {TRUE, FALSE}
    Regimes = {1, 2}
    LiveModes = {TRUE}
    MAGNITUDE_FLOOR_PCT = 1
    ACTIVATION = 1
    VWAP_CROSS_HWM_PCT = 1
    VWAP_BLEED_ARM_PCT <- BleedArm
    DISARM_CONFIRM_TICKS = 2
    TP_CONFIRM_TICKS = 2
    VWAP_BREAK_CONFIRM_TICKS = 2
    VWAP_BLEED_TICKS = 2
    HWM_HOLD_TICKS_THRESHOLD = 2
    Cap = 2
    MaxMoves = 1
    MaxDays = 1
    MaxMisses = 1
    MaxFailures = 1
    StartTimes = {0, 1}
    NTicks = 5
    BLACKOUT = 1
    GRACE = 1
    PARA_THRESHOLD = 2
    TimeSteps = 2
    StopDistance <- Decay
CHECK_DEADLOCK FALSE
INVARIANTS SameState
PROPERTIES ReplayAgrees
