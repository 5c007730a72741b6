SPECIFICATION Spec
CONSTANTS
    Order = {o1, o2}
    Qty = 1
    Modes = {"SHADOW", "PAPER", "LIVE", "PAUSED_RECONCILIATION"}
    Faults = {"lostReply", "lateArrival", "slowCancel"}
    MaxTries = 2
    MaxFaults = 1
SYMMETRY OrderSymmetry
INVARIANT OnlyAstrayAreLost
PROPERTY SettledForGood
