SPECIFICATION Spec
CONSTANTS
    Candidates = {c1}
    Builders = {b1}
    Returns <- Points
    MAX_INCUBATING = 1
    INCUBATION_REFRACTORY_DAYS = 1
    INCUBATION_WINDOW_TRADING_DAYS = 2
    INCUBATION_MAX_FETCH_FAILURES = 2
    MIN_OBSERVATIONS = 2
    MIN_SPY_PAIRED_OBSERVATIONS = 2
    MddLimit = 1
    Past = 2
    MaxDay = 4
    MaxFailed = 2
    MaxAdmissions = 1
INVARIANT PromotedOnForwardDays
CHECK_DEADLOCK FALSE
