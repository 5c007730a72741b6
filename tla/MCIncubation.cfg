SPECIFICATION Spec
CONSTANTS
 Candidates = {c1, c2, c3}
 Builders = {b1, b2}
 Returns <- Points
 MAX_INCUBATING = 1
 INCUBATION_REFRACTORY_DAYS = 1
 INCUBATION_WINDOW_TRADING_DAYS = 2
 INCUBATION_MAX_FETCH_FAILURES = 2
 MIN_OBSERVATIONS = 2
 MIN_SPY_PAIRED_OBSERVATIONS = 2
 MddLimit = 1
 Past = 1
 MaxDay = 3
 MaxFailed = 2
 MaxAdmissions = 3
SYMMETRY Alike
INVARIANTS CapIsBounded
PROPERTIES ExpiryIsEarned JudgedOnEveryDay DecisionStands
CHECK_DEADLOCK FALSE
