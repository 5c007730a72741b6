SPECIFICATION Spec
CONSTANTS
    Rules = {r1}
    Requests = {q1, q2, q3}
    MaxCap = 1
SYMMETRY Alike
INVARIANTS OnlyRacesSurviveDisarm DeletedIsFlat BoxIsConfirmed
PROPERTIES OrdersAreWarranted
CHECK_DEADLOCK FALSE
