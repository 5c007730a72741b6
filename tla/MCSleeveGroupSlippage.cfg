SPECIFICATION Spec
CONSTANTS
    Sleeves = {a, b}
    Capital = 4
    Float = 1
    Close = 2
    FillPrices = {3}
    Box <- Loose
    Sizings <- OneShare
    StopDistance = 1
    Actions = 1
    MaxOrders = 2
    MaxOutside = 0
PROPERTY SleevesAreIsolated
