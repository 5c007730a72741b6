SPECIFICATION FairSpec
CONSTANTS
    Sleeves = {a, b}
    Capital = 7
    Float = 1
    Close = 2
    FillPrices = {3}
    Box <- Tight
    Sizings <- ThreeShares
    StopDistance = 1
    Actions = 2
    MaxOrders = 2
    MaxOutside = 1
INVARIANTS BookMatchesBroker LedgersAddUp CashIsReservedOnce
PROPERTIES PauseHasCause OverclaimIsCaught
