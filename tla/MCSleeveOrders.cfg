SPECIFICATION TickSpec
CONSTANTS
 Order = {o1, o2}
 Qty = 2
 Modes = {"SHADOW", "PAPER"}
 Faults = {}
 MaxTries = 1
 MaxFaults = 1
INVARIANTS BookCoversBroker
PROPERTIES ImplementsOrderBook DisarmStopsOrders EveryOrderSettles
