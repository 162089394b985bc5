SPECIFICATION FairSpec
CONSTANTS
    LastPrice = 2
    MaxOutages = 3
    Hooks = {h1, h2}
    Markets = {eur, jpy}
    Off = Off
    MaxFlips = 3
    MaxOrders = 2
    Attempts = 2
    MaxPolls = 2
    MaxEvents = 2
    MaxFaults = 2
INVARIANTS ClosedIsQuiet LiveMeansConnected PlacedIsStored ShownIsFollowed
PROPERTIES PricesArrive StaleIsNoticed TerminalReached
CHECK_DEADLOCK FALSE
