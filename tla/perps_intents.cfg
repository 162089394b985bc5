SPECIFICATION Spec
CONSTANTS
    alice = alice
    bob = bob
    tab1 = tab1
    tab2 = tab2
    desk = desk
    Clients = {tab1, tab2, desk}
    Traders <- MCTraders
    Owner <- MCOwner
    Nonces = {1, 2, 3}
    Prices = {0, 1}
    Deadlines = {2}
    Requests <- MCRequests
    Overrides <- MCOverrides
    IdRank <- MCIdRank
    EventLimit = 1
    MaxTime = 2
    NoIntent = NoIntent
INVARIANTS OneIntentPerNonce ReplacementIsResidual FillsMatchChain PairsAreFair
CHECK_DEADLOCK FALSE
