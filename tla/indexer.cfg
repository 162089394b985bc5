SPECIFICATION Spec
CONSTANTS
    p1 = p1
    p2 = p2
    Players <- MCPlayers
    Rounds = 2
    Roots = {r1, r2}
    NoHash = NoHash
    NoRow = NoRow
    Amounts = {1, 2}
    MaxEvents = 3
    Lag = 3
    Days = 1
SYMMETRY MCSymmetry
INVARIANTS RoomFollowsContract PlacementsFollowEscrow SnapshotsAddUp RequestsFollowRouter
CHECK_DEADLOCK FALSE
