SPECIFICATION Spec
CONSTANTS
    Windows = {w1}
    Rows <- MCRows
    Cols = 2
    MaxTiles = 1
    LockBuffer = 1
    MaxIndex = 0
    RoomRounds = 2
    MinPlayers = 2
    MaxPlayers = 2
    Attempts = 2
    MaxVisits = 2
    MaxCalls = 2
    None = None
    Players <- MCPlayers
    Hash <- MCHash
    Prize <- MCPrize
    Outcomes <- MCOutcomes
    Escrowed = 16
    ProtocolFee = 1
    NoResult = NoResult
INVARIANTS RevealsMatchCommitments ClaimsVerify
CHECK_DEADLOCK FALSE
