SPECIFICATION FairSpec
CONSTANTS
    Workflows = {f1, f2}
    Tools <- MCTools
    Signed <- MCSigned
    Paid <- MCPaid
    Price <- MCPrice
    Wallets <- MCWallets
    Receipts <- MCReceipts
    Calls = {c1, c2}
    NoWallet = NoWallet
    NoWorkflow = NoWorkflow
    Idle = Idle
    HttpAgents = {a1}
    McpAgents = {m1}
    Slots = {s1, s2}
    Limit = 2
    MaxSends = 3
    Free = Free
    None = None
    Ids = {i1, i2, i3}
    Scopes <- MCScopes
    Signers <- MCWallets
    MaxNonce = 1
    Posts = {p1, p2}
    NoIntent = NoIntent
    Nothing = Nothing
INVARIANTS GatesAreAudited RunningIsExecuted ExecutedOnce NoncesSpentInOrder
PROPERTY KeysComeFree
CHECK_DEADLOCK FALSE
