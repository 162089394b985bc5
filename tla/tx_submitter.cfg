SPECIFICATION FairSpec
CONSTANTS
  Callers = {c1, c2}
  MaxAttempts = 3
  MaxFaults = 2
  Other = Other
  MaxOthers = 1
  NoNonce = NoNonce
  Nobody = Nobody
INVARIANTS NoGap AtMostOnceIfAnswered
PROPERTY SubmitReturns
CHECK_DEADLOCK FALSE
