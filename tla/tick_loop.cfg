SPECIFICATION FairSpec
CONSTANTS
  i1 = i1
  i2 = i2
  i3 = i3
  i4 = i4
  Ids = {i1, i2, i3, i4}
  MaxPrice = 1
  NoSlot = NoSlot
  OrderOf <- MCOrderOf
  NonceOf <- MCNonceOf
  Translatable = {i1, i2, i3}
  NoRow = NoRow
  Free = Free
  Loop = Loop
  MaxNow = 2
  MaxSubmits = 3
  MaxCrashes = 1
INVARIANTS RowBehindChain OfferedOnce SettledWithinSize
PROPERTIES FilledIsFinal PassEnds
