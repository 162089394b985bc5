SPECIFICATION Spec
CONSTANTS
  i1 = i1
  i2 = i2
  i3 = i3
  i4 = i4
  Ids = {i1, i2, i3, i4}
  MaxPrice = 2
  NoSlot = NoSlot
  NoIntent = NoIntent
  NoWalk = NoWalk
  MaxNow = 1
  Terms <- MCTerms
SYMMETRY IdSymmetry
INVARIANTS Uncrossed IndexMatchesBook SizeConserved FillOrKill
PROPERTIES PriceTimePriority ImplementsExchange
CHECK_DEADLOCK FALSE
