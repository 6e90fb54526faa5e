CONSTANTS
  Loop = {l1, l2}
  Picker = {p1}
  Ender = {e1}
  Old = Old
  None = None
SPECIFICATION FairSpec
INVARIANTS TypeOK OneLiveLoop NoDoubleClose RegisteredWaiterBlocked
PROPERTIES WaiterLostOnlyToOverwrite TurnCycleSafety TurnCycleSpec CancelledReturns
PROPERTIES RegisteredWaiterServed NoOrphanWaiter BeginTurnReturns
