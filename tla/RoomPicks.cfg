\* With no word left the room stops for good; the bound on turns also stops it.
CHECK_DEADLOCK FALSE
CONSTANTS
  User = {u1, u2}
  Host = u1
  Joiner = {j1}
  Word = {w1, w2}
  Leaver = {}
  Fallible = TRUE
  Capacity = 2
  MinPlayers = 2
  NumOptions = 2
  MaxTurns = 3
  Loop = {l1, l2}
  Picker = {p1, p2}
  Ender = {e1}
  Old = Old
  None = None
SPECIFICATION Spec
SYMMETRY Symmetry
INVARIANTS TypeOK PickedWordWasOffered RegisteredWaiterBlocked
PROPERTIES WordKept PicksReachLoop WaiterLostOnlyToOverwrite
