\* The bound on turns stops the room.
CHECK_DEADLOCK FALSE
CONSTANTS
  User = {u1, u2, u3}
  Host = u1
  Joiner = {j1}
  Word = {w1, w2}
  Leaver = {u1, u2}
  Fallible = TRUE
  Capacity = 2
  MinPlayers = 2
  NumOptions = 2
  MaxTurns = 2
  Loop = {l1}
  Picker = {}
  Ender = {}
  Old = Old
  None = None
SPECIFICATION Spec
SYMMETRY Symmetry
INVARIANTS OneSeatPerUser CapacityKept
PROPERTIES StartAddsTurnOnlyWhenStopped TablesAsPromised
