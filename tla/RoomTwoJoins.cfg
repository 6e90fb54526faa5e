\* The bound on turns stops the room.
CHECK_DEADLOCK FALSE
CONSTANTS
  User = {u1, u2, u3}
  Host = u1
  Joiner = {j1, j2}
  Word = {w1, w2}
  Leaver = {u2}
  Fallible = FALSE
  Capacity = 3
  MinPlayers = 2
  NumOptions = 2
  MaxTurns = 2
  Loop = {l1, l2}
  Picker = {p1}
  Ender = {}
  Old = Old
  None = None
SPECIFICATION Spec
SYMMETRY Symmetry
PROPERTY JoinNeverReplacesTurn
