\* The bounds on turns and lines stop the room.
CHECK_DEADLOCK FALSE
CONSTANTS
  Player = {u1, u2, u3}
  Leaver = {}
  Word = {w1, w2}
  MaxTurns = 2
  MaxRows <- OneRow
  MaxLines = 1
  Reader = {r1}
  Chatter = chatter
  None = None
SPECIFICATION Spec
SYMMETRY Symmetry
INVARIANT RawWordNeverLeaks
