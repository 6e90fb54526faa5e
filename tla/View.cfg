CONSTANTS
  Player = {u1, u2, u3}
  Leaver = {u1, u2, u3}
  Word = {w1, w2}
  MaxTurns = 2
  MaxRows <- OneRow
  MaxLines = 2
  Reader = {r1}
  Chatter = chatter
  None = None
SPECIFICATION Spec
INVARIANTS WordOnlyForSolvers HistoryHidesCurrentWord EndedOnlyWhenSolved
SYMMETRY Symmetry
CHECK_DEADLOCK FALSE
