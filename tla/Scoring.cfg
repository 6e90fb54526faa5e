CONSTANTS
  Player = {a, b, c}
  Leaver = {a}
  Word = {w}
  MaxTurns = 2
  MaxRows <- TwoRowsOfLeaver
  Guess = {g1, g2}
  Message = {m1}
  None = None
SPECIFICATION Spec
SYMMETRY Symmetry
INVARIANTS TypeOK OneGuessScorePerTurn TellerPaidPerSolver TellerFloorSerial
PROPERTY LastGuessEndsTurn
