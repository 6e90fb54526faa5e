CONSTANTS
  User = {u1, u2}
  Sender = {u1}
  Conn = {c1, c2}
  Poster = {p1}
  LoopPub = loop
  Char <- Chars
  Content <- Contents
  Name <- NameChars
  MinPlayers = 2
  None = None
SPECIFICATION FairSpec
INVARIANTS ReaderSubscribed NobodyLeftBehind ShownAsSent
PROPERTIES AbsentPlayerKicked PubReturns
CHECK_DEADLOCK FALSE
