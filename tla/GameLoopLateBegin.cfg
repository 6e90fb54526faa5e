CONSTANTS
  Loop = {l1}
  Picker = {p1}
  Ender = {}
  Old = Old
  None = None
SPECIFICATION FairSpec
PROPERTY PickStartsClean
