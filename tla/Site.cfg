CONSTANTS
  Tab = {t1}
  MaxUsers = 3
  MaxErrors = 1
  p1 = p1
  p2 = p2
  Proc = {p1, p2}
  Commands <- TwoProcs
  Known = 1
  MaxMigrations = 2
  MaxFiles = 2
  SeedNeeds = 2
SPECIFICATION FairSpec
INVARIANT SchemaMatchesRecord
PROPERTIES KeepSession RedirectsEnd
