\* One operator, one request at a time, crashes and database errors.
CONSTANTS
  Names = {n1, n2}
  Ids = {i1, i2, i3}
  Threads = {t1}
  NoId = NoId
  NoThread = NoThread
  Done = Done
  Folded <- MCFolded
  Absent = Absent
  Idle = Idle
  StoreMayFail = TRUE
SYMMETRY Symmetry
SPECIFICATION CliSpec
INVARIANTS CliTypeOK NamesUnique AdminIntentKept
PROPERTIES CommandsActAsOne EditKeepsId
