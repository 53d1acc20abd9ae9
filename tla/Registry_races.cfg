\* Three admin requests at once on two names, with crashes and database errors.
CONSTANTS
  Names = {n1, n2}
  Ids = {i1, i2, i3}
  Threads = {t1, t2, t3}
  NoId = NoId
  Absent = Absent
  Idle = Idle
  StoreMayFail = TRUE
SYMMETRY Symmetry
SPECIFICATION Spec
INVARIANTS TypeOK IndexSound IdsKeepNames IdsPersisted
