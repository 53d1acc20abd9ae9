\* Two admin requests on one name.
CONSTANTS
  Names = {n1}
  Ids = {i1, i2, i3, i4}
  Threads = {t1, t2}
  NoId = NoId
  Absent = Absent
  Idle = Idle
  StoreMayFail = FALSE
SPECIFICATION Spec
INVARIANTS NamesUnique
