\* One request at a time.
CONSTANTS
  Convs = {c1, c2}
  HubIds = {h1, h2}
  Remotes = {r1, r2}
  Threads = {t1}
  Kinds = {"send", "stream", "get", "cancel"}
  Reported = {"working", "completed", "other"}
  Absent = Absent
  Idle = Idle
  NoRemote = NoRemote
  NoSnap = NoSnap
  StoreMayFail = TRUE
SPECIFICATION Spec
PROPERTIES FinalAnswersKept
