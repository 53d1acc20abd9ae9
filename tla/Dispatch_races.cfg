\* Two requests at once in two conversations; the database works.
CONSTANTS
  Convs = {c1, c2}
  HubIds = {h1, h2}
  Remotes = {r1, r2}
  Threads = {t1, t2}
  Kinds = {"send", "stream", "get", "cancel"}
  Reported = {"working", "completed"}
  Absent = Absent
  Idle = Idle
  NoRemote = NoRemote
  NoSnap = NoSnap
  StoreMayFail = FALSE
SYMMETRY Symmetry
SPECIFICATION Spec
INVARIANTS TypeOK ConversationsKept CachedFinalsAreTrue
