\* Two requests at once on the task of one conversation, among them polls.
CONSTANTS
  Convs = {c1}
  HubIds = {h1}
  Remotes = {r1, r2}
  Threads = {t1, t2}
  Kinds = {"send", "stream", "get", "cancel"}
  Reported = {"working", "completed"}
  Absent = Absent
  Idle = Idle
  NoRemote = NoRemote
  NoSnap = NoSnap
  StoreMayFail = FALSE
SPECIFICATION FairSpec
PROPERTIES PollingConverges
