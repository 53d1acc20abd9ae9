\* One message at a time, no streams: only an error can mark a row failed
\* whose upstream task goes on.
CONSTANTS
  Convs = {c1}
  HubIds = {h1, h2}
  Remotes = {r1}
  Threads = {t1}
  Kinds = {"send"}
  Reported = {"submitted", "working", "completed", "failed", "canceled"}
  Absent = Absent
  Idle = Idle
  NoRemote = NoRemote
  NoSnap = NoSnap
  StoreMayFail = FALSE
SPECIFICATION Spec
INVARIANTS MappingNeverConflicts
