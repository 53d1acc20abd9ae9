\* One shell, three pids.
CONSTANTS
  Shells = {s1}
  Pids = {p1, p2, p3}
  NoPid = NoPid
  Absent = Absent
  Stranger = Stranger
  Foreign = Foreign
  Idle = Idle
SPECIFICATION FairSpec
INVARIANTS TypeOK DaemonTracked OneDaemon
PROPERTIES StoppedHubsEnd CommandsEnd
