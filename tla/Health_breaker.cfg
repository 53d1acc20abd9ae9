\* Two handlers on one upstream, whose breaker opens at the first failure and
\* whose window doubles once, and a counter that goes one beyond that; database
\* errors.
CONSTANTS
  Ids = {u1}
  Refreshed = {u1}
  Threads = {t1, t2}
  Cards = {c1}
  NoCard = NoCard
  Absent = Absent
  Idle = Idle
  Never = Never
  FailureThreshold = 1
  MaxExponent = 1
  MaxFailures = 3
  StoreMayFail = TRUE
SPECIFICATION FairSpec
INVARIANTS TypeOK BreakerSound 
PROPERTIES DiscoveryRecovers
