\* Two handlers and the builder on one upstream, whose breaker opens at the
\* first failure; row writes may fail.
CONSTANTS
  Ids = {u1}
  Refreshed = {u1}
  Threads = {t1, t2}
  Cards = {c1}
  NoCard = NoCard
  Absent = Absent
  Idle = Idle
  Never = Never
  Unbuilt = Unbuilt
  FailureThreshold = 1
  MaxExponent = 0
  MaxFailures = 1
  StoreMayFail = TRUE
SPECIFICATION FairBuilderSpec
INVARIANTS BuilderTypeOK StaleIsAnnounced
PROPERTIES CardConverges
