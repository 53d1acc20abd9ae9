\* One message at a time; the database works.
CONSTANTS
  Ids = {u1, u2}
  Names <- MCNames
  Skills <- MCSkills
  Cards <- MCCards
  Prefixes = {p1}
  Convs = {c1}
  Threads = {t1}
  Absent = Absent
  Idle = Idle
  NoCard = NoCard
  NoPrefix = NoPrefix
  NoName = NoName
  NoSkill = NoSkill
  NoRoute = NoRoute
  StoreMayFail = FALSE
SYMMETRY Symmetry
SPECIFICATION Spec
INVARIANTS TypeOK AdvertisedSkillsRoute OneUpstream
