\* Three rows in pages of one; a log of six lines.
CONSTANTS
  Rows = {a1, a2, a3}
  PageSize = 1
  Retention = 2
  NoWalk = NoWalk
  StoreMayFail = TRUE
  Tailed = 2
  MaxLines = 6
SPECIFICATION ConsoleSpec
INVARIANTS ConsoleTypeOK TotalsCover NothingPassedOver
PROPERTIES PagesComplete FollowsLog CatchesUp
