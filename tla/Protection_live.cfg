SPECIFICATION FairSpec
CONSTANTS
  stubLink = stubLink
  plain = plain
  p1 = p1
  p2 = p2
  tool = tool
  Main = Main
  Loop = Loop
  Ours = Ours
  Missing = Missing
  NoBackup = NoBackup
  Nobody = Nobody
  Threads <- WithPanel
  Panels <- OnePanel
  Tools <- OneTool
  UserFiles <- PlainHost
  StubFiles <- NoFiles
  Links <- NoFiles
  ResolvedActive = FALSE
  HasNM = FALSE
  Elevations = {TRUE}
  Faults <- OnlyLease
  FailSafe = TRUE
  Modes = {"service"}
  MaxRuns = 1
  MaxClicks = 1
  MaxRestores = 0
  MaxLeases = 1
PROPERTIES
  ComesOn
  FailSafeWorks
CHECK_DEADLOCK FALSE
