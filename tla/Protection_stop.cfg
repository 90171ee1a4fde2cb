SPECIFICATION Spec
CONSTANTS
  stubLink = stubLink
  plain = plain
  p1 = p1
  p2 = p2
  tool = tool
  Main = Main
  Loop = Loop
  Ours = Ours
  Missing = Missing
  NoBackup = NoBackup
  Nobody = Nobody
  Threads <- WithPanel
  Panels <- OnePanel
  Tools <- OneTool
  UserFiles <- StubHost
  StubFiles <- TheStub
  Links <- TheStub
  ResolvedActive = TRUE
  HasNM = FALSE
  Elevations = {TRUE}
  Faults <- OnlyLease
  FailSafe = TRUE
  Modes = {"app", "service"}
  MaxRuns = 1
  MaxClicks = 1
  MaxRestores = 0
  MaxLeases = 1
INVARIANTS
  StoppedClean
  
CHECK_DEADLOCK FALSE
