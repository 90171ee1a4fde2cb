SPECIFICATION Spec
CONSTANTS
  stubLink = stubLink
  plain = plain
  p1 = p1
  p2 = p2
  tool = tool
  Main = Main
  Loop = Loop
  Ours = Ours
  Missing = Missing
  NoBackup = NoBackup
  Nobody = Nobody
  Threads <- WithPanel
  Panels <- OnePanel
  Tools <- OneTool
  UserFiles <- PlainHost
  StubFiles <- NoFiles
  Links <- NoFiles
  ResolvedActive = FALSE
  HasNM = FALSE
  Elevations = {TRUE, FALSE}
  Faults <- Failing
  FailSafe = TRUE
  Modes = {"app"}
  MaxRuns = 2
  MaxClicks = 0
  MaxRestores = 1
  MaxLeases = 0
INVARIANTS
  
  OffMeansClean
CHECK_DEADLOCK FALSE
