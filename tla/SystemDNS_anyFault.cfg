SPECIFICATION SysSpec
CONSTANTS
  stubLink = stubLink
  plain = plain
  Ours = Ours
  Missing = Missing
  NoBackup = NoBackup
  Nobody = Nobody
  loop = loop
  panel = panel
  tool = tool
  Threads = {loop, panel}
  Tools = {tool}
  UserFiles <- MCUserFiles
  StubFiles <- MCStubFiles
  Links <- MCLinks
  ResolvedActive = TRUE
  HasNM = TRUE
  Faults <- AllFaults
  Elevations = {TRUE, FALSE}
INVARIANTS
  SysTypeOK

  
