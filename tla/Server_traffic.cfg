CONSTANTS
  g1 = g1
  g2 = g2
  Goroutines = {g1, g2}
  NoEntry = NoEntry
  Domains = {"ads", "site"}
  BlockedNames = {"ads"}
  Statuses = {"blocked", "cached"}
  MaxSize = 2
  Seconds = 2
  MaxTracked = 1
  UdpSlots = 1
  TcpSlots = 1
  MaxMessages = 4
  MaxTime = 4

SPECIFICATION FairSpec

INVARIANTS
  ServerTypeOK
  SlotsExact
  
  ChartComplete
  

PROPERTIES
  SlotsComeBack
  ShowsRecent

CHECK_DEADLOCK FALSE
