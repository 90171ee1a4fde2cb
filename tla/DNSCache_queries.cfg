CONSTANTS
  c1 = c1
  c2 = c2
  Clients = {c1, c2}
  Nobody = Nobody
  alias = alias
  target = target
  NoName = NoName
  Names <- MCNames
  Alias <- MCAlias
  Server <- MCServer
  TTLs = {4}
  NegTTLs = {1}
  MaxDepth = 1
  MaxEntries = 1
  CacheEnabled = TRUE
  MinTTL = 1
  MaxTTL = 4
  MinNegTTL = 1
  MaxNegTTL = 2
  ServFailTTL = 1
  StaleTTL = 1
  StaleWindow = 1
  MaxTime = 5
  MaxLag = 1
  MaxUses = 3

SPECIFICATION Spec
SYMMETRY Symmetry

INVARIANTS
  CacheTypeOK
  SizeBound
  OneFlight
  Awaited
  

PROPERTIES
  LastResort

CHECK_DEADLOCK FALSE
