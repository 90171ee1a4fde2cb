CONSTANTS
  s1 = s1
  p1 = p1
  p2 = p2
  Sources = {s1}
  Panels = {p1, p2}
  NoCopy = NoCopy
  Names <- MCNames
  Asked <- MCAsked
  Editions <- MCEditions
  Custom <- MCCustom
  Unlistable <- MCUnlistable
  MaxRuns = 2
  MaxAllows = 2

SPECIFICATION FairSpec

INVARIANTS
  BlockTypeOK
  
  

PROPERTIES
  Converges
