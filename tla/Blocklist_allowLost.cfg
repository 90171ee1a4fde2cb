CONSTANTS
  s1 = s1
  p1 = p1
  p2 = p2
  Sources = {s1}
  Panels = {p1}
  NoCopy = NoCopy
  Names <- MCNames
  Asked <- TwoSites
  Editions <- MCEditions
  Custom <- MCCustom
  Unlistable = {}
  MaxRuns = 2
  MaxAllows = 2

SPECIFICATION Spec

INVARIANTS
  AllowStays
