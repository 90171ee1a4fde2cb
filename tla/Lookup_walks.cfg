CONSTANTS
  ipRoot = ipRoot
  ipGood = ipGood
  ipGood2 = ipGood2
  ipSub = ipSub
  ipEvil = ipEvil
  w1 = w1
  w2 = w2
  Walkers = {w1, w2}
  Addresses = {ipRoot, ipGood, ipGood2, ipSub, ipEvil}
  Published = {ipRoot, ipGood, ipSub, ipEvil}
  NoName = NoName
  NoData = NoData
  Names <- MCNames
  Questions <- MCQuestions
  Zones <- MCZones
  Serves <- MCServes
  NSNames <- MCNSNames
  Data <- MCData
  Liars <- MCLiars
  Lies <- MCLies
  Honest <- MCHonest
  Glueless <- MCGlueless
  Intercepted = {"udp"}
  MaxDepth = 1
  MaxSteps = 4
  MaxTries = 2
  MaxNS = 1
  EnoughAddrs = 2
  MaxHops = 4

SPECIFICATION FairSpec

INVARIANTS
  LookupTypeOK
  Undeceived
  

PROPERTIES
  Descends
  Closer
  Ends

CHECK_DEADLOCK FALSE
