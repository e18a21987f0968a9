SPECIFICATION Spec
CONSTANTS
  a = a
  b = b
  c = c
  k1 = k1
  k2 = k2
  p1 = p1
  p2 = p2
  p3 = p3
  Nil = Nil
  Nodes = {a, b}
  Keys = {k1}
  Procs = {p1, p3}
  Handlers = {h1}
  Rank <- MCRank
  Ops <- WriterRemove
  Home <- Anywhere
  MaxOps <- Once
  MaxVer = 2
  MaxFaults = 0
  MaxViews = 0
  GetterOutcomes = {"ok"}
  Caching = TRUE
  Evicting = {}
  InitPeers = {a, b}
CHECK_DEADLOCK FALSE
INVARIANT RemoveStopsFlights

