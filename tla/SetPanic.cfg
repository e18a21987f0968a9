SPECIFICATION Spec
CONSTANTS
  a = a
  b = b
  c = c
  k1 = k1
  k2 = k2
  p1 = p1
  p2 = p2
  p3 = p3
  Nil = Nil
  Nodes = {a, b}
  Keys = {k1}
  Procs = {p3}
  Handlers = {h1}
  Rank <- MCRank
  Ops <- WriterSet
  Home <- Anywhere
  MaxOps <- Once
  MaxVer = 1
  MaxFaults = 0
  MaxViews = 1
  GetterOutcomes = {"ok"}
  Caching = TRUE
  Evicting = {}
  InitPeers = {}
CHECK_DEADLOCK FALSE
INVARIANT NoNilOwner

