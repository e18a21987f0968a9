SPECIFICATION FairSpec
CONSTANTS
  a = a
  b = b
  c = c
  k1 = k1
  k2 = k2
  p1 = p1
  p2 = p2
  p3 = p3
  Nil = Nil
  Nodes = {a, b, c}
  Keys = {k1}
  Procs = {p1, p2}
  Handlers = {h1, h2, h3, h4}
  Rank <- MCRank
  Ops <- Getters
  Home <- FirstOnC
  MaxOps <- Once
  MaxVer = 1
  MaxFaults = 0
  MaxViews = 1
  GetterOutcomes = {"ok"}
  Caching = TRUE
  Evicting = {}
  InitPeers = {}
CHECK_DEADLOCK FALSE
INVARIANT ForwardingDescends
PROPERTY CallsReturn
