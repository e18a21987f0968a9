SPECIFICATION StatsSpec
CONSTANTS
  a = a
  b = b
  c = c
  k1 = k1
  k2 = k2
  p1 = p1
  p2 = p2
  p3 = p3
  Nil = Nil
  Nodes = {a, b}
  Keys = {k1}
  Procs = {p1, p2, p3}
  Handlers = {h1, h2}
  Rank <- MCRank
  Ops <- Getters
  Home <- OneOnEach
  MaxOps <- Once
  MaxVer = 1
  MaxFaults = 1
  MaxViews = 0
  GetterOutcomes = {"ok", "err", "panic"}
  Caching = TRUE
  Evicting = {}
  InitPeers = {a, b}
CHECK_DEADLOCK FALSE
INVARIANTS TypeOK OneGetterAtOwner GetterRunsOnce
           HitsAndLoads LoadsSettled RequestsCounted
PROPERTY CallsReturn
