SPECIFICATION Spec
CONSTANTS
  a = a
  b = b
  c = c
  k1 = k1
  k2 = k2
  p1 = p1
  p2 = p2
  p3 = p3
  Nil = Nil
  Nodes = {a, b, c}
  Keys = {k1}
  Procs = {p1, p3}
  Handlers = {h1}
  Rank <- MCRank
  Ops <- WriterAny
  Home <- Anywhere
  MaxOps <- ReadTwice
  MaxVer = 2
  MaxFaults = 1
  MaxViews = 0
  GetterOutcomes = {"ok"}
  Caching = TRUE
  Evicting = {b}
  InitPeers = {a, b, c}
CHECK_DEADLOCK FALSE
INVARIANTS NoStaleCopy NoStaleOwnerCopy
SYMMETRY NotOwners

