SPECIFICATION Spec
CONSTANTS
  c1 = c1
  c2 = c2
  Nil = Nil
  Callers <- MCCallers
  Bufs <- MCBufs
  Data <- MCData
  PeerData <- MCPeerData
  Encodings <- MCEncodings
  Expiries = {1}
  Kinds = {"string", "view", "proto", "alloc", "trunc"}
  Lengths <- MCLengths
  Junk = 9
  MaxCalls = 1
INVARIANTS
  TypeOK
  Frozen
  Delivered
  RepresentationHidden
SYMMETRY Symmetry
