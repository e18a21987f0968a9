SPECIFICATION Spec
CONSTANTS
  Peers = {x, y, z}
  Instances = {i1, i2}
  Replicas = 1
  Bits = 3
  MaxAdds = 4
SYMMETRY Symmetry
INVARIANTS TypeOK PicksNearest OwnersAgree
PROPERTY JoinTakesOnly
CHECK_DEADLOCK FALSE
