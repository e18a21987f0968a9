SPECIFICATION FairSpec
CONSTANTS
  Callers = {p1, p2, p3}
  Keys = {k1, k2}
  Outcomes = {r1}
  CallIds = {c1, c2, c3}
  Panicked = Panicked
  Nil = Nil
INVARIANTS TypeOK AtMostOneFlight ResultPublished
PROPERTIES EntryOutlivesFlight FlightsImplemented DoReturns
