SPECIFICATION FairSpec
CONSTANTS
  N = 2
  Names = {g}
  Requests = {r1, r2}
  Idle = Idle
  MaxCalls = 4
  MaxGroups = 1
  MaxFaults = 2
INVARIANTS TypeOK HandlersDrained NoneLeftBehind PickersWhole
PROPERTIES StartTellsAll CallReturns
CHECK_DEADLOCK FALSE
