SPECIFICATION FairSpec
CONSTANTS
  k1 = k1
  k2 = k2
  k3 = k3
  nothing = nothing
  big = big
  Keys = {k1, k2, k3}
  Values = {nothing, big}
  KeyLen <- MCKeyLen
  ValLen <- MCValLen
  Budgets <- MCBudgets
  MaxTime = 2
  MaxAdds = 3
  MaxGets = 1
  MaxResets = 1
INVARIANTS TypeOK BytesExact WithinBudget EvictionsBalance
           ListMapAgree RecencyOrder HoldsLastAdded
PROPERTIES AddReturns EvictedAccounted
