CONSTANTS
  k1 = k1
  k2 = k2
  k3 = k3
  k4 = k4
  Nobody = Nobody
  Thread = {t1, t2, t3}
  Key = {k1, k2, k3, k4}
  NStripes = 3
  Hash <- MCHash
  MaxCalls = 1

SPECIFICATION FairSpec

INVARIANTS
  TypeOK
  GuardsCoverKeys
  NoHoldAndWaitCycle

PROPERTIES
  EveryCallReturns
  ImplementsTable
