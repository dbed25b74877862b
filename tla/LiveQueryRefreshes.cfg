SPECIFICATION Spec
CONSTANTS
  k1 = k1
  k2 = k2
  t1 = t1
  Tables = {t1}
  Keys = {k1, k2}
  TableOf <- MCTableOf
  Hooks = {h1, h2}
  Lists = {l1}
  ListTable = t1
  NoKey = NoKey
  NoEntry = NoEntry
  MaxWrites = 2
  MaxMounts = 4
  MaxPages = 2
  MaxFaults = 0
INVARIANT LiveQueryRefreshes
CHECK_DEADLOCK FALSE
