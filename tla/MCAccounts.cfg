SPECIFICATION Spec
CONSTANTS
  None = None
  Accounts = {a1, a2}
  First = a1
  Tabs = {t1, t2}
  Tab1 = t1
  MaxActs = 3
  MaxFails = 1
CHECK_DEADLOCK FALSE
INVARIANTS ActsAsOne  ReloadKeepsUnlocked LeftLocks
