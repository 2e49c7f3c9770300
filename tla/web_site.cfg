SPECIFICATION Spec
CONSTANTS
  t1 = t1
  t2 = t2
  none = none
  Tabs <- MCTabs
  MaxKeys = 2
  Scopes <- MCScopes
  Absent = none
INVARIANTS
  
  ShowsWhatItDid
PROPERTIES
  PageSettles
CHECK_DEADLOCK FALSE
