\* One application and everybody else at one url.
CONSTANTS
  MaxId = 2
  MaxVersion = 2
  MaxSubs = 1
  MaxPending = 0
SPECIFICATION FairSpec
INVARIANTS TypeOK NoUpdateForgotten
PROPERTIES StaleIsNoticed
CHECK_DEADLOCK FALSE
