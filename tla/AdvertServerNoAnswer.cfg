\* Writes to a node that another client removes.
CONSTANTS
  a = a
  b = b
  c1 = c1
  c2 = c2
  Name = {a, b}
  Client = {c1, c2}
  Target <- Single
  Key = {k}
  Commands <- WriteAndRemove
  MaxTasks = 0
  MaxQueue = 0
SPECIFICATION FairSpec
PROPERTIES AlwaysAnswered
\* a request that fails is never answered
CHECK_DEADLOCK FALSE
