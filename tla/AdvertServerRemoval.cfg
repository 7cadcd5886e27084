\* A tree is built below a node that stays and torn down, over and over.
CONSTANTS
  a = a
  b = b
  c1 = c1
  c2 = c2
  Name = {a, b}
  Client = {c1}
  Target <- Ladder
  Key = {k}
  Commands <- BuildAndRemove
  MaxTasks = 0
  MaxQueue = 0
SPECIFICATION FairSpec
PROPERTIES AlwaysAnswered RemovalRestoresTree RemovesOnlyBelow
