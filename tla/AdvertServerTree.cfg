\* Two clients that create, look up and write.
CONSTANTS
  a = a
  b = b
  c1 = c1
  c2 = c2
  Name = {a, b}
  Client = {c1, c2}
  Target <- Fork
  Key = {j, k}
  Commands <- Peers
  MaxTasks = 0
  MaxQueue = 0
SPECIFICATION Spec
INVARIANTS TypeOK TreeConsistent
PROPERTIES OkNamesDocument NoLostAttribute
SYMMETRY Symmetry
\* a request that fails is never answered
CHECK_DEADLOCK FALSE
