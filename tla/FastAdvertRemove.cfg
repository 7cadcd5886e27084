\* Two clients that create, list and remove in every way; every call returns.
CONSTANTS
  a = a
  b = b
  Name = {a, b}
  Client = {c1, c2}
  Target <- Chain
  Key = {k}
  Value = {v}
  Ops = {"create", "list", "remove_entry", "remove_self"}
  MaxId = 3
SPECIFICATION FairSpec
INVARIANTS OnlyRootLossHangs
PROPERTIES FreshRemovalIsExact CallsReturn
\* a process that lost the root row dies of its recursion
CHECK_DEADLOCK FALSE
