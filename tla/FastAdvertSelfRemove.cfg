\* An object removes its own node.
CONSTANTS
  a = a
  b = b
  Name = {a, b}
  Client = {c1}
  Target <- Fork
  Key = {k}
  Value = {v}
  Ops = {"create", "remove_self"}
  MaxId = 4
SPECIFICATION Spec
PROPERTIES RemovesOwnSubtree
