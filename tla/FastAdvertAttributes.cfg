\* Two clients that write attributes of nodes that come and go.
CONSTANTS
  a = a
  b = b
  Name = {a, b}
  Client = {c1, c2}
  Target <- Single
  Key = {k}
  Value = {v, w}
  Ops = {"create", "attribute", "remove_self"}
  MaxId = 3
SPECIFICATION Spec
 
PROPERTIES NoInheritedAttributes
SYMMETRY Symmetry
\* a process that lost the root row dies of its recursion
CHECK_DEADLOCK FALSE
