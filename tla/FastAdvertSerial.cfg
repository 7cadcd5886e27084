\* One client, every call on the tree except removing an object's own node.
CONSTANTS
  a = a
  b = b
  Name = {a, b}
  Client = {c1}
  Target <- Deep
  Key = {k}
  Value = {v}
  Ops = {"create", "list", "change_dir", "remove_entry"}
  MaxId = 5
SPECIFICATION Spec
INVARIANTS TypeOK WellNested PathsMatchNesting
PROPERTIES ImplementsNamespace ListingIsExact
