\* An object is closed and opened again.
CONSTANTS
  MaxId = 1
  MaxVersion = 2
  MaxSubs = 1
  MaxPending = 1
SPECIFICATION Spec
PROPERTIES OpensWhatExists
CHECK_DEADLOCK FALSE
