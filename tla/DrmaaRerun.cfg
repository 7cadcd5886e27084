\* One thread, one job object.
CONSTANTS
  Object = {o1}
  Thread = {t1}
  MaxJob = 2
SPECIFICATION Spec
INVARIANTS StartedOnce
