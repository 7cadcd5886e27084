\* Two threads share two job objects of any adaptor; a job of another program
\* may be there before.
CONSTANTS
  Object = {o1, o2}
  Thread = {t1, t2}
  MaxJob = 2
  Service = {s1, s2}
  MaxVM = 3
  Adaptor = {"pbspro", "torque", "naregi", "lsf", "gridsam", "drmaa", "aws"}
SPECIFICATION Spec
INVARIANTS
  TypeOK  NoJobLost  SubmittedOnce RunningHasId
  LostOnlyByRerun LeakedByFailureOnly SubmitsToItsInstance
PROPERTIES FollowsDiagram
SYMMETRY Symmetry
\* when no more jobs are accepted, calls may have got stuck or nothing be left
CHECK_DEADLOCK FALSE
