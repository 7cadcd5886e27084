------------------------------- MODULE MCJobs --------------------------------
(***************************************************************************)
(* Small instances of the job adaptors for TLC.  An application uses one   *)
(* adaptor; the modules of the adaptors share the variables of JobService, *)
(* the AWS adaptor has those of CloudService.  LsfJob is extended, as its  *)
(* names are its own; the others share names and are instantiated.         *)
(***************************************************************************)
EXTENDS LsfJob, CloudService, TLC

CONSTANT Adaptor   \* the adaptors to check

Batch   == INSTANCE BatchJob
Gridsam == INSTANCE GridsamJob
Drmaa   == INSTANCE DrmaaJob

Init ==
    /\ adaptor \in Adaptor
    /\ \/ Batch!Init \/ LsfInit \/ Gridsam!Init \/ Drmaa!Init
       \/ adaptor = "aws" /\ ServiceInit({<<>>})
    /\ CloudInit
    /\ adaptor # "aws" => ~keepalive

Next ==
    \/ /\ \/ adaptor \in Batch!BatchAdaptor /\ Batch!Next
          \/ adaptor = "lsf" /\ LsfNext
          \/ adaptor = "gridsam" /\ Gridsam!Next
          \/ adaptor = "drmaa" /\ Drmaa!Next
       /\ UNCHANGED cloudVars
    \/ adaptor = "aws" /\ CloudNext /\ UNCHANGED vars

Spec == Init /\ [][Next]_<<vars, cloudVars>>

(* Job objects and threads are interchangeable. *)
Symmetry == Permutations(Object) \cup Permutations(Thread)

-----------------------------------------------------------------------------
\* The types of the variables, for each adaptor.
TypeOK ==
    /\ CASE adaptor \in Batch!BatchAdaptor -> Batch!TypeOK
         [] adaptor = "lsf" -> LsfTypeOK
         [] adaptor = "gridsam" -> Gridsam!TypeOK
         [] adaptor = "drmaa" -> Drmaa!TypeOK
         [] adaptor = "aws" -> TRUE
    /\ CloudTypeOK

\* A final state that a job object of pbspro, torque or gridsam remembers is the
\* fate of a job it has stood for, whatever calls have overlapped.
ReportsFate ==
    /\ Batch!ReportsFate
    /\ adaptor = "gridsam" => Gridsam!ReportsFate

\* pbspro, torque, naregi and lsf lose no job they have submitted, also when the
\* call that has submitted it fails.
NoJobLost ==
    /\ adaptor \in Batch!BatchAdaptor => Batch!NoJobLost
    /\ adaptor = "lsf" => LsfNoJobLost

\* Only get_job and run_job, which lock in opposite orders, can wait for each
\* other, and nobody waits for a call that has ended.
OnlyOppositeOrdersHang ==
    adaptor \in Batch!BatchAdaptor => Batch!OnlyOppositeOrdersHang

\* Threads that run one lsf job object at the same time submit one job.
SubmittedOnce == adaptor = "lsf" => LsfSubmittedOnce

\* A gridsam object that says its job is running or done has its id.
RunningHasId == adaptor = "gridsam" => Gridsam!RunningHasId

\* A drmaa job is lost only when its object has been run again.
LostOnlyByRerun == adaptor = "drmaa" => Drmaa!LostOnlyByRerun
=============================================================================
