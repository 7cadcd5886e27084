------------------------------ MODULE DrmaaJob ------------------------------
(***************************************************************************)
(* The job adaptor for the DRMAA library.  The member state_ of a job      *)
(* object is set by the constructor and never again; it is `state` here.   *)
(* The wrapper of the library, one for all job objects, has a member       *)
(* `state` too: what get_state has found last, for whatever job.           *)
(*                                                                         *)
(* The constructor, get_state and wait lock the adaptor's data; wait keeps *)
(* it for as long as the library takes.  run, suspend, resume and cancel   *)
(* lock nothing.                                                           *)
(***************************************************************************)
EXTENDS JobService

DrmaaPC == {"run", "assign", "wait"}

-----------------------------------------------------------------------------
\* Objects are constructed under the adaptor's lock.
NewJob(t, o) == Available("adaptor_data", t) /\ CreateJob(t, o)

\* job_ps knows the job; drmaa::get_state leaves `state` alone if the system
\* cannot tell the state of the job.
Known(i) == jobs[i].phase # "gone"
DrmaaState(i) ==
    CASE jobs[i].phase = "astray" -> last
      [] jobs[i].phase = "complete" ->
             IF jobs[i].exit = "zero" THEN "Done" ELSE "Failed"
      [] OTHER -> "Running"

Ask(t, i) ==
    /\ call[t] = Idle
    /\ Available("adaptor_data", t)
    /\ Known(i)
    /\ last' = DrmaaState(i)

GetState(t, o) ==
    /\ Public(o)
    /\ object[o].id # 0
    /\ Ask(t, object[o].id)
    /\ UNCHANGED <<jobs, known, object, call, lock>>

\* job_service::get_job
GetJob(t, o, i) ==
    /\ object[o] = Absent
    /\ Ask(t, i)
    /\ object' = [object EXCEPT ![o] = ObjectFor(i, DrmaaState(i))]
    /\ UNCHANGED <<jobs, known, call, lock>>

\* A new job service initialises the wrapper, which all services share.
NewService(t) ==
    /\ call[t] = Idle
    /\ last' = "New"
    /\ UNCHANGED <<jobs, known, object, call, lock>>

-----------------------------------------------------------------------------
Run(t, o) ==
    /\ Public(o)
    /\ object[o].state = "New"
    /\ Begins(t, "run", o, 0)
    /\ UNCHANGED <<jobs, known, object, lock, last>>

\* A seeded fault: an error in cleaning up is thrown after the submission.
SubmitJobThrows(t) ==
    /\ call[t].pc = "run"
    /\ \/ Submitted("active") /\ Return(t)
       \/ Return(t) /\ UNCHANGED jobs
    /\ UNCHANGED <<known, object, lock, last>>

\* drmaa::run_job, then the assignment to jobid_.
SubmitJob(t) ==
    /\ call[t].pc = "run"
    /\ \/ /\ Submitted("active")
          /\ call' = [call EXCEPT ![t].pc = "assign", ![t].id = NextId]
       \/ Return(t) /\ UNCHANGED jobs
    /\ UNCHANGED <<known, object, lock, last>>

AssignId(t) ==
    /\ call[t].pc = "assign"
    /\ object' = [object EXCEPT ![call[t].obj] = StandFor(call[t].obj, call[t].id)]
    /\ Return(t)
    /\ UNCHANGED <<jobs, known, lock, last>>

\* The library waits for the end of the job, and forgets the job, or for the
\* end of the timeout.
Wait(t, o) ==
    /\ Public(o)
    /\ object[o].id # 0
    /\ Begins(t, "wait", o, object[o].id)
    /\ Acquire("adaptor_data", t)
    /\ UNCHANGED <<jobs, known, object, last>>

WaitJob(t) ==
    /\ call[t].pc = "wait"
    /\ \/ jobs[call[t].id].phase = "complete" /\ Become(call[t].id, "gone")
       \/ UNCHANGED jobs
    /\ Return(t) /\ Release(t)
    /\ UNCHANGED <<known, object, last>>

\* suspend, resume and cancel are one call of the library each.
Control(t, o) ==
    /\ call[t] = Idle
    /\ Public(o)
    /\ object[o].id # 0
    /\ \/ jobs[object[o].id].phase = "active" /\ Become(object[o].id, "suspended")
       \/ jobs[object[o].id].phase = "suspended" /\ Become(object[o].id, "active")
       \/ /\ jobs[object[o].id].phase \in Live
          /\ Ended(object[o].id, "complete", "canceled")
    /\ UNCHANGED <<known, object, call, lock, last>>

-----------------------------------------------------------------------------
Init == adaptor = "drmaa" /\ ServiceInit({<<>>})

Next ==
    /\ \/ \E t \in Thread :
           \/ SubmitJob(t) \/ AssignId(t) \/ WaitJob(t) \/ NewService(t)
           \/ \E o \in Object :
               \/ NewJob(t, o) \/ \E i \in DOMAIN jobs : GetJob(t, o, i)
               \/ Run(t, o) \/ GetState(t, o) \/ Wait(t, o) \/ Control(t, o)
       \/ ManagerStep(Live, {"zero", "positive"})
    /\ UNCHANGED adaptor

Spec == Init /\ [][Next]_vars

-----------------------------------------------------------------------------
TypeOK == adaptor = "drmaa" /\ ServiceTypeOK(DrmaaPC)

\* A job is lost only when its object has been run again and stands for
\* another one.
LostOnlyByRerun ==
    \A i \in Lost : \E o \in Object :
        /\ object[o] # Absent
        /\ i \in object[o].stood
        /\ object[o].id # i

\* "can run only 'New' jobs": no job object has two jobs.
StartedOnce ==
    \A o \in Object : object[o] # Absent => Cardinality(object[o].stood) <= 1
=============================================================================
