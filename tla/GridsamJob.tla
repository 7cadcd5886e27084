----------------------------- MODULE GridsamJob -----------------------------
(***************************************************************************)
(* The job adaptor for the SOAP service GridSAM.  job::run creates an      *)
(* object `setstate` that reads the remembered state and writes one back   *)
(* when run is left, normally or by an exception: the state it has read,   *)
(* unless the status of the new job has been determined in between.  Any   *)
(* status except Running and Done makes run throw, without the id.         *)
(*                                                                         *)
(* Only that part of run is locked, by a mutex of the job object.          *)
(* get_state asks the service and writes the answer back without a lock,   *)
(* whatever state is remembered; wait is a loop of get_state, no action of *)
(* its own.                                                                *)
(***************************************************************************)
EXTENDS JobService

GridsamPC ==
    {"run", "submit", "status", "adopt", "commit",   \* job::run
     "query", "update",                              \* job::get_state
     "terminate"}                                    \* job::cancel

-----------------------------------------------------------------------------
Shown(i) == jobs[i].phase # "gone"

\* saga_state_from_gridsam_state
GridsamState(i) ==
    CASE jobs[i].phase \in {"active", "suspended"} -> "Running"
      [] jobs[i].phase = "astray" -> "Unknown"
      [] jobs[i].exit = "canceled" -> "Canceled"
      [] jobs[i].exit = "zero" -> "Done"
      [] OTHER -> "Failed"

Run(t, o) ==
    /\ Public(o)
    /\ object[o].state = "New"
    /\ Begins(t, "run", o, 0)
    /\ UNCHANGED <<jobs, known, object, lock, last>>

\* job_service::run_job runs a job object of its own.
RunJob(t, o) ==
    /\ object[o] = Absent
    /\ Begins(t, "run", o, 0)
    /\ object' = [object EXCEPT ![o] = NewObject("private")]
    /\ UNCHANGED <<jobs, known, lock, last>>

ReadState(t) ==
    /\ call[t].pc = "run"
    /\ Carry(t, "submit", object[call[t].obj].state)
    /\ UNCHANGED <<jobs, known, object, lock, last>>

SubmitJob(t) ==
    /\ call[t].pc = "submit"
    /\ \/ /\ Submitted("active")
          /\ call' = [call EXCEPT ![t].pc = "status", ![t].id = NextId]
          /\ object' = [object EXCEPT ![call[t].obj].stood = @ \cup {NextId}]
       \/ Goto(t, "commit") /\ UNCHANGED <<jobs, object>>
    /\ UNCHANGED <<known, lock, last>>

\* A seeded fault: what Status has found is committed at once.
StatusCommitted(t) ==
    /\ call[t].pc = "status"
    /\ Available(call[t].obj, t)
    /\ Shown(call[t].id)
    /\ object' = [object EXCEPT ![call[t].obj].state = GridsamState(call[t].id)]
    /\ Acquire(call[t].obj, t)
    /\ Carry(t, "adopt", GridsamState(call[t].id))
    /\ UNCHANGED <<jobs, known, last>>

\* state_from_gridsam, and the states that run does not want: the call goes
\* on to `commit` without having adopted the job.
Status(t) ==
    /\ call[t].pc = "status"
    /\ Available(call[t].obj, t)
    /\ \/ /\ Shown(call[t].id)
          /\ IF GridsamState(call[t].id) \in {"Running", "Done"}
             THEN /\ Carry(t, "adopt", GridsamState(call[t].id))
                  /\ Acquire(call[t].obj, t)
             ELSE /\ call' = [call EXCEPT ![t].pc = "commit", ![t].id = 0,
                                          ![t].state = GridsamState(call[t].id)]
                  /\ UNCHANGED lock
       \/ /\ call' = [call EXCEPT ![t].pc = "commit", ![t].id = 0]
          /\ UNCHANGED lock
    /\ UNCHANGED <<jobs, known, object, last>>

Adopt(t) ==
    /\ call[t].pc = "adopt"
    /\ object' = [object EXCEPT ![call[t].obj].id = call[t].id]
    /\ known' = known \cup {call[t].id}
    /\ Goto(t, "commit")
    /\ Release(t)
    /\ UNCHANGED <<jobs, last>>

\* ~state_setter.  run_job hands out its object if run has not thrown, which
\* is when the call has a job.
Commit(t) ==
    /\ call[t].pc = "commit"
    /\ object' = [object EXCEPT ![call[t].obj] =
           IF Public(call[t].obj) THEN [@ EXCEPT !.state = call[t].state]
           ELSE IF call[t].id = 0 THEN Absent
           ELSE [@ EXCEPT !.state = call[t].state, !.life = "public"]]
    /\ Return(t)
    /\ UNCHANGED <<jobs, known, lock, last>>

-----------------------------------------------------------------------------
GetState(t, o) ==
    /\ Public(o)
    /\ object[o].id # 0
    /\ Begins(t, "query", o, object[o].id)
    /\ UNCHANGED <<jobs, known, object, lock, last>>

\* job_service::get_job asks the new object for its state.
GetJob(t, o, i) ==
    /\ object[o] = Absent
    /\ Begins(t, "query", o, i)
    /\ object' = [object EXCEPT ![o] =
           [ObjectFor(i, "Unknown") EXCEPT !.life = "private"]]
    /\ UNCHANGED <<jobs, known, lock, last>>

Query(t) ==
    /\ call[t].pc = "query"
    /\ \/ /\ Shown(call[t].id)
          /\ Carry(t, "update", GridsamState(call[t].id))
          /\ UNCHANGED <<object, lock>>
       \/ Throw(t)
    /\ UNCHANGED <<jobs, known, last>>

Update(t) ==
    /\ call[t].pc = "update"
    /\ object' = [object EXCEPT ![call[t].obj].state = call[t].state,
                                ![call[t].obj].life = "public"]
    /\ Return(t)
    /\ UNCHANGED <<jobs, known, lock, last>>

Cancel(t, o) ==
    /\ Public(o)
    /\ object[o].id # 0
    /\ Begins(t, "terminate", o, object[o].id)
    /\ UNCHANGED <<jobs, known, object, lock, last>>

\* terminateJob returns the state the service has after the request.
TerminateJob(t) ==
    /\ call[t].pc = "terminate"
    /\ \/ /\ jobs[call[t].id].phase \in Live
          /\ Ended(call[t].id, "complete", "canceled")
          /\ Carry(t, "update", "Canceled")
       \/ /\ Shown(call[t].id)
          /\ Carry(t, "update", GridsamState(call[t].id))
          /\ UNCHANGED jobs
       \/ Return(t) /\ UNCHANGED jobs
    /\ UNCHANGED <<known, object, lock, last>>

-----------------------------------------------------------------------------
Init == adaptor = "gridsam" /\ ServiceInit({<<>>})

Next ==
    /\ \/ \E t \in Thread :
           \/ ReadState(t) \/ SubmitJob(t) \/ Status(t) \/ Adopt(t) \/ Commit(t)
           \/ Query(t) \/ Update(t) \/ TerminateJob(t)
           \/ \E o \in Object :
               \/ CreateJob(t, o) \/ RunJob(t, o)
               \/ \E i \in DOMAIN jobs : GetJob(t, o, i)
               \/ Run(t, o) \/ GetState(t, o) \/ Cancel(t, o)
       \/ ManagerStep({"active", "astray"}, {"zero", "positive"})
    /\ UNCHANGED adaptor

Spec == Init /\ [][Next]_vars

-----------------------------------------------------------------------------
TypeOK == adaptor = "gridsam" /\ ServiceTypeOK(GridsamPC)

\* A final state that an object remembers is the fate of a job it has
\* submitted or been made for, although a failed run writes back what it has
\* read before, and late answers overwrite newer ones.
ReportsFate == \A o \in Object : Public(o) => TellsFate(o)

\* An object that says its job is running or done has the job's id, however
\* calls of run, get_state and cancel overlap.
RunningHasId ==
    \A o \in Object :
        Public(o) /\ object[o].state \in {"Running", "Done"} => object[o].id # 0
=============================================================================
