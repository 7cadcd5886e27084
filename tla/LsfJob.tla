------------------------------- MODULE LsfJob -------------------------------
(***************************************************************************)
(* The job adaptor that drives LSF by its commands bsub, bjobs, bstop,     *)
(* bresume and bkill.  What a job object remembers in the metric           *)
(* task_state tells only whether it has been run: get_state asks bjobs as  *)
(* soon as it is not New.  So get_state and wait change nothing, and are   *)
(* no actions.                                                             *)
(*                                                                         *)
(* job::run locks the data of the object from the test of its state to the *)
(* end, three seconds after the submission: bjobs may not show a job as    *)
(* soon as bsub has returned.  job_service::run_job runs a job object that *)
(* no other thread has, and locks the data of the job service.             *)
(***************************************************************************)
EXTENDS JobService

LsfPC == {"bsub", "sleep", "bstop", "bresume", "bkill"}

-----------------------------------------------------------------------------
\* What bjobs shows, and what it is taken for.
Shown(i) == jobs[i].phase \notin {"accepted", "gone"}
LsfState(i) ==
    CASE jobs[i].phase = "active" -> "Running"
      [] jobs[i].phase = "suspended" -> "Suspended"
      [] jobs[i].phase = "complete" /\ jobs[i].exit = "zero" -> "Done"
      [] OTHER -> "Failed"

\* A seeded fault: the state is tested before the object is locked.
RunUnlocked(t, o) ==
    /\ Public(o)
    /\ object[o].state = "New"
    /\ Begins(t, "bsub", o, 0)
    /\ UNCHANGED <<jobs, known, object, lock, last>>

Run(t, o) ==
    /\ Public(o)
    /\ object[o].state = "New"
    /\ Begins(t, "bsub", o, 0)
    /\ Acquire(o, t)
    /\ UNCHANGED <<jobs, known, object, last>>

RunJob(t, o) ==
    /\ object[o] = Absent
    /\ Begins(t, "bsub", o, 0)
    /\ Acquire("job_service", t)
    /\ object' = [object EXCEPT ![o] = NewObject("private")]
    /\ UNCHANGED <<jobs, known, last>>

Bsub(t) ==
    /\ call[t].pc = "bsub"
    /\ \/ /\ Submitted("accepted")
          /\ object' = [object EXCEPT ![call[t].obj] =
                 [StandFor(call[t].obj, NextId) EXCEPT !.state = "Running"]]
          /\ Goto(t, "sleep")
          /\ UNCHANGED lock
       \/ Throw(t) /\ UNCHANGED jobs
    /\ UNCHANGED <<known, last>>

Sleep(t) ==
    /\ call[t].pc = "sleep"
    /\ object' = [object EXCEPT ![call[t].obj].life = "public"]
    /\ Return(t) /\ Release(t)
    /\ UNCHANGED <<jobs, known, last>>

\* job_service::get_job takes the state of the new object from bjobs.
GetJob(t, o, i) ==
    /\ call[t] = Idle
    /\ object[o] = Absent
    /\ Available("job_service", t)
    /\ Shown(i)
    /\ object' = [object EXCEPT ![o] = ObjectFor(i, LsfState(i))]
    /\ UNCHANGED <<jobs, known, call, lock, last>>

-----------------------------------------------------------------------------
\* suspend, resume and cancel ask for the state, with the object locked, and
\* give their command afterwards, without the lock, if it is a fit one.
Started(o) == Public(o) /\ object[o].state # "New"
Ask(t, o, states, pc) ==
    /\ Started(o)
    /\ Available(o, t)
    /\ Shown(object[o].id)
    /\ LsfState(object[o].id) \in states
    /\ Begins(t, pc, o, object[o].id)
    /\ UNCHANGED <<jobs, known, object, lock, last>>

Suspend(t, o) == Ask(t, o, {"Running"}, "bstop")
Resume(t, o) == Ask(t, o, {"Suspended"}, "bresume")
Cancel(t, o) == Ask(t, o, State, "bkill")

\* The job may have changed in between; then LSF refuses the command.
Command(t) ==
    /\ \/ /\ call[t].pc = "bstop"
          /\ jobs[call[t].id].phase \in Live
          /\ Become(call[t].id, "suspended")
       \/ /\ call[t].pc = "bresume"
          /\ jobs[call[t].id].phase = "suspended"
          /\ Become(call[t].id, "active")
       \/ /\ call[t].pc = "bkill"
          /\ jobs[call[t].id].phase \in Live
          /\ Ended(call[t].id, "complete", "canceled")
       \/ /\ call[t].pc \in {"bstop", "bresume", "bkill"}
          /\ UNCHANGED jobs
    /\ Return(t)
    /\ UNCHANGED <<known, object, lock, last>>

-----------------------------------------------------------------------------
LsfInit == adaptor = "lsf" /\ ServiceInit({<<>>})

LsfNext ==
    /\ \/ \E t \in Thread :
           \/ Bsub(t) \/ Sleep(t) \/ Command(t)
           \/ \E o \in Object :
               \/ CreateJob(t, o) \/ RunJob(t, o)
               \/ \E i \in DOMAIN jobs : GetJob(t, o, i)
               \/ Run(t, o) \/ Suspend(t, o) \/ Resume(t, o) \/ Cancel(t, o)
       \/ ManagerStep(Live, {"zero", "positive"})
    /\ UNCHANGED adaptor

LsfSpec == LsfInit /\ [][LsfNext]_vars

-----------------------------------------------------------------------------
LsfTypeOK == adaptor = "lsf" /\ ServiceTypeOK(LsfPC)

\* However many threads run a job object, one job is submitted for it.
LsfSubmittedOnce ==
    \A o \in Object : object[o] # Absent => Cardinality(object[o].stood) <= 1

\* Every job that has been submitted is at hand in an object, also if the
\* submission before it has failed.
LsfNoJobLost == Lost = {}
=============================================================================
