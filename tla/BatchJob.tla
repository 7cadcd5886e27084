------------------------------ MODULE BatchJob ------------------------------
(***************************************************************************)
(* The job adaptors that drive a queueing system by its commands: pbspro   *)
(* and torque (qsub, qstat, tracejob), and naregi (naregi_job_submit,      *)
(* naregi_job_status, naregi_job_cancel), written after one pattern.  A    *)
(* job object remembers its state in the metric task_state; get_state asks *)
(* the queueing system unless the remembered state is final.               *)
(*                                                                         *)
(* The adaptor's data is locked around every command of pbspro and torque, *)
(* in naregi by run, get_job and register_job only.  The data of the job   *)
(* service is locked by create_job, run_job and get_job.  The data of a    *)
(* job object is locked by run alone, which locks the adaptor's data next  *)
(* and keeps both, so that mutex is left out.                              *)
(***************************************************************************)
EXTENDS JobService

Pbs == {"pbspro", "torque"}
BatchAdaptor == Pbs \cup {"naregi"}

BatchPC ==
    {"run", "record", "running",            \* job::run
     "submit", "register",                  \* job_service::run_job
     "find", "probe",                       \* job_service::get_job
     "query", "trace", "update",            \* job::get_state
     "cancel"}                              \* job::cancel

-----------------------------------------------------------------------------
\* A seeded fault: the exit status is not looked at.
StateOfAnyExit(i) ==
    IF jobs[i].phase = "complete" THEN "Done" ELSE
    IF jobs[i].phase = "suspended" THEN "Suspended" ELSE "Running"

\* What the adaptors make of the status of a job that the system shows.
StateOf(i) ==
    CASE jobs[i].phase = "active" -> "Running"
      [] jobs[i].phase = "suspended" ->
             IF adaptor = "naregi" THEN "Unknown" ELSE "Suspended"
      [] jobs[i].phase = "astray" ->
             IF adaptor = "naregi" THEN "Failed" ELSE "Unknown"
      [] jobs[i].phase = "complete" ->
             IF jobs[i].exit = "zero" THEN "Done" ELSE "Failed"

\* tracejob_get_exit_state looks for digits behind "Exit_status=".  The exit
\* status of a job that the system has killed is negative and not found.
Traced(i) == jobs[i].exit \in {"zero", "positive"}

\* job::run checks the state before it locks anything.
Run(t, o) ==
    /\ Public(o)
    /\ object[o].state = "New"
    /\ Begins(t, "run", o, 0)
    /\ UNCHANGED <<jobs, known, object, lock, last>>

Submit(t) ==
    /\ call[t].pc = "run"
    /\ Available("adaptor_data", t)
    /\ \/ /\ Submitted("active")
          /\ Acquire("adaptor_data", t)
          /\ call' = [call EXCEPT ![t].pc = "record", ![t].id = NextId]
          /\ UNCHANGED object
       \/ Throw(t) /\ UNCHANGED jobs
    /\ UNCHANGED <<known, last>>

Record(t) ==
    /\ call[t].pc = "record"
    /\ object' = [object EXCEPT ![call[t].obj] = StandFor(call[t].obj, call[t].id)]
    /\ known' = known \cup {call[t].id}
    /\ Goto(t, "running")
    /\ UNCHANGED <<jobs, lock, last>>

SetRunning(t) ==
    /\ call[t].pc = "running"
    /\ object' = [object EXCEPT ![call[t].obj].state = "Running"]
    /\ Return(t) /\ Release(t)
    /\ UNCHANGED <<jobs, known, last>>

\* job_service::run_job submits by itself, then asks the new object for its
\* state.  An exception on the way destroys the object.
RunJob(t, o) ==
    /\ object[o] = Absent
    /\ Begins(t, "submit", o, 0)
    /\ Acquire("job_service", t)
    /\ object' = [object EXCEPT ![o] = NewObject("private")]
    /\ UNCHANGED <<jobs, known, last>>

SubmitJob(t) ==
    /\ call[t].pc = "submit"
    /\ adaptor \in Pbs => Available("adaptor_data", t)
    /\ \/ /\ Submitted("active")
          /\ IF adaptor \in Pbs THEN Acquire("adaptor_data", t) ELSE UNCHANGED lock
          /\ call' = [call EXCEPT ![t].pc = "register", ![t].id = NextId]
          /\ UNCHANGED object
       \/ Throw(t) /\ UNCHANGED jobs
    /\ UNCHANGED <<known, last>>

\* A seeded fault: the job is registered only after its state has been set.
RegisterJobNever(t) ==
    /\ call[t].pc = "register"
    /\ Acquire("adaptor_data", t)
    /\ object' = [object EXCEPT ![call[t].obj] = StandFor(call[t].obj, call[t].id)]
    /\ Goto(t, "query")
    /\ UNCHANGED <<jobs, known, last>>

RegisterJob(t) ==
    /\ call[t].pc = "register"
    /\ Acquire("adaptor_data", t)
    /\ object' = [object EXCEPT ![call[t].obj] = StandFor(call[t].obj, call[t].id)]
    /\ known' = known \cup {call[t].id}
    /\ Goto(t, "query")
    /\ UNCHANGED <<jobs, last>>

\* job_service::get_job.  A known job gets a new object with the description
\* it was submitted with, any other one an object made from its id.
GetJob(t, o, i) ==
    /\ object[o] = Absent
    /\ Begins(t, "find", o, i)
    /\ Acquire("adaptor_data", t)
    /\ object' = [object EXCEPT ![o] = NewObject("private")]
    /\ UNCHANGED <<jobs, known, last>>

Find(t) ==
    /\ call[t].pc = "find"
    /\ Available("job_service", t)
    /\ IF call[t].id \in known
       THEN /\ object' = [object EXCEPT ![call[t].obj] =
                   [StandFor(call[t].obj, call[t].id) EXCEPT !.life = "public"]]
            /\ Return(t) /\ Release(t)
       ELSE /\ Acquire("job_service", t)
            /\ Goto(t, "probe")
            /\ UNCHANGED object
    /\ UNCHANGED <<jobs, known, last>>

Probe(t) ==
    /\ call[t].pc = "probe"
    /\ \/ /\ jobs[call[t].id].phase # "gone"
          /\ object' = [object EXCEPT ![call[t].obj] =
                 [StandFor(call[t].obj, call[t].id) EXCEPT !.state = "Unknown"]]
          /\ Goto(t, "query")
          /\ UNCHANGED lock
       \/ Throw(t)
    /\ UNCHANGED <<jobs, known, last>>

\* job::get_state, when the remembered state is not final and there is an id.
GetState(t, o) ==
    /\ Public(o)
    /\ object[o].state \notin Final
    /\ object[o].id # 0
    /\ Begins(t, "query", o, object[o].id)
    /\ UNCHANGED <<jobs, known, object, lock, last>>

\* qstat, naregi_job_status.  A job that is not shown is looked up in the
\* accounting log (pbspro), is canceled (naregi) or an error (torque).
Found(t) ==
    /\ jobs[call[t].id].phase # "gone"
    /\ Carry(t, "update", StateOf(call[t].id))

NotFound(t) ==
    \/ adaptor = "pbspro" /\ Goto(t, "trace")
    \/ /\ adaptor = "naregi"
       /\ jobs[call[t].id].phase = "gone"
       /\ Carry(t, "update", "Canceled")

\* A seeded fault: the command runs without the lock.
QueryUnlocked(t) ==
    /\ call[t].pc = "query"
    /\ Found(t) \/ NotFound(t)
    /\ UNCHANGED <<jobs, known, object, lock, last>>

Query(t) ==
    /\ call[t].pc = "query"
    /\ adaptor \in Pbs => Available("adaptor_data", t)
    /\ \/ /\ Found(t) \/ NotFound(t)
          /\ IF adaptor \in Pbs THEN Acquire("adaptor_data", t) ELSE UNCHANGED lock
          /\ UNCHANGED object
       \/ /\ adaptor # "pbspro"
          /\ Throw(t)
    /\ UNCHANGED <<jobs, known, last>>

Trace(t) ==
    /\ call[t].pc = "trace"
    /\ \/ /\ Traced(call[t].id)
          /\ Carry(t, "update", IF jobs[call[t].id].exit = "zero" THEN "Done" ELSE "Failed")
          /\ UNCHANGED <<object, lock>>
       \/ Throw(t)
    /\ UNCHANGED <<jobs, known, last>>

\* update_state; an object that was being constructed is handed out.
Update(t) ==
    /\ call[t].pc = "update"
    /\ object' = [object EXCEPT ![call[t].obj].state = call[t].state,
                                ![call[t].obj].life = "public"]
    /\ Return(t) /\ Release(t)
    /\ UNCHANGED <<jobs, known, last>>

\* job::cancel, which only naregi implements, without any lock.
Cancel(t, o) ==
    /\ adaptor = "naregi"
    /\ Public(o)
    /\ object[o].state = "Running"
    /\ Begins(t, "cancel", o, object[o].id)
    /\ UNCHANGED <<jobs, known, object, lock, last>>

CancelJob(t) ==
    /\ call[t].pc = "cancel"
    /\ \/ /\ jobs[call[t].id].phase \in Live
          /\ Ended(call[t].id, "gone", "canceled")
          /\ Carry(t, "update", "Canceled")
          /\ UNCHANGED <<object, lock>>
       \/ Throw(t) /\ UNCHANGED jobs
    /\ UNCHANGED <<known, last>>

-----------------------------------------------------------------------------
Continue(t) ==
    \/ Submit(t) \/ Record(t) \/ SetRunning(t)
    \/ SubmitJob(t) \/ RegisterJob(t)
    \/ Find(t) \/ Probe(t)
    \/ Query(t) \/ Trace(t) \/ Update(t)
    \/ CancelJob(t)

Begin(t, o) ==
    \/ CreateJob(t, o) \/ RunJob(t, o) \/ \E i \in DOMAIN jobs : GetJob(t, o, i)
    \/ Run(t, o) \/ GetState(t, o) \/ Cancel(t, o)

Init == adaptor \in BatchAdaptor /\ ServiceInit({<<>>, <<Foreign>>})

Next ==
    /\ \/ \E t \in Thread : Continue(t) \/ \E o \in Object : Begin(t, o)
       \/ ManagerStep(Live, IF adaptor = "pbspro" THEN {"zero", "positive", "negative"} ELSE {"zero", "positive"})
    /\ UNCHANGED adaptor

Spec == Init /\ [][Next]_vars

-----------------------------------------------------------------------------
TypeOK ==
    /\ adaptor \in BatchAdaptor
    /\ ServiceTypeOK(BatchPC)

\* A final state that a pbspro or torque object remembers is the fate of a job
\* it has stood for, also when threads ask and submit at the same time.
ReportsFate == adaptor \in Pbs => \A o \in Object : Public(o) => TellsFate(o)

\* No job is lost: what has been submitted is registered even if the call that
\* submitted it fails.
NoJobLost == Lost = {}

Wanted(t) ==
    CASE call[t].pc = "find" -> {"job_service"}
      [] call[t].pc \in {"run", "register"} -> {"adaptor_data"}
      [] call[t].pc \in {"submit", "query"} /\ adaptor \in Pbs -> {"adaptor_data"}
      [] OTHER -> {}
Waits(t, u) == t # u /\ \E m \in Wanted(t) : u \in lock[m]

\* A thread waits only for threads inside a call, and two threads wait for
\* each other only if one is in get_job, which locks the job service last, and
\* the other in run_job, which locks it first.
OnlyOppositeOrdersHang ==
    \A t, u \in Thread : Waits(t, u) =>
        /\ call[u] # Idle
        /\ Waits(u, t) => "find" \in {call[t].pc, call[u].pc}
=============================================================================
