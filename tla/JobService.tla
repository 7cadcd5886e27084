----------------------------- MODULE JobService -----------------------------
(***************************************************************************)
(* What the job adaptors have in common: the job objects of the SAGA API,  *)
(* the threads that call them, the mutexes of the SAGA engine, and the     *)
(* resource manager whose jobs go on by themselves.  A module for each     *)
(* adaptor extends this one with the calls the adaptor implements.         *)
(***************************************************************************)
EXTENDS Naturals, FiniteSets, Sequences

CONSTANTS
    Object,   \* job objects an application may construct
    Thread,   \* threads of the application
    MaxJob    \* bound on the jobs the resource manager accepts

ASSUME JobServiceAssumption == MaxJob \in Nat \ {0}

VARIABLES
    adaptor,  \* the adaptor in use: an url scheme selects it once and for all
    jobs,     \* the jobs of the resource manager, by id
    known,    \* the ids in known_jobs_ of the adaptor
    object,   \* what the job objects remember
    call,     \* the call each thread is making
    lock,     \* who holds which mutex
    last      \* the state that the DRMAA wrapper determined last

vars == <<adaptor, jobs, known, object, call, lock, last>>

-----------------------------------------------------------------------------
\* saga::job::state
Final == {"Done", "Canceled", "Failed"}
State == Final \cup {"Unknown", "New", "Running", "Suspended"}

\* Job objects.  `stood` is a history of the jobs an object has stood for.
\* A private object is under construction in a call of a job service.
Absent == [life |-> "absent"]
NewObject(life) == [life |-> life, state |-> "New", id |-> 0, stood |-> {}]
JobObject == {Absent} \cup
    [life : {"private", "public"}, state : State, id : 0..MaxJob,
     stood : SUBSET (1..MaxJob)]

Public(o) == object[o].life = "public"
ObjectFor(i, state) == [life |-> "public", state |-> state, id |-> i, stood |-> {i}]
StandFor(o, i) == [object[o] EXCEPT !.id = i, !.stood = @ \cup {i}]

\* Calls.  `id` is the job a call is about, `state` one it is to report.
Idle == [pc |-> "idle"]
Calling(pc, o, i, state) == [pc |-> pc, obj |-> o, id |-> i, state |-> state]
Begins(t, pc, o, i) ==
    /\ call[t] = Idle
    /\ call' = [call EXCEPT ![t] = Calling(pc, o, i, "New")]
Goto(t, pc) == call' = [call EXCEPT ![t].pc = pc]
Carry(t, pc, state) == call' = [call EXCEPT ![t].pc = pc, ![t].state = state]
Return(t) == call' = [call EXCEPT ![t] = Idle]

\* Mutexes are recursive, and released when the call leaves their scope.
Mutex == {"adaptor_data", "job_service"} \cup Object
Available(m, t) == lock[m] \subseteq {t}

\* A seeded fault: nobody is kept out.
AcquireShared(m, t) == lock' = [lock EXCEPT ![m] = @ \cup {t}]

Acquire(m, t) == Available(m, t) /\ lock' = [lock EXCEPT ![m] = {t}]
Release(t) == lock' = [m \in Mutex |-> lock[m] \ {t}]

\* A seeded fault: an exception leaves the mutexes locked.
ThrowLocked(t) ==
    /\ Return(t)
    /\ UNCHANGED lock
    /\ object' = IF Public(call[t].obj) THEN object
                 ELSE [object EXCEPT ![call[t].obj] = Absent]

\* An exception: a private object is destroyed with the call.
Throw(t) ==
    /\ Return(t)
    /\ Release(t)
    /\ object' = IF Public(call[t].obj) THEN object
                 ELSE [object EXCEPT ![call[t].obj] = Absent]

-----------------------------------------------------------------------------
\* The resource manager.  "accepted" is a job it does not show yet, "active"
\* one that is queued, held, running or exiting, "astray" one it has lost track
\* of or moves elsewhere, "gone" one that it does not show any more.
Live == {"active", "suspended", "astray"}
Exit == {"zero", "positive", "negative", "canceled"}
NextId == Len(jobs) + 1

Submitted(phase) ==
    /\ Len(jobs) < MaxJob
    /\ jobs' = Append(jobs, [own |-> TRUE, phase |-> phase, exit |-> "none"])

Become(i, phase) == jobs' = [jobs EXCEPT ![i].phase = phase]
Ended(i, phase, exit) ==
    jobs' = [jobs EXCEPT ![i].phase = phase, ![i].exit = exit]

\* What the manager does by itself, as far as an adaptor tells it apart.
ManagerStep(live, exits) ==
    /\ \E i \in DOMAIN jobs :
        \/ jobs[i].phase = "accepted" /\ Become(i, "active")
        \/ jobs[i].phase \in live /\ \E p \in live \ {jobs[i].phase} : Become(i, p)
        \/ jobs[i].phase = "active" /\ \E e \in exits : Ended(i, "complete", e)
        \/ jobs[i].phase = "complete" /\ Become(i, "gone")
    /\ UNCHANGED <<known, object, call, lock, last>>

-----------------------------------------------------------------------------
\* A job of another program, which some adaptors treat unlike their own.
Foreign == [own |-> FALSE, phase |-> "active", exit |-> "none"]

ServiceInit(there) ==
    /\ jobs \in there
    /\ known = {}
    /\ object = [o \in Object |-> Absent]
    /\ call = [t \in Thread |-> Idle]
    /\ lock = [m \in Mutex |-> {}]
    /\ last = "New"

\* job_service::create_job, the same in all adaptors.
CreateJob(t, o) ==
    /\ call[t] = Idle
    /\ object[o] = Absent
    /\ Available("job_service", t)
    /\ object' = [object EXCEPT ![o] = NewObject("public")]
    /\ UNCHANGED <<jobs, known, call, lock, last>>

ServiceTypeOK(pcs) ==
    /\ jobs \in Seq([own : BOOLEAN, exit : Exit \cup {"none"},
                     phase : Live \cup {"accepted", "complete", "gone"}])
    /\ Len(jobs) <= MaxJob
    /\ known \subseteq 1..MaxJob
    /\ object \in [Object -> JobObject]
    /\ call \in [Thread -> {Idle} \cup
           [pc : pcs, obj : Object, id : 0..MaxJob, state : State]]
    /\ lock \in [Mutex -> SUBSET Thread]
    /\ \A m \in Mutex : Cardinality(lock[m]) <= 1
    /\ last \in State

\* A job this application has submitted can be got at: it is listed, or an
\* object or a call stands for it.
Reachable(i) ==
    \/ i \in known
    \/ \E o \in Object : object[o] # Absent /\ object[o].id = i
    \/ \E t \in Thread : call[t] # Idle /\ call[t].id = i
Lost == {i \in DOMAIN jobs : jobs[i].own /\ ~Reachable(i)}

\* What the objects of these adaptors remember follows the state diagram of a
\* SAGA job: a New object is New until it is run, and no late answer of the
\* resource manager replaces a final state.
Unremembered == [o \in Object |-> "absent"]
Remembered ==
    IF adaptor \notin {"pbspro", "torque", "lsf"} THEN Unremembered
    ELSE [o \in Object |->
        IF ~Public(o) THEN "absent"
        ELSE IF Cardinality(object[o].stood) > 1 THEN "disputed"
        ELSE object[o].state]
Diagram == INSTANCE JobDiagram WITH state <- Remembered
FollowsDiagram == Diagram!Spec

\* The final states of the object's memory tell how a job of it has ended.
FateOf(o) ==
    CASE object[o].state = "Done" -> {"zero"}
      [] object[o].state = "Failed" -> {"positive", "negative"}
      [] object[o].state = "Canceled" -> {"canceled"}
      [] OTHER -> Exit \cup {"none"}
TellsFate(o) ==
    object[o].state \in Final =>
        \E i \in object[o].stood : jobs[i].exit \in FateOf(o)
=============================================================================
