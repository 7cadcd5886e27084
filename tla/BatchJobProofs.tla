--------------------------- MODULE BatchJobProofs ----------------------------
(***************************************************************************)
(* Theorems about BatchJob, for any threads, job objects and jobs.         *)
(***************************************************************************)
EXTENDS BatchJob, JobServiceProofs

(* A call has the id of its job when there is one; only naregi cancels. *)
CallsHaveJobs ==
  \A t \in Thread : call[t] # Idle =>
    /\ call[t].id = 0 <=> call[t].pc \in {"run", "submit"}
    /\ call[t].pc = "cancel" => adaptor = "naregi"
    /\ call[t].pc = "trace" => adaptor = "pbspro"

(* These systems show a job as soon as they have accepted it. *)
NoneAccepted == \A i \in JobId : jobs[i].phase # "accepted"

(* Who holds a mutex is inside a call. *)
HoldersCall == \A m \in Mutex : \A t \in lock[m] : call[t] # Idle

BatchTypes ==
  /\ adaptor \in BatchAdaptor
  /\ ServiceTypes(BatchPC)
  /\ ExitAtEnd
  /\ NoneAccepted
  /\ ObjectsInUse
  /\ CallsHaveJobs
  /\ HoldersCall

(* What has been submitted is registered, or its submitter is about to. *)
OwnJobsKnown ==
  \A i \in JobId : jobs[i].own =>
    \/ i \in known
    \/ \E t \in Thread : call[t] # Idle /\ call[t].pc \in {"record", "register"} /\ call[t].id = i

(* How the jobs end that these systems run. *)
JobsEnd ==
  \A i \in JobId :
    /\ jobs[i].phase = "complete" => jobs[i].exit \in {"zero", "positive", "negative"}
    /\ jobs[i].phase = "gone" => jobs[i].exit # "none"

(* An object whose id is set has stood for that job; without an id it is as *)
(* it was made.                                                             *)
IdsStood ==
  \A o \in Object : object[o] # Absent =>
    /\ object[o].id # 0 => object[o].id \in object[o].stood
    /\ object[o].id = 0 => object[o].stood = {} /\ object[o].state = "New"

(* The object of a call that asks has stood for the job asked about. *)
AskedStood ==
  \A t \in Thread :
    call[t] # Idle /\ call[t].pc \in {"running", "query", "trace", "update", "cancel"} =>
      call[t].id \in object[call[t].obj].stood

(* A final state is the fate of the job: in an answer on its way, and in    *)
(* what an object remembers.                                                *)
Tells(js, state, i) ==
  CASE state = "Done" -> js[i].exit = "zero"
    [] state = "Failed" -> js[i].exit \in {"positive", "negative"}
    [] state = "Canceled" -> js[i].exit = "canceled"
    [] OTHER -> TRUE
Told(js, r) == r.state \in Final => \E i \in r.stood : Tells(js, r.state, i)
AnswersTell ==
  adaptor \in Pbs => \A t \in Thread : call[t] # Idle /\ call[t].pc = "update" =>
    /\ call[t].state # "New"
    /\ Tells(jobs, call[t].state, call[t].id)
ObjectsTell ==
  adaptor \in Pbs => \A o \in Object : object[o] # Absent => Told(jobs, object[o])

FateInv == JobsEnd /\ IdsStood /\ AskedStood /\ AnswersTell /\ ObjectsTell

(* A job service makes a private object, and hands it out standing for one  *)
(* job; job::run is called on a public one.                                 *)
ObjectsMade ==
  /\ \A t \in Thread : call[t] # Idle =>
       /\ call[t].pc \in {"submit", "register", "find", "probe"} =>
            ~Public(call[t].obj) /\ object[call[t].obj].id = 0
       /\ call[t].pc \in {"run", "record", "running"} => Public(call[t].obj)
  /\ \A o \in Object : object[o] # Absent /\ ~Public(o) =>
       object[o].stood \subseteq {object[o].id}

(* Under the adaptor's lock a remembered state changes only by the thread   *)
(* that has it: a run finds its object New, or standing for another job     *)
(* than its own, and no other answer than a final one replaces a final one. *)
Holding == {"record", "running", "find", "probe", "trace", "update"}
LocksHeld ==
  adaptor \in Pbs => \A t \in Thread : call[t] # Idle /\ call[t].pc \in Holding =>
    t \in lock["adaptor_data"]
InOrder(k, r) ==
  /\ k.pc = "record" => k.id \notin r.stood /\ (r.state = "New" \/ r.stood # {})
  /\ k.pc = "running" => r.state = "New" \/ Cardinality(r.stood) > 1
  /\ k.pc = "update" /\ k.state \notin Final =>
       r.state \notin Final \/ Cardinality(r.stood) > 1
RunsOfNew ==
  adaptor \in Pbs =>
    \A t \in Thread : call[t] # Idle => InOrder(call[t], object[call[t].obj])
DiagramInv == ObjectsMade /\ LocksHeld /\ RunsOfNew

BatchInv == BatchTypes /\ OwnJobsKnown /\ FateInv /\ DiagramInv

-----------------------------------------------------------------------------
(***************************************************************************)
(* Types, and what each action does to the call and the object of a thread. *)
(***************************************************************************)
LEMMA BatchStepTypes ==
  ASSUME BatchTypes, UNCHANGED adaptor,
         NEW t \in Thread, NEW o \in Object,
         NEW k \in {Idle} \cup CallNow(BatchPC)', NEW x \in {Absent} \cup ObjectNow',
         Step(t, o, k, x),
         jobs' \in Seq(Job), Len(jobs) <= Len(jobs'), Len(jobs') <= MaxJob, ExitAtEnd',
         NoneAccepted',
         known' \subseteq known \cup JobId',
         \/ UNCHANGED lock
         \/ Release(t)
         \/ \E m \in Mutex : Acquire(m, t),
         last' \in State,
         call[t] # Idle => call[t].obj = o,
         k # Idle => k.obj = o /\ x # Absent,
         call[t] = Idle => object[o] = Absent \/ Public(o),
         x = Absent => k = Idle /\ ~Public(o),
         x # Absent /\ x.life # "public" => ~Public(o),
         k # Idle =>
           /\ k.id = 0 <=> k.pc \in {"run", "submit"}
           /\ k.pc = "cancel" => adaptor = "naregi"
           /\ k.pc = "trace" => adaptor = "pbspro",
         k = Idle => Release(t) \/ (call[t] = Idle /\ UNCHANGED lock)
  PROVE  BatchTypes'
<1>1. /\ lock' \in [Mutex -> SUBSET Thread] /\ Exclusive'
      /\ \A m \in Mutex : lock'[m] \subseteq lock[m] \cup {t}
      /\ Release(t) => \A m \in Mutex : t \notin lock'[m]
  BY LockTypes DEF BatchTypes, ServiceTypes
<1>2. ServiceTypes(BatchPC)' /\ ObjectsInUse'
  BY <1>1, StepTypes DEF BatchTypes
<1>3. call'[t] = k /\ \A u \in Thread \ {t} : call'[u] = call[u]
  BY StepValues DEF BatchTypes
<1>4. CallsHaveJobs'
  BY <1>3 DEF BatchTypes, CallsHaveJobs
<1>5. HoldersCall'
  BY <1>1, <1>3 DEF BatchTypes, ServiceTypes, HoldersCall
<1> QED
  BY <1>2, <1>4, <1>5 DEF BatchTypes

(* A step that changes no job: one inside a call, and one that begins a call. *)
LEMMA InsideStep ==
  ASSUME BatchTypes, UNCHANGED <<adaptor, jobs, last>>,
         NEW t \in Thread, call[t] # Idle,
         NEW k \in {Idle} \cup CallNow(BatchPC), NEW x \in {Absent} \cup ObjectNow,
         Step(t, call[t].obj, k, x),
         known' \subseteq known \cup JobId,
         \/ UNCHANGED lock
         \/ Release(t)
         \/ \E m \in Mutex : Acquire(m, t),
         k = Idle => Release(t),
         k # Idle => /\ k.obj = call[t].obj /\ x # Absent
                     /\ k.id = call[t].id /\ call[t].pc \notin {"run", "submit"}
                     /\ k.pc \notin {"run", "submit", "cancel"}
                     /\ k.pc = "trace" => adaptor = "pbspro",
         x = Absent => k = Idle,
         x = Absent \/ x.life # "public" => ~Public(call[t].obj)
  PROVE  BatchTypes'
<1> DEFINE o == call[t].obj
<1>1. call[t] \in CallNow(BatchPC) /\ o \in Object
  BY InCall DEF BatchTypes
<1>2. /\ jobs' \in Seq(Job) /\ Len(jobs) <= Len(jobs') /\ Len(jobs') <= MaxJob
      /\ ExitAtEnd' /\ NoneAccepted' /\ last' \in State /\ known' \subseteq known \cup JobId'
      /\ CallNow(BatchPC) = CallNow(BatchPC)' /\ ObjectNow = ObjectNow'
  BY DEF BatchTypes, ServiceTypes, ExitAtEnd, NoneAccepted, JobId, CallNow, ObjectNow
<1>3. /\ k # Idle => (k.id = 0 <=> k.pc \in {"run", "submit"})
      /\ k # Idle => k.pc # "cancel"
  BY <1>1 DEF BatchTypes, CallsHaveJobs
<1> QED
  BY <1>1, <1>2, <1>3, BatchStepTypes

LEMMA BeginStep ==
  ASSUME BatchTypes, UNCHANGED <<adaptor, jobs, known, last>>,
         NEW t \in Thread, NEW o \in Object, NEW pc \in BatchPC, NEW i \in 0 .. Len(jobs),
         Begins(t, pc, o, i),
         NEW x \in ObjectNow,
         \/ UNCHANGED object /\ x = object[o] /\ Public(o)
         \/ object[o] = Absent /\ object' = [object EXCEPT ![o] = x],
         UNCHANGED lock \/ \E m \in Mutex : Acquire(m, t),
         i = 0 <=> pc \in {"run", "submit"},
         pc = "cancel" => adaptor = "naregi",
         pc # "trace"
  PROVE  /\ BatchTypes'
         /\ call[t] = Idle
         /\ Step(t, o, Calling(pc, o, i, "New"), x)
<1> DEFINE k == Calling(pc, o, i, "New")
<1>1. k \in CallNow(BatchPC) /\ k # Idle /\ k.obj = o /\ k.id = i /\ k.pc = pc
  BY DEF Calling, CallNow, State, Idle, BatchPC
<1>2. Step(t, o, k, x) /\ call[t] = Idle
  BY DEF Begins, Step, BatchTypes, ServiceTypes
<1>3. /\ jobs' \in Seq(Job) /\ Len(jobs) <= Len(jobs') /\ Len(jobs') <= MaxJob
      /\ ExitAtEnd' /\ NoneAccepted' /\ last' \in State /\ known' \subseteq known \cup JobId'
      /\ CallNow(BatchPC) = CallNow(BatchPC)' /\ ObjectNow = ObjectNow'
  BY DEF BatchTypes, ServiceTypes, ExitAtEnd, NoneAccepted, JobId, CallNow, ObjectNow
<1>4. Absent \notin ObjectNow
  BY DEF Absent, ObjectNow
<1>5. x # Absent /\ (x.life # "public" => ~Public(o))
  BY <1>4 DEF Public, Absent
<1> QED
  BY <1>1, <1>2, <1>3, <1>5, BatchStepTypes

LEMMA ThrowStep ==
  ASSUME BatchTypes, UNCHANGED <<adaptor, jobs, known, last>>,
         NEW t \in Thread, call[t] # Idle, Throw(t)
  PROVE  /\ BatchTypes'
         /\ Step(t, call[t].obj, Idle,
                 IF Public(call[t].obj) THEN object[call[t].obj] ELSE Absent)
<1> DEFINE o == call[t].obj
           x == IF Public(o) THEN object[o] ELSE Absent
<1>1. /\ o \in Object /\ object[o] \in ObjectNow
      /\ Release(t) /\ Step(t, o, Idle, x)
  BY InCall DEF BatchTypes
<1>2. Absent \notin ObjectNow
  BY DEF Absent, ObjectNow
<1>3. x \in {Absent} \cup ObjectNow /\ (x = Absent \/ x.life # "public" => ~Public(o))
  BY <1>1, <1>2 DEF Public
<1> QED
  BY <1>1, <1>3, InsideStep

(* The system has accepted the job of a call. *)
LEMMA AcceptedStep ==
  ASSUME BatchTypes, UNCHANGED <<adaptor, known, object, last>>,
         NEW t \in Thread, call[t] # Idle,
         Submitted("active"), NEW pc \in {"record", "register"},
         call' = [call EXCEPT ![t].pc = pc, ![t].id = NextId],
         UNCHANGED lock \/ Acquire("adaptor_data", t)
  PROVE  /\ BatchTypes'
         /\ Step(t, call[t].obj, Calling(pc, call[t].obj, NextId, call[t].state),
                 object[call[t].obj])
<1> DEFINE o == call[t].obj
           k == Calling(pc, o, NextId, call[t].state)
<1>1. call[t] \in CallNow(BatchPC) /\ o \in Object /\ object[o] \in ObjectNow
  BY InCall DEF BatchTypes
<1>2. [call[t] EXCEPT !.pc = pc] = Calling(pc, o, call[t].id, call[t].state)
  BY <1>1 DEF Calling, CallNow
<1>3. [Calling(pc, o, call[t].id, call[t].state) EXCEPT !.id = NextId] = k
  BY DEF Calling
<1>4. Step(t, o, k, object[o])
  BY <1>1, <1>2, <1>3 DEF BatchTypes, ServiceTypes, Step
<1>5. /\ jobs' \in Seq(Job) /\ Len(jobs') = Len(jobs) + 1 /\ Len(jobs') <= MaxJob
      /\ Len(jobs) \in Nat /\ NextId = Len(jobs) + 1 /\ ExitAtEnd'
      /\ \A i \in JobId : jobs'[i] = jobs[i]
      /\ jobs'[NextId].phase = "active"
  BY SubmittedJob DEF BatchTypes, ServiceTypes, Live
<1>6. k \in CallNow(BatchPC)' /\ k # Idle /\ k.obj = o /\ k.id # 0 /\ k.pc = pc
  BY <1>1, <1>5 DEF Calling, CallNow, BatchPC, Idle
<1>7. object[o] \in ObjectNow' /\ object[o] # Absent
  BY <1>1, <1>5 DEF ObjectNow, JobId, BatchTypes, ObjectsInUse
<1>8. /\ last' \in State /\ known' \subseteq known \cup JobId'
      /\ UNCHANGED lock \/ \E m \in Mutex : Acquire(m, t)
      /\ Len(jobs) <= Len(jobs')
  BY <1>5 DEF BatchTypes, ServiceTypes, Mutex
<1>9. object[o].life # "public" => ~Public(o)
  BY DEF Public
<1>10. BatchTypes'
  <2>1. NoneAccepted'
    BY <1>5 DEF BatchTypes, NoneAccepted, JobId
  <2> QED
    BY <1>1, <1>4, <1>5, <1>6, <1>7, <1>8, <1>9, <2>1, BatchStepTypes
<1> QED
  BY <1>4, <1>10

LEMMA SubmitStep ==
  ASSUME BatchTypes, UNCHANGED adaptor, NEW t \in Thread, Submit(t)
  PROVE  /\ BatchTypes'
         /\ call[t] # Idle /\ call[t].pc = "run"
         /\ \/ /\ Submitted("active")
               /\ Step(t, call[t].obj, Calling("record", call[t].obj, NextId, call[t].state),
                       object[call[t].obj])
               /\ Acquire("adaptor_data", t)
            \/ /\ Throw(t)
               /\ UNCHANGED jobs
         /\ UNCHANGED <<known, last>>
<1>1. call[t] # Idle /\ call[t].pc = "run" /\ UNCHANGED <<known, last>>
  BY DEF Submit, Idle
<1>2. CASE /\ Submitted("active") /\ Acquire("adaptor_data", t) /\ UNCHANGED object
           /\ call' = [call EXCEPT ![t].pc = "record", ![t].id = NextId]
  BY <1>1, <1>2, AcceptedStep
<1>3. CASE Throw(t) /\ UNCHANGED jobs
  BY <1>1, <1>3, ThrowStep
<1> QED
  BY <1>2, <1>3 DEF Submit

LEMMA SubmitJobStep ==
  ASSUME BatchTypes, UNCHANGED adaptor, NEW t \in Thread, SubmitJob(t)
  PROVE  /\ BatchTypes'
         /\ call[t] # Idle /\ call[t].pc = "submit"
         /\ \/ /\ Submitted("active")
               /\ Step(t, call[t].obj, Calling("register", call[t].obj, NextId, call[t].state),
                       object[call[t].obj])
               /\ IF adaptor \in Pbs THEN Acquire("adaptor_data", t) ELSE UNCHANGED lock
            \/ /\ Throw(t)
               /\ UNCHANGED jobs
         /\ UNCHANGED <<known, last>>
<1>1. call[t] # Idle /\ call[t].pc = "submit" /\ UNCHANGED <<known, last>>
  BY DEF SubmitJob, Idle
<1>2. CASE /\ Submitted("active") /\ UNCHANGED object
           /\ IF adaptor \in Pbs THEN Acquire("adaptor_data", t) ELSE UNCHANGED lock
           /\ call' = [call EXCEPT ![t].pc = "register", ![t].id = NextId]
  BY <1>1, <1>2, AcceptedStep
<1>3. CASE Throw(t) /\ UNCHANGED jobs
  BY <1>1, <1>3, ThrowStep
<1> QED
  BY <1>2, <1>3 DEF SubmitJob

(* A thread inside a call: the values its next step is made from. *)
LEMMA InsideValues ==
  ASSUME BatchTypes, NEW t \in Thread, call[t] # Idle
  PROVE  /\ call[t].obj \in Object
         /\ call[t].pc \in BatchPC /\ call[t].id \in 0 .. Len(jobs) /\ call[t].state \in State
         /\ call[t].pc \notin {"run", "submit"} => call[t].id \in JobId
         /\ call[t].obj \in Object
         /\ object[call[t].obj] \in ObjectNow /\ object[call[t].obj] # Absent
         /\ object[call[t].obj].life \in {"private", "public"}
         /\ object[call[t].obj].state \in State
         /\ object[call[t].obj].id \in 0 .. Len(jobs)
         /\ object[call[t].obj].stood \in SUBSET JobId
         /\ Len(jobs) \in Nat
         /\ \A pc \in BatchPC, s \in State :
              LET k == Calling(pc, call[t].obj, call[t].id, s)
              IN  k \in CallNow(BatchPC) /\ k # Idle /\ k.obj = call[t].obj /\ k.pc = pc /\ k.id = call[t].id
<1>1. call[t] \in CallNow(BatchPC) /\ call[t].obj \in Object /\ object[call[t].obj] \in ObjectNow
  BY InCall DEF BatchTypes
<1>2. Len(jobs) \in Nat
  BY DEF BatchTypes, ServiceTypes
<1>3. object[call[t].obj] # Absent
  BY DEF BatchTypes, ObjectsInUse
<1>4. \A pc \in BatchPC, s \in State :
        LET k == Calling(pc, call[t].obj, call[t].id, s)
        IN  k \in CallNow(BatchPC) /\ k # Idle /\ k.obj = call[t].obj /\ k.pc = pc /\ k.id = call[t].id
  BY <1>1 DEF Calling, CallNow, Idle, BatchPC
<1>5. call[t].pc \notin {"run", "submit"} => call[t].id \in JobId
  BY <1>1, <1>2 DEF BatchTypes, CallsHaveJobs, CallNow, JobId
<1> QED
  BY <1>1, <1>2, <1>3, <1>4, <1>5 DEF CallNow, ObjectNow

LEMMA RecordStep ==
  ASSUME BatchTypes, UNCHANGED adaptor, NEW t \in Thread, Record(t)
  PROVE  LET o == call[t].obj
             i == call[t].id
         IN  /\ BatchTypes'
             /\ call[t] # Idle /\ call[t].pc = "record"
             /\ Step(t, o, Calling("running", o, i, call[t].state),
                     Memory(object[o].life, object[o].state, i, object[o].stood \cup {i}))
             /\ known' = known \cup {i}
             /\ UNCHANGED <<jobs, lock, last>>
<1> DEFINE o == call[t].obj
           i == call[t].id
           k == Calling("running", o, i, call[t].state)
           x == Memory(object[o].life, object[o].state, i, object[o].stood \cup {i})
<1>1. call[t] # Idle /\ call[t].pc = "record"
  BY DEF Record, Idle
<1>2. /\ o \in Object /\ i \in JobId /\ object[o] \in ObjectNow /\ Len(jobs) \in Nat
      /\ object[o].life \in {"private", "public"} /\ object[o].state \in State
      /\ k \in CallNow(BatchPC) /\ k # Idle /\ k.obj = o /\ k.pc = "running" /\ k.id = i
  BY <1>1, InsideValues DEF BatchPC
<1>3. /\ x \in ObjectNow /\ x # Absent
      /\ x.life = object[o].life
      /\ x = StandFor(o, i)
  <2>1. x \in ObjectNow /\ x # Absent
    BY <1>2, MemoryTyped
  <2>2. x.life = object[o].life
    BY MemoryParts
  <2>3. x = StandFor(o, i)
    BY <1>2, StandForMemory
  <2> QED
    BY <2>1, <2>2, <2>3
<1>4. Step(t, o, k, x)
  BY <1>1, <1>3, InCall DEF Record, Step, BatchTypes
<1>5. /\ known' = known \cup {i} /\ UNCHANGED <<jobs, lock, last>>
      /\ known' \subseteq known \cup JobId
  BY <1>2 DEF Record
<1>6. BatchTypes'
  BY <1>1, <1>2, <1>3, <1>4, <1>5, InsideStep DEF Public
<1> QED
  BY <1>1, <1>4, <1>5, <1>6

LEMMA SetRunningStep ==
  ASSUME BatchTypes, UNCHANGED adaptor, NEW t \in Thread, SetRunning(t)
  PROVE  LET r == object[call[t].obj]
         IN  /\ BatchTypes'
             /\ call[t] # Idle /\ call[t].pc = "running"
             /\ Step(t, call[t].obj, Idle, Memory(r.life, "Running", r.id, r.stood))
             /\ Release(t)
             /\ UNCHANGED <<jobs, known, last>>
<1> DEFINE o == call[t].obj
           r == object[o]
           x == Memory(r.life, "Running", r.id, r.stood)
<1>1. call[t] # Idle /\ call[t].pc = "running" /\ Release(t) /\ UNCHANGED <<jobs, known, last>>
  BY DEF SetRunning, Idle
<1>2. /\ o \in Object /\ r \in ObjectNow /\ call[t].id \in JobId /\ Len(jobs) \in Nat
      /\ "Running" \in State /\ r.life \in {"private", "public"}
  BY <1>1, InsideValues DEF State
<1>3. /\ x \in ObjectNow /\ x # Absent
      /\ x.life = r.life
  <2>1. x \in ObjectNow /\ x # Absent
    BY <1>2, MemoryTyped
  <2> QED
    BY <2>1, MemoryParts
<1>4. [r EXCEPT !.state = "Running"] = x
  BY <1>2, MemoryExcept
<1>5. Step(t, o, Idle, x)
  BY <1>4 DEF SetRunning, Return, Step
<1>6. known' \subseteq known \cup JobId
  BY <1>1
<1>7. BatchTypes'
  BY <1>1, <1>2, <1>3, <1>5, <1>6, InsideStep DEF Public
<1> QED
  BY <1>1, <1>5, <1>7

LEMMA RunJobStep ==
  ASSUME BatchTypes, UNCHANGED adaptor, NEW t \in Thread, NEW o \in Object, RunJob(t, o)
  PROVE  /\ BatchTypes'
         /\ call[t] = Idle /\ object[o] = Absent
         /\ Step(t, o, Calling("submit", o, 0, "New"), Memory("private", "New", 0, {}))
         /\ Acquire("job_service", t)
         /\ UNCHANGED <<jobs, known, last>>
<1>1. Len(jobs) \in Nat /\ 0 \in 0 .. Len(jobs)
  BY DEF BatchTypes, ServiceTypes
<1>2. NewObject("private") = Memory("private", "New", 0, {}) /\ NewObject("private") \in ObjectNow
  BY <1>1, MemoryNow
<1>3. \E m \in Mutex : Acquire(m, t)
  BY DEF RunJob, Mutex
<1> QED
  BY <1>1, <1>2, <1>3, BeginStep DEF RunJob, BatchPC

LEMMA RegisterJobStep ==
  ASSUME BatchTypes, UNCHANGED adaptor, NEW t \in Thread, RegisterJob(t)
  PROVE  LET o == call[t].obj
             i == call[t].id
         IN  /\ BatchTypes'
             /\ call[t] # Idle /\ call[t].pc = "register"
             /\ Step(t, o, Calling("query", o, i, call[t].state),
                     Memory(object[o].life, object[o].state, i, object[o].stood \cup {i}))
             /\ Acquire("adaptor_data", t)
             /\ known' = known \cup {i}
             /\ UNCHANGED <<jobs, last>>
<1> DEFINE o == call[t].obj
           i == call[t].id
           k == Calling("query", o, i, call[t].state)
           x == Memory(object[o].life, object[o].state, i, object[o].stood \cup {i})
<1>1. call[t] # Idle /\ call[t].pc = "register"
  BY DEF RegisterJob, Idle
<1>2. /\ o \in Object /\ i \in JobId /\ object[o] \in ObjectNow /\ Len(jobs) \in Nat
      /\ object[o].life \in {"private", "public"} /\ object[o].state \in State
      /\ k \in CallNow(BatchPC) /\ k # Idle /\ k.obj = o /\ k.pc = "query" /\ k.id = i
  BY <1>1, InsideValues DEF BatchPC
<1>3. /\ x \in ObjectNow /\ x # Absent
      /\ x.life = object[o].life
      /\ x = StandFor(o, i)
  <2>1. x \in ObjectNow /\ x # Absent
    BY <1>2, MemoryTyped
  <2>2. x.life = object[o].life
    BY MemoryParts
  <2>3. x = StandFor(o, i)
    BY <1>2, StandForMemory
  <2> QED
    BY <2>1, <2>2, <2>3
<1>4. Step(t, o, k, x)
  BY <1>1, <1>3, InCall DEF RegisterJob, Step, BatchTypes
<1>5. /\ known' = known \cup {i} /\ UNCHANGED <<jobs, last>>
      /\ known' \subseteq known \cup JobId
      /\ Acquire("adaptor_data", t) /\ \E m \in Mutex : Acquire(m, t)
  BY <1>2 DEF RegisterJob, Mutex
<1>6. BatchTypes'
  BY <1>1, <1>2, <1>3, <1>4, <1>5, InsideStep DEF Public
<1> QED
  BY <1>1, <1>4, <1>5, <1>6

LEMMA GetJobStep ==
  ASSUME BatchTypes, UNCHANGED adaptor, NEW t \in Thread, NEW o \in Object, NEW i \in JobId,
         GetJob(t, o, i)
  PROVE  /\ BatchTypes'
         /\ call[t] = Idle /\ object[o] = Absent
         /\ Step(t, o, Calling("find", o, i, "New"), Memory("private", "New", 0, {}))
         /\ Acquire("adaptor_data", t)
         /\ UNCHANGED <<jobs, known, last>>
<1>1. Len(jobs) \in Nat /\ i \in 0 .. Len(jobs) /\ i # 0
  BY DEF BatchTypes, ServiceTypes, JobId
<1>2. NewObject("private") = Memory("private", "New", 0, {}) /\ NewObject("private") \in ObjectNow
  BY <1>1, MemoryNow
<1>3. \E m \in Mutex : Acquire(m, t)
  BY DEF GetJob, Mutex
<1> QED
  BY <1>1, <1>2, <1>3, BeginStep DEF GetJob, BatchPC

LEMMA FindStep ==
  ASSUME BatchTypes, UNCHANGED adaptor, NEW t \in Thread, Find(t)
  PROVE  LET o == call[t].obj
             i == call[t].id
         IN  /\ BatchTypes'
             /\ call[t] # Idle /\ call[t].pc = "find"
             /\ \/ /\ i \in known
                   /\ Step(t, o, Idle,
                           Memory("public", object[o].state, i, object[o].stood \cup {i}))
                   /\ Release(t)
                \/ /\ Step(t, o, Calling("probe", o, i, call[t].state), object[o])
                   /\ Acquire("job_service", t)
             /\ UNCHANGED <<jobs, known, last>>
<1> DEFINE o == call[t].obj
           i == call[t].id
           r == object[o]
           k == Calling("probe", o, i, call[t].state)
           x == Memory("public", r.state, i, r.stood \cup {i})
<1>1. /\ call[t] # Idle /\ call[t].pc = "find" /\ UNCHANGED <<jobs, known, last>>
      /\ known' \subseteq known \cup JobId
  BY DEF Find, Idle
<1>2. /\ o \in Object /\ i \in JobId /\ r \in ObjectNow /\ r # Absent /\ Len(jobs) \in Nat
      /\ r.life \in {"private", "public"} /\ r.state \in State
      /\ k \in CallNow(BatchPC) /\ k # Idle /\ k.obj = o /\ k.pc = "probe" /\ k.id = i
  BY <1>1, InsideValues DEF BatchPC
<1>3. CASE i \in known /\ Return(t) /\ Release(t)
           /\ object' = [object EXCEPT ![o] = [StandFor(o, i) EXCEPT !.life = "public"]]
  <2>1. x \in ObjectNow /\ x # Absent /\ x.life = "public"
    BY <1>2, MemoryTyped, MemoryParts
  <2>2. [StandFor(o, i) EXCEPT !.life = "public"] = x
    BY <1>2, MemoryExcept
  <2>3. Step(t, o, Idle, x)
    BY <1>3, <2>2 DEF Return, Step
  <2>4. BatchTypes'
    BY <1>1, <1>2, <1>3, <2>1, <2>3, InsideStep
  <2> QED
    BY <1>1, <1>3, <2>3, <2>4
<1>4. CASE Acquire("job_service", t) /\ Goto(t, "probe") /\ UNCHANGED object
  <2>1. Step(t, o, k, r)
    BY <1>1, <1>2, <1>4, InCall DEF Step, BatchTypes, ServiceTypes
  <2>2. \E m \in Mutex : Acquire(m, t)
    BY <1>4 DEF Mutex
  <2>3. BatchTypes'
    BY <1>1, <1>2, <2>1, <2>2, InsideStep DEF Public
  <2> QED
    BY <1>1, <1>4, <2>1, <2>3
<1> QED
  BY <1>3, <1>4 DEF Find

LEMMA ProbeStep ==
  ASSUME BatchTypes, UNCHANGED adaptor, NEW t \in Thread, Probe(t)
  PROVE  LET o == call[t].obj
             i == call[t].id
         IN  /\ BatchTypes'
             /\ call[t] # Idle /\ call[t].pc = "probe"
             /\ \/ /\ Step(t, o, Calling("query", o, i, call[t].state),
                           Memory(object[o].life, "Unknown", i, object[o].stood \cup {i}))
                   /\ UNCHANGED lock
                \/ Throw(t)
             /\ UNCHANGED <<jobs, known, last>>
<1> DEFINE o == call[t].obj
           i == call[t].id
           r == object[o]
           k == Calling("query", o, i, call[t].state)
           x == Memory(r.life, "Unknown", i, r.stood \cup {i})
<1>1. /\ call[t] # Idle /\ call[t].pc = "probe" /\ UNCHANGED <<jobs, known, last>>
      /\ known' \subseteq known \cup JobId
  BY DEF Probe, Idle
<1>2. /\ o \in Object /\ i \in JobId /\ r \in ObjectNow /\ Len(jobs) \in Nat
      /\ r.life \in {"private", "public"} /\ r.state \in State
      /\ k \in CallNow(BatchPC) /\ k # Idle /\ k.obj = o /\ k.pc = "query" /\ k.id = i
  BY <1>1, InsideValues DEF BatchPC
<1>3. CASE Goto(t, "query") /\ UNCHANGED lock
           /\ object' = [object EXCEPT ![o] = [StandFor(o, i) EXCEPT !.state = "Unknown"]]
  <2> "Unknown" \in State
    BY DEF State
  <2>1. x \in ObjectNow /\ x # Absent /\ x.life = r.life
    BY <1>2, MemoryTyped, MemoryParts
  <2>2. [StandFor(o, i) EXCEPT !.state = "Unknown"] = x
    BY <1>2, MemoryExcept
  <2>3. Step(t, o, k, x)
    BY <1>1, <1>3, <2>2, InCall DEF Step, BatchTypes
  <2>4. BatchTypes'
    BY <1>1, <1>2, <1>3, <2>1, <2>3, InsideStep DEF Public
  <2> QED
    BY <1>1, <1>3, <2>3, <2>4
<1>4. CASE Throw(t)
  BY <1>1, <1>4, ThrowStep
<1> QED
  BY <1>3, <1>4 DEF Probe

LEMMA CreateJobStep ==
  ASSUME BatchTypes, UNCHANGED adaptor, NEW t \in Thread, NEW o \in Object, CreateJob(t, o)
  PROVE  /\ BatchTypes'
         /\ call[t] = Idle /\ object[o] = Absent
         /\ Step(t, o, Idle, Memory("public", "New", 0, {}))
         /\ UNCHANGED <<jobs, known, lock, last>>
<1> DEFINE x == Memory("public", "New", 0, {})
<1>1. /\ call[t] = Idle /\ object[o] = Absent
      /\ UNCHANGED <<jobs, known, call, lock, last>>
      /\ object' = [object EXCEPT ![o] = NewObject("public")]
  BY DEF CreateJob
<1>2. NewObject("public") = x /\ x \in ObjectNow /\ x # Absent
  BY MemoryNow DEF BatchTypes, ServiceTypes
<1>3. Step(t, o, Idle, x)
  BY <1>1, <1>2 DEF Step, BatchTypes, ServiceTypes
<1>4. /\ jobs' \in Seq(Job) /\ Len(jobs) <= Len(jobs') /\ Len(jobs') <= MaxJob
      /\ ExitAtEnd' /\ NoneAccepted' /\ last' \in State /\ known' \subseteq known \cup JobId'
      /\ ObjectNow = ObjectNow'
  BY <1>1 DEF BatchTypes, ServiceTypes, ExitAtEnd, NoneAccepted, JobId, ObjectNow
<1>5. x.life = "public"
  BY MemoryParts
<1>6. BatchTypes'
  BY <1>1, <1>2, <1>3, <1>4, <1>5, BatchStepTypes
<1> QED
  BY <1>1, <1>3, <1>6

LEMMA RunStep ==
  ASSUME BatchTypes, UNCHANGED adaptor, NEW t \in Thread, NEW o \in Object, Run(t, o)
  PROVE  /\ BatchTypes'
         /\ call[t] = Idle /\ Public(o) /\ object[o] # Absent /\ object[o].state = "New"
         /\ Step(t, o, Calling("run", o, 0, "New"), object[o])
         /\ UNCHANGED <<jobs, known, lock, last>>
<1>1. object[o] \in ObjectNow /\ object[o] # Absent /\ Len(jobs) \in Nat
  BY DEF BatchTypes, ServiceTypes, Run, Public, Absent
<1> QED
  BY <1>1, BeginStep DEF Run, BatchPC

LEMMA GetStateStep ==
  ASSUME BatchTypes, UNCHANGED adaptor, NEW t \in Thread, NEW o \in Object, GetState(t, o)
  PROVE  /\ BatchTypes'
         /\ call[t] = Idle /\ object[o] # Absent /\ object[o].id # 0
         /\ Step(t, o, Calling("query", o, object[o].id, "New"), object[o])
         /\ UNCHANGED <<jobs, known, lock, last>>
<1>1. object[o] \in ObjectNow /\ object[o].id \in 0 .. Len(jobs) /\ object[o] # Absent
  BY DEF BatchTypes, ServiceTypes, GetState, Public, Absent, ObjectNow
<1> QED
  BY <1>1, BeginStep DEF GetState, BatchPC

LEMMA CancelStep ==
  ASSUME BatchTypes, UNCHANGED adaptor, NEW t \in Thread, NEW o \in Object, Cancel(t, o),
         object[o].id # 0
  PROVE  /\ BatchTypes'
         /\ adaptor = "naregi"
         /\ call[t] = Idle /\ object[o] # Absent
         /\ Step(t, o, Calling("cancel", o, object[o].id, "New"), object[o])
         /\ UNCHANGED <<jobs, known, lock, last>>
<1>1. object[o] \in ObjectNow /\ object[o].id \in 0 .. Len(jobs) /\ object[o] # Absent
  BY DEF BatchTypes, ServiceTypes, Cancel, Public, Absent, ObjectNow
<1> QED
  BY <1>1, BeginStep DEF Cancel, BatchPC

LEMMA StateOfTypes ==
  ASSUME BatchTypes, NEW i \in JobId, jobs[i].phase # "gone"
  PROVE  /\ StateOf(i) \in State \ {"New", "Canceled"}
         /\ jobs[i].phase = "complete" => StateOf(i) = IF jobs[i].exit = "zero" THEN "Done" ELSE "Failed"
         /\ jobs[i].phase # "complete" /\ adaptor \in Pbs => StateOf(i) \notin Final
<1>1. jobs[i] \in Job
  BY DEF BatchTypes, ServiceTypes, JobId
<1>2. jobs[i].phase \in Live \cup {"complete"}
  BY <1>1 DEF BatchTypes, NoneAccepted, Job, Phase
<1> QED
  BY <1>2 DEF StateOf, State, Final, Live, Pbs

LEMMA QueryStep ==
  ASSUME BatchTypes, UNCHANGED adaptor, NEW t \in Thread, Query(t)
  PROVE  LET o == call[t].obj
             i == call[t].id
         IN  /\ BatchTypes'
             /\ call[t] # Idle /\ call[t].pc = "query"
             /\ \/ /\ IF adaptor \in Pbs THEN Acquire("adaptor_data", t) ELSE UNCHANGED lock
                   /\ \/ /\ jobs[i].phase # "gone"
                         /\ Step(t, o, Calling("update", o, i, StateOf(i)), object[o])
                      \/ /\ adaptor = "pbspro"
                         /\ Step(t, o, Calling("trace", o, i, call[t].state), object[o])
                      \/ /\ adaptor = "naregi"
                         /\ Step(t, o, Calling("update", o, i, "Canceled"), object[o])
                \/ adaptor # "pbspro" /\ Throw(t)
             /\ UNCHANGED <<jobs, known, last>>
<1> DEFINE o == call[t].obj
           i == call[t].id
           r == object[o]
<1>1. /\ call[t] # Idle /\ call[t].pc = "query" /\ UNCHANGED <<jobs, known, last>>
      /\ known' \subseteq known \cup JobId
  BY DEF Query, Idle
<1>2. /\ o \in Object /\ i \in JobId /\ r \in ObjectNow /\ r # Absent
      /\ call[t].state \in State
  BY <1>1, InsideValues
<1>3. \A pc \in BatchPC, s \in State :
        LET k == Calling(pc, o, i, s)
        IN  k \in CallNow(BatchPC) /\ k # Idle /\ k.obj = o /\ k.pc = pc /\ k.id = i
  BY <1>1, InsideValues
<1>4. ASSUME NEW pc \in {"update", "trace"}, NEW s \in State,
             pc = "trace" => adaptor = "pbspro",
             Step(t, o, Calling(pc, o, i, s), r),
             IF adaptor \in Pbs THEN Acquire("adaptor_data", t) ELSE UNCHANGED lock
      PROVE  BatchTypes'
  <2> DEFINE k == Calling(pc, o, i, s)
  <2>1. k \in CallNow(BatchPC) /\ k # Idle /\ k.obj = o /\ k.pc = pc /\ k.id = i
    BY <1>3 DEF BatchPC
  <2>2. UNCHANGED lock \/ \E m \in Mutex : Acquire(m, t)
    BY <1>4 DEF Mutex
  <2> QED
    BY <1>1, <1>2, <1>4, <2>1, <2>2, InsideStep DEF Public
<1>5. \A pc, s : object' = object /\ Carry(t, pc, s) => Step(t, o, Calling(pc, o, i, s), r)
  BY <1>1, <1>2, InCall DEF Step, BatchTypes, ServiceTypes
<1>6. \A pc : object' = object /\ Goto(t, pc) => Step(t, o, Calling(pc, o, i, call[t].state), r)
  BY <1>1, <1>2, InCall DEF Step, BatchTypes, ServiceTypes
<1>7. CASE /\ Found(t) /\ UNCHANGED object
           /\ IF adaptor \in Pbs THEN Acquire("adaptor_data", t) ELSE UNCHANGED lock
  <2>1. jobs[i].phase # "gone" /\ Step(t, o, Calling("update", o, i, StateOf(i)), r)
    BY <1>5, <1>7 DEF Found
  <2>2. StateOf(i) \in State
    BY <1>2, <2>1, StateOfTypes
  <2> QED
    BY <1>1, <1>4, <1>7, <2>1, <2>2
<1>8. CASE /\ NotFound(t) /\ UNCHANGED object
           /\ IF adaptor \in Pbs THEN Acquire("adaptor_data", t) ELSE UNCHANGED lock
  <2>1. CASE adaptor = "pbspro" /\ Goto(t, "trace")
    BY <1>1, <1>2, <1>4, <1>6, <1>8, <2>1
  <2>2. CASE adaptor = "naregi" /\ Carry(t, "update", "Canceled")
    BY <1>1, <1>4, <1>5, <1>8, <2>2 DEF State, Final
  <2> QED
    BY <1>8, <2>1, <2>2 DEF NotFound
<1>9. CASE adaptor # "pbspro" /\ Throw(t)
  BY <1>1, <1>9, ThrowStep
<1> QED
  BY <1>7, <1>8, <1>9 DEF Query

LEMMA TraceStep ==
  ASSUME BatchTypes, UNCHANGED adaptor, NEW t \in Thread, Trace(t)
  PROVE  LET o == call[t].obj
             i == call[t].id
             s == IF jobs[i].exit = "zero" THEN "Done" ELSE "Failed"
         IN  /\ BatchTypes'
             /\ call[t] # Idle /\ call[t].pc = "trace"
             /\ \/ /\ jobs[i].exit \in {"zero", "positive"}
                   /\ Step(t, o, Calling("update", o, i, s), object[o])
                   /\ UNCHANGED lock
                \/ Throw(t)
             /\ UNCHANGED <<jobs, known, last>>
<1> DEFINE o == call[t].obj
           i == call[t].id
           s == IF jobs[i].exit = "zero" THEN "Done" ELSE "Failed"
           r == object[o]
           k == Calling("update", o, i, s)
<1>1. /\ call[t] # Idle /\ call[t].pc = "trace" /\ UNCHANGED <<jobs, known, last>>
      /\ known' \subseteq known \cup JobId
  BY DEF Trace, Idle
<1>2. /\ o \in Object /\ i \in JobId /\ r \in ObjectNow /\ r # Absent /\ s \in State
  BY <1>1, InsideValues DEF State, Final
<1>3. k \in CallNow(BatchPC) /\ k # Idle /\ k.obj = o /\ k.pc = "update" /\ k.id = i
  BY <1>1, <1>2, InsideValues DEF BatchPC
<1>4. CASE Traced(i) /\ Carry(t, "update", s) /\ UNCHANGED <<object, lock>>
  <2>1. Step(t, o, k, r)
    BY <1>1, <1>2, <1>4, InCall DEF Step, BatchTypes, ServiceTypes
  <2>2. BatchTypes'
    BY <1>1, <1>2, <1>3, <1>4, <2>1, InsideStep DEF Public
  <2> QED
    BY <1>1, <1>4, <2>1, <2>2 DEF Traced
<1>5. CASE Throw(t)
  BY <1>1, <1>5, ThrowStep
<1> QED
  BY <1>4, <1>5 DEF Trace

LEMMA UpdateStep ==
  ASSUME BatchTypes, UNCHANGED adaptor, NEW t \in Thread, Update(t)
  PROVE  LET r == object[call[t].obj]
         IN  /\ BatchTypes'
             /\ call[t] # Idle /\ call[t].pc = "update"
             /\ Step(t, call[t].obj, Idle, Memory("public", call[t].state, r.id, r.stood))
             /\ Release(t)
             /\ UNCHANGED <<jobs, known, last>>
<1> DEFINE o == call[t].obj
           r == object[o]
           s == call[t].state
           x == Memory("public", s, r.id, r.stood)
<1>1. /\ call[t] # Idle /\ call[t].pc = "update" /\ Release(t) /\ UNCHANGED <<jobs, known, last>>
      /\ known' \subseteq known \cup JobId
  BY DEF Update, Idle
<1>2. /\ o \in Object /\ r \in ObjectNow /\ call[t].id \in JobId /\ Len(jobs) \in Nat /\ s \in State
  BY <1>1, InsideValues
<1>3. x \in ObjectNow /\ x # Absent /\ x.life = "public"
  <2>1. x \in ObjectNow /\ x # Absent
    BY <1>2, MemoryTyped
  <2> QED
    BY <2>1, MemoryParts
<1>4. [[r EXCEPT !.state = s] EXCEPT !.life = "public"] = x
  BY <1>2, MemoryExcept
<1>5. Step(t, o, Idle, x)
  BY <1>4 DEF Update, Return, Step, BatchTypes, ServiceTypes
<1>6. BatchTypes'
  BY <1>1, <1>2, <1>3, <1>5, InsideStep
<1> QED
  BY <1>1, <1>5, <1>6

LEMMA CancelJobStep ==
  ASSUME BatchTypes, UNCHANGED adaptor, NEW t \in Thread, CancelJob(t)
  PROVE  LET o == call[t].obj
             i == call[t].id
         IN  /\ BatchTypes'
             /\ adaptor = "naregi"
             /\ call[t] # Idle /\ call[t].pc = "cancel"
             /\ \/ /\ jobs[i].phase \in Live
                   /\ Ended(i, "gone", "canceled")
                   /\ Step(t, o, Calling("update", o, i, "Canceled"), object[o])
                   /\ UNCHANGED lock
                \/ Throw(t) /\ UNCHANGED jobs
             /\ JobsPersist /\ (JobsEnd => JobsEnd')
             /\ UNCHANGED <<known, last>>
<1> DEFINE o == call[t].obj
           i == call[t].id
           r == object[o]
           k == Calling("update", o, i, "Canceled")
<1>1. /\ call[t] # Idle /\ call[t].pc = "cancel" /\ UNCHANGED <<known, last>>
      /\ adaptor = "naregi"
  BY DEF CancelJob, Idle, BatchTypes, CallsHaveJobs
<1>2. /\ o \in Object /\ i \in JobId /\ r \in ObjectNow /\ r # Absent /\ "Canceled" \in State
      /\ "canceled" \in Exit
  BY <1>1, InsideValues DEF State, Final, Exit
<1>4. CASE /\ jobs[i].phase \in Live /\ Ended(i, "gone", "canceled")
           /\ Carry(t, "update", "Canceled") /\ UNCHANGED <<object, lock>>
  <2>1. Step(t, o, k, r)
    BY <1>1, <1>2, <1>4, InCall DEF Step, BatchTypes, ServiceTypes
  <2>2. /\ jobs' \in Seq(Job) /\ Len(jobs') = Len(jobs)
        /\ \A j \in JobId : j # i => jobs'[j] = jobs[j]
        /\ jobs'[i].phase = "gone" /\ jobs'[i].exit = "canceled"
        /\ ExitAtEnd' /\ JobsPersist
    BY <1>2, <1>4, ChangedJob DEF BatchTypes, ServiceTypes, Phase
  <2>3. NoneAccepted'
    BY <2>2 DEF BatchTypes, NoneAccepted, JobId
  <2>4. k \in CallNow(BatchPC) /\ k # Idle /\ k.obj = o /\ k.pc = "update" /\ k.id = i
    BY <1>1, <1>2, InsideValues DEF BatchPC
  <2>5. CallNow(BatchPC) = CallNow(BatchPC)' /\ ObjectNow = ObjectNow'
    BY <2>2 DEF CallNow, ObjectNow, JobId
  <2>6. Len(jobs) <= Len(jobs') /\ Len(jobs') <= MaxJob /\ last' \in State
        /\ known' \subseteq known \cup JobId' /\ k.id # 0
    BY <1>1, <1>2, <2>2, <2>4 DEF BatchTypes, ServiceTypes, JobId
  <2>8. JobsEnd => JobsEnd'
    BY <2>2 DEF JobsEnd, JobId
  <2>7. BatchTypes'
    BY <1>1, <1>2, <1>4, <2>1, <2>2, <2>3, <2>4, <2>5, <2>6, BatchStepTypes DEF Public
  <2> QED
    BY <1>1, <1>4, <2>1, <2>2, <2>7, <2>8
<1>5. CASE Throw(t) /\ UNCHANGED jobs
  <2>1. JobsPersist /\ (JobsEnd => JobsEnd')
    BY <1>5 DEF JobsPersist, JobsEnd, JobId, BatchTypes, ServiceTypes
  <2> QED
    BY <1>1, <1>5, <2>1, ThrowStep
<1> QED
  BY <1>4, <1>5 DEF CancelJob

LEMMA ManagersStep ==
  ASSUME BatchTypes, UNCHANGED adaptor, NEW exits \in SUBSET {"zero", "positive", "negative"},
         ManagerStep(Live, exits)
  PROVE  /\ BatchTypes'
         /\ Len(jobs') = Len(jobs) /\ JobsPersist
         /\ JobsEnd => JobsEnd'
         /\ UNCHANGED <<known, object, call, lock, last>>
<1>1. PICK i \in JobId :
        \/ jobs[i].phase = "accepted" /\ Become(i, "active")
        \/ jobs[i].phase \in Live /\ \E p \in Live \ {jobs[i].phase} : Become(i, p)
        \/ jobs[i].phase = "active" /\ \E e \in exits : Ended(i, "complete", e)
        \/ jobs[i].phase = "complete" /\ Become(i, "gone")
  <2>1. DOMAIN jobs = JobId
    BY DEF JobId, BatchTypes, ServiceTypes
  <2> QED
    BY <2>1 DEF ManagerStep
<1>2. jobs \in Seq(Job) /\ ExitAtEnd /\ Len(jobs) \in Nat /\ jobs[i].phase # "accepted"
  BY DEF BatchTypes, ServiceTypes, NoneAccepted
<1>3. /\ jobs' \in Seq(Job) /\ Len(jobs') = Len(jobs)
      /\ \A j \in JobId : j # i => jobs'[j] = jobs[j]
      /\ JobsPersist /\ ExitAtEnd'
      /\ jobs'[i].phase # "accepted"
      /\ JobsEnd =>
           /\ jobs'[i].phase = "complete" => jobs'[i].exit \in {"zero", "positive", "negative"}
           /\ jobs'[i].phase = "gone" => jobs'[i].exit # "none"
  <2>1. CASE jobs[i].phase \in Live /\ \E p \in Live \ {jobs[i].phase} : Become(i, p)
    <3>1. PICK p \in Live : Become(i, p)
      BY <2>1
    <3>2. p \in Phase /\ p \notin {"accepted", "complete", "gone"} /\ jobs[i].exit = "none"
      BY <2>1 DEF Live, Phase, BatchTypes, ExitAtEnd
    <3> QED
      BY <1>2, <3>1, <3>2, ChangedJob
  <2>2. CASE jobs[i].phase = "active" /\ \E e \in exits : Ended(i, "complete", e)
    <3>1. PICK e \in exits : Ended(i, "complete", e)
      BY <2>2
    <3>2. e \in Exit /\ e \in {"zero", "positive", "negative"} /\ "complete" \in Phase /\ jobs[i].phase \in Live
      BY <2>2 DEF Exit, Phase, Live
    <3> QED
      BY <1>2, <3>1, <3>2, ChangedJob
  <2>3. CASE jobs[i].phase = "complete" /\ Become(i, "gone")
    <3>1. "gone" \in Phase /\ "gone" \notin Live \cup {"accepted"}
      BY DEF Phase, Live
    <3>2. JobsEnd => jobs[i].exit # "none"
      BY <2>3 DEF JobsEnd
    <3> QED
      BY <1>2, <2>3, <3>1, <3>2, ChangedJob
  <2> QED
    BY <1>1, <1>2, <2>1, <2>2, <2>3
<1>4. UNCHANGED <<known, object, call, lock, last>>
  BY DEF ManagerStep
<1>5. ServiceTypes(BatchPC)'
  BY <1>3, <1>4 DEF BatchTypes, ServiceTypes, JobId, ObjectNow, CallNow, Exclusive
<1>6. NoneAccepted'
  BY <1>3 DEF BatchTypes, NoneAccepted, JobId
<1>7. JobsEnd => JobsEnd'
  BY <1>3 DEF JobsEnd, JobId
<1>8. ObjectsInUse' /\ CallsHaveJobs' /\ HoldersCall'
  BY <1>4 DEF BatchTypes, ObjectsInUse, CallsHaveJobs, HoldersCall, Public
<1> QED
  BY <1>3, <1>4, <1>5, <1>6, <1>7, <1>8 DEF BatchTypes

-----------------------------------------------------------------------------
(***************************************************************************)
(* The invariant is kept by a step that makes k of the call of t and x of  *)
(* the object o, if the following hold of k and x.                         *)
(***************************************************************************)
KeepsKnown(t, k) ==
  /\ known \subseteq known'
  /\ call[t] # Idle /\ call[t].pc \in {"record", "register"} => call[t].id \in known'
  /\ \/ Len(jobs') = Len(jobs)
     \/ /\ Len(jobs') = Len(jobs) + 1
        /\ k # Idle /\ k.pc \in {"record", "register"} /\ k.id = Len(jobs')

KeepsUse(t, o, k, x) ==
  /\ call[t] # Idle => call[t].obj = o
  /\ k # Idle => k.obj = o /\ x # Absent
  /\ call[t] = Idle => object[o] = Absent \/ Public(o)
  /\ x = Absent => ~Public(o)
  /\ Public(o) => x.life = "public"

KeepsFate(o, k, x) ==
  /\ x # Absent =>
       /\ x.id # 0 => x.id \in x.stood
       /\ x.id = 0 => x.stood = {} /\ x.state = "New"
       /\ object[o] # Absent => object[o].stood \subseteq x.stood
       /\ adaptor \in Pbs => Told(jobs', x)
  /\ k # Idle /\ k.pc \in {"running", "query", "trace", "update", "cancel"} => k.id \in x.stood
  /\ k # Idle /\ k.pc = "update" /\ adaptor \in Pbs =>
       k.state # "New" /\ Tells(jobs', k.state, k.id)

KeepsOrder(t, o, k, x) ==
  /\ k # Idle =>
       /\ k.pc \in {"submit", "register", "find", "probe"} => x.life # "public" /\ x.id = 0
       /\ k.pc \in {"run", "record", "running"} => x.life = "public"
  /\ x # Absent /\ x.life # "public" => x.stood \subseteq {x.id}
  /\ adaptor \in Pbs /\ k # Idle =>
       /\ k.pc \in Holding => t \in lock'["adaptor_data"]
       /\ InOrder(k, x)
  /\ adaptor \in Pbs => \/ x = object[o] \/ x = Absent \/ object[o] = Absent
                        \/ lock["adaptor_data"] \subseteq {t}

KeepsDiagram(o, x) ==
  adaptor \in {"pbspro", "torque", "lsf"} =>
    \/ InDiagram(x) = InDiagram(object[o])
    \/ InDiagram(x) \in Diagram!After(InDiagram(object[o]))

Effect(t, o, k, x) ==
  /\ Step(t, o, k, x)
  /\ JobsPersist
  /\ JobsEnd => JobsEnd'
  /\ UNCHANGED lock \/ Release(t) \/ \E m \in Mutex : Acquire(m, t)
  /\ KeepsKnown(t, k)
  /\ KeepsUse(t, o, k, x)
  /\ KeepsFate(o, k, x)
  /\ KeepsOrder(t, o, k, x)
  /\ KeepsDiagram(o, x)

LEMMA KnownKept ==
  ASSUME BatchTypes, OwnJobsKnown, NEW t \in Thread, NEW o \in Object, NEW k, NEW x,
         Step(t, o, k, x), JobsPersist, KeepsKnown(t, k)
  PROVE  OwnJobsKnown'
<1>1. call'[t] = k /\ \A u \in Thread \ {t} : call'[u] = call[u]
  BY StepValues DEF BatchTypes
<1>2. Len(jobs) \in Nat
  BY DEF BatchTypes, ServiceTypes
<1>3. ASSUME NEW i \in JobId', jobs'[i].own
      PROVE  \/ i \in known'
             \/ \E u \in Thread :
                  call'[u] # Idle /\ call'[u].pc \in {"record", "register"} /\ call'[u].id = i
  <2>1. CASE i \in JobId
    <3>1. jobs[i].own
      BY <1>3, <2>1 DEF JobsPersist
    <3> QED
      BY <1>1, <2>1, <3>1 DEF OwnJobsKnown, KeepsKnown
  <2>2. CASE i \notin JobId
    BY <1>1, <1>2, <2>2 DEF KeepsKnown, JobId
  <2> QED
    BY <2>1, <2>2
<1> QED
  BY <1>3 DEF OwnJobsKnown

LEMMA TellsPersist ==
  ASSUME JobsPersist, NEW i \in JobId, NEW state, Tells(jobs, state, i)
  PROVE  Tells(jobs', state, i)
BY DEF JobsPersist, Tells

LEMMA ToldPersist ==
  ASSUME JobsPersist, NEW r, r.stood \in SUBSET JobId, Told(jobs, r)
  PROVE  Told(jobs', r)
BY TellsPersist DEF Told

LEMMA FateKept ==
  ASSUME BatchTypes, BatchTypes', FateInv, JobsEnd',
         NEW t \in Thread, NEW o \in Object, NEW k, NEW x,
         Step(t, o, k, x), JobsPersist, UNCHANGED adaptor,
         KeepsUse(t, o, k, x), KeepsFate(o, k, x)
  PROVE  FateInv'
<1>1. /\ call'[t] = k /\ \A u \in Thread \ {t} : call'[u] = call[u]
      /\ object'[o] = x /\ \A p \in Object \ {o} : object'[p] = object[p]
  BY StepValues DEF BatchTypes
<1>2. IdsStood'
  BY <1>1 DEF FateInv, IdsStood, KeepsFate
<1>3. ASSUME NEW u \in Thread, call'[u] # Idle,
             call'[u].pc \in {"running", "query", "trace", "update", "cancel"}
      PROVE  call'[u].id \in object'[call'[u].obj].stood
  <2>1. CASE u = t
    BY <1>1, <1>3, <2>1 DEF KeepsFate, KeepsUse
  <2>2. CASE u # t
    <3>1. call'[u] = call[u] /\ call[u].id \in object[call[u].obj].stood
      BY <1>1, <1>3, <2>2 DEF FateInv, AskedStood
    <3>2. call[u].obj \in Object /\ object[call[u].obj] # Absent /\ object'[call[u].obj] # Absent
      BY <1>3, <3>1 DEF BatchTypes, ServiceTypes, CallNow, ObjectsInUse
    <3> QED
      BY <1>1, <3>1, <3>2 DEF KeepsFate
  <2> QED
    BY <2>1, <2>2
<1>4. AskedStood'
  BY <1>3 DEF AskedStood
<1>5. ASSUME adaptor \in Pbs, NEW u \in Thread, call'[u] # Idle, call'[u].pc = "update"
      PROVE  call'[u].state # "New" /\ Tells(jobs', call'[u].state, call'[u].id)
  <2>1. CASE u = t
    BY <1>1, <1>5, <2>1 DEF KeepsFate
  <2>2. CASE u # t
    <3>1. /\ call'[u] = call[u] /\ call[u].id \in JobId /\ call[u].state # "New"
          /\ Tells(jobs, call[u].state, call[u].id)
      BY <1>1, <1>5, <2>2, InsideValues DEF FateInv, AnswersTell
    <3> QED
      BY <3>1, TellsPersist
  <2> QED
    BY <2>1, <2>2
<1>6. AnswersTell'
  BY <1>5 DEF AnswersTell
<1>7. ASSUME adaptor \in Pbs, NEW p \in Object, object'[p] # Absent
      PROVE  Told(jobs', object'[p])
  <2>1. CASE p = o
    BY <1>1, <1>7, <2>1 DEF KeepsFate
  <2>2. CASE p # o
    <3>1. object'[p] = object[p] /\ Told(jobs, object[p]) /\ object[p].stood \in SUBSET JobId
      BY <1>1, <1>7, <2>2 DEF FateInv, ObjectsTell, BatchTypes, ServiceTypes, ObjectNow
    <3> QED
      BY <3>1, ToldPersist
  <2> QED
    BY <2>1, <2>2
<1>8. ObjectsTell'
  BY <1>7 DEF ObjectsTell
<1> QED
  BY <1>2, <1>4, <1>6, <1>8 DEF FateInv

LEMMA OrderKept ==
  ASSUME BatchTypes, BatchTypes', DiagramInv,
         NEW t \in Thread, NEW o \in Object, NEW k, NEW x,
         Step(t, o, k, x), UNCHANGED adaptor,
         \/ UNCHANGED lock
         \/ Release(t)
         \/ \E m \in Mutex : Acquire(m, t),
         KeepsUse(t, o, k, x), KeepsOrder(t, o, k, x)
  PROVE  DiagramInv'
<1>1. /\ call'[t] = k /\ \A u \in Thread \ {t} : call'[u] = call[u]
      /\ object'[o] = x /\ \A p \in Object \ {o} : object'[p] = object[p]
  BY StepValues DEF BatchTypes
<1>2. \A m \in Mutex : lock[m] \ {t} \subseteq lock'[m]
  BY LockTypes DEF BatchTypes, ServiceTypes
<1>3. ASSUME NEW u \in Thread \ {t}, call'[u] # Idle
      PROVE  /\ call'[u] = call[u] /\ call[u] # Idle /\ call[u].obj \in Object
             /\ object[call[u].obj] # Absent /\ object'[call[u].obj] # Absent
             /\ object'[call[u].obj] # object[call[u].obj] =>
                  /\ call[u].obj = o /\ Public(o) /\ x # Absent /\ x.life = "public"
                  /\ adaptor \in Pbs => lock["adaptor_data"] \subseteq {t}
  <2>1. /\ call'[u] = call[u] /\ call[u] # Idle /\ call[u].obj \in Object
        /\ object[call[u].obj] # Absent /\ object'[call[u].obj] # Absent
    BY <1>1, <1>3 DEF BatchTypes, ServiceTypes, CallNow, ObjectsInUse
  <2>2. ASSUME object'[call[u].obj] # object[call[u].obj]
        PROVE  call[u].obj = o /\ Public(o) /\ x # Absent
    <3>1. call[u].obj = o /\ x # Absent
      BY <1>1, <2>1, <2>2
    <3>2. Public(o)
      BY <1>3, <2>1, <3>1 DEF BatchTypes, ObjectsInUse, KeepsUse
    <3> QED
      BY <3>1, <3>2
  <2> QED
    BY <1>1, <2>1, <2>2 DEF KeepsUse, KeepsOrder
<1>4. ObjectsMade'
  <2>1. ASSUME NEW u \in Thread, call'[u] # Idle
        PROVE  /\ call'[u].pc \in {"submit", "register", "find", "probe"} =>
                    object'[call'[u].obj].life # "public" /\ object'[call'[u].obj].id = 0
               /\ call'[u].pc \in {"run", "record", "running"} =>
                    object'[call'[u].obj].life = "public"
    <3>1. CASE u = t
      BY <1>1, <2>1, <3>1 DEF KeepsUse, KeepsOrder
    <3>2. CASE u # t /\ object'[call[u].obj] = object[call[u].obj]
      BY <1>3, <2>1, <3>2 DEF DiagramInv, ObjectsMade, Public
    <3>3. CASE u # t /\ object'[call[u].obj] # object[call[u].obj]
      <4>1. call'[u] = call[u] /\ Public(call[u].obj) /\ object'[call[u].obj].life = "public"
        BY <1>1, <1>3, <2>1, <3>3
      <4> QED
        BY <1>3, <2>1, <3>3, <4>1 DEF DiagramInv, ObjectsMade
    <3> QED
      BY <3>1, <3>2, <3>3
  <2>2. ASSUME NEW p \in Object, object'[p] # Absent, object'[p].life # "public"
        PROVE  object'[p].stood \subseteq {object'[p].id}
    BY <1>1, <2>2 DEF KeepsOrder, DiagramInv, ObjectsMade, Public
  <2> QED
    BY <2>1, <2>2 DEF ObjectsMade, Public
<1>5. LocksHeld'
  <2>1. ASSUME adaptor \in Pbs, NEW u \in Thread, call'[u] # Idle, call'[u].pc \in Holding
        PROVE  u \in lock'["adaptor_data"]
    <3>1. CASE u = t
      BY <1>1, <2>1, <3>1 DEF KeepsOrder
    <3>2. CASE u # t
      <4>1. u \in lock["adaptor_data"] /\ "adaptor_data" \in Mutex
        BY <1>3, <2>1, <3>2 DEF DiagramInv, LocksHeld, Mutex
      <4> QED
        BY <1>2, <3>2, <4>1
    <3> QED
      BY <3>1, <3>2
  <2> QED
    BY <2>1 DEF LocksHeld
<1>6. RunsOfNew'
  <2>1. ASSUME adaptor \in Pbs, NEW u \in Thread, call'[u] # Idle
        PROVE  InOrder(call'[u], object'[call'[u].obj])
    <3>1. CASE u = t
      BY <1>1, <2>1, <3>1 DEF KeepsOrder, KeepsUse
    <3>2. CASE u # t /\ object'[call[u].obj] = object[call[u].obj]
      BY <1>3, <2>1, <3>2 DEF DiagramInv, RunsOfNew
    <3>3. CASE u # t /\ object'[call[u].obj] # object[call[u].obj]
      <4>1. call[u].pc \notin Holding
        BY <1>3, <2>1, <3>3 DEF DiagramInv, LocksHeld
      <4> QED
        BY <1>3, <2>1, <3>3, <4>1 DEF Holding, InOrder
    <3> QED
      BY <3>1, <3>2, <3>3
  <2> QED
    BY <2>1 DEF RunsOfNew
<1> QED
  BY <1>4, <1>5, <1>6 DEF DiagramInv

LEMMA EffectKeeps ==
  ASSUME BatchInv, BatchTypes', UNCHANGED adaptor,
         NEW t \in Thread, NEW o \in Object, NEW k, NEW x, Effect(t, o, k, x)
  PROVE  BatchInv' /\ [Diagram!Next]_Remembered
<1>1. OwnJobsKnown'
  BY KnownKept DEF Effect, BatchInv
<1>2. FateInv'
  BY FateKept DEF Effect, BatchInv, FateInv
<1>3. DiagramInv'
  BY OrderKept DEF Effect, BatchInv
<1>4. [Diagram!Next]_Remembered
  BY DiagramOfOne DEF Effect, BatchInv, BatchTypes, KeepsDiagram
<1> QED
  BY <1>1, <1>2, <1>3, <1>4 DEF BatchInv

-----------------------------------------------------------------------------
LEMMA JobsSame ==
  ASSUME BatchTypes, UNCHANGED jobs
  PROVE  JobsPersist /\ (JobsEnd => JobsEnd') /\ Len(jobs') = Len(jobs)
BY DEF BatchTypes, ServiceTypes, JobsPersist, JobsEnd, JobId

LEMMA CallingParts ==
  ASSUME NEW pc, NEW o, NEW i, NEW state
  PROVE  LET k == Calling(pc, o, i, state)
         IN  k # Idle /\ k.pc = pc /\ k.obj = o /\ k.id = i /\ k.state = state
BY DEF Calling, Idle

(* An object that a step leaves alone. *)
LEMMA SameMemory ==
  ASSUME BatchInv, JobsPersist, NEW o \in Object, object[o] # Absent
  PROVE  /\ object[o] \in ObjectNow
         /\ object[o].id # 0 => object[o].id \in object[o].stood
         /\ object[o].id = 0 => object[o].stood = {} /\ object[o].state = "New"
         /\ object[o].stood \in SUBSET JobId
         /\ adaptor \in Pbs => Told(jobs, object[o]) /\ Told(jobs', object[o])
         /\ ~Public(o) => object[o].stood \subseteq {object[o].id}
<1>1. object[o] \in ObjectNow /\ object[o].stood \in SUBSET JobId
  BY DEF BatchInv, BatchTypes, ServiceTypes, ObjectNow
<1>2. adaptor \in Pbs => Told(jobs, object[o]) /\ Told(jobs', object[o])
  BY <1>1, ToldPersist DEF BatchInv, FateInv, ObjectsTell
<1> QED
  BY <1>1, <1>2 DEF BatchInv, FateInv, IdsStood, DiagramInv, ObjectsMade

LEMMA ThrowKeeps ==
  ASSUME BatchInv, UNCHANGED <<adaptor, jobs, known>>, NEW t \in Thread, call[t] # Idle,
         call[t].pc \notin {"record", "register"}, Throw(t)
  PROVE  Effect(t, call[t].obj, Idle,
                IF Public(call[t].obj) THEN object[call[t].obj] ELSE Absent)
<1> DEFINE o == call[t].obj
           x == IF Public(o) THEN object[o] ELSE Absent
<1>1. /\ o \in Object /\ object[o] # Absent /\ Release(t) /\ Step(t, o, Idle, x)
  BY InCall, InsideValues DEF BatchInv, BatchTypes
<1>2. JobsPersist /\ (JobsEnd => JobsEnd') /\ Len(jobs') = Len(jobs)
  BY JobsSame DEF BatchInv
<1>3. KeepsKnown(t, Idle)
  BY <1>2 DEF KeepsKnown
<1>4. KeepsUse(t, o, Idle, x)
  BY <1>1 DEF KeepsUse, Public
<1>5. KeepsFate(o, Idle, x)
  BY <1>1, <1>2, SameMemory DEF KeepsFate
<1>6. KeepsOrder(t, o, Idle, x)
  BY <1>1, <1>2, SameMemory DEF KeepsOrder, Public
<1>7. KeepsDiagram(o, x)
  BY DEF KeepsDiagram, InDiagram, Public, Absent
<1> QED
  BY <1>1, <1>2, <1>3, <1>4, <1>5, <1>6, <1>7 DEF Effect

-----------------------------------------------------------------------------
(***************************************************************************)
(* Each action has such an effect.                                         *)
(***************************************************************************)
Keeps(t) == BatchTypes' /\ \E o \in Object : \E k, x : Effect(t, o, k, x)

(* An object made New, by create_job or for a call of the job service. *)
LEMMA NewKeeps ==
  ASSUME BatchInv, UNCHANGED <<adaptor, jobs, known>>, NEW t \in Thread, call[t] = Idle,
         NEW o \in Object, object[o] = Absent, NEW life \in {"private", "public"}, NEW k,
         Step(t, o, k, Memory(life, "New", 0, {})),
         \/ k = Idle
         \/ /\ life = "private" /\ k # Idle /\ k.obj = o
            /\ k.pc = "submit" \/ (k.pc = "find" /\ Acquire("adaptor_data", t)),
         UNCHANGED lock \/ \E m \in Mutex : Acquire(m, t)
  PROVE  Effect(t, o, k, Memory(life, "New", 0, {}))
<1> DEFINE x == Memory(life, "New", 0, {})
<1>1. JobsPersist /\ (JobsEnd => JobsEnd') /\ Len(jobs') = Len(jobs)
  BY JobsSame DEF BatchInv
<1>2. x # Absent /\ x.life = life /\ x.state = "New" /\ x.id = 0 /\ x.stood = {}
  BY MemoryParts, MemoryNow DEF Memory, Absent
<1>3. KeepsKnown(t, k)
  BY <1>1 DEF KeepsKnown
<1>4. KeepsUse(t, o, k, x)
  BY <1>2 DEF KeepsUse, Public, Absent
<1>5. KeepsFate(o, k, x)
  BY <1>2 DEF KeepsFate, Told, Final
<1>6. KeepsOrder(t, o, k, x)
  <2>1. k.pc = "find" => t \in lock'["adaptor_data"]
    BY DEF Acquire, Mutex, Idle, BatchInv, BatchTypes, ServiceTypes
  <2> QED
    BY <1>2, <2>1 DEF KeepsOrder, Holding, InOrder
<1>7. KeepsDiagram(o, x)
  <2>1. Cardinality(x.stood) = 0
    BY <1>2, FS_EmptySet
  <2>2. InDiagram(object[o]) = "absent" /\ InDiagram(x) \in {"absent", "New"}
    BY <1>2, <2>1 DEF InDiagram, Absent
  <2>3. "New" \in Diagram!After("absent")
    BY DEF Diagram!After, Diagram!Started, Diagram!Final
  <2> QED
    BY <2>2, <2>3 DEF KeepsDiagram
<1> QED
  BY <1>1, <1>3, <1>4, <1>5, <1>6, <1>7 DEF Effect

(* A call that begins or goes on without a change of its object. *)
LEMMA SameKeeps ==
  ASSUME BatchInv, UNCHANGED adaptor, NEW t \in Thread,
         NEW o \in Object, object[o] # Absent, NEW k, k # Idle, k.obj = o,
         Step(t, o, k, object[o]),
         JobsPersist, JobsEnd => JobsEnd',
         UNCHANGED lock \/ \E m \in Mutex : Acquire(m, t),
         KeepsKnown(t, k),
         call[t] # Idle => call[t].obj = o, call[t] = Idle => Public(o),
         k.pc \notin {"submit", "find", "running"},
         k.pc \in {"register", "probe"} => ~Public(o) /\ object[o].id = 0,
         k.pc \in {"run", "record"} => Public(o),
         k.pc \in {"query", "trace", "update", "cancel"} => k.id \in object[o].stood,
         adaptor \in Pbs =>
           /\ k.pc = "update" =>
                /\ k.state # "New"
                /\ Tells(jobs', k.state, k.id)
                /\ k.state \notin Final => object[o].state \notin Final \/ Cardinality(object[o].stood) > 1
           /\ k.pc \in Holding => t \in lock'["adaptor_data"]
           /\ k.pc = "record" => k.id \notin object[o].stood
  PROVE  Effect(t, o, k, object[o])
<1> DEFINE x == object[o]
<1>1. KeepsUse(t, o, k, x)
  BY DEF KeepsUse, Public
<1>2. KeepsFate(o, k, x)
  BY SameMemory DEF KeepsFate
<1>3. InOrder(k, x) \/ adaptor \notin Pbs
  BY SameMemory DEF InOrder
<1>4. KeepsOrder(t, o, k, x)
  BY <1>3, SameMemory DEF KeepsOrder, Public
<1>5. KeepsDiagram(o, x)
  BY DEF KeepsDiagram
<1> QED
  BY <1>1, <1>2, <1>4, <1>5 DEF Effect

LEMMA BeginKeeps ==
  ASSUME BatchInv, UNCHANGED adaptor, NEW t \in Thread, NEW o \in Object, Begin(t, o)
  PROVE  Keeps(t)
<1>0. BatchTypes /\ Len(jobs) \in Nat
  BY DEF BatchInv, BatchTypes, ServiceTypes
<1>1. CASE CreateJob(t, o)
  BY <1>0, <1>1, CreateJobStep, NewKeeps DEF Keeps
<1>2. CASE RunJob(t, o)
  <2>1. \E m \in Mutex : Acquire(m, t)
    BY <1>0, <1>2, RunJobStep DEF Mutex
  <2> QED
    BY <1>0, <1>2, <2>1, RunJobStep, NewKeeps, CallingParts DEF Keeps
<1>3. ASSUME NEW i \in DOMAIN jobs, GetJob(t, o, i)
      PROVE  Keeps(t)
  <2>1. i \in JobId
    BY <1>3 DEF JobId, BatchInv, BatchTypes, ServiceTypes
  <2>2. \E m \in Mutex : Acquire(m, t)
    BY <1>0, <1>3, <2>1, GetJobStep DEF Mutex
  <2> QED
    BY <1>0, <1>3, <2>1, <2>2, GetJobStep, NewKeeps, CallingParts DEF Keeps
<1>4. CASE Run(t, o)
  <2> DEFINE k == Calling("run", o, 0, "New")
  <2>1. /\ BatchTypes' /\ call[t] = Idle /\ Public(o) /\ object[o] # Absent
        /\ Step(t, o, k, object[o]) /\ UNCHANGED <<jobs, known, lock, last>>
    BY <1>0, <1>4, RunStep
  <2>2. JobsPersist /\ (JobsEnd => JobsEnd') /\ KeepsKnown(t, k)
    BY <1>0, <2>1, JobsSame DEF KeepsKnown
  <2>3. k # Idle /\ k.pc = "run" /\ k.obj = o
    BY CallingParts
  <2>4. Effect(t, o, k, object[o])
    BY <2>1, <2>2, <2>3, SameKeeps DEF Holding
  <2> QED
    BY <2>1, <2>4 DEF Keeps
<1>5. CASE GetState(t, o) \/ Cancel(t, o)
  <2>1. object[o] # Absent /\ Public(o) /\ object[o].id # 0 /\ object[o].id \in object[o].stood
    <3>1. object[o] # Absent /\ Public(o) /\ (object[o].id = 0 => object[o].state = "New")
      BY <1>5 DEF GetState, Cancel, Public, Absent, BatchInv, FateInv, IdsStood
    <3> QED
      BY <1>5, <3>1 DEF GetState, Cancel, BatchInv, FateInv, IdsStood
  <2>2. PICK pc \in {"query", "cancel"} :
          /\ BatchTypes' /\ call[t] = Idle
          /\ Step(t, o, Calling(pc, o, object[o].id, "New"), object[o])
          /\ UNCHANGED <<jobs, known, lock, last>>
    BY <1>0, <1>5, <2>1, GetStateStep, CancelStep
  <2> DEFINE k == Calling(pc, o, object[o].id, "New")
  <2>3. JobsPersist /\ (JobsEnd => JobsEnd') /\ KeepsKnown(t, k)
    BY <1>0, <2>2, JobsSame DEF KeepsKnown
  <2>4. k # Idle /\ k.pc = pc /\ k.obj = o /\ k.id = object[o].id
    BY CallingParts
  <2>5. Effect(t, o, k, object[o])
    BY <2>1, <2>2, <2>3, <2>4, SameKeeps DEF Holding
  <2> QED
    BY <2>2, <2>5 DEF Keeps
<1> QED
  BY <1>1, <1>2, <1>3, <1>4, <1>5 DEF Begin

LEMMA SubmitKeeps ==
  ASSUME BatchInv, UNCHANGED adaptor, NEW t \in Thread, Submit(t) \/ SubmitJob(t)
  PROVE  Keeps(t)
<1> DEFINE o == call[t].obj
<1>0. BatchTypes /\ Len(jobs) \in Nat
  BY DEF BatchInv, BatchTypes, ServiceTypes
<1>1. /\ BatchTypes' /\ UNCHANGED <<known, last>>
      /\ call[t] # Idle /\ call[t].pc \in {"run", "submit"}
  BY <1>0, SubmitStep, SubmitJobStep
<1>2. o \in Object /\ object[o] # Absent /\ object[o].stood \in SUBSET JobId
  BY <1>0, <1>1, InsideValues
<1>3. ASSUME NEW pc \in {"record", "register"}, pc = "record" <=> call[t].pc = "run",
             Submitted("active"),
             Step(t, o, Calling(pc, o, NextId, call[t].state), object[o]),
             \/ Acquire("adaptor_data", t)
             \/ pc = "register" /\ UNCHANGED lock
      PROVE  Effect(t, o, Calling(pc, o, NextId, call[t].state), object[o])
  <2> DEFINE k == Calling(pc, o, NextId, call[t].state)
  <2>1. /\ Len(jobs') = Len(jobs) + 1 /\ NextId = Len(jobs) + 1
        /\ \A i \in JobId : jobs'[i] = jobs[i]
        /\ jobs'[NextId] = [own |-> TRUE, phase |-> "active", exit |-> "none"]
        /\ JobsPersist
    BY <1>0, <1>3, SubmittedJob DEF BatchTypes, ServiceTypes, Live
  <2>2. JobsEnd => JobsEnd'
    BY <1>0, <2>1 DEF JobsEnd, JobId
  <2>3. k # Idle /\ k.pc = pc /\ k.obj = o /\ k.id = NextId
    BY CallingParts
  <2>4. KeepsKnown(t, k)
    BY <1>1, <2>1, <2>3 DEF KeepsKnown
  <2>5. UNCHANGED lock \/ \E m \in Mutex : Acquire(m, t)
    BY <1>3 DEF Mutex
  <2>6. pc = "record" => t \in lock'["adaptor_data"]
    BY <1>0, <1>3 DEF Acquire, Mutex, BatchTypes, ServiceTypes
  <2>7. /\ pc = "record" => Public(o)
        /\ pc = "register" => ~Public(o) /\ object[o].id = 0
    BY <1>1, <1>3 DEF BatchInv, DiagramInv, ObjectsMade
  <2>8. NextId \notin object[o].stood
    BY <1>0, <1>2, <2>1 DEF JobId
  <2> QED
    BY <1>1, <1>2, <1>3, <2>1, <2>2, <2>3, <2>4, <2>5, <2>6, <2>7, <2>8, SameKeeps DEF Holding
<1>4. CASE Throw(t) /\ UNCHANGED jobs
  BY <1>1, <1>2, <1>4, ThrowKeeps DEF Keeps
<1>5. CASE Submit(t)
  <2>1. call[t].pc = "run"
    BY <1>0, <1>5, SubmitStep
  <2> QED
    BY <1>0, <1>1, <1>2, <1>3, <1>4, <1>5, <2>1, SubmitStep DEF Keeps
<1>6. CASE SubmitJob(t)
  <2>1. call[t].pc = "submit"
    BY <1>0, <1>6, SubmitJobStep
  <2> QED
    BY <1>0, <1>1, <1>2, <1>3, <1>4, <1>6, <2>1, SubmitJobStep DEF Keeps
<1> QED
  BY <1>5, <1>6

(* What an object remembers when it comes to stand for a further job. *)
LEMMA ToldMore ==
  ASSUME NEW js, NEW r, NEW x, Told(js, r), r.stood \subseteq x.stood,
         x.state = r.state \/ x.state = "Unknown"
  PROVE  Told(js, x)
BY DEF Told, Final

LEMMA RecordKeeps ==
  ASSUME BatchInv, UNCHANGED adaptor, NEW t \in Thread, Record(t)
  PROVE  Keeps(t)
<1> DEFINE o == call[t].obj
           i == call[t].id
           k == Calling("running", o, i, call[t].state)
           x == Memory(object[o].life, object[o].state, i, object[o].stood \cup {i})
<1>0. BatchTypes /\ Len(jobs) \in Nat /\ Len(jobs) <= MaxJob
  BY DEF BatchInv, BatchTypes, ServiceTypes
<1>1. /\ BatchTypes' /\ call[t] # Idle /\ call[t].pc = "record"
      /\ Step(t, o, k, x) /\ known' = known \cup {i} /\ UNCHANGED <<jobs, lock, last>>
  BY <1>0, RecordStep
<1>2. /\ o \in Object /\ object[o] # Absent /\ i \in JobId
      /\ object[o].stood \in SUBSET JobId /\ object[o].state \in State
  BY <1>0, <1>1, InsideValues
<1>3. JobsPersist /\ (JobsEnd => JobsEnd') /\ Len(jobs') = Len(jobs)
  BY <1>0, <1>1, JobsSame
<1>4. k # Idle /\ k.pc = "running" /\ k.obj = o /\ k.id = i
  BY CallingParts
<1>5. /\ x # Absent /\ x.life = object[o].life /\ x.state = object[o].state /\ x.id = i
      /\ x.stood = object[o].stood \cup {i} /\ x.id \in x.stood /\ x.id # 0
      /\ object[o].stood \subseteq x.stood
      /\ adaptor \in Pbs => Told(jobs', x)
  <2>1. /\ x.life = object[o].life /\ x.state = object[o].state /\ x.id = i
        /\ x.stood = object[o].stood \cup {i}
    BY MemoryParts
  <2>2. x # Absent
    BY DEF Memory, Absent
  <2>3. object[o].stood \subseteq x.stood /\ i \in x.stood
    BY <2>1
  <2>4. adaptor \in Pbs => Told(jobs', object[o])
    BY <1>2, <1>3, SameMemory
  <2>5. adaptor \in Pbs => Told(jobs', x)
    BY <2>1, <2>3, <2>4, ToldMore
  <2>6. x.id \in x.stood /\ x.id # 0
    <3>1. i # 0
      BY <1>0, <1>2 DEF JobId
    <3> QED
      BY <2>1, <2>3, <3>1
  <2> QED
    BY <2>1, <2>2, <2>3, <2>5, <2>6
<1>6. Public(o)
  BY <1>1 DEF BatchInv, DiagramInv, ObjectsMade
<1>7. adaptor \in Pbs =>
        /\ t \in lock["adaptor_data"] /\ lock["adaptor_data"] \subseteq {t}
        /\ i \notin object[o].stood /\ (object[o].state = "New" \/ object[o].stood # {})
  <2>1. adaptor \in Pbs => t \in lock["adaptor_data"]
    BY <1>1 DEF BatchInv, DiagramInv, LocksHeld, Holding
  <2>2. adaptor \in Pbs => InOrder(call[t], object[o])
    BY <1>1 DEF BatchInv, DiagramInv, RunsOfNew
  <2> QED
    BY <1>0, <1>1, <2>1, <2>2 DEF InOrder, BatchTypes, ServiceTypes, Exclusive, Mutex
<1>8. /\ Cardinality(object[o].stood) > 1 => Cardinality(x.stood) > 1
      /\ adaptor \in Pbs /\ object[o].stood # {} => Cardinality(x.stood) > 1
  <2>1. /\ Cardinality(object[o].stood) > 1 => Cardinality(x.stood) > 1
        /\ Cardinality(x.stood) > 1 <=> \E y, z \in x.stood : y # z
    <3>1. x.stood = object[o].stood \cup {i}
      BY <1>5
    <3> QED
      BY <1>0, <1>2, <3>1, StandMore
  <2>2. adaptor \in Pbs /\ object[o].stood # {} => \E y, z \in x.stood : y # z
    BY <1>5, <1>7
  <2> QED
    BY <2>1, <2>2
<1>9. KeepsKnown(t, k) /\ KeepsUse(t, o, k, x)
  BY <1>1, <1>2, <1>3, <1>4, <1>5, <1>6 DEF KeepsKnown, KeepsUse, Public
<1>10. KeepsFate(o, k, x)
  BY <1>4, <1>5 DEF KeepsFate
<1>11. KeepsOrder(t, o, k, x)
  BY <1>1, <1>4, <1>5, <1>6, <1>7, <1>8 DEF KeepsOrder, Public, InOrder
<1>12. KeepsDiagram(o, x)
  <2>1. CASE Cardinality(object[o].stood) > 1
    BY <1>5, <1>6, <1>8, <2>1 DEF KeepsDiagram, InDiagram, Public
  <2>2. CASE ~(Cardinality(object[o].stood) > 1) /\ ~(Cardinality(x.stood) > 1)
    BY <1>5, <1>6, <2>2 DEF KeepsDiagram, InDiagram, Public
  <2>3. CASE ~(Cardinality(object[o].stood) > 1) /\ Cardinality(x.stood) > 1
    <3>1. InDiagram(object[o]) = object[o].state /\ InDiagram(x) = "disputed"
      BY <1>5, <1>6, <2>3 DEF InDiagram, Public
    <3>2. "disputed" \in Diagram!After(object[o].state)
      BY <1>2 DEF Diagram!After, State, Final, Diagram!Final, Diagram!Started
    <3> QED
      BY <3>1, <3>2 DEF KeepsDiagram
  <2> QED
    BY <2>1, <2>2, <2>3
<1>13. Effect(t, o, k, x)
  BY <1>1, <1>3, <1>9, <1>10, <1>11, <1>12 DEF Effect
<1> QED
  BY <1>1, <1>2, <1>13 DEF Keeps

LEMMA SetRunningKeeps ==
  ASSUME BatchInv, UNCHANGED adaptor, NEW t \in Thread, SetRunning(t)
  PROVE  Keeps(t)
<1> DEFINE o == call[t].obj
           x == Memory(object[o].life, "Running", object[o].id, object[o].stood)
<1>0. BatchTypes /\ Len(jobs) \in Nat
  BY DEF BatchInv, BatchTypes, ServiceTypes
<1>1. /\ BatchTypes' /\ call[t] # Idle /\ call[t].pc = "running"
      /\ Step(t, o, Idle, x) /\ Release(t) /\ UNCHANGED <<jobs, known, last>>
  BY <1>0, SetRunningStep
<1>2. o \in Object /\ object[o] # Absent
  BY <1>0, <1>1, InsideValues
<1>3. JobsPersist /\ (JobsEnd => JobsEnd') /\ Len(jobs') = Len(jobs)
  BY <1>0, <1>1, JobsSame
<1>4. /\ x.life = object[o].life /\ x.state = "Running" /\ x.id = object[o].id
      /\ x.stood = object[o].stood
  BY MemoryParts
<1>5. x # Absent
  BY DEF Memory, Absent
<1>6. /\ x.id # 0 /\ x.id \in x.stood
      /\ ~Public(o) => x.stood \subseteq {x.id}
  <2>1. call[t].id \in object[o].stood
    BY <1>1 DEF BatchInv, FateInv, AskedStood
  <2> QED
    BY <1>2, <1>3, <1>4, <2>1, SameMemory
<1>7. adaptor \in Pbs =>
        /\ lock["adaptor_data"] \subseteq {t}
        /\ object[o].state = "New" \/ Cardinality(object[o].stood) > 1
  <2>1. adaptor \in Pbs => t \in lock["adaptor_data"]
    BY <1>1 DEF BatchInv, DiagramInv, LocksHeld, Holding
  <2>2. adaptor \in Pbs => InOrder(call[t], object[o])
    BY <1>1 DEF BatchInv, DiagramInv, RunsOfNew
  <2> QED
    BY <1>0, <1>1, <2>1, <2>2 DEF InOrder, BatchTypes, ServiceTypes, Exclusive, Mutex
<1>8. KeepsKnown(t, Idle) /\ KeepsUse(t, o, Idle, x)
  BY <1>1, <1>3, <1>4, <1>5 DEF KeepsKnown, KeepsUse, Public
<1>9. KeepsFate(o, Idle, x)
  BY <1>4, <1>6 DEF KeepsFate, Told, Final
<1>10. KeepsOrder(t, o, Idle, x)
  BY <1>4, <1>6, <1>7 DEF KeepsOrder, Public
<1>11. KeepsDiagram(o, x)
  <2>1. CASE adaptor \in Pbs /\ Public(o) /\ ~(Cardinality(object[o].stood) > 1)
    <3>1. InDiagram(object[o]) = "New" /\ InDiagram(x) = "Running"
      BY <1>4, <1>7, <2>1 DEF InDiagram, Public
    <3>2. "Running" \in Diagram!After("New")
      BY DEF Diagram!After, Diagram!Started, Diagram!Final
    <3> QED
      BY <3>1, <3>2 DEF KeepsDiagram
  <2>2. CASE ~(adaptor \in Pbs /\ Public(o) /\ ~(Cardinality(object[o].stood) > 1))
    BY <1>0, <1>4, <2>2 DEF KeepsDiagram, InDiagram, Public, BatchTypes, BatchAdaptor, Pbs
  <2> QED
    BY <2>1, <2>2
<1>12. Effect(t, o, Idle, x)
  BY <1>1, <1>3, <1>8, <1>9, <1>10, <1>11 DEF Effect
<1> QED
  BY <1>1, <1>2, <1>12 DEF Keeps

(* A call of the job service makes its private object stand for the job. *)
LEMMA MadeKeeps ==
  ASSUME BatchInv, UNCHANGED <<adaptor, jobs>>, NEW t \in Thread, call[t] # Idle,
         call[t].pc \in {"register", "find", "probe"},
         known' = known \cup {call[t].id} \/ (known' = known /\ call[t].pc # "register"),
         NEW life, life = object[call[t].obj].life \/ life = "public",
         NEW state, state = object[call[t].obj].state \/ state = "Unknown",
         NEW k, k = Idle \/ (k # Idle /\ k.obj = call[t].obj /\ k.id = call[t].id /\ k.pc = "query"),
         Step(t, call[t].obj, k,
              Memory(life, state, call[t].id, object[call[t].obj].stood \cup {call[t].id})),
         \/ Acquire("adaptor_data", t)
         \/ call[t].pc # "register" /\ (UNCHANGED lock \/ Release(t))
  PROVE  Effect(t, call[t].obj, k,
                Memory(life, state, call[t].id, object[call[t].obj].stood \cup {call[t].id}))
<1> DEFINE o == call[t].obj
           i == call[t].id
           x == Memory(life, state, i, object[o].stood \cup {i})
<1>0. BatchTypes /\ Len(jobs) \in Nat
  BY DEF BatchInv, BatchTypes, ServiceTypes
<1>1. o \in Object /\ object[o] # Absent /\ i \in JobId
  BY <1>0, InsideValues
<1>2. JobsPersist /\ (JobsEnd => JobsEnd') /\ Len(jobs') = Len(jobs)
  BY <1>0, JobsSame
<1>3. /\ x.life = life /\ x.state = state /\ x.id = i
      /\ x.stood = object[o].stood \cup {i}
  BY MemoryParts
<1>4. x # Absent
  BY DEF Memory, Absent
<1>5. ~Public(o) /\ object[o].id = 0
  BY DEF BatchInv, DiagramInv, ObjectsMade
<1>6. /\ x.id \in x.stood /\ x.id # 0 /\ object[o].stood \subseteq x.stood
      /\ adaptor \in Pbs => Told(jobs', x)
      /\ x.stood = {i} /\ object[o].state = "New"
  <2>1. object[o].stood \subseteq x.stood /\ i \in x.stood
    BY <1>3
  <2>2. /\ object[o].stood = {} /\ object[o].state = "New"
        /\ adaptor \in Pbs => Told(jobs', object[o])
    BY <1>1, <1>2, <1>5, SameMemory
  <2>3. adaptor \in Pbs => Told(jobs', x)
    BY <1>3, <2>1, <2>2, ToldMore
  <2>4. x.id \in x.stood /\ x.id # 0
    BY <1>1, <1>3, <2>1 DEF JobId
  <2> QED
    BY <1>3, <2>1, <2>2, <2>3, <2>4
<1>7. adaptor \in Pbs => lock["adaptor_data"] \subseteq {t}
  <2>1. CASE call[t].pc \in {"find", "probe"}
    BY <1>0, <2>1 DEF BatchInv, DiagramInv, LocksHeld, Holding, BatchTypes, ServiceTypes, Exclusive, Mutex
  <2>2. CASE call[t].pc = "register" /\ Acquire("adaptor_data", t)
    BY <2>2 DEF Acquire, Available
  <2> QED
    BY <2>1, <2>2
<1>8. KeepsKnown(t, k) /\ KeepsUse(t, o, k, x)
  BY <1>2, <1>3, <1>4, <1>5 DEF KeepsKnown, KeepsUse, Public
<1>9. KeepsFate(o, k, x)
  BY <1>3, <1>6 DEF KeepsFate
<1>10. KeepsOrder(t, o, k, x)
  BY <1>3, <1>6, <1>7 DEF KeepsOrder, Public, Holding, InOrder
<1>11. KeepsDiagram(o, x)
  <2>1. Cardinality(x.stood) = 1
    <3>1. Cardinality({i}) = 1
      BY FS_Singleton
    <3> QED
      BY <1>6, <3>1
  <2>2. InDiagram(object[o]) = "absent"
    BY <1>5 DEF InDiagram, Public
  <2>3. InDiagram(x) \in {"absent", "New", "Unknown"}
    BY <1>3, <1>6, <2>1 DEF InDiagram
  <2>4. {"New", "Unknown"} \subseteq Diagram!After("absent")
    BY DEF Diagram!After, Diagram!Started, Diagram!Final
  <2> QED
    BY <2>2, <2>3, <2>4 DEF KeepsDiagram
<1> QED
  BY <1>2, <1>8, <1>9, <1>10, <1>11 DEF Effect, Mutex

LEMMA RegisterJobKeeps ==
  ASSUME BatchInv, UNCHANGED adaptor, NEW t \in Thread, RegisterJob(t)
  PROVE  Keeps(t)
<1>0. BatchTypes
  BY DEF BatchInv
<1>1. LET o == call[t].obj
          i == call[t].id
      IN  /\ BatchTypes' /\ call[t] # Idle /\ call[t].pc = "register" /\ o \in Object
          /\ Step(t, o, Calling("query", o, i, call[t].state),
                  Memory(object[o].life, object[o].state, i, object[o].stood \cup {i}))
          /\ Acquire("adaptor_data", t) /\ known' = known \cup {i} /\ UNCHANGED <<jobs, last>>
  BY <1>0, RegisterJobStep, InsideValues
<1> DEFINE k == Calling("query", call[t].obj, call[t].id, call[t].state)
<1>2. k # Idle /\ k.pc = "query" /\ k.obj = call[t].obj /\ k.id = call[t].id
  BY CallingParts
<1> QED
  BY <1>1, <1>2, MadeKeeps DEF Keeps

LEMMA FindKeeps ==
  ASSUME BatchInv, UNCHANGED adaptor, NEW t \in Thread, Find(t)
  PROVE  Keeps(t)
<1> DEFINE o == call[t].obj
           i == call[t].id
           k == Calling("probe", o, i, call[t].state)
<1>0. BatchTypes
  BY DEF BatchInv
<1>1. /\ BatchTypes' /\ call[t] # Idle /\ call[t].pc = "find"
      /\ UNCHANGED <<jobs, known, last>>
  BY <1>0, FindStep
<1>2. o \in Object /\ object[o] # Absent
  BY <1>0, <1>1, InsideValues
<1>3. JobsPersist /\ (JobsEnd => JobsEnd') /\ Len(jobs') = Len(jobs)
  BY <1>0, <1>1, JobsSame
<1>4. CASE /\ Step(t, o, Idle, Memory("public", object[o].state, i, object[o].stood \cup {i}))
           /\ Release(t)
  BY <1>1, <1>2, <1>4, MadeKeeps DEF Keeps
<1>5. CASE Step(t, o, k, object[o]) /\ Acquire("job_service", t)
  <2>1. k # Idle /\ k.pc = "probe" /\ k.obj = o /\ k.id = i
    BY CallingParts
  <2>2. adaptor \in Pbs => t \in lock'["adaptor_data"]
    <3>1. adaptor \in Pbs => t \in lock["adaptor_data"]
      BY <1>1 DEF BatchInv, DiagramInv, LocksHeld, Holding
    <3> QED
      BY <1>0, <1>5, <3>1 DEF Acquire, Mutex, BatchTypes, ServiceTypes
  <2>3. ~Public(o) /\ object[o].id = 0
    BY <1>1 DEF BatchInv, DiagramInv, ObjectsMade
  <2>4. KeepsKnown(t, k) /\ \E m \in Mutex : Acquire(m, t)
    BY <1>1, <1>3, <1>5 DEF KeepsKnown, Mutex
  <2>5. Effect(t, o, k, object[o])
    BY <1>1, <1>2, <1>3, <1>5, <2>1, <2>2, <2>3, <2>4, SameKeeps
  <2> QED
    BY <1>1, <1>2, <2>5 DEF Keeps
<1> QED
  BY <1>0, <1>4, <1>5, FindStep

LEMMA ProbeKeeps ==
  ASSUME BatchInv, UNCHANGED adaptor, NEW t \in Thread, Probe(t)
  PROVE  Keeps(t)
<1> DEFINE o == call[t].obj
           i == call[t].id
           k == Calling("query", o, i, call[t].state)
<1>0. BatchTypes
  BY DEF BatchInv
<1>1. /\ BatchTypes' /\ call[t] # Idle /\ call[t].pc = "probe"
      /\ UNCHANGED <<jobs, known, last>>
  BY <1>0, ProbeStep
<1>2. o \in Object
  BY <1>0, <1>1, InsideValues
<1>3. CASE /\ Step(t, o, k, Memory(object[o].life, "Unknown", i, object[o].stood \cup {i}))
           /\ UNCHANGED lock
  <2>1. k # Idle /\ k.pc = "query" /\ k.obj = o /\ k.id = i
    BY CallingParts
  <2> QED
    BY <1>1, <1>2, <1>3, <2>1, MadeKeeps DEF Keeps
<1>4. CASE Throw(t)
  BY <1>1, <1>2, <1>4, ThrowKeeps DEF Keeps
<1> QED
  BY <1>0, <1>3, <1>4, ProbeStep

(* A query of the system: what it answers of a job that it shows. *)
LEMMA AnswerKeeps ==
  ASSUME BatchInv, UNCHANGED <<adaptor, jobs, known>>, NEW t \in Thread, call[t] # Idle,
         call[t].pc \in {"query", "trace"}, NEW state,
         Step(t, call[t].obj, Calling("update", call[t].obj, call[t].id, state), object[call[t].obj]),
         UNCHANGED lock \/ Acquire("adaptor_data", t),
         adaptor \in Pbs =>
           /\ state # "New" /\ Tells(jobs, state, call[t].id)
           /\ jobs[call[t].id].exit # "none" => state \in Final
           /\ t \in lock'["adaptor_data"]
  PROVE  Effect(t, call[t].obj, Calling("update", call[t].obj, call[t].id, state),
                object[call[t].obj])
<1> DEFINE o == call[t].obj
           i == call[t].id
           k == Calling("update", o, i, state)
           x == object[o]
<1>0. BatchTypes /\ Len(jobs) \in Nat /\ Len(jobs) <= MaxJob
  BY DEF BatchInv, BatchTypes, ServiceTypes
<1>1. o \in Object /\ x # Absent /\ i \in JobId /\ x.stood \in SUBSET JobId
  BY <1>0, InsideValues
<1>2. JobsPersist /\ (JobsEnd => JobsEnd') /\ Len(jobs') = Len(jobs)
  BY <1>0, JobsSame
<1>3. k # Idle /\ k.pc = "update" /\ k.obj = o /\ k.id = i /\ k.state = state
  BY CallingParts
<1>4. i \in x.stood
  BY <1>0 DEF BatchInv, FateInv, AskedStood
<1>5. KeepsUse(t, o, k, x)
  BY <1>1, <1>3 DEF KeepsUse, Public
<1>6. KeepsKnown(t, k)
  BY <1>2 DEF KeepsKnown
<1>7. KeepsFate(o, k, x)
  BY <1>1, <1>2, <1>3, <1>4, SameMemory DEF KeepsFate
<1>8. adaptor \in Pbs /\ state \notin Final => x.state \notin Final \/ Cardinality(x.stood) > 1
  <2>1. ASSUME adaptor \in Pbs, state \notin Final, x.state \in Final, \A j \in x.stood : j = i
        PROVE  FALSE
    <3>1. Told(jobs, x)
      BY <1>1, <1>2, <2>1, SameMemory
    <3>2. Tells(jobs, x.state, i)
      BY <2>1, <3>1 DEF Told
    <3>3. jobs[i].exit # "none"
      BY <2>1, <3>2 DEF Tells, Final
    <3> QED
      BY <2>1, <3>3
  <2>2. Cardinality(x.stood) > 1 <=> \E y, z \in x.stood : y # z
    BY <1>0, <1>1, StandMore
  <2> QED
    BY <1>4, <2>1, <2>2
<1>9. KeepsOrder(t, o, k, x)
  BY <1>1, <1>2, <1>3, <1>8, SameMemory DEF KeepsOrder, InOrder, Public
<1>10. KeepsDiagram(o, x)
  BY DEF KeepsDiagram
<1> QED
  BY <1>2, <1>5, <1>6, <1>7, <1>9, <1>10 DEF Effect, Mutex

LEMMA QueryKeeps ==
  ASSUME BatchInv, UNCHANGED adaptor, NEW t \in Thread, Query(t) \/ Trace(t)
  PROVE  Keeps(t)
<1> DEFINE o == call[t].obj
           i == call[t].id
<1>0. BatchTypes
  BY DEF BatchInv
<1>1. /\ BatchTypes' /\ call[t] # Idle /\ call[t].pc \in {"query", "trace"}
      /\ UNCHANGED <<jobs, known, last>>
  BY <1>0, QueryStep, TraceStep
<1>2. o \in Object /\ object[o] # Absent /\ i \in JobId
  BY <1>0, <1>1, InsideValues
<1>3. CASE Throw(t)
  BY <1>1, <1>2, <1>3, ThrowKeeps DEF Keeps
<1>4. CASE Query(t) /\ ~Throw(t)
  <2>1. /\ IF adaptor \in Pbs THEN Acquire("adaptor_data", t) ELSE UNCHANGED lock
        /\ \/ /\ jobs[i].phase # "gone"
              /\ Step(t, o, Calling("update", o, i, StateOf(i)), object[o])
           \/ /\ adaptor = "pbspro"
              /\ Step(t, o, Calling("trace", o, i, call[t].state), object[o])
           \/ /\ adaptor = "naregi"
              /\ Step(t, o, Calling("update", o, i, "Canceled"), object[o])
    BY <1>0, <1>4, QueryStep
  <2>2. adaptor \in Pbs => t \in lock'["adaptor_data"]
    BY <1>0, <2>1 DEF Acquire, Mutex, BatchTypes, ServiceTypes
  <2>3. CASE /\ jobs[i].phase # "gone"
             /\ Step(t, o, Calling("update", o, i, StateOf(i)), object[o])
    <3>1. StateOf(i) # "New" /\ (adaptor \in Pbs => Tells(jobs, StateOf(i), i))
      <4>1. /\ StateOf(i) \in State \ {"New", "Canceled"}
            /\ jobs[i].phase = "complete" => StateOf(i) = IF jobs[i].exit = "zero" THEN "Done" ELSE "Failed"
            /\ jobs[i].phase # "complete" /\ adaptor \in Pbs => StateOf(i) \notin Final
        BY <1>0, <1>2, <2>3, StateOfTypes
      <4>2. jobs[i].phase = "complete" => jobs[i].exit \in {"zero", "positive", "negative"}
        BY <1>2 DEF BatchInv, FateInv, JobsEnd
      <4> QED
        BY <4>1, <4>2 DEF Tells, Final
    <3>2. adaptor \in Pbs /\ jobs[i].exit # "none" => StateOf(i) \in Final
      <4>1. jobs[i] \in Job
        BY <1>0, <1>2 DEF BatchTypes, ServiceTypes, JobId
      <4>2. jobs[i].exit # "none" => jobs[i].phase = "complete"
        BY <1>0, <1>2, <2>3, <4>1 DEF BatchTypes, ExitAtEnd, Job, Phase
      <4> QED
        BY <1>0, <1>2, <2>3, <4>2, StateOfTypes DEF Final
    <3> QED
      BY <1>1, <1>2, <2>1, <2>2, <2>3, <3>1, <3>2, AnswerKeeps DEF Keeps
  <2>4. CASE /\ adaptor = "naregi"
             /\ Step(t, o, Calling("update", o, i, "Canceled"), object[o])
    BY <1>1, <1>2, <2>1, <2>4, AnswerKeeps DEF Keeps, Pbs
  <2>5. CASE /\ adaptor = "pbspro"
             /\ Step(t, o, Calling("trace", o, i, call[t].state), object[o])
    <3> DEFINE k == Calling("trace", o, i, call[t].state)
    <3>1. k # Idle /\ k.pc = "trace" /\ k.obj = o /\ k.id = i
      BY CallingParts
    <3>2. JobsPersist /\ (JobsEnd => JobsEnd') /\ KeepsKnown(t, k)
      BY <1>0, <1>1, JobsSame DEF KeepsKnown
    <3>3. UNCHANGED lock \/ \E m \in Mutex : Acquire(m, t)
      BY <2>1 DEF Mutex
    <3>4. i \in object[o].stood
      BY <1>1 DEF BatchInv, FateInv, AskedStood
    <3>5. Effect(t, o, k, object[o])
      BY <1>1, <1>2, <2>2, <2>5, <3>1, <3>2, <3>3, <3>4, SameKeeps
    <3> QED
      BY <1>1, <1>2, <3>5 DEF Keeps
  <2> QED
    BY <2>1, <2>3, <2>4, <2>5
<1>5. CASE Trace(t) /\ ~Throw(t)
  <2> DEFINE s == IF jobs[i].exit = "zero" THEN "Done" ELSE "Failed"
  <2>1. /\ jobs[i].exit \in {"zero", "positive"} /\ UNCHANGED lock
        /\ Step(t, o, Calling("update", o, i, s), object[o])
        /\ call[t].pc = "trace"
    BY <1>0, <1>5, TraceStep
  <2>2. s # "New" /\ Tells(jobs, s, i) /\ s \in Final
    BY <2>1 DEF Tells, Final
  <2>3. adaptor \in Pbs => t \in lock'["adaptor_data"]
    BY <1>1, <2>1 DEF BatchInv, DiagramInv, LocksHeld, Holding
  <2> QED
    BY <1>1, <1>2, <2>1, <2>2, <2>3, AnswerKeeps DEF Keeps
<1> QED
  BY <1>3, <1>4, <1>5

LEMMA UpdateKeeps ==
  ASSUME BatchInv, UNCHANGED adaptor, NEW t \in Thread, Update(t)
  PROVE  Keeps(t)
<1> DEFINE o == call[t].obj
           i == call[t].id
           r == object[o]
           x == Memory("public", call[t].state, r.id, r.stood)
<1>0. BatchTypes /\ Len(jobs) \in Nat /\ Len(jobs) <= MaxJob
  BY DEF BatchInv, BatchTypes, ServiceTypes
<1>1. /\ BatchTypes' /\ call[t] # Idle /\ call[t].pc = "update"
      /\ Step(t, o, Idle, x) /\ Release(t) /\ UNCHANGED <<jobs, known, last>>
  BY <1>0, UpdateStep
<1>2. /\ o \in Object /\ r # Absent /\ i \in JobId /\ r.stood \in SUBSET JobId
      /\ r.state \in State /\ call[t].state \in State
  BY <1>0, <1>1, InsideValues
<1>3. JobsPersist /\ (JobsEnd => JobsEnd') /\ Len(jobs') = Len(jobs)
  BY <1>0, <1>1, JobsSame
<1>4. x.life = "public" /\ x.state = call[t].state /\ x.id = r.id /\ x.stood = r.stood
  BY MemoryParts
<1>5. x # Absent
  BY DEF Memory, Absent
<1>6. i \in r.stood
  BY <1>1 DEF BatchInv, FateInv, AskedStood
<1>7. x.id # 0 /\ x.id \in x.stood /\ (~Public(o) => r.stood \subseteq {r.id})
  BY <1>2, <1>3, <1>4, <1>6, SameMemory
<1>8. adaptor \in Pbs =>
        /\ call[t].state # "New" /\ Tells(jobs, call[t].state, i)
        /\ Told(jobs, r)
        /\ call[t].state \notin Final => r.state \notin Final \/ Cardinality(r.stood) > 1
        /\ lock["adaptor_data"] \subseteq {t}
  <2>1. adaptor \in Pbs => t \in lock["adaptor_data"] /\ InOrder(call[t], r)
    BY <1>1 DEF BatchInv, DiagramInv, LocksHeld, RunsOfNew, Holding
  <2>2. adaptor \in Pbs => call[t].state # "New" /\ Tells(jobs, call[t].state, i)
    BY <1>1 DEF BatchInv, FateInv, AnswersTell
  <2>3. adaptor \in Pbs => Told(jobs, r)
    BY <1>2, <1>3, SameMemory
  <2>4. adaptor \in Pbs => lock["adaptor_data"] \subseteq {t}
    BY <1>0, <2>1 DEF BatchTypes, ServiceTypes, Exclusive, Mutex
  <2> QED
    BY <1>1, <2>1, <2>2, <2>3, <2>4 DEF InOrder
<1>9. KeepsKnown(t, Idle) /\ KeepsUse(t, o, Idle, x)
  BY <1>1, <1>3, <1>4, <1>5 DEF KeepsKnown, KeepsUse, Public
<1>10. KeepsFate(o, Idle, x)
  <2>1. adaptor \in Pbs => Told(jobs', x)
    BY <1>1, <1>4, <1>6, <1>8 DEF Told
  <2> QED
    BY <1>4, <1>7, <2>1 DEF KeepsFate
<1>11. KeepsOrder(t, o, Idle, x)
  BY <1>4, <1>8 DEF KeepsOrder
<1>12. KeepsDiagram(o, x)
  <2>1. adaptor \in Pbs \/ adaptor \notin {"pbspro", "torque", "lsf"}
    BY <1>0 DEF BatchTypes, BatchAdaptor, Pbs
  <2>2. CASE adaptor \in Pbs /\ ~Public(o)
    <3>1. ~(Cardinality(x.stood) > 1)
      <4>1. Cardinality(x.stood) > 1 <=> \E y, z \in x.stood : y # z
        BY <1>0, <1>2, <1>4, StandMore
      <4>2. x.stood \subseteq {r.id}
        BY <1>4, <1>7, <2>2
      <4> QED
        BY <4>1, <4>2
    <3>2. InDiagram(r) = "absent" /\ InDiagram(x) = call[t].state
      BY <1>4, <2>2, <3>1 DEF InDiagram, Public
    <3>3. call[t].state \in Diagram!After("absent")
      BY <1>2 DEF Diagram!After, Diagram!Started, Diagram!Final, State, Final
    <3> QED
      BY <3>2, <3>3 DEF KeepsDiagram
  <2>3. CASE adaptor \in Pbs /\ Public(o) /\ Cardinality(r.stood) > 1
    BY <1>4, <2>3 DEF KeepsDiagram, InDiagram, Public
  <2>4. CASE adaptor \in Pbs /\ Public(o) /\ ~(Cardinality(r.stood) > 1)
    <3>1. InDiagram(r) = r.state /\ InDiagram(x) = call[t].state
      BY <1>4, <2>4 DEF InDiagram, Public
    <3>2. CASE r.state \notin Final
      <4>1. call[t].state \in Diagram!After(r.state)
        BY <1>2, <1>8, <2>4, <3>2 DEF Diagram!After, Diagram!Started, Diagram!Final, State, Final
      <4> QED
        BY <3>1, <4>1 DEF KeepsDiagram
    <3>3. CASE r.state \in Final
      <4>1. call[t].state \in Final
        BY <1>8, <2>4, <3>3
      <4>2. Tells(jobs, r.state, i)
        <5>1. Cardinality(r.stood) > 1 <=> \E y, z \in r.stood : y # z
          BY <1>0, <1>2, StandMore
        <5>2. \A j \in r.stood : j = i
          BY <1>6, <2>4, <5>1
        <5> QED
          BY <1>8, <2>4, <3>3, <5>2 DEF Told
      <4>3. r.state = call[t].state
        BY <1>8, <2>4, <3>3, <4>1, <4>2 DEF Tells, Final
      <4> QED
        BY <3>1, <4>3 DEF KeepsDiagram
    <3> QED
      BY <3>2, <3>3
  <2> QED
    BY <2>1, <2>2, <2>3, <2>4 DEF KeepsDiagram
<1>13. Effect(t, o, Idle, x)
  BY <1>1, <1>3, <1>9, <1>10, <1>11, <1>12 DEF Effect
<1> QED
  BY <1>1, <1>2, <1>13 DEF Keeps

LEMMA CancelJobKeeps ==
  ASSUME BatchInv, UNCHANGED adaptor, NEW t \in Thread, CancelJob(t)
  PROVE  Keeps(t)
<1> DEFINE o == call[t].obj
           i == call[t].id
           k == Calling("update", o, i, "Canceled")
<1>0. BatchTypes
  BY DEF BatchInv
<1>1. /\ BatchTypes' /\ adaptor \notin Pbs /\ call[t] # Idle /\ call[t].pc = "cancel"
      /\ JobsPersist /\ (JobsEnd => JobsEnd') /\ UNCHANGED <<known, last>>
  BY <1>0, CancelJobStep DEF Pbs
<1>2. o \in Object /\ object[o] # Absent /\ i \in JobId
  BY <1>0, <1>1, InsideValues
<1>3. CASE Throw(t) /\ UNCHANGED jobs
  BY <1>1, <1>2, <1>3, ThrowKeeps DEF Keeps
<1>4. CASE /\ Ended(i, "gone", "canceled")
           /\ Step(t, o, k, object[o]) /\ UNCHANGED lock
  <2>1. k # Idle /\ k.pc = "update" /\ k.obj = o /\ k.id = i
    BY CallingParts
  <2>2. Len(jobs') = Len(jobs)
    BY <1>0, <1>2, <1>4 DEF Ended, BatchTypes, ServiceTypes, JobId
  <2>3. KeepsKnown(t, k)
    BY <1>1, <2>2 DEF KeepsKnown
  <2>4. i \in object[o].stood
    BY <1>1 DEF BatchInv, FateInv, AskedStood
  <2>5. Effect(t, o, k, object[o])
    BY <1>1, <1>2, <1>4, <2>1, <2>3, <2>4, SameKeeps
  <2> QED
    BY <1>1, <1>2, <2>5 DEF Keeps
<1> QED
  BY <1>0, <1>3, <1>4, CancelJobStep

-----------------------------------------------------------------------------
(***************************************************************************)
(* The invariant.                                                          *)
(***************************************************************************)
LEMMA InitInv == Init => BatchInv
<1> SUFFICES ASSUME Init PROVE BatchInv
  OBVIOUS
<1>1. ServiceTypes(BatchPC) /\ ExitAtEnd /\ ObjectsInUse
  BY InitTypes DEF Init
<1>2. /\ \A t \in Thread : call[t] = Idle
      /\ \A o \in Object : object[o] = Absent /\ ~Public(o)
      /\ \A m \in Mutex : lock[m] = {}
      /\ adaptor \in BatchAdaptor
  BY DEF Init, ServiceInit, Public, Absent
<1>3. \A i \in JobId : jobs[i].phase = "active" /\ ~jobs[i].own
  BY DEF Init, ServiceInit, JobId, Foreign
<1>4. BatchTypes
  BY <1>1, <1>2, <1>3 DEF BatchTypes, NoneAccepted, CallsHaveJobs, HoldersCall
<1>5. OwnJobsKnown
  BY <1>3 DEF OwnJobsKnown
<1>6. FateInv
  BY <1>2, <1>3 DEF FateInv, JobsEnd, IdsStood, AskedStood, AnswersTell, ObjectsTell
<1>7. DiagramInv
  BY <1>2 DEF DiagramInv, ObjectsMade, LocksHeld, RunsOfNew
<1> QED
  BY <1>4, <1>5, <1>6, <1>7 DEF BatchInv

(* A step keeps the invariant and is a step of the state diagram. *)
LEMMA NextInv ==
  ASSUME BatchInv, [Next]_vars
  PROVE  BatchInv' /\ [Diagram!Next]_Remembered
<1>1. CASE UNCHANGED vars
  <2>1. UNCHANGED <<adaptor, jobs, known, object, call, lock, last>>
    BY <1>1 DEF vars
  <2>2. BatchTypes'
    BY <2>1 DEF BatchInv, BatchTypes, ServiceTypes, ExitAtEnd, NoneAccepted, ObjectsInUse,
                CallsHaveJobs, HoldersCall, JobId, ObjectNow, CallNow, Exclusive, Public
  <2>3. OwnJobsKnown' /\ FateInv' /\ DiagramInv'
    BY <2>1 DEF BatchInv, OwnJobsKnown, FateInv, DiagramInv, JobsEnd, IdsStood, AskedStood,
                AnswersTell, ObjectsTell, ObjectsMade, LocksHeld, RunsOfNew, JobId, Public
  <2>4. UNCHANGED Remembered
    BY <2>1 DEF Remembered, Public
  <2> QED
    BY <2>2, <2>3, <2>4 DEF BatchInv
<1>2. ASSUME NEW t \in Thread, Keeps(t), UNCHANGED adaptor
      PROVE  BatchInv' /\ [Diagram!Next]_Remembered
  BY <1>2, EffectKeeps DEF Keeps
<1>3. ASSUME NEW t \in Thread, UNCHANGED adaptor, Continue(t)
      PROVE  Keeps(t)
  BY <1>3, SubmitKeeps, RecordKeeps, SetRunningKeeps, RegisterJobKeeps, FindKeeps, ProbeKeeps,
     QueryKeeps, UpdateKeeps, CancelJobKeeps DEF Continue
<1>4. ASSUME NEW exits \in SUBSET {"zero", "positive", "negative"}, UNCHANGED adaptor,
             ManagerStep(Live, exits)
      PROVE  BatchInv' /\ [Diagram!Next]_Remembered
  <2>1. /\ BatchTypes' /\ Len(jobs') = Len(jobs) /\ JobsPersist /\ (JobsEnd => JobsEnd')
        /\ UNCHANGED <<known, object, call, lock, last>>
    BY <1>4, ManagersStep DEF BatchInv
  <2>2. OwnJobsKnown'
    BY <2>1 DEF BatchInv, OwnJobsKnown, JobsPersist, JobId
  <2>3. AnswersTell'
    <3>1. ASSUME adaptor \in Pbs, NEW t \in Thread, call[t] # Idle, call[t].pc = "update"
          PROVE  call[t].state # "New" /\ Tells(jobs', call[t].state, call[t].id)
      <4>1. call[t].id \in JobId /\ call[t].state # "New" /\ Tells(jobs, call[t].state, call[t].id)
        BY <3>1, InsideValues DEF BatchInv, FateInv, AnswersTell
      <4> QED
        BY <2>1, <4>1, TellsPersist
    <3> QED
      BY <1>4, <2>1, <3>1 DEF AnswersTell
  <2>4. ObjectsTell'
    <3>1. ASSUME adaptor \in Pbs, NEW o \in Object, object[o] # Absent
          PROVE  Told(jobs', object[o])
      BY <2>1, <3>1, SameMemory
    <3> QED
      BY <1>4, <2>1, <3>1 DEF ObjectsTell
  <2>5. FateInv'
    BY <2>1, <2>3, <2>4 DEF BatchInv, FateInv, IdsStood, AskedStood
  <2>6. DiagramInv'
    BY <1>4, <2>1 DEF BatchInv, DiagramInv, ObjectsMade, LocksHeld, RunsOfNew, Public
  <2>7. UNCHANGED Remembered
    BY <1>4, <2>1 DEF Remembered, Public
  <2> QED
    BY <2>1, <2>2, <2>5, <2>6, <2>7 DEF BatchInv
<1>5. CASE Next
  <2>1. UNCHANGED adaptor
    BY <1>5 DEF Next
  <2>2. CASE \E t \in Thread : Continue(t) \/ \E o \in Object : Begin(t, o)
    BY <1>2, <1>3, <2>1, <2>2, BeginKeeps
  <2>3. CASE ManagerStep(Live, IF adaptor = "pbspro" THEN {"zero", "positive", "negative"} ELSE {"zero", "positive"})
    BY <1>4, <2>1, <2>3
  <2> QED
    BY <1>5, <2>2, <2>3 DEF Next
<1> QED
  BY <1>1, <1>5

(* What the invariant says. *)
LEMMA TypeOKHolds == BatchInv => TypeOK
BY ServiceTypesOK DEF BatchInv, BatchTypes, TypeOK

LEMMA NoJobLostHolds == BatchInv => NoJobLost
<1>1. BatchInv => Len(jobs) \in Nat /\ DOMAIN jobs = JobId
  BY DEF BatchInv, BatchTypes, ServiceTypes, JobId
<1> QED
  BY <1>1 DEF BatchInv, OwnJobsKnown, NoJobLost, Lost, Reachable

LEMMA ReportsFateHolds == BatchInv => ReportsFate
<1>1. ASSUME BatchInv, adaptor \in Pbs, NEW o \in Object, Public(o)
      PROVE  TellsFate(o)
  <2>1. Told(jobs, object[o])
    BY <1>1 DEF BatchInv, FateInv, ObjectsTell, Public, Absent
  <2> QED
    BY <2>1 DEF Told, Tells, TellsFate, FateOf, Final
<1> QED
  BY <1>1 DEF ReportsFate

LEMMA OnlyOppositeOrdersHangHolds == BatchInv => OnlyOppositeOrdersHang
<1> SUFFICES ASSUME BatchInv, NEW t \in Thread, NEW u \in Thread, Waits(t, u)
             PROVE  /\ call[u] # Idle
                    /\ Waits(u, t) => "find" \in {call[t].pc, call[u].pc}
  BY DEF OnlyOppositeOrdersHang
<1>1. /\ \A m \in Mutex : \A v \in lock[m] : call[v] # Idle
      /\ \A m \in Mutex : \A v, w \in lock[m] : v = w
  BY DEF BatchInv, BatchTypes, ServiceTypes, Exclusive, HoldersCall
<1>2. /\ \A v \in Thread : Wanted(v) \subseteq Mutex
      /\ \A v \in Thread : call[v].pc # "find" => Wanted(v) \subseteq {"adaptor_data"}
  BY DEF Wanted, Mutex
<1>3. call[u] # Idle
  BY <1>1, <1>2 DEF Waits
<1>4. ASSUME Waits(u, t), call[t].pc # "find", call[u].pc # "find"
      PROVE  FALSE
  BY <1>1, <1>2, <1>4 DEF Waits
<1> QED
  BY <1>3, <1>4

(* The invariant of a batch adaptor holds in every state. *)
THEOREM Invariant == Spec => []BatchInv
<1>1. Init => BatchInv
  BY InitInv
<1>2. BatchInv /\ [Next]_vars => BatchInv'
  BY NextInv
<1> QED
  BY <1>1, <1>2, PTL DEF Spec

(* Every variable of a batch adaptor keeps its type, and a mutex has one    *)
(* holder at most.                                                          *)
THEOREM TypeCorrect == Spec => []TypeOK
BY TypeOKHolds, Invariant, PTL

(* No job is lost: what run and run_job submit is registered, or a call has *)
(* it in hand, whichever of their steps fail.                               *)
THEOREM JobsReachable == Spec => []NoJobLost
BY NoJobLostHolds, Invariant, PTL

(* A final state that a pbspro or torque object remembers is how a job it   *)
(* has stood for has ended.                                                 *)
THEOREM FateReported == Spec => []ReportsFate
BY ReportsFateHolds, Invariant, PTL

(* A thread waits for none that is outside a call, and threads that wait    *)
(* for each other are in get_job and in run_job.                            *)
THEOREM OnlyGetJobHangs == Spec => []OnlyOppositeOrdersHang
BY OnlyOppositeOrdersHangHolds, Invariant, PTL

(* What the objects of pbspro and torque remember implements the state      *)
(* diagram of a SAGA job.                                                   *)
THEOREM DiagramImplemented == Spec => FollowsDiagram
<1>1. Init => Diagram!Init
  BY DEF Init, ServiceInit, Remembered, Unremembered, Diagram!Init, Public, Absent
<1>2. BatchInv /\ [Next]_vars => [Diagram!Next]_Remembered
  BY NextInv
<1> QED
  BY <1>1, <1>2, Invariant, PTL DEF Spec, FollowsDiagram, Diagram!Spec
=============================================================================
