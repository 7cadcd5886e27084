-------------------------- MODULE GridsamJobProofs ---------------------------
(***************************************************************************)
(* Theorems about GridsamJob, for any threads, job objects and jobs.       *)
(***************************************************************************)
EXTENDS GridsamJob, JobServiceProofs

Asks == {"query", "update", "terminate"}

(* The jobs are submitted active, and one that has ended has an exit status. *)
JobsEnd ==
  \A i \in JobId :
    /\ jobs[i].phase # "accepted"
    /\ jobs[i].phase \in {"complete", "gone"} => jobs[i].exit # "none"

(* A final state is the fate of one of the jobs S. *)
Told(js, state, S) ==
  /\ state = "Done" => \E i \in S : js[i].exit = "zero"
  /\ state = "Failed" => \E i \in S : js[i].exit \in {"positive", "negative"}
  /\ state = "Canceled" => \E i \in S : js[i].exit = "canceled"

(* What an object remembers, and what a call carries that is to write it. *)
Sound(js, r) ==
  /\ r.id # 0 => r.id \in r.stood
  /\ r.state \in {"Running", "Done"} => r.id # 0
  /\ Told(js, r.state, r.stood)
ObjectsSound == \A o \in Object : object[o] # Absent => Sound(jobs, object[o])

Carries(js, k, r) ==
  /\ k.pc \in {"status", "adopt"} \cup Asks => k.id \in r.stood
  /\ k.pc \in Asks => r.id # 0
  /\ k.pc # "adopt" /\ k.state \in {"Running", "Done"} => r.id # 0
  /\ Told(js, k.state, r.stood)
CallsSound ==
  \A t \in Thread : call[t] # Idle => Carries(jobs, call[t], object[call[t].obj])

GridsamInv ==
  /\ adaptor = "gridsam"
  /\ ServiceTypes(GridsamPC)
  /\ ExitAtEnd
  /\ ObjectsInUse
  /\ JobsEnd
  /\ ObjectsSound
  /\ CallsSound

-----------------------------------------------------------------------------
LEMMA ToldPersist ==
  ASSUME NEW js, NEW js2, NEW S, NEW T, S \subseteq T, NEW state, Told(js, state, S),
         \A i \in S : js[i].exit # "none" => js2[i].exit = js[i].exit
  PROVE  Told(js2, state, T)
<1>1. \A i \in S : js[i].exit \in {"zero", "positive", "negative", "canceled"}
        => i \in T /\ js2[i].exit = js[i].exit
  OBVIOUS
<1> QED
  BY <1>1 DEF Told

(***************************************************************************)
(* The invariant is kept by a step that makes k of the call of t and x of  *)
(* the object o, if the following hold of k and x.                         *)
(***************************************************************************)
KeepsUse(t, o, k, x) ==
  /\ call[t] # Idle => call[t].obj = o
  /\ k # Idle => k.obj = o /\ x # Absent
  /\ call[t] = Idle => object[o] = Absent \/ Public(o)
  /\ x = Absent => k = Idle /\ ~Public(o)
  /\ x # Absent /\ x.life # "public" => ~Public(o)

KeepsSound(o, k, x) ==
  /\ x # Absent => Sound(jobs', x)
  /\ k # Idle => Carries(jobs', k, x)
  /\ object[o] # Absent /\ x # Absent =>
       object[o].stood \subseteq x.stood /\ (object[o].id # 0 => x.id # 0)

JobsGoOn ==
  /\ jobs' \in Seq(Job) /\ Len(jobs) <= Len(jobs') /\ Len(jobs') <= MaxJob
  /\ JobsPersist /\ ExitAtEnd' /\ JobsEnd'

Effect(t, o, k, x) ==
  /\ k \in {Idle} \cup CallNow(GridsamPC)'
  /\ x \in {Absent} \cup ObjectNow'
  /\ Step(t, o, k, x)
  /\ JobsGoOn
  /\ known' \subseteq known \cup JobId' /\ last' = last
  /\ UNCHANGED lock \/ Release(t) \/ \E m \in Mutex : Acquire(m, t)
  /\ KeepsUse(t, o, k, x)
  /\ KeepsSound(o, k, x)

LEMMA EffectKeeps ==
  ASSUME GridsamInv, UNCHANGED adaptor, NEW t \in Thread, NEW o \in Object, NEW k, NEW x,
         Effect(t, o, k, x)
  PROVE  GridsamInv'
<1>1. /\ call'[t] = k /\ \A u \in Thread \ {t} : call'[u] = call[u]
      /\ object'[o] = x /\ \A p \in Object \ {o} : object'[p] = object[p]
  BY StepValues DEF GridsamInv, Effect
<1>2. lock' \in [Mutex -> SUBSET Thread] /\ Exclusive'
  BY LockTypes DEF GridsamInv, ServiceTypes, Effect
<1>3. ServiceTypes(GridsamPC)' /\ ObjectsInUse'
  <2>1. last' \in State
    BY DEF Effect, GridsamInv, ServiceTypes
  <2> QED
    BY <1>2, <2>1, StepTypes DEF GridsamInv, Effect, KeepsUse, JobsGoOn
<1>4. \A i \in JobId : jobs[i].exit # "none" => jobs'[i].exit = jobs[i].exit
  BY DEF Effect, JobsGoOn, JobsPersist
<1>5. ObjectsSound'
  <2>1. ASSUME NEW p \in Object, object'[p] # Absent
        PROVE  Sound(jobs', object'[p])
    <3>1. CASE p = o
      BY <1>1, <2>1, <3>1 DEF Effect, KeepsSound
    <3>2. CASE p # o
      <4>1. object'[p] = object[p] /\ object[p] \in ObjectNow /\ Sound(jobs, object[p])
        BY <1>1, <2>1, <3>2 DEF GridsamInv, ObjectsSound, ServiceTypes
      <4>2. object[p].stood \subseteq JobId
        BY <4>1 DEF ObjectNow
      <4>3. Told(jobs', object[p].state, object[p].stood)
        BY <1>4, <4>1, <4>2, ToldPersist DEF Sound
      <4> QED
        BY <4>1, <4>3 DEF Sound
    <3> QED
      BY <3>1, <3>2
  <2> QED
    BY <2>1 DEF ObjectsSound
<1>6. CallsSound'
  <2>1. ASSUME NEW u \in Thread, call'[u] # Idle
        PROVE  Carries(jobs', call'[u], object'[call'[u].obj])
    <3>1. CASE u = t
      BY <1>1, <2>1, <3>1 DEF Effect, KeepsSound, KeepsUse
    <3>2. CASE u # t
      <4>1. PICK p : p = call[u].obj
        OBVIOUS
      <4>2. /\ call'[u] = call[u] /\ p \in Object
            /\ object[p] # Absent /\ object'[p] # Absent
            /\ Carries(jobs, call[u], object[p])
        BY <1>1, <1>3, <2>1, <3>2, <4>1
        DEF GridsamInv, ServiceTypes, CallNow, ObjectsInUse, CallsSound
      <4>3. object[p].stood \subseteq JobId
        BY <4>2 DEF GridsamInv, ServiceTypes, ObjectNow
      <4>4. object[p].stood \subseteq object'[p].stood /\ (object[p].id # 0 => object'[p].id # 0)
        BY <1>1, <4>2 DEF Effect, KeepsSound
      <4>5. Told(jobs', call[u].state, object'[p].stood)
        BY <1>4, <4>2, <4>3, <4>4, ToldPersist DEF Carries
      <4>6. Carries(jobs', call[u], object'[p])
        BY <4>2, <4>4, <4>5 DEF Carries
      <4> QED
        BY <4>1, <4>2, <4>6
    <3> QED
      BY <3>1, <3>2
  <2> QED
    BY <2>1 DEF CallsSound
<1> QED
  BY <1>3, <1>5, <1>6 DEF GridsamInv, Effect, JobsGoOn

-----------------------------------------------------------------------------
(***************************************************************************)
(* Each action has such an effect.                                         *)
(***************************************************************************)
Keeps(t) == \E o \in Object : \E k, x : Effect(t, o, k, x)

LEMMA Facts ==
  ASSUME GridsamInv
  PROVE  /\ jobs \in Seq(Job) /\ Len(jobs) \in Nat /\ Len(jobs) <= MaxJob
         /\ DOMAIN jobs = JobId
         /\ object \in [Object -> {Absent} \cup ObjectNow]
         /\ call \in [Thread -> {Idle} \cup CallNow(GridsamPC)]
         /\ lock \in [Mutex -> SUBSET Thread]
         /\ \A o \in Object : object[o] # Absent => object[o] \in ObjectNow /\ Sound(jobs, object[o])
BY DEF GridsamInv, ServiceTypes, JobId, ObjectsSound

LEMMA JobsSame ==
  ASSUME GridsamInv, UNCHANGED jobs
  PROVE  /\ JobsGoOn /\ JobId' = JobId
         /\ CallNow(GridsamPC)' = CallNow(GridsamPC) /\ ObjectNow' = ObjectNow
BY Facts DEF GridsamInv, ExitAtEnd, JobsEnd, JobsGoOn, JobsPersist, JobId, CallNow, ObjectNow

LEMMA CallingParts ==
  ASSUME NEW pc \in GridsamPC, NEW o \in Object, NEW i \in 0 .. Len(jobs), NEW state \in State,
         NEW k, k = Calling(pc, o, i, state)
  PROVE  k \in CallNow(GridsamPC) /\ k # Idle /\ k.pc = pc /\ k.obj = o /\ k.id = i /\ k.state = state
BY DEF Calling, Idle, CallNow

(* The states that the service tells. *)
LEMMA StateTold ==
  ASSUME GridsamInv, NEW i \in JobId, Shown(i), NEW S, i \in S
  PROVE  GridsamState(i) \in State \ {"New"} /\ Told(jobs, GridsamState(i), S)
<1>1. jobs[i] \in Job
  BY Facts DEF JobId
<1>2. /\ jobs[i].phase \in Live \cup {"complete"}
      /\ jobs[i].phase = "complete" => jobs[i].exit \in Exit
  BY <1>1 DEF GridsamInv, JobsEnd, Job, Phase, Shown
<1>3. GridsamState(i) \in State \ {"New"}
  BY DEF GridsamState, State, Final
<1>4. Told(jobs, GridsamState(i), S)
  BY <1>2 DEF GridsamState, Told, Live, Exit
<1> QED
  BY <1>3, <1>4

(* An object that a step leaves alone. *)
LEMMA SameKeeps ==
  ASSUME GridsamInv, UNCHANGED <<adaptor, known, last>>, NEW t \in Thread,
         NEW o \in Object, object[o] # Absent, NEW k,
         k = Idle \/ (k \in CallNow(GridsamPC) /\ k # Idle /\ k.obj = o /\ Carries(jobs', k, object[o])),
         Step(t, o, k, object[o]),
         JobsGoOn, Len(jobs') = Len(jobs),
         UNCHANGED lock \/ \E m \in Mutex : Acquire(m, t),
         IF call[t] = Idle THEN Public(o) ELSE call[t].obj = o
  PROVE  Effect(t, o, k, object[o])
<1>1. object[o] \in ObjectNow /\ Sound(jobs, object[o]) /\ Len(jobs) \in Nat
  BY Facts
<1>2. JobId' = JobId /\ CallNow(GridsamPC)' = CallNow(GridsamPC) /\ ObjectNow' = ObjectNow
  BY DEF JobId, CallNow, ObjectNow
<1>3. KeepsUse(t, o, k, object[o])
  BY DEF KeepsUse, Public
<1>4. object[o].stood \subseteq JobId
  BY <1>1 DEF ObjectNow
<1>5. \A i \in object[o].stood : jobs[i].exit # "none" => jobs'[i].exit = jobs[i].exit
  BY <1>4 DEF JobsGoOn, JobsPersist
<1>6. Told(jobs', object[o].state, object[o].stood)
  BY <1>1, <1>5, ToldPersist DEF Sound
<1>7. KeepsSound(o, k, object[o])
  BY <1>1, <1>6 DEF KeepsSound, Sound
<1> QED
  BY <1>1, <1>2, <1>3, <1>7 DEF Effect

(* An object that comes to be: create_job, get_job and run_job. *)
LEMMA MadeKeeps ==
  ASSUME GridsamInv, UNCHANGED <<adaptor, jobs, known, last, lock>>, NEW t \in Thread,
         call[t] = Idle, NEW o \in Object, object[o] = Absent, NEW k, NEW x \in ObjectNow,
         x # Absent, Sound(jobs, x), Step(t, o, k, x),
         k = Idle \/ (k \in CallNow(GridsamPC) /\ k # Idle /\ k.obj = o /\ Carries(jobs, k, x))
  PROVE  Effect(t, o, k, x)
<1>1. KeepsUse(t, o, k, x)
  BY DEF KeepsUse, Public, Absent
<1>2. KeepsSound(o, k, x)
  BY DEF KeepsSound
<1> QED
  BY <1>1, <1>2, JobsSame DEF Effect

LEMMA MadeMemory ==
  ASSUME GridsamInv, NEW life \in {"private", "public"}, NEW x,
         \/ x = Memory(life, "New", 0, {})
         \/ \E i \in JobId : x = Memory(life, "Unknown", i, {i})
  PROVE  x \in ObjectNow /\ x # Absent /\ x.life = life /\ Sound(jobs, x)
<1>1. CASE x = Memory(life, "New", 0, {})
  <2>1. x \in ObjectNow /\ x # Absent
    BY <1>1, Facts, MemoryNow
  <2>2. x.life = life /\ x.state = "New" /\ x.id = 0
    BY <1>1 DEF Memory
  <2> QED
    BY <2>1, <2>2 DEF Sound, Told
<1>2. ASSUME NEW i \in JobId, x = Memory(life, "Unknown", i, {i})
      PROVE  x \in ObjectNow /\ x # Absent /\ x.life = life /\ Sound(jobs, x)
  <2>1. i \in 0 .. Len(jobs) /\ {i} \in SUBSET JobId /\ "Unknown" \in State
    BY Facts DEF JobId, State
  <2>2. x \in ObjectNow /\ x # Absent
    BY <1>2, <2>1, Facts, MemoryNow
  <2>3. x.life = life /\ x.state = "Unknown" /\ x.id = i /\ x.stood = {i}
    BY <1>2 DEF Memory
  <2> QED
    BY <2>2, <2>3 DEF Sound, Told
<1> QED
  BY <1>1, <1>2

LEMMA BeginKeeps ==
  ASSUME GridsamInv, UNCHANGED adaptor, NEW t \in Thread, NEW o \in Object,
         \/ CreateJob(t, o) \/ RunJob(t, o)
         \/ \E i \in DOMAIN jobs : GetJob(t, o, i)
         \/ Run(t, o) \/ GetState(t, o) \/ Cancel(t, o)
  PROVE  Keeps(t)
<1>0. "New" \in State /\ 0 \in 0 .. Len(jobs) /\ {"run", "query", "terminate"} \subseteq GridsamPC
  BY Facts DEF State, GridsamPC
<1>1. CASE CreateJob(t, o)
  <2>1. PICK x : x = Memory("public", "New", 0, {})
    OBVIOUS
  <2>2. x \in ObjectNow /\ x # Absent /\ x = NewObject("public") /\ Sound(jobs, x)
    BY <2>1, MadeMemory, MemoryNow, Facts
  <2>3. Step(t, o, Idle, x)
    BY <1>1, <2>2, Facts DEF CreateJob, Step
  <2>4. Effect(t, o, Idle, x)
    BY <1>1, <2>2, <2>3, MadeKeeps DEF CreateJob
  <2> QED
    BY <2>4 DEF Keeps
<1>2. CASE RunJob(t, o)
  <2>1. PICK x : x = Memory("private", "New", 0, {})
    OBVIOUS
  <2>2. PICK k : k = Calling("run", o, 0, "New")
    OBVIOUS
  <2>3. x \in ObjectNow /\ x # Absent /\ x = NewObject("private") /\ Sound(jobs, x)
    BY <2>1, MadeMemory, MemoryNow, Facts
  <2>4. k \in CallNow(GridsamPC) /\ k # Idle /\ k.obj = o /\ k.pc = "run" /\ k.state = "New"
    BY <1>0, <2>2, CallingParts
  <2>5. Carries(jobs, k, x)
    BY <2>4 DEF Carries, Told, Asks
  <2>6. Step(t, o, k, x)
    BY <1>2, <2>2, <2>3, Facts DEF RunJob, Begins, Step
  <2>7. Effect(t, o, k, x)
    BY <1>2, <2>3, <2>4, <2>5, <2>6, MadeKeeps DEF RunJob, Begins
  <2> QED
    BY <2>7 DEF Keeps
<1>3. ASSUME NEW i \in DOMAIN jobs, GetJob(t, o, i)
      PROVE  Keeps(t)
  <2>1. PICK x : x = Memory("private", "Unknown", i, {i})
    OBVIOUS
  <2>2. PICK k : k = Calling("query", o, i, "New")
    OBVIOUS
  <2>3. i \in JobId /\ i \in 0 .. Len(jobs) /\ i # 0
    BY Facts DEF JobId
  <2>4. x \in ObjectNow /\ x # Absent /\ Sound(jobs, x) /\ x.id = i /\ x.stood = {i}
    BY <2>1, <2>3, MadeMemory DEF Memory
  <2>5. /\ k \in CallNow(GridsamPC) /\ k # Idle /\ k.obj = o /\ k.pc = "query"
        /\ k.state = "New" /\ k.id = i
    BY <1>0, <2>2, <2>3, CallingParts
  <2>6. Carries(jobs, k, x)
    BY <2>3, <2>4, <2>5 DEF Carries, Told, Asks
  <2>7. x = [ObjectFor(i, "Unknown") EXCEPT !.life = "private"]
    BY <2>1 DEF ObjectFor, Memory
  <2>8. Step(t, o, k, x)
    BY <1>3, <2>2, <2>7 DEF GetJob, Begins, Step
  <2>9. Effect(t, o, k, x)
    BY <1>3, <2>4, <2>5, <2>6, <2>8, MadeKeeps DEF GetJob, Begins
  <2> QED
    BY <2>9 DEF Keeps
<1>4. ASSUME NEW pc \in {"run", "query", "terminate"}, NEW i \in {0, object[o].id}, Public(o),
             pc = "run" => i = 0, pc # "run" => i = object[o].id /\ i # 0,
             Begins(t, pc, o, i), UNCHANGED <<jobs, known, object, lock, last>>
      PROVE  Keeps(t)
  <2>1. PICK k : k = Calling(pc, o, i, "New")
    OBVIOUS
  <2>2. object[o] # Absent /\ object[o] \in ObjectNow /\ Sound(jobs, object[o])
    BY <1>4, Facts DEF Public, Absent
  <2>3. /\ k \in CallNow(GridsamPC) /\ k # Idle /\ k.obj = o /\ k.pc = pc
        /\ k.state = "New" /\ k.id = i
    <3>1. i \in 0 .. Len(jobs)
      BY <1>0, <2>2 DEF ObjectNow
    <3> QED
      BY <1>0, <2>1, <3>1, CallingParts
  <2>4. Carries(jobs', k, object[o])
    BY <1>4, <2>2, <2>3 DEF Carries, Told, Asks, Sound
  <2>5. Step(t, o, k, object[o]) /\ call[t] = Idle
    BY <1>4, <2>1, Facts DEF Begins, Step
  <2>6. Effect(t, o, k, object[o])
    BY <1>4, <2>2, <2>3, <2>4, <2>5, JobsSame, Facts, SameKeeps
  <2> QED
    BY <2>6 DEF Keeps
<1> QED
  BY <1>1, <1>2, <1>3, <1>4 DEF Run, GetState, Cancel

(* A thread inside a call, and the object it works on. *)
LEMMA Inside ==
  ASSUME GridsamInv, NEW t \in Thread, call[t] # Idle, NEW o, o = call[t].obj
  PROVE  /\ o \in Object /\ object[o] # Absent /\ object[o] \in ObjectNow
         /\ Sound(jobs, object[o]) /\ Carries(jobs, call[t], object[o])
         /\ call[t] \in CallNow(GridsamPC)
         /\ call[t].id \in 0 .. Len(jobs) /\ call[t].state \in State
         /\ object[o].life \in {"private", "public"}
         /\ object[o].stood \subseteq JobId /\ object[o].id \in 0 .. Len(jobs)
         /\ object[o].state \in State
         /\ call[t].pc \in {"status", "adopt"} \cup Asks => call[t].id \in JobId
<1>1. call[t] \in CallNow(GridsamPC)
  BY Facts
<1>2. /\ o \in Object /\ call[t].id \in 0 .. Len(jobs) /\ call[t].state \in State
  BY <1>1 DEF CallNow
<1>3. object[o] # Absent /\ Carries(jobs, call[t], object[o])
  BY DEF GridsamInv, ObjectsInUse, CallsSound
<1>4. object[o] \in ObjectNow /\ Sound(jobs, object[o])
  BY <1>2, <1>3, Facts
<1>5. /\ object[o].life \in {"private", "public"} /\ object[o].stood \subseteq JobId
      /\ object[o].id \in 0 .. Len(jobs) /\ object[o].state \in State
  BY <1>4 DEF ObjectNow
<1>6. call[t].pc \in {"status", "adopt"} \cup Asks => call[t].id \in JobId
  BY <1>3, <1>5 DEF Carries
<1> QED
  BY <1>1, <1>2, <1>3, <1>4, <1>5, <1>6

(* A call that goes on and leaves its object alone. *)
LEMMA GoesOn ==
  ASSUME GridsamInv, UNCHANGED <<adaptor, jobs, known, object, last>>,
         NEW t \in Thread, call[t] # Idle, NEW pc \in GridsamPC, NEW i \in 0 .. Len(jobs),
         NEW state \in State, NEW k, k = Calling(pc, call[t].obj, i, state),
         call' = [call EXCEPT ![t] = k],
         Carries(jobs, k, object[call[t].obj]),
         UNCHANGED lock \/ \E m \in Mutex : Acquire(m, t)
  PROVE  Keeps(t)
<1>1. PICK o : o = call[t].obj
  OBVIOUS
<1>2. o \in Object /\ object[o] # Absent
  BY <1>1, Inside
<1>3. k \in CallNow(GridsamPC) /\ k # Idle /\ k.obj = o
  BY <1>1, <1>2, CallingParts
<1>4. Step(t, o, k, object[o])
  BY <1>2, Facts DEF Step
<1>5. Effect(t, o, k, object[o])
  BY <1>1, <1>2, <1>3, <1>4, JobsSame, SameKeeps
<1> QED
  BY <1>2, <1>5 DEF Keeps

LEMMA ReadStateKeeps ==
  ASSUME GridsamInv, UNCHANGED adaptor, NEW t \in Thread, ReadState(t)
  PROVE  Keeps(t)
<1> DEFINE o == call[t].obj
<1>1. /\ call[t] # Idle /\ call[t].pc = "run" /\ Carry(t, "submit", object[o].state)
      /\ UNCHANGED <<jobs, known, object, lock, last>>
  BY DEF ReadState, Idle
<1>2. PICK k : k = Calling("submit", o, call[t].id, object[o].state)
  OBVIOUS
<1>3. call' = [call EXCEPT ![t] = k]
  BY <1>1, <1>2, InCall DEF GridsamInv
<1>4. /\ Sound(jobs, object[o]) /\ call[t].id \in 0 .. Len(jobs) /\ object[o].state \in State
      /\ "submit" \in GridsamPC
  BY <1>1, Inside DEF GridsamPC
<1>5. k.pc = "submit" /\ k.state = object[o].state
  BY <1>2 DEF Calling
<1>6. Carries(jobs, k, object[o])
  BY <1>4, <1>5 DEF Carries, Sound, Asks
<1> QED
  BY <1>1, <1>2, <1>3, <1>4, <1>6, GoesOn

LEMMA SubmitJobKeeps ==
  ASSUME GridsamInv, UNCHANGED adaptor, NEW t \in Thread, SubmitJob(t)
  PROVE  Keeps(t)
<1>1. PICK o : o = call[t].obj
  OBVIOUS
<1>2. call[t] # Idle /\ call[t].pc = "submit" /\ UNCHANGED <<known, lock, last>>
  BY DEF SubmitJob, Idle
<1>3. PICK r : r = object[o]
  OBVIOUS
<1>4. /\ o \in Object /\ r # Absent /\ r \in ObjectNow /\ Sound(jobs, r)
      /\ Carries(jobs, call[t], r) /\ call[t] \in CallNow(GridsamPC)
      /\ call[t].id \in 0 .. Len(jobs) /\ call[t].state \in State
      /\ r.life \in {"private", "public"} /\ r.stood \subseteq JobId
      /\ r.id \in 0 .. Len(jobs) /\ r.state \in State
  BY <1>1, <1>2, <1>3, Inside
<1>5. CASE Goto(t, "commit") /\ UNCHANGED <<jobs, object>>
  <2>1. PICK k : k = Calling("commit", o, call[t].id, call[t].state)
    OBVIOUS
  <2>2. call' = [call EXCEPT ![t] = k]
    BY <1>1, <1>2, <1>5, <2>1, InCall DEF GridsamInv
  <2>3. k.pc = "commit" /\ k.state = call[t].state /\ "commit" \in GridsamPC
    BY <2>1 DEF Calling, GridsamPC
  <2>4. Carries(jobs, k, r)
    BY <1>2, <1>4, <2>3 DEF Carries, Asks
  <2> QED
    BY <1>1, <1>2, <1>3, <1>4, <1>5, <2>1, <2>2, <2>3, <2>4, GoesOn
<1>6. CASE /\ Submitted("active")
           /\ call' = [call EXCEPT ![t].pc = "status", ![t].id = NextId]
           /\ object' = [object EXCEPT ![call[t].obj].stood = @ \cup {NextId}]
  <2>1. PICK i : i = NextId
    OBVIOUS
  <2>2. /\ jobs' \in Seq(Job) /\ Len(jobs') = Len(jobs) + 1 /\ Len(jobs') <= MaxJob
        /\ Len(jobs) \in Nat /\ i = Len(jobs) + 1 /\ JobsPersist /\ ExitAtEnd'
        /\ \A j \in JobId : jobs'[j] = jobs[j]
        /\ jobs'[i] = [own |-> TRUE, phase |-> "active", exit |-> "none"]
    BY <1>6, <2>1, SubmittedJob, Facts DEF GridsamInv, Live
  <2>3. JobsEnd'
    <3>1. ASSUME NEW j \in JobId'
          PROVE  jobs'[j].phase # "accepted"
                 /\ (jobs'[j].phase \in {"complete", "gone"} => jobs'[j].exit # "none")
      <4>1. j \in JobId \/ j = i
        BY <2>2 DEF JobId
      <4> QED
        BY <2>2, <4>1 DEF GridsamInv, JobsEnd
    <3> QED
      BY <3>1 DEF JobsEnd
  <2>4. JobsGoOn
    BY <2>2, <2>3 DEF JobsGoOn
  <2>5. /\ i \in JobId' /\ i \in 0 .. Len(jobs') /\ JobId \subseteq JobId'
        /\ 0 .. Len(jobs) \subseteq 0 .. Len(jobs')
    BY <2>2 DEF JobId
  <2>6. PICK S : S = r.stood \cup {i}
    OBVIOUS
  <2>7. PICK x : x = [r EXCEPT !.stood = S]
    OBVIOUS
  <2>8. x.life = r.life /\ x.state = r.state /\ x.id = r.id /\ x.stood = S
    BY <1>4, <2>7 DEF ObjectNow
  <2>9. x \in ObjectNow' /\ x # Absent
    <3>1. S \in SUBSET JobId' /\ r.id \in 0 .. Len(jobs')
      BY <1>4, <2>5, <2>6
    <3>2. x \in ObjectNow'
      BY <1>4, <2>7, <3>1 DEF ObjectNow
    <3> QED
      BY <3>2 DEF ObjectNow, Absent
  <2>10. PICK k : k = [call[t] EXCEPT !.pc = "status", !.id = i]
    OBVIOUS
  <2>11. k.pc = "status" /\ k.id = i /\ k.obj = o /\ k.state = call[t].state
    BY <1>1, <1>4, <2>10 DEF CallNow
  <2>12. k \in CallNow(GridsamPC)' /\ k # Idle
    <3>1. k \in CallNow(GridsamPC)'
      BY <1>1, <1>4, <2>5, <2>10 DEF CallNow, GridsamPC
    <3> QED
      BY <3>1 DEF CallNow, Idle
  <2>13. Step(t, o, k, x)
    <3>1. call' = [call EXCEPT ![t] = k]
      BY <1>6, <2>1, <2>10
    <3>2. object' = [object EXCEPT ![o] = x]
      BY <1>1, <1>3, <1>6, <2>1, <2>6, <2>7
    <3> QED
      BY <3>1, <3>2 DEF Step
  <2>14. \A j \in r.stood : jobs[j].exit # "none" => jobs'[j].exit = jobs[j].exit
    BY <1>4, <2>2
  <2>15. Told(jobs', r.state, S) /\ Told(jobs', call[t].state, S)
    BY <1>4, <2>6, <2>14, ToldPersist DEF Sound, Carries
  <2>16. KeepsSound(o, k, x)
    BY <1>2, <1>3, <1>4, <2>6, <2>8, <2>11, <2>15 DEF KeepsSound, Sound, Carries, Asks
  <2>17. KeepsUse(t, o, k, x)
    BY <1>1, <1>2, <1>3, <1>4, <2>8, <2>9, <2>11 DEF KeepsUse, Public
  <2>18. Effect(t, o, k, x)
    BY <1>2, <2>4, <2>9, <2>12, <2>13, <2>16, <2>17 DEF Effect
  <2> QED
    BY <1>4, <2>18 DEF Keeps
<1> QED
  BY <1>5, <1>6 DEF SubmitJob

LEMMA StatusKeeps ==
  ASSUME GridsamInv, UNCHANGED adaptor, NEW t \in Thread, Status(t)
  PROVE  Keeps(t)
<1>1. PICK o : o = call[t].obj
  OBVIOUS
<1>2. call[t] # Idle /\ call[t].pc = "status" /\ UNCHANGED <<jobs, known, object, last>>
  BY DEF Status, Idle
<1>3. PICK r : r = object[o]
  OBVIOUS
<1>4. /\ o \in Object /\ Carries(jobs, call[t], r) /\ call[t] \in CallNow(GridsamPC)
      /\ call[t].id \in 0 .. Len(jobs) /\ call[t].state \in State /\ call[t].id \in JobId
  BY <1>1, <1>2, <1>3, Inside
<1>5. call[t].id \in r.stood /\ {"adopt", "commit"} \subseteq GridsamPC /\ 0 \in 0 .. Len(jobs)
  BY <1>2, <1>4, Facts DEF Carries, GridsamPC
<1>6. CASE /\ Shown(call[t].id) /\ GridsamState(call[t].id) \in {"Running", "Done"}
           /\ Carry(t, "adopt", GridsamState(call[t].id))
           /\ Acquire(call[t].obj, t)
  <2>1. PICK state : state = GridsamState(call[t].id)
    OBVIOUS
  <2>2. state \in State /\ Told(jobs, state, r.stood)
    BY <1>4, <1>5, <1>6, <2>1, StateTold
  <2>3. PICK k : k = Calling("adopt", o, call[t].id, state)
    OBVIOUS
  <2>4. call' = [call EXCEPT ![t] = k]
    BY <1>1, <1>2, <1>6, <2>1, <2>3, InCall DEF GridsamInv
  <2>5. k.pc = "adopt" /\ k.state = state /\ k.id = call[t].id
    BY <2>3 DEF Calling
  <2>6. Carries(jobs, k, r)
    BY <1>5, <2>2, <2>5 DEF Carries, Asks
  <2>7. \E m \in Mutex : Acquire(m, t)
    BY <1>1, <1>4, <1>6 DEF Mutex
  <2> QED
    BY <1>1, <1>2, <1>3, <1>4, <1>5, <2>2, <2>3, <2>4, <2>6, <2>7, GoesOn
<1>7. ASSUME NEW state \in State, Told(jobs, state, r.stood),
             state \in {"Running", "Done"} => r.id # 0, UNCHANGED lock,
             NEW k, k = Calling("commit", o, 0, state), call' = [call EXCEPT ![t] = k]
      PROVE  Keeps(t)
  <2>1. k.pc = "commit" /\ k.state = state
    BY <1>7 DEF Calling
  <2>2. Carries(jobs, k, r)
    BY <1>7, <2>1 DEF Carries, Asks
  <2> QED
    BY <1>1, <1>2, <1>3, <1>5, <1>7, <2>2, GoesOn
<1>8. CASE /\ Shown(call[t].id) /\ GridsamState(call[t].id) \notin {"Running", "Done"}
           /\ call' = [call EXCEPT ![t].pc = "commit", ![t].id = 0,
                                   ![t].state = GridsamState(call[t].id)]
           /\ UNCHANGED lock
  <2>1. PICK state : state = GridsamState(call[t].id)
    OBVIOUS
  <2>2. state \in State /\ Told(jobs, state, r.stood)
    BY <1>4, <1>5, <1>8, <2>1, StateTold
  <2>3. PICK k : k = [call[t] EXCEPT !.pc = "commit", !.id = 0, !.state = state]
    OBVIOUS
  <2>4. k = Calling("commit", o, 0, state)
    BY <1>1, <1>4, <2>3 DEF CallNow, Calling
  <2>5. call' = [call EXCEPT ![t] = k]
    BY <1>8, <2>1, <2>3
  <2> QED
    BY <1>7, <1>8, <2>1, <2>2, <2>4, <2>5
<1>9. CASE call' = [call EXCEPT ![t].pc = "commit", ![t].id = 0] /\ UNCHANGED lock
  <2>1. PICK k : k = [call[t] EXCEPT !.pc = "commit", !.id = 0]
    OBVIOUS
  <2>2. k = Calling("commit", o, 0, call[t].state)
    BY <1>1, <1>4, <2>1 DEF CallNow, Calling
  <2>3. call' = [call EXCEPT ![t] = k]
    BY <1>9, <2>1
  <2>4. /\ Told(jobs, call[t].state, r.stood)
        /\ call[t].state \in {"Running", "Done"} => r.id # 0
    BY <1>2, <1>4 DEF Carries
  <2> QED
    BY <1>4, <1>7, <1>9, <2>2, <2>3, <2>4
<1> QED
  BY <1>6, <1>8, <1>9 DEF Status

(* A call that writes to its object. *)
LEMMA WritesKeeps ==
  ASSUME GridsamInv, UNCHANGED <<adaptor, jobs, last>>, NEW t \in Thread, call[t] # Idle,
         NEW o, o = call[t].obj, NEW k, NEW x,
         k = Idle \/ (k \in CallNow(GridsamPC) /\ k # Idle /\ k.obj = o /\ Carries(jobs, k, x)),
         NEW life \in {"private", "public"}, Public(o) => life = "public",
         NEW state \in State, NEW i \in 0 .. Len(jobs),
         x = Memory(life, state, i, object[o].stood),
         Sound(jobs, x), object[o].id # 0 => i # 0,
         Step(t, o, k, x), known' \subseteq known \cup JobId,
         UNCHANGED lock \/ Release(t)
  PROVE  Keeps(t)
<1>1. o \in Object /\ object[o].stood \subseteq JobId /\ Len(jobs) \in Nat
  BY Inside, Facts
<1>2. x.life = life /\ x.state = state /\ x.id = i /\ x.stood = object[o].stood
  BY DEF Memory
<1>3. x \in ObjectNow /\ x # Absent
  BY <1>1, MemoryNow
<1>4. KeepsUse(t, o, k, x)
  BY <1>2, <1>3 DEF KeepsUse
<1>5. KeepsSound(o, k, x)
  BY <1>2 DEF KeepsSound
<1>6. Effect(t, o, k, x)
  BY <1>3, <1>4, <1>5, JobsSame DEF Effect
<1> QED
  BY <1>1, <1>6 DEF Keeps

LEMMA MemoryWritten ==
  ASSUME NEW r \in ObjectNow, NEW state
  PROVE  [r EXCEPT !.state = state, !.life = "public"] = Memory("public", state, r.id, r.stood)
<1>1. [r EXCEPT !.state = state] = Memory(r.life, state, r.id, r.stood)
  BY DEF Memory, ObjectNow
<1>2. [Memory(r.life, state, r.id, r.stood) EXCEPT !.life = "public"]
        = Memory("public", state, r.id, r.stood)
  BY DEF Memory
<1> QED
  BY <1>1, <1>2

LEMMA AdoptKeeps ==
  ASSUME GridsamInv, UNCHANGED adaptor, NEW t \in Thread, Adopt(t)
  PROVE  Keeps(t)
<1>1. PICK o : o = call[t].obj
  OBVIOUS
<1>2. /\ call[t] # Idle /\ call[t].pc = "adopt" /\ UNCHANGED <<jobs, last>>
      /\ object' = [object EXCEPT ![o].id = call[t].id]
      /\ known' = known \cup {call[t].id} /\ Goto(t, "commit") /\ Release(t)
  BY <1>1 DEF Adopt, Idle
<1>3. PICK r : r = object[o]
  OBVIOUS
<1>4. /\ o \in Object /\ r \in ObjectNow /\ Sound(jobs, r) /\ Carries(jobs, call[t], r)
      /\ call[t] \in CallNow(GridsamPC)
      /\ call[t].id \in 0 .. Len(jobs) /\ call[t].state \in State /\ call[t].id \in JobId
      /\ r.life \in {"private", "public"} /\ r.state \in State
  BY <1>1, <1>2, <1>3, Inside
<1>5. call[t].id \in r.stood /\ call[t].id # 0 /\ "commit" \in GridsamPC
  BY <1>2, <1>4 DEF Carries, GridsamPC, JobId
<1>6. PICK x : x = Memory(r.life, r.state, call[t].id, r.stood)
  OBVIOUS
<1>7. x.life = r.life /\ x.state = r.state /\ x.id = call[t].id /\ x.stood = r.stood
  BY <1>6 DEF Memory
<1>8. Sound(jobs, x)
  BY <1>4, <1>5, <1>7 DEF Sound
<1>9. PICK k : k = Calling("commit", o, call[t].id, call[t].state)
  OBVIOUS
<1>10. k \in CallNow(GridsamPC) /\ k # Idle /\ k.obj = o /\ k.pc = "commit" /\ k.state = call[t].state
  BY <1>4, <1>5, <1>9, CallingParts
<1>11. Carries(jobs, k, x)
  BY <1>2, <1>4, <1>5, <1>7, <1>10 DEF Carries, Asks
<1>12. Step(t, o, k, x)
  <2>1. call' = [call EXCEPT ![t] = k]
    BY <1>1, <1>2, <1>9, InCall DEF GridsamInv
  <2>2. PICK y : y = [r EXCEPT !.id = call[t].id]
    OBVIOUS
  <2>3. y = x
    BY <1>4, <1>6, <2>2 DEF Memory, ObjectNow
  <2>4. object' = [object EXCEPT ![o] = y]
    BY <1>2, <1>3, <2>2
  <2> QED
    BY <2>1, <2>3, <2>4 DEF Step
<1>13. Public(o) => r.life = "public"
  BY <1>3 DEF Public
<1> QED
  BY <1>1, <1>2, <1>3, <1>4, <1>5, <1>6, <1>8, <1>10, <1>11, <1>12, <1>13, WritesKeeps

LEMMA CommitKeeps ==
  ASSUME GridsamInv, UNCHANGED adaptor, NEW t \in Thread, Commit(t)
  PROVE  Keeps(t)
<1>1. PICK o : o = call[t].obj
  OBVIOUS
<1>2. call[t] # Idle /\ call[t].pc = "commit" /\ UNCHANGED <<jobs, known, lock, last>> /\ Return(t)
  BY DEF Commit, Idle
<1>3. PICK r : r = object[o]
  OBVIOUS
<1>4. /\ o \in Object /\ r \in ObjectNow /\ Sound(jobs, r) /\ Carries(jobs, call[t], r)
      /\ call[t].state \in State /\ r # Absent
      /\ r.life \in {"private", "public"} /\ r.state \in State /\ r.id \in 0 .. Len(jobs)
  BY <1>1, <1>2, <1>3, Inside
<1>5. CASE Public(o) \/ call[t].id # 0
  <2>1. PICK x : x = Memory("public", call[t].state, r.id, r.stood)
    OBVIOUS
  <2>2. x.life = "public" /\ x.state = call[t].state /\ x.id = r.id /\ x.stood = r.stood
    BY <2>1 DEF Memory
  <2>3. Sound(jobs, x)
    BY <1>2, <1>4, <2>2 DEF Sound, Carries
  <2>4. Step(t, o, Idle, x)
    <3>1. CASE Public(o)
      <4>1. [r EXCEPT !.state = call[t].state] = x
        BY <1>3, <1>4, <2>1, <3>1 DEF Public, Memory, ObjectNow
      <4> QED
        BY <1>1, <1>2, <1>3, <3>1, <4>1 DEF Commit, Return, Step
    <3>2. CASE ~Public(o)
      <4>1. [r EXCEPT !.state = call[t].state, !.life = "public"] = x
        BY <1>4, <2>1, MemoryWritten
      <4> QED
        BY <1>1, <1>2, <1>3, <1>5, <3>2, <4>1 DEF Commit, Return, Step
    <3> QED
      BY <3>1, <3>2
  <2> QED
    BY <1>1, <1>2, <1>3, <1>4, <2>1, <2>3, <2>4, WritesKeeps
<1>6. CASE ~Public(o) /\ call[t].id = 0
  <2>1. Step(t, o, Idle, Absent)
    BY <1>1, <1>2, <1>6 DEF Commit, Return, Step
  <2>2. KeepsUse(t, o, Idle, Absent)
    BY <1>1, <1>2, <1>6 DEF KeepsUse
  <2>3. KeepsSound(o, Idle, Absent)
    BY DEF KeepsSound
  <2>4. Effect(t, o, Idle, Absent)
    BY <1>2, <2>1, <2>2, <2>3, JobsSame DEF Effect
  <2> QED
    BY <1>4, <2>4 DEF Keeps
<1> QED
  BY <1>5, <1>6

LEMMA QueryKeeps ==
  ASSUME GridsamInv, UNCHANGED adaptor, NEW t \in Thread, Query(t)
  PROVE  Keeps(t)
<1>1. PICK o : o = call[t].obj
  OBVIOUS
<1>2. call[t] # Idle /\ call[t].pc = "query" /\ UNCHANGED <<jobs, known, last>>
  BY DEF Query, Idle
<1>3. PICK r : r = object[o]
  OBVIOUS
<1>4. /\ o \in Object /\ r \in ObjectNow /\ r # Absent /\ Sound(jobs, r)
      /\ Carries(jobs, call[t], r) /\ call[t].id \in 0 .. Len(jobs) /\ call[t].id \in JobId
      /\ call[t].id \in r.stood /\ r.id # 0 /\ "update" \in GridsamPC
  BY <1>1, <1>2, <1>3, Inside DEF Carries, Asks, GridsamPC
<1>5. CASE /\ Shown(call[t].id) /\ Carry(t, "update", GridsamState(call[t].id))
           /\ UNCHANGED <<object, lock>>
  <2>1. PICK state : state = GridsamState(call[t].id)
    OBVIOUS
  <2>2. state \in State /\ Told(jobs, state, r.stood)
    BY <1>4, <1>5, <2>1, StateTold
  <2>3. PICK k : k = Calling("update", o, call[t].id, state)
    OBVIOUS
  <2>4. call' = [call EXCEPT ![t] = k]
    BY <1>1, <1>2, <1>5, <2>1, <2>3, InCall DEF GridsamInv
  <2>5. k.pc = "update" /\ k.state = state /\ k.id = call[t].id
    BY <2>3 DEF Calling
  <2>6. Carries(jobs, k, r)
    BY <1>4, <2>2, <2>5 DEF Carries
  <2> QED
    BY <1>1, <1>2, <1>3, <1>4, <1>5, <2>2, <2>3, <2>4, <2>6, GoesOn
<1>6. CASE Throw(t)
  <2>1. PICK x : x = IF Public(o) THEN r ELSE Absent
    OBVIOUS
  <2>2. Release(t) /\ Step(t, o, Idle, x)
    BY <1>1, <1>2, <1>3, <1>6, <2>1, InCall DEF GridsamInv
  <2>3. KeepsUse(t, o, Idle, x)
    BY <1>1, <1>2, <1>3, <1>4, <2>1 DEF KeepsUse, Public
  <2>4. KeepsSound(o, Idle, x)
    BY <1>2, <1>3, <1>4, <2>1 DEF KeepsSound
  <2>5. Effect(t, o, Idle, x)
    BY <1>2, <1>4, <2>1, <2>2, <2>3, <2>4, JobsSame DEF Effect
  <2> QED
    BY <1>4, <2>5 DEF Keeps
<1> QED
  BY <1>5, <1>6 DEF Query

LEMMA UpdateKeeps ==
  ASSUME GridsamInv, UNCHANGED adaptor, NEW t \in Thread, Update(t)
  PROVE  Keeps(t)
<1>1. PICK o : o = call[t].obj
  OBVIOUS
<1>2. /\ call[t] # Idle /\ call[t].pc = "update" /\ UNCHANGED <<jobs, known, lock, last>>
      /\ Return(t)
      /\ object' = [object EXCEPT ![o].state = call[t].state, ![o].life = "public"]
  BY <1>1 DEF Update, Idle
<1>3. PICK r : r = object[o]
  OBVIOUS
<1>4. /\ o \in Object /\ r \in ObjectNow /\ Sound(jobs, r) /\ Carries(jobs, call[t], r)
      /\ call[t].state \in State /\ r.id \in 0 .. Len(jobs)
  BY <1>1, <1>2, <1>3, Inside
<1>5. PICK x : x = Memory("public", call[t].state, r.id, r.stood)
  OBVIOUS
<1>6. x.life = "public" /\ x.state = call[t].state /\ x.id = r.id /\ x.stood = r.stood
  BY <1>5 DEF Memory
<1>7. Sound(jobs, x)
  BY <1>2, <1>4, <1>6 DEF Sound, Carries, Asks
<1>8. Step(t, o, Idle, x)
  <2>1. PICK y : y = [r EXCEPT !.state = call[t].state, !.life = "public"]
    OBVIOUS
  <2>2. y = x
    BY <1>4, <1>5, <2>1, MemoryWritten
  <2>3. object' = [object EXCEPT ![o] = y]
    BY <1>2, <1>3, <1>4, <2>1, Facts
  <2> QED
    BY <1>2, <2>2, <2>3 DEF Return, Step
<1> QED
  BY <1>1, <1>2, <1>3, <1>4, <1>5, <1>7, <1>8, WritesKeeps

(* A job whose phase the service or the resource manager changes. *)
LEMMA JobGoesOn ==
  ASSUME GridsamInv, NEW i \in JobId, NEW p \in Phase, p # "accepted",
         \/ Become(i, p) /\ (p \in Live => jobs[i].exit = "none")
                         /\ (p \in {"complete", "gone"} => jobs[i].exit # "none")
         \/ /\ \E e \in Exit : Ended(i, p, e)
            /\ jobs[i].phase \in Live
            /\ p \in {"complete", "gone"}
  PROVE  /\ JobsGoOn /\ Len(jobs') = Len(jobs)
         /\ \A e \in Exit : Ended(i, p, e) => jobs'[i].exit = e
<1>1. /\ jobs' \in Seq(Job) /\ Len(jobs') = Len(jobs) /\ JobsPersist /\ ExitAtEnd'
      /\ \A j \in JobId : j # i => jobs'[j] = jobs[j]
      /\ jobs'[i].phase = p
      /\ Become(i, p) => jobs'[i].exit = jobs[i].exit
      /\ \A e \in Exit : Ended(i, p, e) => jobs'[i].exit = e
  <2>1. jobs \in Seq(Job) /\ ExitAtEnd
    BY Facts DEF GridsamInv
  <2> QED
    BY <2>1, ChangedJob
<1>2. JobId' = JobId
  BY <1>1 DEF JobId
<1>3. p \in {"complete", "gone"} => jobs'[i].exit # "none"
  <2>1. "none" \notin Exit
    BY DEF Exit
  <2> QED
    BY <1>1, <2>1
<1>4. JobsEnd'
  BY <1>1, <1>2, <1>3 DEF GridsamInv, JobsEnd
<1> QED
  BY <1>1, <1>4, Facts DEF JobsGoOn

LEMMA TerminateJobKeeps ==
  ASSUME GridsamInv, UNCHANGED adaptor, NEW t \in Thread, TerminateJob(t)
  PROVE  Keeps(t)
<1>1. PICK o : o = call[t].obj
  OBVIOUS
<1>2. call[t] # Idle /\ call[t].pc = "terminate" /\ UNCHANGED <<known, object, lock, last>>
  BY DEF TerminateJob, Idle
<1>3. PICK r : r = object[o]
  OBVIOUS
<1>4. /\ o \in Object /\ r \in ObjectNow /\ r # Absent /\ Sound(jobs, r)
      /\ Carries(jobs, call[t], r) /\ call[t].id \in 0 .. Len(jobs) /\ call[t].id \in JobId
      /\ call[t].id \in r.stood /\ r.id # 0 /\ "update" \in GridsamPC
  BY <1>1, <1>2, <1>3, Inside DEF Carries, Asks, GridsamPC
<1>5. CASE /\ jobs[call[t].id].phase \in Live
           /\ Ended(call[t].id, "complete", "canceled")
           /\ Carry(t, "update", "Canceled")
  <2>1. "complete" \in Phase /\ "canceled" \in Exit /\ "Canceled" \in State
    BY DEF Phase, Exit, State, Final
  <2>2. JobsGoOn /\ Len(jobs') = Len(jobs) /\ jobs'[call[t].id].exit = "canceled"
    BY <1>4, <1>5, <2>1, JobGoesOn
  <2>3. PICK k : k = Calling("update", o, call[t].id, "Canceled")
    OBVIOUS
  <2>4. k \in CallNow(GridsamPC) /\ k # Idle /\ k.obj = o /\ k.pc = "update" /\ k.id = call[t].id
        /\ k.state = "Canceled"
    BY <1>4, <2>1, <2>3, CallingParts
  <2>5. Carries(jobs', k, r)
    BY <1>4, <2>2, <2>4 DEF Carries, Told
  <2>6. Step(t, o, k, object[o])
    <3>1. call' = [call EXCEPT ![t] = k]
      BY <1>1, <1>2, <1>5, <2>3, InCall DEF GridsamInv
    <3> QED
      BY <1>2, <1>4, <3>1, Facts DEF Step
  <2>7. Effect(t, o, k, object[o])
    BY <1>1, <1>2, <1>3, <1>4, <2>2, <2>4, <2>5, <2>6, SameKeeps
  <2> QED
    BY <1>4, <2>7 DEF Keeps
<1>6. CASE /\ Shown(call[t].id)
           /\ Carry(t, "update", GridsamState(call[t].id))
           /\ UNCHANGED jobs
  <2>1. PICK state : state = GridsamState(call[t].id)
    OBVIOUS
  <2>2. state \in State /\ Told(jobs, state, r.stood)
    BY <1>4, <1>6, <2>1, StateTold
  <2>3. PICK k : k = Calling("update", o, call[t].id, state)
    OBVIOUS
  <2>4. call' = [call EXCEPT ![t] = k]
    BY <1>1, <1>2, <1>6, <2>1, <2>3, InCall DEF GridsamInv
  <2>5. k.pc = "update" /\ k.state = state /\ k.id = call[t].id
    BY <2>3 DEF Calling
  <2>6. Carries(jobs, k, r)
    BY <1>4, <2>2, <2>5 DEF Carries
  <2> QED
    BY <1>1, <1>2, <1>3, <1>4, <1>6, <2>2, <2>3, <2>4, <2>6, GoesOn
<1>7. CASE Return(t) /\ UNCHANGED jobs
  <2>1. Step(t, o, Idle, object[o])
    BY <1>2, <1>4, <1>7, Facts DEF Step, Return
  <2>2. Effect(t, o, Idle, object[o])
    BY <1>1, <1>2, <1>3, <1>4, <1>7, <2>1, JobsSame, SameKeeps
  <2> QED
    BY <1>4, <2>2 DEF Keeps
<1> QED
  BY <1>5, <1>6, <1>7 DEF TerminateJob

-----------------------------------------------------------------------------
(***************************************************************************)
(* The invariant.                                                          *)
(***************************************************************************)
LEMMA InitInv == Init => GridsamInv
<1> SUFFICES ASSUME Init PROVE GridsamInv
  OBVIOUS
<1>1. jobs = <<>> /\ JobId = {}
  BY DEF Init, ServiceInit, JobId
<1>2. ServiceTypes(GridsamPC) /\ ExitAtEnd /\ ObjectsInUse
  BY InitTypes DEF Init, ServiceInit
<1> QED
  BY <1>1, <1>2 DEF Init, ServiceInit, GridsamInv, JobsEnd, ObjectsSound, CallsSound

LEMMA ManagerKeeps ==
  ASSUME GridsamInv, UNCHANGED adaptor, ManagerStep({"active", "astray"}, {"zero", "positive"})
  PROVE  JobsGoOn /\ Len(jobs') = Len(jobs)
<1>1. PICK i \in JobId :
        \/ jobs[i].phase = "accepted" /\ Become(i, "active")
        \/ /\ jobs[i].phase \in {"active", "astray"}
           /\ \E p \in {"active", "astray"} \ {jobs[i].phase} : Become(i, p)
        \/ jobs[i].phase = "active" /\ \E e \in {"zero", "positive"} : Ended(i, "complete", e)
        \/ jobs[i].phase = "complete" /\ Become(i, "gone")
  BY Facts DEF ManagerStep
<1>2. jobs[i].phase # "accepted" /\ (jobs[i].phase \in Live => jobs[i].exit = "none")
  BY DEF GridsamInv, JobsEnd, ExitAtEnd
<1>3. CASE /\ jobs[i].phase \in {"active", "astray"}
           /\ \E p \in {"active", "astray"} \ {jobs[i].phase} : Become(i, p)
  <2>1. PICK p \in {"active", "astray"} : Become(i, p)
    BY <1>3
  <2>2. p \in Phase /\ p # "accepted" /\ p \notin {"complete", "gone"} /\ jobs[i].exit = "none"
    BY <1>2, <1>3 DEF Phase, Live
  <2> QED
    BY <2>1, <2>2, JobGoesOn
<1>4. CASE jobs[i].phase = "active" /\ \E e \in {"zero", "positive"} : Ended(i, "complete", e)
  <2>1. PICK e \in {"zero", "positive"} : Ended(i, "complete", e)
    BY <1>4
  <2>2. e \in Exit /\ "complete" \in Phase /\ jobs[i].phase \in Live
    BY <1>4 DEF Exit, Phase, Live
  <2> QED
    BY <2>1, <2>2, JobGoesOn
<1>5. CASE jobs[i].phase = "complete" /\ Become(i, "gone")
  <2>1. "gone" \in Phase /\ "gone" \notin Live /\ jobs[i].exit # "none"
    BY <1>5 DEF Phase, Live, GridsamInv, JobsEnd
  <2> QED
    BY <1>5, <2>1, JobGoesOn
<1> QED
  BY <1>1, <1>2, <1>3, <1>4, <1>5

LEMMA NextInv ==
  ASSUME GridsamInv, [Next]_vars
  PROVE  GridsamInv'
<1>1. ASSUME UNCHANGED <<adaptor, known, object, call, lock, last>>, JobsGoOn, Len(jobs') = Len(jobs)
      PROVE  GridsamInv'
  <2>1. JobId' = JobId
    BY <1>1 DEF JobId
  <2>2. ServiceTypes(GridsamPC)' /\ ObjectsInUse'
    BY <1>1, <2>1
    DEF GridsamInv, JobsGoOn, ServiceTypes, ObjectsInUse, JobId, ObjectNow, CallNow, Exclusive, Public
  <2>3. \A i \in JobId : jobs[i].exit # "none" => jobs'[i].exit = jobs[i].exit
    BY <1>1 DEF JobsGoOn, JobsPersist
  <2>4. ObjectsSound'
    <3>1. ASSUME NEW o \in Object, object[o] # Absent
          PROVE  Sound(jobs', object[o])
      <4>1. object[o].stood \subseteq JobId /\ Sound(jobs, object[o])
        BY <3>1, Facts DEF ObjectNow
      <4>2. Told(jobs', object[o].state, object[o].stood)
        BY <2>3, <4>1, ToldPersist DEF Sound
      <4> QED
        BY <4>1, <4>2 DEF Sound
    <3> QED
      BY <1>1, <3>1 DEF ObjectsSound
  <2>5. CallsSound'
    <3>1. ASSUME NEW t \in Thread, call[t] # Idle
          PROVE  Carries(jobs', call[t], object[call[t].obj])
      <4>1. PICK o : o = call[t].obj
        OBVIOUS
      <4>2. object[o].stood \subseteq JobId /\ Carries(jobs, call[t], object[o])
        BY <3>1, <4>1, Inside
      <4>3. Told(jobs', call[t].state, object[o].stood)
        BY <2>3, <4>2, ToldPersist DEF Carries
      <4> QED
        BY <4>1, <4>2, <4>3 DEF Carries
    <3> QED
      BY <1>1, <3>1 DEF CallsSound
  <2> QED
    BY <1>1, <2>2, <2>4, <2>5 DEF GridsamInv, JobsGoOn
<1>2. CASE UNCHANGED vars
  BY <1>1, <1>2, JobsSame DEF vars
<1>3. ASSUME NEW t \in Thread, Keeps(t), UNCHANGED adaptor
      PROVE  GridsamInv'
  BY <1>3, EffectKeeps DEF Keeps
<1>4. ASSUME UNCHANGED adaptor, ManagerStep({"active", "astray"}, {"zero", "positive"})
      PROVE  GridsamInv'
  BY <1>1, <1>4, ManagerKeeps DEF ManagerStep
<1>5. ASSUME UNCHANGED adaptor, NEW t \in Thread,
             \/ ReadState(t) \/ SubmitJob(t) \/ Status(t) \/ Adopt(t) \/ Commit(t)
             \/ Query(t) \/ Update(t) \/ TerminateJob(t)
             \/ \E o \in Object :
                 \/ CreateJob(t, o) \/ RunJob(t, o)
                 \/ \E i \in DOMAIN jobs : GetJob(t, o, i)
                 \/ Run(t, o) \/ GetState(t, o) \/ Cancel(t, o)
      PROVE  Keeps(t)
  BY <1>5, BeginKeeps, ReadStateKeeps, SubmitJobKeeps, StatusKeeps, AdoptKeeps, CommitKeeps,
     QueryKeeps, UpdateKeeps, TerminateJobKeeps
<1> QED
  BY <1>2, <1>3, <1>4, <1>5 DEF Next

(* The invariant of the gridsam adaptor holds in every state. *)
THEOREM Invariant == Spec => []GridsamInv
<1>1. Init => GridsamInv
  BY InitInv
<1>2. GridsamInv /\ [Next]_vars => GridsamInv'
  BY NextInv
<1> QED
  BY <1>1, <1>2, PTL DEF Spec

(* What the invariant says of the types and the objects. *)
LEMMA InvFacts == GridsamInv => TypeOK /\ ReportsFate /\ RunningHasId
<1> SUFFICES ASSUME GridsamInv PROVE TypeOK /\ ReportsFate /\ RunningHasId
  OBVIOUS
<1>1. TypeOK
  BY ServiceTypesOK DEF GridsamInv, TypeOK
<1>2. ASSUME NEW o \in Object, Public(o)
      PROVE  TellsFate(o) /\ (object[o].state \in {"Running", "Done"} => object[o].id # 0)
  <2>1. Sound(jobs, object[o])
    BY <1>2, Facts DEF Public, Absent
  <2> QED
    BY <2>1 DEF Sound, Told, TellsFate, FateOf, Final
<1> QED
  BY <1>1, <1>2 DEF ReportsFate, RunningHasId

(* Every variable of the gridsam adaptor keeps its type. *)
THEOREM TypeCorrect == Spec => []TypeOK
BY Invariant, InvFacts, PTL

(* A final state that an object remembers is the fate of a job it has stood *)
(* for, although get_state and a failed run write late what they have read. *)
THEOREM FateReported == Spec => []ReportsFate
BY Invariant, InvFacts, PTL

(* An object that says its job runs or is done has the id of a job. *)
THEOREM IdRemembered == Spec => []RunningHasId
BY Invariant, InvFacts, PTL
=============================================================================
