-------------------------- MODULE JobServiceProofs ---------------------------
(***************************************************************************)
(* What holds of the jobs, mutexes and calls of every job adaptor, for the *)
(* proofs about each of them.                                              *)
(***************************************************************************)
EXTENDS JobService, FiniteSetTheorems, SequenceTheorems, TLAPS

Phase == Live \cup {"accepted", "complete", "gone"}
Job   == [own : BOOLEAN, exit : Exit \cup {"none"}, phase : Phase]

(* A mutex has one holder at most. *)
Exclusive == \A m \in Mutex : \A t, u \in lock[m] : t = u

(* The types, with the ids bounded by the jobs there are.  The id of a call *)
(* that has a job to be submitted is 0.                                     *)
JobId     == 1 .. Len(jobs)
ObjectNow == [life : {"private", "public"}, state : State, id : 0 .. Len(jobs),
              stood : SUBSET JobId]
CallNow(pcs) == [pc : pcs, obj : Object, id : 0 .. Len(jobs), state : State]
ServiceTypes(pcs) ==
  /\ jobs \in Seq(Job)
  /\ Len(jobs) <= MaxJob
  /\ known \subseteq JobId
  /\ object \in [Object -> {Absent} \cup ObjectNow]
  /\ call \in [Thread -> {Idle} \cup CallNow(pcs)]
  /\ lock \in [Mutex -> SUBSET Thread]
  /\ Exclusive
  /\ last \in State

(* A job that goes on has no exit status yet. *)
ExitAtEnd == \A i \in JobId : jobs[i].phase \in Live \cup {"accepted"} => jobs[i].exit = "none"

(* No step takes jobs away, makes them somebody else's, or changes the exit *)
(* status of one that has ended.                                            *)
JobsPersist ==
  /\ Len(jobs) <= Len(jobs')
  /\ \A i \in JobId :
       /\ jobs'[i].own = jobs[i].own
       /\ jobs[i].exit # "none" => jobs'[i].exit = jobs[i].exit

(* A call works on an object that is there, and on a private one alone. *)
ObjectsInUse ==
  /\ \A t \in Thread : call[t] # Idle => object[call[t].obj] # Absent
  /\ \A t, u \in Thread :
       /\ call[t] # Idle /\ call[u] # Idle
       /\ call[t].obj = call[u].obj
       /\ ~Public(call[t].obj)
       => t = u

-----------------------------------------------------------------------------
LEMMA AtMostOne ==
  ASSUME NEW S, \A x, y \in S : x = y
  PROVE  Cardinality(S) <= 1
<1>1. CASE S = {}
  BY <1>1, FS_EmptySet
<1>2. ASSUME NEW x \in S
      PROVE  Cardinality(S) <= 1
  <2>1. S = {x}
    OBVIOUS
  <2> QED
    BY <2>1, FS_Singleton
<1> QED
  BY <1>1, <1>2

(* A set of jobs that has one member at most, in terms of its members. *)
LEMMA Several ==
  ASSUME NEW S \in SUBSET (1 .. MaxJob)
  PROVE  /\ Cardinality(S) \in Nat
         /\ Cardinality(S) > 1 <=> \E x, y \in S : x # y
<1>0. IsFiniteSet(1 .. MaxJob)
  <2>1. MaxJob \in Int
    BY JobServiceAssumption
  <2> QED
    BY <2>1, FS_Interval
<1>1. IsFiniteSet(S) /\ Cardinality(S) \in Nat
  BY <1>0, FS_Subset, FS_CardinalityType
<1>2. ASSUME NEW x \in S, NEW y \in S, x # y
      PROVE  Cardinality(S) > 1
  <2>1. Cardinality({x, y}) = 2
    <3>1. Cardinality({x}) = 1 /\ IsFiniteSet({x})
      BY FS_Singleton
    <3>2. {x, y} = {x} \cup {y} /\ y \notin {x}
      BY <1>2
    <3> QED
      BY <3>1, <3>2, FS_AddElement
  <2>2. Cardinality({x, y}) <= Cardinality(S)
    BY <1>1, FS_Subset, {x, y} \subseteq S
  <2> QED
    BY <1>1, <2>1, <2>2
<1>3. ASSUME \A x, y \in S : x = y
      PROVE  ~(Cardinality(S) > 1)
  <2>1. Cardinality(S) <= 1
    BY <1>3, AtMostOne
  <2> QED
    BY <1>1, <2>1
<1> QED
  BY <1>1, <1>2, <1>3

LEMMA ServiceTypesOK ==
  ASSUME NEW pcs, ServiceTypes(pcs)
  PROVE  ServiceTypeOK(pcs)
<1>1. 0 .. Len(jobs) \subseteq 0 .. MaxJob /\ JobId \subseteq 1 .. MaxJob
  BY JobServiceAssumption DEF ServiceTypes, JobId
<1>2. ObjectNow \subseteq JobObject
  BY <1>1 DEF ObjectNow, JobObject
<1>3. object \in [Object -> JobObject]
  BY <1>2 DEF ServiceTypes, JobObject
<1>4. CallNow(pcs) \subseteq [pc : pcs, obj : Object, id : 0 .. MaxJob, state : State]
  BY <1>1 DEF CallNow
<1>5. call \in [Thread -> {Idle} \cup [pc : pcs, obj : Object, id : 0 .. MaxJob, state : State]]
  BY <1>4 DEF ServiceTypes
<1>6. \A m \in Mutex : Cardinality(lock[m]) <= 1
  BY AtMostOne DEF ServiceTypes, Exclusive
<1> QED
  BY <1>1, <1>3, <1>5, <1>6 DEF ServiceTypes, ServiceTypeOK, Job, Phase

LEMMA InitTypes ==
  ASSUME NEW pcs, ServiceInit({<<>>, <<Foreign>>})
  PROVE  ServiceTypes(pcs) /\ ExitAtEnd /\ ObjectsInUse
<1>1. Foreign \in Job
  BY DEF Foreign, Job, Phase, Live, Exit
<1>2. jobs \in Seq(Job) /\ Len(jobs) <= MaxJob
  <2>1. CASE jobs = <<>>
    BY <2>1, JobServiceAssumption
  <2>2. CASE jobs = <<Foreign>>
    BY <1>1, <2>2, JobServiceAssumption
  <2> QED
    BY <2>1, <2>2 DEF ServiceInit
<1>3. ExitAtEnd
  BY DEF ServiceInit, ExitAtEnd, JobId, Foreign
<1>4. ServiceTypes(pcs)
  BY <1>2 DEF ServiceInit, ServiceTypes, JobId, Exclusive, State
<1> QED
  BY <1>3, <1>4 DEF ServiceInit, ObjectsInUse

-----------------------------------------------------------------------------
(***************************************************************************)
(* The resource manager.                                                   *)
(***************************************************************************)
LEMMA SubmittedJob ==
  ASSUME jobs \in Seq(Job), ExitAtEnd,
         NEW phase \in Live \cup {"accepted"}, Submitted(phase)
  PROVE  /\ jobs' \in Seq(Job)
         /\ Len(jobs') = Len(jobs) + 1 /\ Len(jobs') <= MaxJob
         /\ Len(jobs) \in Nat /\ NextId = Len(jobs) + 1
         /\ \A i \in JobId : jobs'[i] = jobs[i]
         /\ jobs'[NextId] = [own |-> TRUE, phase |-> phase, exit |-> "none"]
         /\ JobsPersist
         /\ ExitAtEnd'
<1> DEFINE new == [own |-> TRUE, phase |-> phase, exit |-> "none"]
<1>1. new \in Job
  BY DEF Job, Phase
<1>2. /\ jobs' = Append(jobs, new) /\ Len(jobs) < MaxJob
      /\ NextId = Len(jobs) + 1 /\ Len(jobs) \in Nat
  BY DEF Submitted, NextId
<1>3. jobs' \in Seq(Job) /\ Len(jobs') = Len(jobs) + 1
  BY <1>1, <1>2
<1>4. /\ \A i \in JobId : jobs'[i] = jobs[i]
      /\ jobs'[NextId] = new
  BY <1>1, <1>2 DEF JobId
<1>5. ExitAtEnd'
  BY <1>2, <1>3, <1>4 DEF ExitAtEnd, JobId
<1>6. JobsPersist
  BY <1>2, <1>3, <1>4 DEF JobsPersist, JobId
<1>7. Len(jobs') <= MaxJob
  BY <1>2, <1>3, JobServiceAssumption
<1> QED
  BY <1>2, <1>3, <1>4, <1>5, <1>6, <1>7

LEMMA ChangedJob ==
  ASSUME jobs \in Seq(Job), ExitAtEnd, NEW i \in JobId, NEW p \in Phase,
         \/ /\ Become(i, p)
            /\ p \in Live \cup {"accepted"} => jobs[i].exit = "none"
         \/ /\ \E e \in Exit : Ended(i, p, e)
            /\ jobs[i].phase \in Live
            /\ p \in {"complete", "gone"}
  PROVE  /\ jobs' \in Seq(Job)
         /\ Len(jobs') = Len(jobs)
         /\ \A j \in JobId : j # i => jobs'[j] = jobs[j]
         /\ jobs'[i].phase = p
         /\ Become(i, p) => jobs'[i].exit = jobs[i].exit
         /\ \A e \in Exit : Ended(i, p, e) => jobs'[i].exit = e
         /\ JobsPersist
         /\ ExitAtEnd'
<1>1. jobs[i] \in Job /\ i \in 1 .. Len(jobs) /\ Len(jobs) \in Nat
  BY DEF JobId
<1>2. PICK new \in Job :
        /\ jobs' = [jobs EXCEPT ![i] = new]
        /\ new.own = jobs[i].own
        /\ new.phase = p
        /\ jobs[i].exit # "none" => new.exit = jobs[i].exit
        /\ p \in Live \cup {"accepted"} => new.exit = "none"
  <2>1. CASE /\ Become(i, p)
             /\ p \in Live \cup {"accepted"} => jobs[i].exit = "none"
    <3>1. [jobs[i] EXCEPT !.phase = p] \in Job
      BY <1>1 DEF Job
    <3> QED
      BY <1>1, <2>1, <3>1 DEF Become, Job
  <2>2. ASSUME NEW e \in Exit, Ended(i, p, e), jobs[i].phase \in Live, p \in {"complete", "gone"}
        PROVE  \E new \in Job :
                  /\ jobs' = [jobs EXCEPT ![i] = new]
                  /\ new.own = jobs[i].own
                  /\ new.phase = p
                  /\ jobs[i].exit # "none" => new.exit = jobs[i].exit
                  /\ p \in Live \cup {"accepted"} => new.exit = "none"
    <3> DEFINE new == [jobs[i] EXCEPT !.phase = p, !.exit = e]
    <3>1. new \in Job /\ new.own = jobs[i].own /\ new.phase = p
      BY <1>1 DEF Job
    <3>2. jobs[i].exit = "none"
      BY <2>2 DEF ExitAtEnd
    <3>3. p \notin Live \cup {"accepted"}
      BY <2>2 DEF Live
    <3>4. jobs' = [jobs EXCEPT ![i] = new]
      BY <1>1, <2>2 DEF Ended, Job
    <3> QED
      BY <3>1, <3>2, <3>3, <3>4
  <2> QED
    BY <2>1, <2>2
<1>3. /\ jobs' \in Seq(Job) /\ Len(jobs') = Len(jobs)
      /\ \A j \in JobId : j # i => jobs'[j] = jobs[j]
      /\ jobs'[i] = new
  BY <1>1, <1>2, ExceptSeq DEF JobId
<1>4. /\ Become(i, p) => jobs'[i].exit = jobs[i].exit
      /\ \A e \in Exit : Ended(i, p, e) => jobs'[i].exit = e
  BY <1>1 DEF Become, Ended, Job
<1>5. ExitAtEnd'
  BY <1>2, <1>3 DEF ExitAtEnd, JobId
<1> QED
  BY <1>1, <1>2, <1>3, <1>4, <1>5 DEF JobsPersist

(* What the resource manager does by itself. *)
LEMMA ManagedJob ==
  ASSUME jobs \in Seq(Job), ExitAtEnd, NEW i \in JobId,
         \/ jobs[i].phase = "accepted" /\ Become(i, "active")
         \/ jobs[i].phase \in Live /\ \E p \in Live \ {jobs[i].phase} : Become(i, p)
         \/ jobs[i].phase = "active" /\ \E e \in {"zero", "positive"} : Ended(i, "complete", e)
         \/ jobs[i].phase = "complete" /\ Become(i, "gone")
  PROVE  jobs' \in Seq(Job) /\ Len(jobs') = Len(jobs) /\ ExitAtEnd'
<1>1. CASE jobs[i].phase \in Live \cup {"accepted"} /\ \E p \in Live : Become(i, p)
  <2>1. PICK p \in Live : Become(i, p)
    BY <1>1
  <2>2. p \in Phase /\ jobs[i].exit = "none"
    BY <1>1 DEF Phase, ExitAtEnd
  <2> QED
    BY <2>1, <2>2, ChangedJob
<1>2. CASE jobs[i].phase = "active" /\ \E e \in {"zero", "positive"} : Ended(i, "complete", e)
  <2>1. PICK e \in {"zero", "positive"} : Ended(i, "complete", e)
    BY <1>2
  <2>2. e \in Exit /\ "complete" \in Phase /\ jobs[i].phase \in Live
    BY <1>2 DEF Exit, Phase, Live
  <2> QED
    BY <2>1, <2>2, ChangedJob
<1>3. CASE Become(i, "gone")
  <2>1. "gone" \in Phase /\ "gone" \notin Live \cup {"accepted"}
    BY DEF Phase, Live
  <2> QED
    BY <1>3, <2>1, ChangedJob
<1>4. "active" \in Live
  BY DEF Live
<1> QED
  BY <1>1, <1>2, <1>3, <1>4

-----------------------------------------------------------------------------
(***************************************************************************)
(* Mutexes, calls and objects.                                             *)
(***************************************************************************)
LEMMA LockTypes ==
  ASSUME lock \in [Mutex -> SUBSET Thread], Exclusive, NEW t \in Thread,
         \/ UNCHANGED lock
         \/ Release(t)
         \/ \E m \in Mutex : Acquire(m, t)
  PROVE  /\ lock' \in [Mutex -> SUBSET Thread]
         /\ Exclusive'
         /\ \A m \in Mutex : lock'[m] \subseteq lock[m] \cup {t}
         /\ \A m \in Mutex : lock[m] \ {t} \subseteq lock'[m]
         /\ Release(t) => \A m \in Mutex : t \notin lock'[m]
         /\ \A m \in Mutex : Acquire(m, t) => lock'[m] = {t} /\ lock[m] \subseteq {t}
<1>1. CASE UNCHANGED lock
  BY <1>1 DEF Exclusive, Release, Acquire, Available
<1>2. CASE Release(t)
  BY <1>2 DEF Exclusive, Release, Acquire, Available
<1>3. ASSUME NEW m \in Mutex, Acquire(m, t)
      PROVE  /\ lock' \in [Mutex -> SUBSET Thread]
             /\ Exclusive'
             /\ \A n \in Mutex : lock'[n] \subseteq lock[n] \cup {t}
             /\ \A n \in Mutex : lock[n] \ {t} \subseteq lock'[n]
  BY <1>3 DEF Exclusive, Acquire, Available
<1> QED
  BY <1>1, <1>2, <1>3 DEF Release, Acquire, Available

(* The call of t becomes k and the object o becomes x. *)
Step(t, o, k, x) ==
  /\ call' = [call EXCEPT ![t] = k]
  /\ object' = [object EXCEPT ![o] = x]

LEMMA StepTypes ==
  ASSUME NEW pcs, ServiceTypes(pcs), ObjectsInUse,
         NEW t \in Thread, NEW o \in Object,
         NEW k \in {Idle} \cup CallNow(pcs)', NEW x \in {Absent} \cup ObjectNow',
         Step(t, o, k, x),
         jobs' \in Seq(Job), Len(jobs) <= Len(jobs'), Len(jobs') <= MaxJob,
         known' \subseteq known \cup JobId',
         lock' \in [Mutex -> SUBSET Thread], Exclusive',
         last' \in State,
         call[t] # Idle => call[t].obj = o,
         k # Idle => k.obj = o /\ x # Absent,
         call[t] = Idle => object[o] = Absent \/ Public(o),
         x = Absent => k = Idle /\ ~Public(o),
         x # Absent /\ x.life # "public" => ~Public(o)
  PROVE  ServiceTypes(pcs)' /\ ObjectsInUse'
<1>1. JobId \subseteq JobId' /\ 0 .. Len(jobs) \subseteq 0 .. Len(jobs')
  BY DEF ServiceTypes, JobId
<1>2. /\ ObjectNow \subseteq ObjectNow'
      /\ CallNow(pcs) \subseteq CallNow(pcs)'
  BY <1>1 DEF ObjectNow, CallNow
<1>3. /\ object' \in [Object -> {Absent} \cup ObjectNow']
      /\ call' \in [Thread -> {Idle} \cup CallNow(pcs)']
  BY <1>2 DEF ServiceTypes, Step
<1>4. ServiceTypes(pcs)'
  BY <1>1, <1>3 DEF ServiceTypes
<1>5. /\ object'[o] = x /\ \A p \in Object \ {o} : object'[p] = object[p]
      /\ call'[t] = k /\ \A u \in Thread \ {t} : call'[u] = call[u]
  BY DEF ServiceTypes, Step
<1>6. ASSUME NEW u \in Thread, call'[u] # Idle
      PROVE  object'[call'[u].obj] # Absent
  <2>1. CASE u = t
    BY <1>5, <1>6, <2>1
  <2>2. CASE u # t
    <3>1. call'[u] = call[u] /\ object[call[u].obj] # Absent
      BY <1>5, <1>6, <2>2 DEF ObjectsInUse
    <3>2. call[u].obj \in Object
      BY <1>5, <1>6, <2>2 DEF ServiceTypes, CallNow
    <3>3. CASE call[u].obj = o
      BY <1>5, <1>6, <2>2, <3>1, <3>3 DEF ObjectsInUse
    <3> QED
      BY <1>5, <3>1, <3>2, <3>3
  <2> QED
    BY <2>1, <2>2
<1>7. ASSUME NEW u \in Thread, NEW v \in Thread,
             call'[u] # Idle, call'[v] # Idle, call'[u].obj = call'[v].obj,
             object'[call'[u].obj].life # "public"
      PROVE  u = v
  <2>1. CASE call'[u].obj # o
    <3>1. u # t /\ v # t
      BY <1>5, <1>7, <2>1
    <3>2. call[u].obj \in Object
      BY <1>5, <1>7, <3>1 DEF ServiceTypes, CallNow
    <3> QED
      BY <1>5, <1>7, <2>1, <3>1, <3>2 DEF ObjectsInUse, Public
  <2>2. CASE call'[u].obj = o
    <3>1. x # Absent
      BY <1>5, <1>6, <1>7, <2>2
    <3>2. ~Public(o)
      BY <1>5, <1>7, <2>2, <3>1 DEF Public
    <3>3. ASSUME NEW w \in Thread, call'[w] # Idle, call'[w].obj = o, w # t
          PROVE  FALSE
      BY <1>5, <3>2, <3>3 DEF ObjectsInUse
    <3> QED
      BY <1>7, <2>2, <3>3
  <2> QED
    BY <2>1, <2>2
<1> QED
  BY <1>4, <1>6, <1>7 DEF ObjectsInUse, Public

LEMMA StepValues ==
  ASSUME NEW pcs, ServiceTypes(pcs), NEW t \in Thread, NEW o \in Object, NEW k, NEW x,
         Step(t, o, k, x)
  PROVE  /\ call'[t] = k /\ \A u \in Thread \ {t} : call'[u] = call[u]
         /\ object'[o] = x /\ \A p \in Object \ {o} : object'[p] = object[p]
BY DEF ServiceTypes, Step

(* A thread inside a call. *)
LEMMA InCall ==
  ASSUME NEW pcs, ServiceTypes(pcs), ObjectsInUse, NEW t \in Thread, call[t] # Idle
  PROVE  /\ call[t] \in CallNow(pcs)
         /\ call[t].obj \in Object
         /\ object[call[t].obj] \in ObjectNow
         /\ \A pc : Goto(t, pc) =>
              call' = [call EXCEPT ![t] = Calling(pc, call[t].obj, call[t].id, call[t].state)]
         /\ \A pc, s : Carry(t, pc, s) =>
              call' = [call EXCEPT ![t] = Calling(pc, call[t].obj, call[t].id, s)]
         /\ Throw(t) =>
              /\ Release(t)
              /\ Step(t, call[t].obj, Idle,
                      IF Public(call[t].obj) THEN object[call[t].obj] ELSE Absent)
<1>1. call[t] \in CallNow(pcs)
  BY DEF ServiceTypes
<1>2. call[t].obj \in Object
  BY <1>1 DEF CallNow
<1>3. object[call[t].obj] \in ObjectNow
  BY <1>2 DEF ServiceTypes, ObjectsInUse
<1>4. ASSUME NEW pc, Goto(t, pc)
      PROVE  call' = [call EXCEPT ![t] = Calling(pc, call[t].obj, call[t].id, call[t].state)]
  <2>1. [call[t] EXCEPT !.pc = pc] = Calling(pc, call[t].obj, call[t].id, call[t].state)
    BY <1>1 DEF Calling, CallNow
  <2> QED
    BY <1>4, <2>1 DEF Goto
<1>5. ASSUME NEW pc, NEW s, Carry(t, pc, s)
      PROVE  call' = [call EXCEPT ![t] = Calling(pc, call[t].obj, call[t].id, s)]
  <2>1. [call[t] EXCEPT !.pc = pc] = Calling(pc, call[t].obj, call[t].id, call[t].state)
    BY <1>1 DEF Calling, CallNow
  <2>2. [Calling(pc, call[t].obj, call[t].id, call[t].state) EXCEPT !.state = s]
          = Calling(pc, call[t].obj, call[t].id, s)
    BY DEF Calling
  <2> QED
    BY <1>5, <2>1, <2>2 DEF Carry, ServiceTypes
<1>6. Throw(t) =>
        /\ Release(t)
        /\ Step(t, call[t].obj, Idle,
                IF Public(call[t].obj) THEN object[call[t].obj] ELSE Absent)
  BY <1>2 DEF ServiceTypes, Throw, Return, Step
<1> QED
  BY <1>1, <1>2, <1>3, <1>4, <1>5, <1>6

(* What an object remembers, and when it is made to stand for a job. *)
Memory(life, state, i, stood) == [life |-> life, state |-> state, id |-> i, stood |-> stood]

LEMMA MemoryNow ==
  ASSUME Len(jobs) \in Nat
  PROVE  /\ \A r \in ObjectNow : r = Memory(r.life, r.state, r.id, r.stood)
         /\ \A life \in {"private", "public"}, s \in State, i \in 0 .. Len(jobs), S \in SUBSET JobId :
              /\ Memory(life, s, i, S) \in ObjectNow
              /\ Memory(life, s, i, S) # Absent
         /\ \A life \in {"private", "public"} :
              /\ NewObject(life) = Memory(life, "New", 0, {})
              /\ NewObject(life) \in ObjectNow /\ NewObject(life) # Absent
         /\ Absent \notin ObjectNow
<1>1. \A r \in ObjectNow : r = Memory(r.life, r.state, r.id, r.stood)
  BY DEF Memory, ObjectNow
<1>2. \A life \in {"private", "public"}, s \in State, i \in 0 .. Len(jobs), S \in SUBSET JobId :
        Memory(life, s, i, S) \in ObjectNow
  BY DEF Memory, ObjectNow
<1>3. Absent \notin ObjectNow
  BY DEF Absent, ObjectNow
<1>4. \A life \in {"private", "public"} : NewObject(life) = Memory(life, "New", 0, {})
  BY DEF NewObject, Memory
<1>5. "New" \in State /\ 0 \in 0 .. Len(jobs) /\ {} \in SUBSET JobId
  BY DEF State
<1> QED
  BY <1>1, <1>2, <1>3, <1>4, <1>5

LEMMA StandForMemory ==
  ASSUME NEW o \in Object, object[o] \in ObjectNow, NEW i
  PROVE  StandFor(o, i)
           = Memory(object[o].life, object[o].state, i, object[o].stood \cup {i})
<1> DEFINE r == object[o]
           q == Memory(r.life, r.state, i, r.stood)
<1>1. [r EXCEPT !.id = i] = q
  BY DEF ObjectNow, Memory
<1>2. [q EXCEPT !.stood = @ \cup {i}] = Memory(r.life, r.state, i, r.stood \cup {i})
  BY DEF Memory
<1> QED
  BY <1>1, <1>2 DEF StandFor

(* What becomes of the memory of an object. *)
LEMMA MemoryParts ==
  ASSUME NEW life, NEW state, NEW i, NEW stood
  PROVE  /\ Memory(life, state, i, stood).life = life
         /\ Memory(life, state, i, stood).state = state
         /\ Memory(life, state, i, stood).id = i
         /\ Memory(life, state, i, stood).stood = stood
BY DEF Memory

LEMMA MemoryTyped ==
  ASSUME Len(jobs) \in Nat, NEW r \in ObjectNow,
         NEW life \in {"private", "public"}, NEW s \in State, NEW i \in JobId
  PROVE  /\ Memory(life, s, i, r.stood \cup {i}) \in ObjectNow
         /\ Memory(life, s, i, r.stood \cup {i}) # Absent
         /\ Memory(life, s, r.id, r.stood) \in ObjectNow
         /\ Memory(life, s, r.id, r.stood) # Absent
<1>1. /\ r.id \in 0 .. Len(jobs) /\ r.stood \in SUBSET JobId
      /\ i \in 0 .. Len(jobs) /\ r.stood \cup {i} \in SUBSET JobId
  BY DEF ObjectNow, JobId
<1> QED
  BY <1>1, MemoryNow

LEMMA MemoryExcept ==
  ASSUME Len(jobs) \in Nat, NEW o \in Object, object[o] \in ObjectNow,
         NEW life \in {"private", "public"}, NEW s \in State, NEW i \in JobId
  PROVE  LET r == object[o]
         IN  /\ r.life \in {"private", "public"} /\ r.state \in State
             /\ [StandFor(o, i) EXCEPT !.life = life] = Memory(life, r.state, i, r.stood \cup {i})
             /\ [StandFor(o, i) EXCEPT !.state = "Unknown"]
                  = Memory(r.life, "Unknown", i, r.stood \cup {i})
             /\ [r EXCEPT !.state = s] = Memory(r.life, s, r.id, r.stood)
             /\ [[r EXCEPT !.state = s] EXCEPT !.life = life] = Memory(life, s, r.id, r.stood)
<1> DEFINE r == object[o]
<1>1. r.life \in {"private", "public"} /\ r.state \in State
  BY DEF ObjectNow
<1>2. StandFor(o, i) = Memory(r.life, r.state, i, r.stood \cup {i})
  BY StandForMemory
<1>3. [r EXCEPT !.state = s] = Memory(r.life, s, r.id, r.stood)
  BY DEF Memory, ObjectNow
<1>4. [Memory(r.life, s, r.id, r.stood) EXCEPT !.life = life] = Memory(life, s, r.id, r.stood)
  BY DEF Memory
<1>5. PICK S : S = r.stood \cup {i}
  OBVIOUS
<1>6. [Memory(r.life, r.state, i, S) EXCEPT !.life = life] = Memory(life, r.state, i, S)
  BY DEF Memory
<1>7. [Memory(r.life, r.state, i, S) EXCEPT !.state = "Unknown"]
        = Memory(r.life, "Unknown", i, S)
  BY DEF Memory
<1> QED
  BY <1>1, <1>2, <1>3, <1>4, <1>5, <1>6, <1>7

-----------------------------------------------------------------------------
(***************************************************************************)
(* The state diagram.                                                      *)
(***************************************************************************)
InDiagram(r) ==
  IF r.life # "public" THEN "absent"
  ELSE IF Cardinality(r.stood) > 1 THEN "disputed"
  ELSE r.state

LEMMA DiagramOfOne ==
  ASSUME NEW pcs, ServiceTypes(pcs), NEW t \in Thread, NEW o \in Object, NEW k, NEW x,
         Step(t, o, k, x), UNCHANGED adaptor,
         adaptor \in {"pbspro", "torque", "lsf"} =>
           \/ InDiagram(x) = InDiagram(object[o])
           \/ InDiagram(x) \in Diagram!After(InDiagram(object[o]))
  PROVE  [Diagram!Next]_Remembered
<1>1. CASE adaptor \notin {"pbspro", "torque", "lsf"}
  BY <1>1 DEF Remembered, Unremembered
<1>2. CASE adaptor \in {"pbspro", "torque", "lsf"}
  <2>1. object'[o] = x /\ \A p \in Object \ {o} : object'[p] = object[p]
    BY StepValues
  <2>2. /\ Remembered = [p \in Object |-> InDiagram(object[p])]
        /\ Remembered' = [p \in Object |-> InDiagram(object'[p])]
    BY <1>2 DEF Remembered, InDiagram, Public
  <2>3. Remembered' = [Remembered EXCEPT ![o] = InDiagram(x)]
    BY <2>1, <2>2
  <2>4. Remembered[o] = InDiagram(object[o]) /\ Remembered'[o] = InDiagram(x)
    BY <2>1, <2>2
  <2>5. CASE InDiagram(x) = InDiagram(object[o])
    <3>1. Remembered' = Remembered
      BY <2>1, <2>2, <2>5
    <3> QED
      BY <3>1
  <2>6. CASE InDiagram(x) \in Diagram!After(InDiagram(object[o]))
    BY <2>3, <2>4, <2>6 DEF Diagram!Next
  <2> QED
    BY <1>2, <2>5, <2>6
<1> QED
  BY <1>1, <1>2

(* An object that has stood for several jobs, and one that comes to stand   *)
(* for another job.                                                        *)
LEMMA StandMore ==
  ASSUME Len(jobs) \in Nat, Len(jobs) <= MaxJob, NEW S \in SUBSET JobId, NEW i \in JobId,
         NEW T, T = S \cup {i}
  PROVE  /\ Cardinality(S) > 1 => Cardinality(T) > 1
         /\ Cardinality(S) > 1 <=> \E x, y \in S : x # y
         /\ Cardinality(T) > 1 <=> \E x, y \in T : x # y
<1>1. JobId \subseteq 1 .. MaxJob
  BY JobServiceAssumption DEF JobId
<1>2. S \in SUBSET (1 .. MaxJob) /\ T \in SUBSET (1 .. MaxJob)
  BY <1>1
<1>3. Cardinality(S) > 1 <=> \E x, y \in S : x # y
  BY <1>2, Several
<1>4. Cardinality(T) > 1 <=> \E x, y \in T : x # y
  BY <1>2, Several
<1> QED
  BY <1>3, <1>4
=============================================================================
