----------------------------- MODULE JobsProofs ------------------------------
(***************************************************************************)
(* Theorems about all the job adaptors, as MCJobs brings them together:    *)
(* what BatchJobProofs and GridsamJobProofs prove, carried over, and       *)
(* proofs for the aws, drmaa and lsf adaptors.                             *)
(***************************************************************************)
EXTENDS MCJobs, JobServiceProofs

-----------------------------------------------------------------------------
(***************************************************************************)
(* The aws adaptor.                                                        *)
(***************************************************************************)
ServiceNow ==
  [pc : {"describe", "ssh", "create", "prepare", "ready"}, how : {"started", "id", "host"},
   vm_id : 0 .. Len(vms), vm_ip : 0 .. Len(vms), js : 0 .. Len(vms), meant : 1 .. Len(vms)]
CloudTypes ==
  /\ vms \in Seq(VM)
  /\ Len(vms) <= MaxVM
  /\ service \in [Service -> {NoService} \cup ServiceNow]
  /\ keepalive \in BOOLEAN

(* A service that has started its instance has its id from then on; one that *)
(* has an address has that of the instance it means, and submits to it.      *)
Means(r) ==
  /\ r.how = "started" => r.vm_id = r.meant
  /\ r.how = "started" /\ r.pc # "describe" => r.vm_ip = r.meant
  /\ r.how = "id" => r.vm_ip = r.meant
  /\ r.pc \in {"prepare", "ready"} => r.js = r.vm_ip
ServicesMean == \A s \in Service : service[s] # NoService => Means(service[s])

(* An instance runs for the service that has started it. *)
Accounted(v) ==
  \/ vms[v].phase = "terminated"
  \/ vms[v].failed
  \/ \E s \in Service :
       service[s] # NoService /\ service[s].how = "started" /\ service[s].meant = v
AllAccounted == ~keepalive => \A v \in 1 .. Len(vms) : Accounted(v)

CloudInv == CloudTypes /\ ServicesMean /\ AllAccounted

(* The instances persist: a step changes one of them, or adds one. *)
InstancesPersist ==
  /\ Len(vms) <= Len(vms')
  /\ \A v \in 1 .. Len(vms) :
       /\ vms[v].phase = "terminated" => vms'[v].phase = "terminated"
       /\ vms[v].failed => vms'[v].failed

LEMMA CloudStepKeeps ==
  ASSUME CloudInv, UNCHANGED keepalive, NEW s \in Service, NEW x \in {NoService} \cup ServiceNow',
         service' = [service EXCEPT ![s] = x],
         vms' \in Seq(VM), Len(vms') <= MaxVM, InstancesPersist,
         x # NoService => Means(x),
         ~keepalive =>
           /\ service[s] # NoService /\ service[s].how = "started" =>
                \/ x # NoService /\ x.how = "started" /\ x.meant = service[s].meant
                \/ vms'[service[s].meant].phase = "terminated"
                \/ vms'[service[s].meant].failed
           /\ \A v \in 1 .. Len(vms') : v \in 1 .. Len(vms) \/ vms'[v].failed \/
                (x # NoService /\ x.how = "started" /\ x.meant = v)
  PROVE  CloudInv'
<1>1. /\ service'[s] = x /\ \A r \in Service \ {s} : service'[r] = service[r]
      /\ Len(vms) \in Nat /\ Len(vms') \in Nat
  BY DEF CloudInv, CloudTypes
<1>2. ServiceNow \subseteq ServiceNow'
  BY <1>1 DEF ServiceNow, InstancesPersist
<1>3. CloudTypes'
  BY <1>2 DEF CloudInv, CloudTypes
<1>4. ServicesMean'
  BY <1>1 DEF CloudInv, ServicesMean
<1>5. AllAccounted'
  <2>1. ASSUME ~keepalive, NEW v \in 1 .. Len(vms')
        PROVE  Accounted(v)'
    <3>1. CASE v \in 1 .. Len(vms)
      <4>1. CASE vms[v].phase = "terminated" \/ vms[v].failed
        BY <3>1, <4>1 DEF InstancesPersist, Accounted
      <4>2. CASE \E r \in Service :
                   service[r] # NoService /\ service[r].how = "started" /\ service[r].meant = v
        <5>1. PICK r \in Service :
                service[r] # NoService /\ service[r].how = "started" /\ service[r].meant = v
          BY <4>2
        <5>2. CASE r = s
          BY <1>1, <2>1, <5>1, <5>2 DEF Accounted
        <5>3. CASE r # s
          BY <1>1, <5>1, <5>3 DEF Accounted
        <5> QED
          BY <5>2, <5>3
      <4> QED
        BY <2>1, <3>1, <4>1, <4>2 DEF CloudInv, AllAccounted, Accounted
    <3>2. CASE v \notin 1 .. Len(vms)
      BY <1>1, <2>1, <3>2 DEF Accounted
    <3> QED
      BY <3>1, <3>2
  <2> QED
    BY <2>1 DEF AllAccounted
<1> QED
  BY <1>3, <1>4, <1>5 DEF CloudInv

(* A service that is being constructed or ready. *)
LEMMA ServiceFacts ==
  ASSUME CloudInv, NEW s \in Service, service[s].pc # "absent"
  PROVE  /\ service[s] # NoService /\ service[s] \in ServiceNow /\ Means(service[s])
         /\ service[s].meant \in 1 .. Len(vms) /\ Len(vms) \in Nat /\ Len(vms) <= MaxVM
         /\ vms \in Seq(VM) /\ vms[service[s].meant] \in VM
         /\ \A pc \in {"ssh", "create", "prepare", "ready"} :
              [service[s] EXCEPT !.pc = pc]
                = [pc |-> pc, how |-> service[s].how, vm_id |-> service[s].vm_id,
                   vm_ip |-> service[s].vm_ip, js |-> service[s].js, meant |-> service[s].meant]
<1>1. service[s] # NoService
  BY DEF NoService
<1>2. service[s] \in ServiceNow /\ Means(service[s])
  BY <1>1 DEF CloudInv, CloudTypes, ServicesMean
<1>3. service[s].meant \in 1 .. Len(vms) /\ Len(vms) \in Nat
  BY <1>2 DEF ServiceNow, CloudInv, CloudTypes
<1>4. vms \in Seq(VM) /\ vms[service[s].meant] \in VM
  BY <1>3 DEF CloudInv, CloudTypes
<1> QED
  BY <1>1, <1>2, <1>3, <1>4 DEF ServiceNow, CloudInv, CloudTypes

(* An instance fails, or goes from one phase to the next. *)
LEMMA InstanceChanges ==
  ASSUME CloudTypes, NEW v \in 1 .. Len(vms), NEW y \in VM, vms' = [vms EXCEPT ![v] = y],
         vms[v].phase = "terminated" => y.phase = "terminated",
         vms[v].failed => y.failed
  PROVE  vms' \in Seq(VM) /\ Len(vms') = Len(vms) /\ InstancesPersist /\ vms'[v] = y
<1>1. vms \in Seq(VM) /\ Len(vms) \in Nat
  BY DEF CloudTypes
<1>2. vms' \in Seq(VM) /\ Len(vms') = Len(vms)
  BY <1>1
<1>3. vms'[v] = y /\ \A w \in 1 .. Len(vms) : w # v => vms'[w] = vms[w]
  BY <1>1
<1> QED
  BY <1>1, <1>2, <1>3 DEF InstancesPersist

LEMMA InstanceFails ==
  ASSUME CloudTypes, NEW v \in 1 .. Len(vms), vms' = [vms EXCEPT ![v].failed = TRUE]
  PROVE  vms' \in Seq(VM) /\ Len(vms') = Len(vms) /\ InstancesPersist /\ vms'[v].failed
<1>1. vms[v] \in VM
  BY DEF CloudTypes
<1>2. PICK y : y = [vms[v] EXCEPT !.failed = TRUE]
  OBVIOUS
<1>3. y \in VM /\ y.failed /\ y.phase = vms[v].phase
  BY <1>1, <1>2 DEF VM
<1>4. vms' = [vms EXCEPT ![v] = y]
  BY <1>2
<1>5. vms' \in Seq(VM) /\ Len(vms') = Len(vms) /\ InstancesPersist /\ vms'[v] = y
  BY <1>3, <1>4, InstanceChanges
<1> QED
  BY <1>3, <1>5

LEMMA InstanceMoves ==
  ASSUME CloudTypes, NEW v \in 1 .. Len(vms), NEW p \in {"running", "terminated"},
         vms[v].phase # "terminated" \/ p = "terminated",
         vms' = [vms EXCEPT ![v].phase = p]
  PROVE  vms' \in Seq(VM) /\ Len(vms') = Len(vms) /\ InstancesPersist /\ vms'[v].phase = p
<1>1. vms[v] \in VM
  BY DEF CloudTypes
<1>2. PICK y : y = [vms[v] EXCEPT !.phase = p]
  OBVIOUS
<1>3. y \in VM /\ y.failed = vms[v].failed /\ y.phase = p
  BY <1>1, <1>2 DEF VM
<1>4. vms' = [vms EXCEPT ![v] = y]
  BY <1>2
<1> QED
  BY <1>3, <1>4, InstanceChanges

LEMMA InstancesStay ==
  ASSUME CloudTypes, UNCHANGED vms
  PROVE  vms' \in Seq(VM) /\ Len(vms') = Len(vms) /\ InstancesPersist
BY DEF CloudTypes, InstancesPersist

(* A constructor that goes on stands for the same instance. *)
LEMMA ProceedKeeps ==
  ASSUME CloudInv, UNCHANGED <<vms, keepalive>>, NEW s \in Service, service[s].pc # "absent",
         NEW x, x = [service[s] EXCEPT !.pc = x.pc, !.vm_ip = x.vm_ip, !.js = x.js],
         x.pc \in {"ssh", "create", "prepare", "ready"},
         x.vm_ip \in 0 .. Len(vms), x.js \in 0 .. Len(vms), Means(x),
         service' = [service EXCEPT ![s] = x]
  PROVE  CloudInv'
<1>1. /\ service[s] # NoService /\ service[s] \in ServiceNow /\ Len(vms) \in Nat
      /\ vms \in Seq(VM) /\ Len(vms) <= MaxVM
  BY ServiceFacts
<1>2. x \in ServiceNow /\ x.how = service[s].how /\ x.meant = service[s].meant
  BY <1>1 DEF ServiceNow
<1>3. x # NoService
  BY DEF NoService
<1>4. ServiceNow' = ServiceNow
  BY DEF ServiceNow
<1>5. vms' \in Seq(VM) /\ Len(vms') = Len(vms) /\ InstancesPersist
  BY InstancesStay DEF CloudInv
<1> QED
  BY <1>1, <1>2, <1>3, <1>4, <1>5, CloudStepKeeps

LEMMA ThrowsKeeps ==
  ASSUME CloudInv, UNCHANGED keepalive, NEW s \in Service, service[s].pc # "absent",
         ConstructorThrows(s)
  PROVE  CloudInv'
<1>1. /\ service[s] # NoService /\ service[s] \in ServiceNow
      /\ service[s].meant \in 1 .. Len(vms) /\ Len(vms) <= MaxVM
  BY ServiceFacts
<1>2. service' = [service EXCEPT ![s] = NoService]
  BY DEF ConstructorThrows
<1>3. CASE service[s].how = "started"
  <2>1. /\ vms' \in Seq(VM) /\ Len(vms') = Len(vms) /\ InstancesPersist
        /\ vms'[service[s].meant].failed
    BY <1>1, <1>3, InstanceFails DEF CloudInv, ConstructorThrows
  <2> QED
    BY <1>1, <1>2, <2>1, CloudStepKeeps
<1>4. CASE service[s].how # "started"
  <2>1. vms' \in Seq(VM) /\ Len(vms') = Len(vms) /\ InstancesPersist
    BY <1>4, InstancesStay DEF CloudInv, ConstructorThrows
  <2> QED
    BY <1>1, <1>2, <1>4, <2>1, CloudStepKeeps
<1> QED
  BY <1>3, <1>4

LEMMA StartInstanceKeeps ==
  ASSUME CloudInv, UNCHANGED keepalive, NEW s \in Service, StartInstance(s)
  PROVE  CloudInv'
<1>1. /\ vms \in Seq(VM) /\ Len(vms) \in Nat /\ Len(vms) < MaxVM /\ service[s] = NoService
      /\ MaxVM \in Nat
  BY CloudAssumption DEF CloudInv, CloudTypes, StartInstance
<1>2. PICK told \in BOOLEAN :
        /\ vms' = Append(vms, [phase |-> "pending", failed |-> ~told])
        /\ service' = [service EXCEPT ![s] =
               IF told THEN Constructing("describe", "started", Len(vms) + 1, 0, Len(vms) + 1)
               ELSE NoService]
  BY DEF StartInstance
<1>3. PICK y : y = [phase |-> "pending", failed |-> ~told]
  OBVIOUS
<1>4. y \in VM /\ y.failed = ~told /\ vms' = Append(vms, y)
  BY <1>2, <1>3 DEF VM
<1>5. /\ vms' \in Seq(VM) /\ Len(vms') = Len(vms) + 1 /\ vms'[Len(vms) + 1] = y
      /\ \A v \in 1 .. Len(vms) : vms'[v] = vms[v]
  BY <1>1, <1>4
<1>6. InstancesPersist
  BY <1>1, <1>5 DEF InstancesPersist
<1>7. Len(vms') <= MaxVM /\ \A v \in 1 .. Len(vms') : v \in 1 .. Len(vms) \/ v = Len(vms) + 1
  BY <1>1, <1>5
<1>8. CASE told
  <2>1. PICK x : x = Constructing("describe", "started", Len(vms) + 1, 0, Len(vms) + 1)
    OBVIOUS
  <2>2. x \in ServiceNow' /\ x.how = "started" /\ x.meant = Len(vms) + 1 /\ Means(x)
    BY <1>1, <1>5, <2>1 DEF Constructing, ServiceNow, Means
  <2>3. service' = [service EXCEPT ![s] = x]
    BY <1>2, <1>8, <2>1
  <2>4. x # NoService
    BY <2>1 DEF NoService, Constructing
  <2>5. \A v \in 1 .. Len(vms') : v \in 1 .. Len(vms) \/ vms'[v].failed \/
          (x # NoService /\ x.how = "started" /\ x.meant = v)
    BY <1>7, <2>2, <2>4
  <2> QED
    BY <1>1, <1>5, <1>6, <1>7, <2>2, <2>3, <2>5, CloudStepKeeps
<1>9. CASE ~told
  <2>1. service' = [service EXCEPT ![s] = NoService]
    BY <1>2, <1>9
  <2>2. y.failed
    BY <1>4, <1>9
  <2>3. \A v \in 1 .. Len(vms') : v \in 1 .. Len(vms) \/ vms'[v].failed
    BY <1>5, <1>7, <2>2
  <2> QED
    BY <1>1, <1>5, <1>6, <1>7, <2>1, <2>3, CloudStepKeeps
<1> QED
  BY <1>8, <1>9

LEMMA DescribeInstanceKeeps ==
  ASSUME CloudInv, UNCHANGED keepalive, NEW s \in Service, DescribeInstance(s)
  PROVE  CloudInv'
<1>1. service[s].pc = "describe" /\ service[s].pc # "absent"
  BY DEF DescribeInstance
<1>2. CASE ConstructorThrows(s)
  BY <1>1, <1>2, ThrowsKeeps
<1>3. CASE /\ service' = [service EXCEPT ![s].pc = "ssh", ![s].vm_ip = service[s].meant]
           /\ UNCHANGED vms
  <2>1. /\ service[s] \in ServiceNow /\ Means(service[s])
        /\ service[s].meant \in 1 .. Len(vms) /\ Len(vms) \in Nat
    BY <1>1, ServiceFacts
  <2>2. PICK x : x = [service[s] EXCEPT !.pc = "ssh", !.vm_ip = service[s].meant]
    OBVIOUS
  <2>3. /\ x.pc = "ssh" /\ x.how = service[s].how /\ x.vm_id = service[s].vm_id
        /\ x.vm_ip = service[s].meant /\ x.js = service[s].js /\ x.meant = service[s].meant
        /\ x = [service[s] EXCEPT !.pc = x.pc, !.vm_ip = x.vm_ip, !.js = x.js]
    BY <2>1, <2>2 DEF ServiceNow
  <2>4. x.vm_ip \in 0 .. Len(vms) /\ x.js \in 0 .. Len(vms) /\ Means(x)
    BY <2>1, <2>3 DEF ServiceNow, Means
  <2>5. service' = [service EXCEPT ![s] = x]
    BY <1>3, <2>2
  <2> QED
    BY <1>1, <1>3, <2>3, <2>4, <2>5, ProceedKeeps
<1> QED
  BY <1>2, <1>3 DEF DescribeInstance

LEMMA GoesOnKeeps ==
  ASSUME CloudInv, UNCHANGED keepalive, NEW s \in Service, NEW pc \in {"create", "ready"},
         Proceed(s, pc), service[s].pc = (IF pc = "create" THEN "ssh" ELSE "prepare")
  PROVE  CloudInv'
<1>1. service[s].pc # "absent"
  OBVIOUS
<1>2. service[s] \in ServiceNow /\ Means(service[s]) /\ Len(vms) \in Nat
  BY <1>1, ServiceFacts
<1>3. PICK x : x = [service[s] EXCEPT !.pc = pc]
  OBVIOUS
<1>4. /\ x.pc = pc /\ x.how = service[s].how /\ x.vm_id = service[s].vm_id
      /\ x.vm_ip = service[s].vm_ip /\ x.js = service[s].js /\ x.meant = service[s].meant
      /\ x = [service[s] EXCEPT !.pc = x.pc, !.vm_ip = x.vm_ip, !.js = x.js]
  BY <1>2, <1>3 DEF ServiceNow
<1>5. x.vm_ip \in 0 .. Len(vms) /\ x.js \in 0 .. Len(vms) /\ Means(x)
  BY <1>2, <1>4 DEF ServiceNow, Means
<1>6. service' = [service EXCEPT ![s] = x] /\ UNCHANGED vms
  BY <1>3 DEF Proceed
<1> QED
  BY <1>1, <1>4, <1>5, <1>6, ProceedKeeps

LEMMA CreateServiceKeeps ==
  ASSUME CloudInv, UNCHANGED keepalive, NEW s \in Service, CreateService(s)
  PROVE  CloudInv'
<1>1. service[s].pc = "create" /\ service[s].pc # "absent"
  BY DEF CreateService
<1>2. CASE ConstructorThrows(s)
  BY <1>1, <1>2, ThrowsKeeps
<1>3. CASE /\ service' = [service EXCEPT ![s].pc = "prepare", ![s].js = service[s].vm_ip]
           /\ UNCHANGED vms
  <2>1. service[s] \in ServiceNow /\ Means(service[s]) /\ Len(vms) \in Nat
    BY <1>1, ServiceFacts
  <2>2. PICK x : x = [service[s] EXCEPT !.pc = "prepare", !.js = service[s].vm_ip]
    OBVIOUS
  <2>3. /\ x.pc = "prepare" /\ x.how = service[s].how /\ x.vm_id = service[s].vm_id
        /\ x.vm_ip = service[s].vm_ip /\ x.js = service[s].vm_ip /\ x.meant = service[s].meant
        /\ x = [service[s] EXCEPT !.pc = x.pc, !.vm_ip = x.vm_ip, !.js = x.js]
    BY <2>1, <2>2 DEF ServiceNow
  <2>4. x.vm_ip \in 0 .. Len(vms) /\ x.js \in 0 .. Len(vms) /\ Means(x)
    BY <1>1, <2>1, <2>3 DEF ServiceNow, Means
  <2>5. service' = [service EXCEPT ![s] = x]
    BY <1>3, <2>2
  <2> QED
    BY <1>1, <1>3, <2>3, <2>4, <2>5, ProceedKeeps
<1> QED
  BY <1>2, <1>3 DEF CreateService

LEMMA AttachKeeps ==
  ASSUME CloudInv, UNCHANGED keepalive, NEW s \in Service, NEW v \in DOMAIN vms,
         AttachById(s, v) \/ AttachByHost(s, v)
  PROVE  CloudInv'
<1>1. /\ service[s] = NoService /\ vms \in Seq(VM) /\ Len(vms) \in Nat /\ Len(vms) <= MaxVM
      /\ v \in 1 .. Len(vms)
  BY DEF CloudInv, CloudTypes, AttachById, AttachByHost
<1>2. PICK x : /\ \/ x = Constructing("create", "id", 0, v, v)
                  \/ x = Constructing("create", "host", v, 0, v)
               /\ service' = [service EXCEPT ![s] = x]
  BY DEF AttachById, AttachByHost
<1>3. UNCHANGED vms
  BY DEF AttachById, AttachByHost
<1>4. vms' \in Seq(VM) /\ Len(vms') = Len(vms) /\ InstancesPersist
  BY <1>3, InstancesStay DEF CloudInv
<1>5. x \in ServiceNow' /\ Means(x)
  BY <1>1, <1>2, <1>4 DEF Constructing, ServiceNow, Means
<1> QED
  BY <1>1, <1>2, <1>4, <1>5, CloudStepKeeps

LEMMA DestroyKeeps ==
  ASSUME CloudInv, UNCHANGED keepalive, NEW s \in Service, Destroy(s)
  PROVE  CloudInv'
<1>1. service[s].pc = "ready" /\ service' = [service EXCEPT ![s] = NoService]
  BY DEF Destroy
<1>2. /\ service[s] # NoService /\ service[s] \in ServiceNow /\ Means(service[s])
      /\ service[s].meant \in 1 .. Len(vms) /\ Len(vms) \in Nat /\ Len(vms) <= MaxVM
      /\ service[s].vm_id \in 0 .. Len(vms)
  BY <1>1, ServiceFacts DEF ServiceNow
<1>3. service[s].how = "started" => service[s].vm_id = service[s].meant
  BY <1>2 DEF Means
<1>4. CASE keepalive \/ service[s].vm_id = 0
  <2>1. vms' \in Seq(VM) /\ Len(vms') = Len(vms) /\ InstancesPersist
    BY <1>4, InstancesStay DEF CloudInv, Destroy
  <2>2. ~keepalive => service[s].how # "started"
    BY <1>2, <1>3, <1>4
  <2> QED
    BY <1>1, <1>2, <2>1, <2>2, CloudStepKeeps
<1>5. CASE ~keepalive /\ service[s].vm_id # 0
  <2>1. service[s].vm_id \in 1 .. Len(vms)
    BY <1>2, <1>5
  <2>2. vms[service[s].vm_id].phase # "terminated" \/ "terminated" = "terminated"
    OBVIOUS
  <2>3. /\ vms' \in Seq(VM) /\ Len(vms') = Len(vms) /\ InstancesPersist
        /\ vms'[service[s].vm_id].phase = "terminated" \/ vms'[service[s].vm_id].failed
    <3>1. CASE vms' = [vms EXCEPT ![service[s].vm_id].phase = "terminated"]
      BY <2>1, <2>2, <3>1, InstanceMoves DEF CloudInv
    <3>2. CASE vms' = [vms EXCEPT ![service[s].vm_id].failed = TRUE]
      BY <2>1, <3>2, InstanceFails DEF CloudInv
    <3> QED
      BY <1>5, <3>1, <3>2 DEF Destroy
  <2> QED
    BY <1>1, <1>2, <1>3, <2>3, CloudStepKeeps
<1> QED
  BY <1>4, <1>5

LEMMA CloudStepStepKeeps ==
  ASSUME CloudInv, UNCHANGED keepalive, CloudStep
  PROVE  CloudInv'
<1>1. PICK v \in DOMAIN vms, p \in {"running", "terminated"} :
        /\ vms[v].phase \in {"pending", "running"} \ {p}
        /\ vms' = [vms EXCEPT ![v].phase = p]
  BY DEF CloudStep
<1>2. v \in 1 .. Len(vms) /\ CloudTypes
  BY DEF CloudInv, CloudTypes
<1>3. vms' \in Seq(VM) /\ Len(vms') = Len(vms) /\ InstancesPersist
  BY <1>1, <1>2, InstanceMoves
<1>4. UNCHANGED service
  BY DEF CloudStep
<1>5. CloudTypes'
  BY <1>2, <1>3, <1>4 DEF CloudTypes, ServiceNow
<1>6. ServicesMean'
  BY <1>4 DEF CloudInv, ServicesMean
<1>7. AllAccounted'
  BY <1>3, <1>4 DEF CloudInv, AllAccounted, Accounted, InstancesPersist
<1> QED
  BY <1>5, <1>6, <1>7 DEF CloudInv

LEMMA CloudInitInv == CloudInit => CloudInv
<1> SUFFICES ASSUME CloudInit PROVE CloudInv
  OBVIOUS
<1>1. Len(vms) = 0 /\ vms \in Seq(VM)
  BY DEF CloudInit
<1>2. CloudTypes /\ ServicesMean /\ AllAccounted
  BY <1>1, CloudAssumption DEF CloudInit, CloudTypes, ServicesMean, AllAccounted
<1> QED
  BY <1>2 DEF CloudInv

LEMMA CloudNextInv == CloudInv /\ CloudNext => CloudInv'
<1> SUFFICES ASSUME CloudInv, CloudNext PROVE CloudInv'
  OBVIOUS
<1>1. UNCHANGED keepalive
  BY DEF CloudNext
<1>2. CASE CloudStep
  BY <1>1, <1>2, CloudStepStepKeeps
<1>3. ASSUME NEW s \in Service,
             \/ StartInstance(s) \/ DescribeInstance(s) \/ TrySsh(s)
             \/ \E v \in DOMAIN vms : AttachById(s, v) \/ AttachByHost(s, v)
             \/ CreateService(s) \/ PrepareImage(s) \/ Destroy(s)
      PROVE  CloudInv'
  <2>1. CASE StartInstance(s)
    BY <1>1, <2>1, StartInstanceKeeps
  <2>2. CASE DescribeInstance(s)
    BY <1>1, <2>2, DescribeInstanceKeeps
  <2>3. CASE TrySsh(s)
    <3>1. service[s].pc = "ssh" /\ service[s].pc # "absent"
      BY <2>3 DEF TrySsh
    <3>2. CASE Proceed(s, "create")
      BY <1>1, <3>1, <3>2, GoesOnKeeps
    <3>3. CASE ConstructorThrows(s)
      BY <1>1, <3>1, <3>3, ThrowsKeeps
    <3> QED
      BY <2>3, <3>2, <3>3 DEF TrySsh
  <2>4. CASE \E v \in DOMAIN vms : AttachById(s, v) \/ AttachByHost(s, v)
    BY <1>1, <2>4, AttachKeeps
  <2>5. CASE CreateService(s)
    BY <1>1, <2>5, CreateServiceKeeps
  <2>6. CASE PrepareImage(s)
    <3>1. service[s].pc = "prepare" /\ service[s].pc # "absent"
      BY <2>6 DEF PrepareImage
    <3>2. CASE Proceed(s, "ready")
      BY <1>1, <3>1, <3>2, GoesOnKeeps
    <3>3. CASE ConstructorThrows(s)
      BY <1>1, <3>1, <3>3, ThrowsKeeps
    <3> QED
      BY <2>6, <3>2, <3>3 DEF PrepareImage
  <2>7. CASE Destroy(s)
    BY <1>1, <2>7, DestroyKeeps
  <2> QED
    BY <1>3, <2>1, <2>2, <2>3, <2>4, <2>5, <2>6, <2>7
<1> QED
  BY <1>2, <1>3 DEF CloudNext

(* What the invariant says of the services and their instances. *)
LEMMA CloudFacts == CloudInv => CloudTypeOK /\ LeakedByFailureOnly /\ SubmitsToItsInstance
<1> SUFFICES ASSUME CloudInv PROVE CloudTypeOK /\ LeakedByFailureOnly /\ SubmitsToItsInstance
  OBVIOUS
<1>1. /\ vms \in Seq(VM) /\ Len(vms) \in Nat /\ Len(vms) <= MaxVM /\ MaxVM \in Nat
      /\ DOMAIN vms = 1 .. Len(vms)
  BY CloudAssumption DEF CloudInv, CloudTypes
<1>2. CloudTypeOK
  BY <1>1 DEF CloudInv, CloudTypes, ServiceNow, CloudTypeOK
<1>3. LeakedByFailureOnly
  BY <1>1 DEF CloudInv, AllAccounted, Accounted, ServicesMean, Means, LeakedByFailureOnly, Exists
<1>4. SubmitsToItsInstance
  <2>1. ASSUME NEW s \in Service, service[s].pc = "ready", service[s].how # "host"
        PROVE  service[s].js = service[s].meant
    <3>1. service[s].pc # "absent"
      BY <2>1
    <3>2. service[s] \in ServiceNow /\ Means(service[s])
      BY <3>1, ServiceFacts
    <3> QED
      BY <2>1, <3>2 DEF ServiceNow, Means
  <2> QED
    BY <2>1 DEF SubmitsToItsInstance
<1> QED
  BY <1>2, <1>3, <1>4

-----------------------------------------------------------------------------
(***************************************************************************)
(* The drmaa adaptor.                                                      *)
(***************************************************************************)
DrmaaCalls == {"run", "assign", "wait"}

(* A job is one an object has stood for, or run is about to note its id. *)
Held(i) ==
  \/ \E o \in Object : object[o] # Absent /\ i \in object[o].stood
  \/ \E t \in Thread : call[t] # Idle /\ call[t].pc = "assign" /\ call[t].id = i
AllHeld == \A i \in JobId : Held(i)

CallsAsk == \A t \in Thread : call[t] # Idle /\ call[t].pc # "run" => call[t].id # 0

DrmaaInv ==
  /\ adaptor = "drmaa"
  /\ ServiceTypes(DrmaaCalls)
  /\ ExitAtEnd
  /\ ObjectsInUse
  /\ CallsAsk
  /\ AllHeld

DrmaaEffect(t, o, k, x) ==
  /\ k \in {Idle} \cup CallNow(DrmaaCalls)'
  /\ x \in ObjectNow' /\ x # Absent /\ (x.life # "public" => ~Public(o))
  /\ Step(t, o, k, x)
  /\ jobs' \in Seq(Job) /\ Len(jobs) <= Len(jobs') /\ Len(jobs') <= MaxJob /\ ExitAtEnd'
  /\ known' = known /\ last' \in State
  /\ UNCHANGED lock \/ Release(t) \/ \E m \in Mutex : Acquire(m, t)
  /\ IF call[t] = Idle THEN object[o] = Absent \/ Public(o) ELSE call[t].obj = o
  /\ k # Idle => k.obj = o /\ (k.pc # "run" => k.id # 0)
  /\ object[o] # Absent => object[o].stood \subseteq x.stood
  /\ call[t] # Idle /\ call[t].pc = "assign" => call[t].id \in x.stood
  /\ \A i \in JobId' : i \in JobId \/ (k # Idle /\ k.pc = "assign" /\ k.id = i)

LEMMA DrmaaEffectKeeps ==
  ASSUME DrmaaInv, UNCHANGED adaptor, NEW t \in Thread, NEW o \in Object, NEW k, NEW x,
         DrmaaEffect(t, o, k, x)
  PROVE  DrmaaInv'
<1>1. /\ call'[t] = k /\ \A u \in Thread \ {t} : call'[u] = call[u]
      /\ object'[o] = x /\ \A p \in Object \ {o} : object'[p] = object[p]
  BY StepValues DEF DrmaaInv, DrmaaEffect
<1>2. lock' \in [Mutex -> SUBSET Thread] /\ Exclusive'
  BY LockTypes DEF DrmaaInv, ServiceTypes, DrmaaEffect
<1>3. ServiceTypes(DrmaaCalls)' /\ ObjectsInUse'
  <2>1. known' \subseteq known \cup JobId'
    BY DEF DrmaaEffect
  <2> QED
    BY <1>2, <2>1, StepTypes DEF DrmaaInv, DrmaaEffect
<1>4. CallsAsk'
  BY <1>1 DEF DrmaaInv, CallsAsk, DrmaaEffect
<1>5. AllHeld'
  <2>1. ASSUME NEW i \in JobId'
        PROVE  Held(i)'
    <3>1. CASE i \in JobId
      <4>1. CASE \E p \in Object : object[p] # Absent /\ i \in object[p].stood
        <5>1. PICK p \in Object : object[p] # Absent /\ i \in object[p].stood
          BY <4>1
        <5>2. object'[p] # Absent /\ i \in object'[p].stood
          BY <1>1, <5>1 DEF DrmaaEffect
        <5> QED
          BY <5>2 DEF Held
      <4>2. CASE \E u \in Thread : call[u] # Idle /\ call[u].pc = "assign" /\ call[u].id = i
        <5>1. PICK u \in Thread : call[u] # Idle /\ call[u].pc = "assign" /\ call[u].id = i
          BY <4>2
        <5>2. CASE u = t
          BY <1>1, <5>1, <5>2 DEF DrmaaEffect, Held
        <5>3. CASE u # t
          BY <1>1, <5>1, <5>3 DEF Held
        <5> QED
          BY <5>2, <5>3
      <4> QED
        BY <3>1, <4>1, <4>2 DEF DrmaaInv, AllHeld, Held
    <3>2. CASE i \notin JobId
      BY <1>1, <3>2 DEF DrmaaEffect, Held
    <3> QED
      BY <3>1, <3>2
  <2> QED
    BY <2>1 DEF AllHeld
<1> QED
  BY <1>3, <1>4, <1>5 DEF DrmaaInv, DrmaaEffect

DrmaaKeeps(t) == \E o \in Object : \E k, x : DrmaaEffect(t, o, k, x)

LEMMA DrmaaFacts ==
  ASSUME DrmaaInv
  PROVE  /\ jobs \in Seq(Job) /\ Len(jobs) \in Nat /\ Len(jobs) <= MaxJob /\ ExitAtEnd
         /\ DOMAIN jobs = JobId
         /\ object \in [Object -> {Absent} \cup ObjectNow]
         /\ call \in [Thread -> {Idle} \cup CallNow(DrmaaCalls)]
         /\ lock \in [Mutex -> SUBSET Thread]
         /\ last \in State
BY DEF DrmaaInv, ServiceTypes, JobId

LEMMA DrmaaJobsSame ==
  ASSUME DrmaaInv, UNCHANGED jobs
  PROVE  /\ jobs' \in Seq(Job) /\ Len(jobs) <= Len(jobs') /\ Len(jobs') <= MaxJob
         /\ Len(jobs') = Len(jobs) /\ ExitAtEnd' /\ JobId' = JobId
         /\ CallNow(DrmaaCalls)' = CallNow(DrmaaCalls) /\ ObjectNow' = ObjectNow
BY DrmaaFacts DEF ExitAtEnd, JobId, CallNow, ObjectNow

LEMMA DrmaaCalling ==
  ASSUME NEW pc \in DrmaaCalls, NEW o \in Object, NEW i \in 0 .. Len(jobs), NEW state \in State,
         NEW k, k = Calling(pc, o, i, state)
  PROVE  k \in CallNow(DrmaaCalls) /\ k # Idle /\ k.pc = pc /\ k.obj = o /\ k.id = i
BY DEF Calling, Idle, CallNow

(* An object that a step leaves alone. *)
LEMMA DrmaaSame ==
  ASSUME DrmaaInv, UNCHANGED <<adaptor, known, object>>, last' \in State,
         NEW t \in Thread, NEW o \in Object, object[o] # Absent, NEW k,
         k = Idle \/ (k \in CallNow(DrmaaCalls) /\ k # Idle /\ k.obj = o /\ (k.pc # "run" => k.id # 0)),
         call' = [call EXCEPT ![t] = k],
         jobs' \in Seq(Job), Len(jobs') = Len(jobs), ExitAtEnd',
         UNCHANGED lock \/ Release(t) \/ \E m \in Mutex : Acquire(m, t),
         IF call[t] = Idle THEN Public(o) ELSE call[t].obj = o /\ call[t].pc # "assign"
  PROVE  DrmaaKeeps(t)
<1>1. object[o] \in ObjectNow /\ Len(jobs) <= MaxJob /\ Len(jobs) \in Nat
  BY DrmaaFacts
<1>2. JobId' = JobId /\ CallNow(DrmaaCalls)' = CallNow(DrmaaCalls) /\ ObjectNow' = ObjectNow
  BY DEF JobId, CallNow, ObjectNow
<1>3. Step(t, o, k, object[o])
  BY DrmaaFacts DEF Step
<1>4. object[o].life # "public" => ~Public(o)
  BY DEF Public
<1>5. DrmaaEffect(t, o, k, object[o])
  BY <1>1, <1>2, <1>3, <1>4 DEF DrmaaEffect
<1> QED
  BY <1>5 DEF DrmaaKeeps

(* The states that drmaa::get_state finds. *)
LEMMA DrmaaStates ==
  ASSUME DrmaaInv, NEW i
  PROVE  Drmaa!DrmaaState(i) \in State
BY DrmaaFacts DEF Drmaa!DrmaaState, State, Final

LEMMA DrmaaBeginKeeps ==
  ASSUME DrmaaInv, UNCHANGED adaptor, NEW t \in Thread, NEW o \in Object,
         \/ Drmaa!NewJob(t, o) \/ \E i \in DOMAIN jobs : Drmaa!GetJob(t, o, i)
         \/ Drmaa!Run(t, o) \/ Drmaa!GetState(t, o) \/ Drmaa!Wait(t, o)
  PROVE  DrmaaKeeps(t)
<1>0. "New" \in State /\ 0 \in 0 .. Len(jobs) /\ {"run", "wait"} \subseteq DrmaaCalls
  BY DrmaaFacts DEF State, DrmaaCalls
<1>1. CASE Drmaa!NewJob(t, o)
  <2>1. /\ call[t] = Idle /\ object[o] = Absent /\ UNCHANGED <<jobs, known, call, lock, last>>
        /\ object' = [object EXCEPT ![o] = NewObject("public")]
    BY <1>1 DEF Drmaa!NewJob, Drmaa!CreateJob, Drmaa!Idle, Idle, Drmaa!Absent, Absent,
         Drmaa!NewObject, NewObject
  <2>2. PICK x : x = NewObject("public")
    OBVIOUS
  <2>3. x \in ObjectNow /\ x # Absent /\ x.life = "public"
    BY <2>2, MemoryNow, DrmaaFacts DEF NewObject
  <2>4. Step(t, o, Idle, x)
    BY <2>1, <2>2, DrmaaFacts DEF Step
  <2>5. DrmaaEffect(t, o, Idle, x)
    <3>1. object[o] = Absent => ~Public(o)
      BY DEF Public, Absent
    <3> QED
      BY <2>1, <2>3, <2>4, <3>1, DrmaaJobsSame, DrmaaFacts DEF DrmaaEffect
  <2> QED
    BY <2>5 DEF DrmaaKeeps
<1>2. ASSUME NEW i \in DOMAIN jobs, Drmaa!GetJob(t, o, i)
      PROVE  DrmaaKeeps(t)
  <2>1. PICK s : s = Drmaa!DrmaaState(i)
    OBVIOUS
  <2>2. /\ call[t] = Idle /\ object[o] = Absent /\ UNCHANGED <<jobs, known, call, lock>>
        /\ object' = [object EXCEPT ![o] = Memory("public", s, i, {i})]
        /\ last' = s /\ s \in State
    BY <1>2, <2>1, DrmaaStates
    DEF Drmaa!GetJob, Drmaa!Ask, Drmaa!Idle, Idle, Drmaa!Absent, Absent, Drmaa!ObjectFor, Memory
  <2>3. PICK x : x = Memory("public", s, i, {i})
    OBVIOUS
  <2>4. x \in ObjectNow /\ x # Absent /\ x.life = "public"
    <3>1. i \in 0 .. Len(jobs) /\ {i} \in SUBSET JobId
      BY DrmaaFacts DEF JobId
    <3>2. x \in ObjectNow /\ x # Absent
      BY <2>2, <2>3, <3>1, MemoryNow, DrmaaFacts
    <3> QED
      BY <2>3, <3>2 DEF Memory
  <2>5. Step(t, o, Idle, x)
    BY <2>2, <2>3, DrmaaFacts DEF Step
  <2>6. DrmaaEffect(t, o, Idle, x)
    <3>1. object[o] = Absent => ~Public(o)
      BY DEF Public, Absent
    <3> QED
      BY <2>2, <2>4, <2>5, <3>1, DrmaaJobsSame, DrmaaFacts DEF DrmaaEffect
  <2> QED
    BY <2>6 DEF DrmaaKeeps
<1>3. CASE Drmaa!Run(t, o)
  <2>1. PICK k : k = Calling("run", o, 0, "New")
    OBVIOUS
  <2>2. /\ Public(o) /\ call[t] = Idle /\ call' = [call EXCEPT ![t] = k]
        /\ UNCHANGED <<jobs, known, object, lock, last>>
    BY <1>3, <2>1 DEF Drmaa!Run, Drmaa!Public, Public, Drmaa!Begins, Drmaa!Calling, Calling,
         Drmaa!Idle, Idle
  <2>3. k \in CallNow(DrmaaCalls) /\ k # Idle /\ k.obj = o /\ k.pc = "run" /\ object[o] # Absent
    BY <1>0, <2>1, <2>2, DrmaaCalling DEF Public, Absent
  <2> QED
    BY <2>2, <2>3, DrmaaSame, DrmaaJobsSame, DrmaaFacts
<1>4. CASE Drmaa!GetState(t, o)
  <2>1. /\ Public(o) /\ call[t] = Idle /\ UNCHANGED <<jobs, known, object, call, lock>>
        /\ last' \in State
    BY <1>4, DrmaaStates DEF Drmaa!GetState, Drmaa!Ask, Drmaa!Public, Public, Drmaa!Idle, Idle
  <2>2. call' = [call EXCEPT ![t] = Idle] /\ object[o] # Absent
    BY <2>1, DrmaaFacts DEF Public, Absent
  <2> QED
    BY <2>1, <2>2, DrmaaSame, DrmaaJobsSame
<1>5. CASE Drmaa!Wait(t, o)
  <2>1. PICK k : k = Calling("wait", o, object[o].id, "New")
    OBVIOUS
  <2>2. /\ Public(o) /\ call[t] = Idle /\ call' = [call EXCEPT ![t] = k] /\ object[o].id # 0
        /\ Acquire("adaptor_data", t)
        /\ UNCHANGED <<jobs, known, object, last>>
    BY <1>5, <2>1 DEF Drmaa!Wait, Drmaa!Public, Public, Drmaa!Begins, Drmaa!Calling, Calling,
         Drmaa!Idle, Idle, Drmaa!Acquire, Acquire, Drmaa!Available, Available
  <2>3. object[o] # Absent /\ object[o].id \in 0 .. Len(jobs)
    BY <2>2, DrmaaFacts DEF Public, Absent, ObjectNow
  <2>4. k \in CallNow(DrmaaCalls) /\ k # Idle /\ k.obj = o /\ k.id # 0
    BY <1>0, <2>1, <2>2, <2>3, DrmaaCalling
  <2>5. \E m \in Mutex : Acquire(m, t)
    BY <2>2 DEF Mutex
  <2> QED
    BY <2>2, <2>3, <2>4, <2>5, DrmaaSame, DrmaaJobsSame, DrmaaFacts
<1> QED
  BY <1>1, <1>2, <1>3, <1>4, <1>5

LEMMA DrmaaInside ==
  ASSUME DrmaaInv, NEW t \in Thread, call[t] # Idle, NEW o, o = call[t].obj
  PROVE  /\ o \in Object /\ object[o] # Absent /\ object[o] \in ObjectNow
         /\ call[t] \in CallNow(DrmaaCalls)
         /\ call[t].pc # "run" => call[t].id \in JobId
<1>1. call[t] \in CallNow(DrmaaCalls)
  BY DrmaaFacts
<1>2. o \in Object /\ object[o] # Absent /\ call[t].id \in 0 .. Len(jobs)
  BY <1>1 DEF CallNow, DrmaaInv, ObjectsInUse
<1>3. call[t].pc # "run" => call[t].id # 0
  BY DEF DrmaaInv, CallsAsk
<1> QED
  BY <1>1, <1>2, <1>3, DrmaaFacts DEF JobId

LEMMA DrmaaSubmitKeeps ==
  ASSUME DrmaaInv, UNCHANGED adaptor, NEW t \in Thread, Drmaa!SubmitJob(t)
  PROVE  DrmaaKeeps(t)
<1>1. PICK o : o = call[t].obj
  OBVIOUS
<1>2. /\ call[t] # Idle /\ call[t].pc = "run" /\ UNCHANGED <<known, object, lock, last>>
      /\ \/ /\ Submitted("active")
            /\ call' = [call EXCEPT ![t].pc = "assign", ![t].id = NextId]
         \/ call' = [call EXCEPT ![t] = Idle] /\ UNCHANGED jobs
  BY DEF Drmaa!SubmitJob, Drmaa!Submitted, Submitted, Drmaa!NextId, NextId, Drmaa!Return,
     Drmaa!Idle, Idle
<1>3. /\ o \in Object /\ object[o] # Absent /\ object[o] \in ObjectNow
      /\ call[t] \in CallNow(DrmaaCalls)
  BY <1>1, <1>2, DrmaaInside
<1>4. CASE call' = [call EXCEPT ![t] = Idle] /\ UNCHANGED jobs
  BY <1>1, <1>2, <1>3, <1>4, DrmaaSame, DrmaaJobsSame, DrmaaFacts
<1>5. CASE /\ Submitted("active")
           /\ call' = [call EXCEPT ![t].pc = "assign", ![t].id = NextId]
  <2>1. PICK i : i = NextId
    OBVIOUS
  <2>2. /\ jobs' \in Seq(Job) /\ Len(jobs') = Len(jobs) + 1 /\ Len(jobs') <= MaxJob
        /\ Len(jobs) \in Nat /\ i = Len(jobs) + 1 /\ ExitAtEnd'
    BY <1>5, <2>1, SubmittedJob, DrmaaFacts DEF Live
  <2>3. /\ i # 0 /\ i \in 0 .. Len(jobs') /\ JobId \subseteq JobId'
        /\ 0 .. Len(jobs) \subseteq 0 .. Len(jobs')
        /\ \A j \in JobId' : j \in JobId \/ j = i
    BY <2>2 DEF JobId
  <2>4. PICK k : k = [call[t] EXCEPT !.pc = "assign", !.id = i]
    OBVIOUS
  <2>5. k.pc = "assign" /\ k.id = i /\ k.obj = o
    BY <1>1, <1>3, <2>4 DEF CallNow
  <2>6. k \in CallNow(DrmaaCalls)' /\ k # Idle
    <3>1. k \in CallNow(DrmaaCalls)'
      BY <1>3, <2>3, <2>4 DEF CallNow, DrmaaCalls
    <3> QED
      BY <3>1 DEF CallNow, Idle
  <2>7. object[o] \in ObjectNow'
    BY <1>3, <2>3 DEF ObjectNow
  <2>8. Step(t, o, k, object[o])
    <3>1. call' = [call EXCEPT ![t] = k]
      BY <1>5, <2>1, <2>4
    <3> QED
      BY <1>2, <1>3, <3>1, DrmaaFacts DEF Step
  <2>9. object[o].life # "public" => ~Public(o)
    BY DEF Public
  <2>10. DrmaaEffect(t, o, k, object[o])
    BY <1>1, <1>2, <1>3, <2>2, <2>3, <2>5, <2>6, <2>7, <2>8, <2>9, DrmaaFacts DEF DrmaaEffect
  <2> QED
    BY <1>3, <2>10 DEF DrmaaKeeps
<1> QED
  BY <1>2, <1>4, <1>5

LEMMA DrmaaAssignKeeps ==
  ASSUME DrmaaInv, UNCHANGED adaptor, NEW t \in Thread, Drmaa!AssignId(t)
  PROVE  DrmaaKeeps(t)
<1>1. PICK o : o = call[t].obj
  OBVIOUS
<1>2. /\ call[t] # Idle /\ call[t].pc = "assign" /\ UNCHANGED <<jobs, known, lock, last>>
      /\ object' = [object EXCEPT ![o] = StandFor(o, call[t].id)]
      /\ call' = [call EXCEPT ![t] = Idle]
  BY <1>1 DEF Drmaa!AssignId, Drmaa!StandFor, StandFor, Drmaa!Return, Drmaa!Idle, Idle
<1>3. PICK r : r = object[o]
  OBVIOUS
<1>4. o \in Object /\ r \in ObjectNow /\ call[t].id \in JobId
  BY <1>1, <1>2, <1>3, DrmaaInside
<1>5. PICK x : x = Memory(r.life, r.state, call[t].id, r.stood \cup {call[t].id})
  OBVIOUS
<1>6. x.life = r.life /\ x.stood = r.stood \cup {call[t].id}
  BY <1>5 DEF Memory
<1>7. x \in ObjectNow /\ x # Absent
  <2>1. r.life \in {"private", "public"} /\ r.state \in State /\ Len(jobs) \in Nat
    BY <1>4, DrmaaFacts DEF ObjectNow
  <2> QED
    BY <1>4, <1>5, <2>1, MemoryTyped
<1>8. Step(t, o, Idle, x)
  <2>1. StandFor(o, call[t].id) = x
    BY <1>3, <1>4, <1>5, StandForMemory
  <2> QED
    BY <1>2, <2>1 DEF Step
<1>9. x.life # "public" => ~Public(o)
  BY <1>3, <1>6 DEF Public
<1>10. r.stood \subseteq x.stood /\ call[t].id \in x.stood
  BY <1>6
<1>11. DrmaaEffect(t, o, Idle, x)
  BY <1>1, <1>2, <1>3, <1>7, <1>8, <1>9, <1>10, DrmaaJobsSame, DrmaaFacts DEF DrmaaEffect
<1> QED
  BY <1>4, <1>11 DEF DrmaaKeeps

LEMMA DrmaaWaitJobKeeps ==
  ASSUME DrmaaInv, UNCHANGED adaptor, NEW t \in Thread, Drmaa!WaitJob(t)
  PROVE  DrmaaKeeps(t)
<1>1. PICK o : o = call[t].obj
  OBVIOUS
<1>2. /\ call[t] # Idle /\ call[t].pc = "wait" /\ UNCHANGED <<known, object, last>>
      /\ Become(call[t].id, "gone") \/ UNCHANGED jobs
      /\ call' = [call EXCEPT ![t] = Idle] /\ Release(t)
  BY DEF Drmaa!WaitJob, Drmaa!Become, Become, Drmaa!Return, Drmaa!Idle, Idle, Drmaa!Release,
     Release, Drmaa!Mutex, Mutex
<1>3. o \in Object /\ object[o] # Absent /\ call[t].id \in JobId
  BY <1>1, <1>2, DrmaaInside
<1>4. jobs' \in Seq(Job) /\ Len(jobs') = Len(jobs) /\ ExitAtEnd'
  <2>1. "gone" \in Phase /\ "gone" \notin Live \cup {"accepted"}
    BY DEF Phase, Live
  <2> QED
    BY <1>2, <1>3, <2>1, ChangedJob, DrmaaJobsSame, DrmaaFacts
<1> QED
  BY <1>1, <1>2, <1>3, <1>4, DrmaaSame, DrmaaFacts

LEMMA DrmaaControlKeeps ==
  ASSUME DrmaaInv, UNCHANGED adaptor, NEW t \in Thread, NEW o \in Object, Drmaa!Control(t, o)
  PROVE  DrmaaKeeps(t)
<1>1. PICK i : i = object[o].id
  OBVIOUS
<1>2. /\ Public(o) /\ call[t] = Idle /\ i # 0 /\ UNCHANGED <<known, object, call, lock, last>>
      /\ \/ jobs[i].phase = "active" /\ Become(i, "suspended")
         \/ jobs[i].phase = "suspended" /\ Become(i, "active")
         \/ jobs[i].phase \in Live /\ Ended(i, "complete", "canceled")
  BY <1>1 DEF Drmaa!Control, Drmaa!Public, Public, Drmaa!Idle, Idle, Drmaa!Become, Become,
     Drmaa!Ended, Ended, Drmaa!Live, Live
<1>3. object[o] # Absent /\ i \in JobId
  BY <1>1, <1>2, DrmaaFacts DEF Public, Absent, ObjectNow, JobId
<1>4. jobs' \in Seq(Job) /\ Len(jobs') = Len(jobs) /\ ExitAtEnd'
  <2>1. jobs[i].phase \in Live => jobs[i].exit = "none"
    BY <1>3, DrmaaFacts DEF ExitAtEnd
  <2>2. CASE jobs[i].phase = "active" /\ Become(i, "suspended")
    <3>1. "suspended" \in Phase /\ jobs[i].exit = "none"
      BY <2>1, <2>2 DEF Phase, Live
    <3> QED
      BY <1>3, <2>2, <3>1, ChangedJob, DrmaaFacts
  <2>3. CASE jobs[i].phase = "suspended" /\ Become(i, "active")
    <3>1. "active" \in Phase /\ jobs[i].exit = "none"
      BY <2>1, <2>3 DEF Phase, Live
    <3> QED
      BY <1>3, <2>3, <3>1, ChangedJob, DrmaaFacts
  <2>4. CASE jobs[i].phase \in Live /\ Ended(i, "complete", "canceled")
    <3>1. "complete" \in Phase /\ "canceled" \in Exit
      BY DEF Phase, Exit
    <3> QED
      BY <1>3, <2>4, <3>1, ChangedJob, DrmaaFacts
  <2> QED
    BY <1>2, <2>2, <2>3, <2>4
<1>5. call' = [call EXCEPT ![t] = Idle]
  BY <1>2, DrmaaFacts
<1> QED
  BY <1>2, <1>3, <1>4, <1>5, DrmaaSame, DrmaaFacts

LEMMA DrmaaInitInv == Drmaa!Init => DrmaaInv
<1> SUFFICES ASSUME Drmaa!Init PROVE DrmaaInv
  OBVIOUS
<1>1. adaptor = "drmaa" /\ ServiceInit({<<>>})
  BY DEF Drmaa!Init, Drmaa!ServiceInit, ServiceInit, Drmaa!Absent, Absent, Drmaa!Idle, Idle,
     Drmaa!Mutex, Mutex
<1>2. ServiceTypes(DrmaaCalls) /\ ExitAtEnd /\ ObjectsInUse
  BY <1>1, InitTypes DEF ServiceInit
<1>3. jobs = <<>> /\ JobId = {} /\ \A t \in Thread : call[t] = Idle
  BY <1>1 DEF ServiceInit, JobId
<1> QED
  BY <1>1, <1>2, <1>3 DEF DrmaaInv, CallsAsk, AllHeld

LEMMA DrmaaNextInv ==
  ASSUME DrmaaInv, Drmaa!Next
  PROVE  DrmaaInv'
<1>0. UNCHANGED adaptor
  BY DEF Drmaa!Next
<1>1. ASSUME UNCHANGED <<known, object, call, lock>>, last' \in State,
             jobs' \in Seq(Job), Len(jobs') = Len(jobs), ExitAtEnd'
      PROVE  DrmaaInv'
  <2>1. JobId' = JobId
    BY <1>1 DEF JobId
  <2>2. ServiceTypes(DrmaaCalls)' /\ ObjectsInUse'
    BY <1>1, <2>1
    DEF DrmaaInv, ServiceTypes, ObjectsInUse, JobId, ObjectNow, CallNow, Exclusive, Public
  <2>3. CallsAsk' /\ AllHeld'
    BY <1>1, <2>1 DEF DrmaaInv, CallsAsk, AllHeld, Held
  <2> QED
    BY <1>0, <1>1, <2>2, <2>3 DEF DrmaaInv
<1>2. ASSUME NEW t \in Thread, Drmaa!NewService(t)
      PROVE  DrmaaInv'
  <2>1. last' \in State /\ UNCHANGED <<jobs, known, object, call, lock>>
    BY <1>2 DEF Drmaa!NewService, State
  <2> QED
    BY <1>1, <2>1, DrmaaJobsSame
<1>3. ASSUME NEW t \in Thread, DrmaaKeeps(t)
      PROVE  DrmaaInv'
  BY <1>0, <1>3, DrmaaEffectKeeps DEF DrmaaKeeps
<1>4. CASE Drmaa!ManagerStep(Live, {"zero", "positive"})
  <2>1. PICK i \in JobId :
          \/ jobs[i].phase = "accepted" /\ Become(i, "active")
          \/ jobs[i].phase \in Live /\ \E p \in Live \ {jobs[i].phase} : Become(i, p)
          \/ jobs[i].phase = "active" /\ \E e \in {"zero", "positive"} : Ended(i, "complete", e)
          \/ jobs[i].phase = "complete" /\ Become(i, "gone")
    BY <1>4, DrmaaFacts DEF Drmaa!ManagerStep, Drmaa!Become, Become, Drmaa!Ended, Ended
  <2>2. jobs' \in Seq(Job) /\ Len(jobs') = Len(jobs) /\ ExitAtEnd'
    BY <2>1, ManagedJob, DrmaaFacts
  <2>3. UNCHANGED <<known, object, call, lock, last>>
    BY <1>4 DEF Drmaa!ManagerStep
  <2> QED
    BY <1>1, <2>2, <2>3, DrmaaFacts
<1>5. ASSUME NEW t \in Thread,
             \/ Drmaa!SubmitJob(t) \/ Drmaa!AssignId(t) \/ Drmaa!WaitJob(t) \/ Drmaa!NewService(t)
             \/ \E o \in Object :
                 \/ Drmaa!NewJob(t, o) \/ \E i \in DOMAIN jobs : Drmaa!GetJob(t, o, i)
                 \/ Drmaa!Run(t, o) \/ Drmaa!GetState(t, o) \/ Drmaa!Wait(t, o)
                 \/ Drmaa!Control(t, o)
      PROVE  DrmaaKeeps(t) \/ Drmaa!NewService(t)
  BY <1>0, <1>5, DrmaaSubmitKeeps, DrmaaAssignKeeps, DrmaaWaitJobKeeps, DrmaaBeginKeeps,
     DrmaaControlKeeps
<1>6. Drmaa!Live = Live
  BY DEF Drmaa!Live, Live
<1> QED
  BY <1>2, <1>3, <1>4, <1>5, <1>6 DEF Drmaa!Next

(* What the invariant says of the types and of the jobs that are lost. *)
LEMMA DrmaaInvFacts == DrmaaInv => Drmaa!TypeOK /\ Drmaa!LostOnlyByRerun
<1> SUFFICES ASSUME DrmaaInv PROVE Drmaa!TypeOK /\ Drmaa!LostOnlyByRerun
  OBVIOUS
<1>1. ServiceTypeOK(DrmaaCalls)
  BY ServiceTypesOK DEF DrmaaInv
<1>2. Drmaa!TypeOK
  BY <1>1 DEF DrmaaInv, DrmaaCalls, ServiceTypeOK, Exit, Live, JobObject, Absent, State, Final,
     Idle, Mutex, Drmaa!TypeOK, Drmaa!ServiceTypeOK, Drmaa!DrmaaPC, Drmaa!Exit, Drmaa!Live,
     Drmaa!JobObject, Drmaa!Absent, Drmaa!State, Drmaa!Final, Drmaa!Idle, Drmaa!Mutex,
     Drmaa!Cardinality, Cardinality
<1>3. ASSUME NEW i \in JobId, ~Reachable(i)
      PROVE  \E o \in Object : object[o] # Absent /\ i \in object[o].stood /\ object[o].id # i
  BY <1>3 DEF DrmaaInv, AllHeld, Held, Reachable
<1>4. Drmaa!Lost = {i \in DOMAIN jobs : jobs[i].own /\ ~Reachable(i)}
  BY DEF Drmaa!Lost, Drmaa!Reachable, Reachable, Drmaa!Absent, Absent, Drmaa!Idle, Idle
<1> QED
  BY <1>2, <1>3, <1>4, DrmaaFacts DEF Drmaa!LostOnlyByRerun, Drmaa!Absent, Absent

-----------------------------------------------------------------------------
(***************************************************************************)
(* The lsf adaptor.                                                        *)
(***************************************************************************)
Commands == {"bstop", "bresume", "bkill"}

(* An object stands for one job if it has an id and has been run then, and  *)
(* for none, as it was made, if it has no id.                               *)
Stands(r) ==
  /\ r.id # 0 => r.stood = {r.id} /\ r.state # "New"
  /\ r.id = 0 => r.stood = {} /\ r.state = "New"
ObjectsStand == \A o \in Object : object[o] # Absent => Stands(object[o])

(* A submission finds its object without a job, and has it locked unless no *)
(* other thread can reach it.                                               *)
InTurn(t, k, r, holders) ==
  /\ k.pc = "bsub" => r.id = 0
  /\ k.pc \in {"bsub", "sleep"} /\ r.life = "public" => t \in holders
  /\ k.pc \in Commands => k.id # 0
CallsInTurn ==
  \A t \in Thread : call[t] # Idle =>
    InTurn(t, call[t], object[call[t].obj], lock[call[t].obj])

OwnJobsHeld == \A i \in JobId : \E o \in Object : object[o] # Absent /\ object[o].id = i

LsfInv ==
  /\ adaptor = "lsf"
  /\ ServiceTypes(LsfPC)
  /\ ExitAtEnd
  /\ ObjectsInUse
  /\ ObjectsStand
  /\ CallsInTurn
  /\ OwnJobsHeld

-----------------------------------------------------------------------------
(***************************************************************************)
(* The invariant is kept by a step that makes k of the call of t and x of  *)
(* the object o, if the following hold of k and x.                         *)
(***************************************************************************)
LsfKeepsUse(t, o, k, x) ==
  /\ call[t] # Idle => call[t].obj = o
  /\ k # Idle => k.obj = o /\ x # Absent
  /\ call[t] = Idle => object[o] = Absent \/ Public(o)
  /\ x = Absent => k = Idle /\ ~Public(o)
  /\ x # Absent /\ x.life # "public" => ~Public(o)

LsfKeepsJobs(o, x) ==
  /\ x # Absent => Stands(x)
  /\ object[o] # Absent /\ object[o].id # 0 => x # Absent /\ x.id = object[o].id
  /\ \A i \in JobId' : i \notin JobId => x # Absent /\ x.id = i

LsfKeepsTurn(t, o, k, x) ==
  /\ k # Idle => InTurn(t, k, x, lock'[o])
  /\ \/ x = object[o] \/ object[o] = Absent \/ x = Absent
     \/ ~Public(o) \/ lock[o] \subseteq {t}

LsfKeepsDiagram(o, x) ==
  \/ InDiagram(x) = InDiagram(object[o])
  \/ InDiagram(x) \in Diagram!After(InDiagram(object[o]))

LsfEffect(t, o, k, x) ==
  /\ k \in {Idle} \cup CallNow(LsfPC)'
  /\ x \in {Absent} \cup ObjectNow'
  /\ Step(t, o, k, x)
  /\ jobs' \in Seq(Job) /\ Len(jobs) <= Len(jobs') /\ Len(jobs') <= MaxJob /\ ExitAtEnd'
  /\ known' = known /\ last' = last
  /\ UNCHANGED lock \/ Release(t) \/ \E m \in Mutex : Acquire(m, t)
  /\ LsfKeepsUse(t, o, k, x)
  /\ LsfKeepsJobs(o, x)
  /\ LsfKeepsTurn(t, o, k, x)
  /\ LsfKeepsDiagram(o, x)

LEMMA LsfEffectKeeps ==
  ASSUME LsfInv, UNCHANGED adaptor, NEW t \in Thread, NEW o \in Object, NEW k, NEW x,
         LsfEffect(t, o, k, x)
  PROVE  LsfInv' /\ [Diagram!Next]_Remembered
<1>1. /\ call'[t] = k /\ \A u \in Thread \ {t} : call'[u] = call[u]
      /\ object'[o] = x /\ \A p \in Object \ {o} : object'[p] = object[p]
  BY StepValues DEF LsfInv, LsfEffect
<1>2. /\ lock' \in [Mutex -> SUBSET Thread] /\ Exclusive'
      /\ \A m \in Mutex : lock[m] \ {t} \subseteq lock'[m]
  BY LockTypes DEF LsfInv, ServiceTypes, LsfEffect
<1>3. ServiceTypes(LsfPC)' /\ ObjectsInUse'
  <2>1. last' \in State /\ known' \subseteq known \cup JobId'
    BY DEF LsfEffect, LsfInv, ServiceTypes
  <2> QED
    BY <1>2, <2>1, StepTypes DEF LsfInv, LsfEffect, LsfKeepsUse
<1>4. ObjectsStand'
  BY <1>1 DEF LsfInv, ObjectsStand, LsfEffect, LsfKeepsJobs
<1>5. CallsInTurn'
  <2>1. ASSUME NEW u \in Thread, call'[u] # Idle
        PROVE  InTurn(u, call'[u], object'[call'[u].obj], lock'[call'[u].obj])
    <3>1. CASE u = t
      BY <1>1, <2>1, <3>1 DEF LsfEffect, LsfKeepsTurn, LsfKeepsUse
    <3>2. CASE u # t
      <4>1. /\ call'[u] = call[u] /\ call[u].obj \in Object
            /\ object[call[u].obj] # Absent /\ object'[call[u].obj] # Absent
            /\ InTurn(u, call[u], object[call[u].obj], lock[call[u].obj])
        BY <1>1, <1>3, <2>1, <3>2 DEF LsfInv, ServiceTypes, CallNow, ObjectsInUse, CallsInTurn
      <4>2. u \in lock[call[u].obj] => u \in lock'[call[u].obj]
        BY <1>2, <3>2, <4>1 DEF Mutex
      <4>3. CASE object'[call[u].obj] = object[call[u].obj]
        BY <4>1, <4>2, <4>3 DEF InTurn
      <4>4. CASE object'[call[u].obj] # object[call[u].obj]
        <5>1. call[u].obj = o /\ x # Absent
          BY <1>1, <4>1, <4>4
        <5>2. Public(o)
          BY <2>1, <3>2, <4>1, <5>1 DEF LsfInv, ObjectsInUse, LsfEffect, LsfKeepsUse
        <5>3. lock[o] \subseteq {t}
          BY <1>1, <4>1, <4>4, <5>1, <5>2 DEF LsfEffect, LsfKeepsTurn
        <5> QED
          BY <3>2, <4>1, <5>1, <5>2, <5>3 DEF InTurn, Public, Commands
      <4> QED
        BY <4>3, <4>4
    <3> QED
      BY <3>1, <3>2
  <2> QED
    BY <2>1 DEF CallsInTurn
<1>6. OwnJobsHeld'
  <2>1. ASSUME NEW i \in JobId'
        PROVE  \E p \in Object : object'[p] # Absent /\ object'[p].id = i
    <3>1. CASE i \in JobId
      <4>1. PICK p \in Object : object[p] # Absent /\ object[p].id = i
        BY <3>1 DEF LsfInv, OwnJobsHeld
      <4>2. i # 0
        BY <3>1 DEF JobId
      <4> QED
        BY <1>1, <4>1, <4>2 DEF LsfEffect, LsfKeepsJobs
    <3>2. CASE i \notin JobId
      BY <1>1, <3>2 DEF LsfEffect, LsfKeepsJobs
    <3> QED
      BY <3>1, <3>2
  <2> QED
    BY <2>1 DEF OwnJobsHeld
<1>7. [Diagram!Next]_Remembered
  BY DiagramOfOne DEF LsfInv, LsfEffect, LsfKeepsDiagram
<1> QED
  BY <1>3, <1>4, <1>5, <1>6, <1>7 DEF LsfInv, LsfEffect

-----------------------------------------------------------------------------
(***************************************************************************)
(* Each action has such an effect.                                         *)
(***************************************************************************)
LsfKeeps(t) == \E o \in Object : \E k, x : LsfEffect(t, o, k, x)

LEMMA LsfFacts ==
  ASSUME LsfInv
  PROVE  /\ jobs \in Seq(Job) /\ Len(jobs) \in Nat /\ Len(jobs) <= MaxJob
         /\ DOMAIN jobs = JobId
         /\ object \in [Object -> {Absent} \cup ObjectNow]
         /\ call \in [Thread -> {Idle} \cup CallNow(LsfPC)]
         /\ lock \in [Mutex -> SUBSET Thread]
         /\ \A o \in Object : object[o] # Absent => object[o] \in ObjectNow /\ Stands(object[o])
BY DEF LsfInv, ServiceTypes, JobId, ObjectsStand

LEMMA LsfJobsSame ==
  ASSUME LsfInv, UNCHANGED jobs
  PROVE  /\ jobs' \in Seq(Job) /\ Len(jobs) <= Len(jobs') /\ Len(jobs') <= MaxJob
         /\ ExitAtEnd' /\ JobId' = JobId
         /\ CallNow(LsfPC)' = CallNow(LsfPC) /\ ObjectNow' = ObjectNow
BY LsfFacts DEF LsfInv, ExitAtEnd, JobId, CallNow, ObjectNow

LEMMA LsfMadeMemory ==
  ASSUME LsfInv, NEW life \in {"private", "public"}, NEW state \in State \ {"New"},
         NEW i \in JobId, NEW x, x = Memory(life, "New", 0, {}) \/ x = Memory(life, state, i, {i})
  PROVE  /\ x \in ObjectNow /\ x # Absent /\ x.life = life /\ Stands(x)
         /\ ~(Cardinality(x.stood) > 1)
         /\ InDiagram(x) = IF life = "public" THEN x.state ELSE "absent"
         /\ x.state \in Diagram!After("absent")
<1>1. Len(jobs) \in Nat /\ i # 0 /\ i \in 0 .. Len(jobs) /\ {i} \in SUBSET JobId
  BY LsfFacts DEF JobId
<1>2. /\ x.life = life
      /\ \/ x.state = "New" /\ x.id = 0 /\ x.stood = {}
         \/ x.state = state /\ x.id = i /\ x.stood = {i}
  BY DEF Memory
<1>3. x \in ObjectNow /\ x # Absent
  <2>1. x \in ObjectNow
    BY <1>1 DEF Memory, ObjectNow, State
  <2> QED
    BY <2>1 DEF ObjectNow, Absent
<1>4. ~(Cardinality(x.stood) > 1)
  <2>1. Cardinality({}) = 0 /\ Cardinality({i}) = 1
    BY FS_EmptySet, FS_Singleton
  <2> QED
    BY <1>2, <2>1
<1>5. x.state \in Diagram!After("absent")
  BY <1>2 DEF Diagram!After, Diagram!Started, Diagram!Final, State, Final
<1> QED
  BY <1>1, <1>2, <1>3, <1>4, <1>5 DEF Stands, InDiagram

(* An object that comes to be: create_job, get_job and run_job. *)
LEMMA LsfMadeKeeps ==
  ASSUME LsfInv, UNCHANGED <<adaptor, jobs, known, last>>, NEW t \in Thread, call[t] = Idle,
         NEW o \in Object, object[o] = Absent, NEW k, NEW x \in ObjectNow,
         x # Absent, Stands(x), x.state \in Diagram!After("absent"),
         InDiagram(x) \in {"absent", x.state},
         Step(t, o, k, x),
         \/ k = Idle
         \/ k = Calling("bsub", o, 0, "New") /\ x.id = 0 /\ x.life # "public",
         UNCHANGED lock \/ \E m \in Mutex : Acquire(m, t)
  PROVE  LsfEffect(t, o, k, x)
<1>1. k = Calling("bsub", o, 0, "New") =>
        k \in CallNow(LsfPC) /\ k # Idle /\ k.obj = o /\ k.pc = "bsub"
  BY LsfFacts DEF Calling, CallNow, Idle, State, LsfPC
<1>2. InDiagram(object[o]) = "absent"
  BY DEF InDiagram, Absent
<1>3. LsfKeepsUse(t, o, k, x)
  BY <1>1 DEF LsfKeepsUse, Public, Absent
<1>4. LsfKeepsTurn(t, o, k, x)
  BY <1>1 DEF LsfKeepsTurn, InTurn, Commands
<1> QED
  BY <1>1, <1>2, <1>3, <1>4, LsfJobsSame DEF LsfEffect, LsfKeepsJobs, LsfKeepsDiagram

(* An object that a step leaves alone. *)
LEMMA LsfSameKeeps ==
  ASSUME LsfInv, UNCHANGED <<adaptor, known, last>>, NEW t \in Thread,
         NEW o \in Object, object[o] # Absent, NEW k,
         k = Idle \/ (k \in CallNow(LsfPC) /\ k # Idle /\ k.obj = o /\ InTurn(t, k, object[o], lock'[o])),
         Step(t, o, k, object[o]),
         jobs' \in Seq(Job), Len(jobs') = Len(jobs), ExitAtEnd',
         UNCHANGED lock \/ \E m \in Mutex : Acquire(m, t),
         IF call[t] = Idle THEN Public(o) ELSE call[t].obj = o
  PROVE  LsfEffect(t, o, k, object[o])
<1>1. object[o] \in ObjectNow /\ Stands(object[o]) /\ Len(jobs) \in Nat /\ Len(jobs) <= MaxJob
  BY LsfFacts
<1>2. JobId' = JobId /\ CallNow(LsfPC)' = CallNow(LsfPC) /\ ObjectNow' = ObjectNow
  BY DEF JobId, CallNow, ObjectNow
<1>3. LsfKeepsUse(t, o, k, object[o])
  BY DEF LsfKeepsUse, Public
<1>4. LsfKeepsJobs(o, object[o])
  BY <1>1, <1>2 DEF LsfKeepsJobs
<1>5. LsfKeepsTurn(t, o, k, object[o])
  BY DEF LsfKeepsTurn
<1> QED
  BY <1>1, <1>2, <1>3, <1>4, <1>5 DEF LsfEffect, LsfKeepsDiagram

LEMMA LsfBeginKeeps ==
  ASSUME LsfInv, UNCHANGED adaptor, NEW t \in Thread, NEW o \in Object,
         \/ CreateJob(t, o) \/ RunJob(t, o)
         \/ \E i \in DOMAIN jobs : GetJob(t, o, i)
         \/ Run(t, o) \/ Suspend(t, o) \/ Resume(t, o) \/ Cancel(t, o)
  PROVE  LsfKeeps(t)
<1>1. CASE CreateJob(t, o)
  <2>1. PICK x : x = Memory("public", "New", 0, {})
    OBVIOUS
  <2>2. /\ x \in ObjectNow /\ x # Absent /\ x = NewObject("public") /\ Stands(x)
        /\ x.life = "public" /\ x.state = "New" /\ x.stood = {}
    BY <2>1, MemoryNow, LsfFacts DEF Memory, Stands
  <2>3. Step(t, o, Idle, x)
    BY <1>1, <2>2, LsfFacts DEF CreateJob, Step
  <2>4. Cardinality({}) = 0 /\ "New" \in Diagram!After("absent")
    BY FS_EmptySet DEF Diagram!After, Diagram!Started, Diagram!Final
  <2>5. InDiagram(x) = "New"
    BY <2>2, <2>4 DEF InDiagram
  <2>6. LsfEffect(t, o, Idle, x)
    BY <1>1, <2>2, <2>3, <2>4, <2>5, LsfMadeKeeps DEF CreateJob
  <2> QED
    BY <2>6 DEF LsfKeeps
<1>2. CASE RunJob(t, o)
  <2> DEFINE k == Calling("bsub", o, 0, "New")
  <2>1. PICK x : x = Memory("private", "New", 0, {})
    OBVIOUS
  <2>2. /\ x \in ObjectNow /\ x # Absent /\ x = NewObject("private") /\ Stands(x)
        /\ x.life = "private" /\ x.state = "New" /\ x.id = 0
    BY <2>1, MemoryNow, LsfFacts DEF Memory, Stands
  <2>3. Step(t, o, k, x)
    BY <1>2, <2>2, LsfFacts DEF RunJob, Begins, Step
  <2>4. "New" \in Diagram!After("absent") /\ InDiagram(x) = "absent"
    BY <2>2 DEF Diagram!After, Diagram!Started, Diagram!Final, InDiagram
  <2>5. \E m \in Mutex : Acquire(m, t)
    BY <1>2 DEF RunJob, Mutex
  <2>6. LsfEffect(t, o, k, x)
    BY <1>2, <2>2, <2>3, <2>4, <2>5, LsfMadeKeeps DEF RunJob, Begins
  <2> QED
    BY <2>6 DEF LsfKeeps
<1>3. ASSUME NEW i \in DOMAIN jobs, GetJob(t, o, i)
      PROVE  LsfKeeps(t)
  <2>1. LsfState(i) \in State \ {"New"}
    BY DEF LsfState, State, Final
  <2>2. i \in JobId
    BY LsfFacts
  <2>3. PICK x : x = Memory("public", LsfState(i), i, {i})
    OBVIOUS
  <2>4. /\ x \in ObjectNow /\ x # Absent /\ x.life = "public" /\ Stands(x)
        /\ InDiagram(x) = x.state /\ x.state \in Diagram!After("absent")
    BY <2>1, <2>2, <2>3, LsfMadeMemory
  <2>5. Step(t, o, Idle, x)
    BY <1>3, <2>3, LsfFacts DEF GetJob, ObjectFor, Memory, Step
  <2>6. LsfEffect(t, o, Idle, x)
    BY <1>3, <2>4, <2>5, LsfMadeKeeps DEF GetJob
  <2> QED
    BY <2>6 DEF LsfKeeps
<1>4. CASE Run(t, o)
  <2> DEFINE k == Calling("bsub", o, 0, "New")
  <2>1. /\ object[o] # Absent /\ Public(o) /\ object[o].state = "New" /\ call[t] = Idle
        /\ UNCHANGED <<jobs, known, object, last>> /\ Acquire(o, t)
    BY <1>4 DEF Run, Begins, Public, Absent
  <2>2. Step(t, o, k, object[o])
    BY <1>4, LsfFacts DEF Run, Begins, Step
  <2>3. k \in CallNow(LsfPC) /\ k # Idle /\ k.obj = o /\ k.pc = "bsub"
    BY LsfFacts DEF Calling, CallNow, Idle, State, LsfPC
  <2>4. object[o].id = 0
    BY <2>1, LsfFacts DEF Stands
  <2>5. lock'[o] = {t} /\ \E m \in Mutex : Acquire(m, t)
    BY <2>1, LsfFacts DEF Acquire, Mutex
  <2>6. InTurn(t, k, object[o], lock'[o])
    BY <2>3, <2>4, <2>5 DEF InTurn, Commands
  <2>7. LsfEffect(t, o, k, object[o])
    BY <2>1, <2>2, <2>3, <2>5, <2>6, LsfJobsSame, LsfFacts, LsfSameKeeps
  <2> QED
    BY <2>7 DEF LsfKeeps
<1>5. ASSUME NEW states, NEW pc \in Commands, Ask(t, o, states, pc)
      PROVE  LsfKeeps(t)
  <2> DEFINE k == Calling(pc, o, object[o].id, "New")
  <2>1. /\ object[o] # Absent /\ Public(o) /\ object[o].state # "New" /\ call[t] = Idle
        /\ UNCHANGED <<jobs, known, object, lock, last>>
    BY <1>5 DEF Ask, Started, Begins, Public, Absent
  <2>2. Step(t, o, k, object[o])
    BY <1>5, LsfFacts DEF Ask, Begins, Step
  <2>3. object[o] \in ObjectNow /\ object[o].id # 0
    BY <2>1, LsfFacts DEF Stands
  <2>4. k \in CallNow(LsfPC) /\ k # Idle /\ k.obj = o /\ k.pc = pc /\ k.id # 0
    BY <2>3, LsfFacts DEF Calling, CallNow, Idle, State, LsfPC, Commands, ObjectNow
  <2>5. InTurn(t, k, object[o], lock'[o])
    BY <2>4 DEF InTurn, Commands
  <2>6. LsfEffect(t, o, k, object[o])
    BY <2>1, <2>2, <2>4, <2>5, LsfJobsSame, LsfFacts, LsfSameKeeps
  <2> QED
    BY <2>6 DEF LsfKeeps
<1>6. {"bstop", "bresume", "bkill"} \subseteq Commands
  BY DEF Commands
<1> QED
  BY <1>1, <1>2, <1>3, <1>4, <1>5, <1>6 DEF Suspend, Resume, Cancel

LEMMA LsfBsubKeeps ==
  ASSUME LsfInv, UNCHANGED adaptor, NEW t \in Thread, Bsub(t)
  PROVE  LsfKeeps(t)
<1> DEFINE o == call[t].obj
           r == object[o]
           k == Calling("sleep", o, call[t].id, call[t].state)
<1>1. call[t] # Idle /\ call[t].pc = "bsub" /\ UNCHANGED <<known, last>>
  BY DEF Bsub, Idle
<1>2. /\ o \in Object /\ r \in ObjectNow /\ r # Absent /\ call[t] \in CallNow(LsfPC)
      /\ r.life \in {"private", "public"}
  BY <1>1, InCall DEF LsfInv, ObjectsInUse, ObjectNow
<1>3. /\ r.id = 0 /\ r.stood = {} /\ r.state = "New"
      /\ r.life = "public" => t \in lock[o]
  BY <1>1, <1>2, LsfFacts DEF LsfInv, CallsInTurn, InTurn, Stands
<1>4. CASE Throw(t) /\ UNCHANGED jobs
  <2> DEFINE x == IF Public(o) THEN r ELSE Absent
  <2>1. Release(t) /\ Step(t, o, Idle, x)
    BY <1>1, <1>4, InCall DEF LsfInv
  <2>2. LsfKeepsUse(t, o, Idle, x)
    BY <1>1, <1>2 DEF LsfKeepsUse, Public
  <2>3. LsfKeepsJobs(o, x)
    BY <1>2, <1>3, <1>4, LsfFacts, LsfJobsSame DEF LsfKeepsJobs
  <2>4. LsfKeepsTurn(t, o, Idle, x)
    BY DEF LsfKeepsTurn
  <2>5. LsfKeepsDiagram(o, x)
    BY DEF LsfKeepsDiagram, InDiagram, Public, Absent
  <2>6. LsfEffect(t, o, Idle, x)
    BY <1>1, <1>2, <1>4, <2>1, <2>2, <2>3, <2>4, <2>5, LsfJobsSame DEF LsfEffect
  <2> QED
    BY <1>2, <2>6 DEF LsfKeeps
<1>5. CASE /\ Submitted("accepted") /\ Goto(t, "sleep") /\ UNCHANGED lock
           /\ object' = [object EXCEPT ![o] = [StandFor(o, NextId) EXCEPT !.state = "Running"]]
  <2>1. /\ jobs' \in Seq(Job) /\ Len(jobs') = Len(jobs) + 1 /\ Len(jobs') <= MaxJob
        /\ Len(jobs) \in Nat /\ NextId = Len(jobs) + 1 /\ ExitAtEnd'
    BY <1>5, SubmittedJob, LsfFacts DEF LsfInv
  <2>2. PICK i : i = NextId
    OBVIOUS
  <2>3. /\ i \in JobId' /\ i # 0 /\ i \in 0 .. Len(jobs') /\ {i} \in SUBSET JobId'
        /\ \A j \in JobId' : j \notin JobId => j = i
    BY <2>1, <2>2 DEF JobId
  <2>4. PICK x : x = Memory(r.life, "Running", i, {i})
    OBVIOUS
  <2>5. x.life = r.life /\ x.state = "Running" /\ x.id = i /\ x.stood = {i}
    BY <2>4 DEF Memory
  <2>6. x \in ObjectNow' /\ x # Absent
    BY <1>2, <2>3, <2>4 DEF Memory, ObjectNow, State, Absent
  <2>7. [StandFor(o, NextId) EXCEPT !.state = "Running"] = x
    <3>1. StandFor(o, i) = Memory(r.life, r.state, i, r.stood \cup {i})
      BY <1>2, StandForMemory
    <3>2. StandFor(o, i) = Memory(r.life, r.state, i, {i})
      BY <1>3, <3>1
    <3>3. [Memory(r.life, r.state, i, {i}) EXCEPT !.state = "Running"]
            = Memory(r.life, "Running", i, {i})
      BY DEF Memory
    <3> QED
      BY <2>2, <2>4, <3>2, <3>3
  <2>8. Step(t, o, k, x)
    BY <1>1, <1>2, <1>5, <2>7, InCall DEF LsfInv, Step
  <2>9. k \in CallNow(LsfPC)' /\ k # Idle /\ k.obj = o /\ k.pc = "sleep"
    BY <1>2, <2>1 DEF Calling, CallNow, Idle, LsfPC
  <2>10. LsfKeepsUse(t, o, k, x)
    BY <1>1, <2>5, <2>6, <2>9 DEF LsfKeepsUse, Public
  <2>11. LsfKeepsJobs(o, x)
    BY <1>3, <2>3, <2>5, <2>6 DEF LsfKeepsJobs, Stands
  <2>12. LsfKeepsTurn(t, o, k, x)
    <3>1. Public(o) => lock[o] \subseteq {t}
      BY <1>2, <1>3 DEF Public, LsfInv, ServiceTypes, Exclusive, Mutex
    <3> QED
      BY <1>3, <1>5, <2>5, <2>9, <3>1 DEF LsfKeepsTurn, InTurn, Commands
  <2>13. LsfKeepsDiagram(o, x)
    <3>1. Cardinality({i}) = 1 /\ Cardinality({}) = 0
      BY FS_Singleton, FS_EmptySet
    <3>2. r.life = "public" => InDiagram(r) = "New" /\ InDiagram(x) = "Running"
      BY <1>3, <2>5, <3>1 DEF InDiagram
    <3>3. r.life # "public" => InDiagram(r) = InDiagram(x)
      BY <2>5 DEF InDiagram
    <3>4. "Running" \in Diagram!After("New")
      BY DEF Diagram!After, Diagram!Started, Diagram!Final
    <3> QED
      BY <3>2, <3>3, <3>4 DEF LsfKeepsDiagram
  <2>14. LsfEffect(t, o, k, x)
    BY <1>1, <1>5, <2>1, <2>6, <2>8, <2>9, <2>10, <2>11, <2>12, <2>13 DEF LsfEffect
  <2> QED
    BY <1>2, <2>14 DEF LsfKeeps
<1> QED
  BY <1>4, <1>5 DEF Bsub

LEMMA LsfSleepKeeps ==
  ASSUME LsfInv, UNCHANGED adaptor, NEW t \in Thread, Sleep(t)
  PROVE  LsfKeeps(t)
<1> DEFINE o == call[t].obj
           r == object[o]
<1>1. call[t] # Idle /\ call[t].pc = "sleep" /\ UNCHANGED <<jobs, known, last>> /\ Release(t)
  BY DEF Sleep, Idle
<1>2. o \in Object /\ r \in ObjectNow /\ r # Absent /\ Stands(r)
  BY <1>1, InCall, LsfFacts DEF LsfInv, ObjectsInUse
<1>3. r.life = "public" => t \in lock[o]
  BY <1>1 DEF LsfInv, CallsInTurn, InTurn
<1>4. PICK x : x = Memory("public", r.state, r.id, r.stood)
  OBVIOUS
<1>5. x.life = "public" /\ x.state = r.state /\ x.id = r.id /\ x.stood = r.stood
  BY <1>4 DEF Memory
<1>6. x \in ObjectNow /\ x # Absent /\ [r EXCEPT !.life = "public"] = x
  BY <1>2, <1>4 DEF Memory, ObjectNow, Absent
<1>7. Step(t, o, Idle, x)
  BY <1>6 DEF Sleep, Return, Step
<1>8. LsfKeepsUse(t, o, Idle, x)
  BY <1>1, <1>5, <1>6 DEF LsfKeepsUse
<1>9. LsfKeepsJobs(o, x)
  BY <1>1, <1>2, <1>5, <1>6, LsfJobsSame DEF LsfKeepsJobs, Stands
<1>10. LsfKeepsTurn(t, o, Idle, x)
  BY <1>2, <1>3 DEF LsfKeepsTurn, Public, LsfInv, ServiceTypes, Exclusive, Mutex
<1>11. LsfKeepsDiagram(o, x)
  <2>1. CASE r.life = "public"
    BY <1>5, <2>1 DEF LsfKeepsDiagram, InDiagram
  <2>2. CASE r.life # "public"
    <3>1. Cardinality(r.stood) \in {0, 1}
      <4>1. r.stood = {} \/ r.stood = {r.id}
        BY <1>2 DEF Stands
      <4> QED
        BY <4>1, FS_EmptySet, FS_Singleton
    <3>2. InDiagram(r) = "absent" /\ InDiagram(x) = r.state
      <4>1. ~(Cardinality(x.stood) > 1)
        BY <1>5, <3>1
      <4> QED
        BY <1>5, <2>2, <4>1 DEF InDiagram
    <3>3. r.state \in Diagram!After("absent")
      BY <1>2 DEF ObjectNow, State, Final, Diagram!After, Diagram!Started, Diagram!Final
    <3> QED
      BY <3>2, <3>3 DEF LsfKeepsDiagram
  <2> QED
    BY <2>1, <2>2
<1>12. LsfEffect(t, o, Idle, x)
  BY <1>1, <1>6, <1>7, <1>8, <1>9, <1>10, <1>11, LsfJobsSame DEF LsfEffect
<1> QED
  BY <1>2, <1>12 DEF LsfKeeps

LEMMA LsfCommandKeeps ==
  ASSUME LsfInv, UNCHANGED adaptor, NEW t \in Thread, Command(t)
  PROVE  LsfKeeps(t)
<1> DEFINE o == call[t].obj
<1>1. call[t] # Idle /\ call[t].pc \in Commands /\ UNCHANGED <<known, object, lock, last>>
  BY DEF Command, Idle, Commands
<1>2. o \in Object /\ object[o] # Absent /\ call[t].id \in JobId /\ Len(jobs) \in Nat
  BY <1>1, InCall, LsfFacts DEF LsfInv, ObjectsInUse, CallsInTurn, InTurn, CallNow, JobId
<1>3. Step(t, o, Idle, object[o])
  BY <1>1, <1>2, LsfFacts DEF Command, Return, Step
<1>4. jobs' \in Seq(Job) /\ Len(jobs') = Len(jobs) /\ ExitAtEnd'
  <2>1. jobs \in Seq(Job) /\ ExitAtEnd
    BY LsfFacts DEF LsfInv
  <2>2. CASE jobs[call[t].id].phase \in Live /\ Become(call[t].id, "suspended")
    <3>1. "suspended" \in Phase /\ jobs[call[t].id].exit = "none"
      BY <1>2, <2>1, <2>2 DEF Phase, Live, ExitAtEnd
    <3> QED
      BY <1>2, <2>1, <2>2, <3>1, ChangedJob
  <2>3. CASE jobs[call[t].id].phase = "suspended" /\ Become(call[t].id, "active")
    <3>1. "active" \in Phase /\ jobs[call[t].id].exit = "none"
      BY <1>2, <2>1, <2>3 DEF Phase, Live, ExitAtEnd
    <3> QED
      BY <1>2, <2>1, <2>3, <3>1, ChangedJob
  <2>4. CASE jobs[call[t].id].phase \in Live /\ Ended(call[t].id, "complete", "canceled")
    <3>1. "complete" \in Phase /\ "canceled" \in Exit
      BY DEF Phase, Exit
    <3> QED
      BY <1>2, <2>1, <2>4, <3>1, ChangedJob
  <2>5. CASE UNCHANGED jobs
    BY <2>1, <2>5, LsfJobsSame
  <2> QED
    BY <2>2, <2>3, <2>4, <2>5 DEF Command
<1>5. LsfEffect(t, o, Idle, object[o])
  BY <1>1, <1>2, <1>3, <1>4, LsfSameKeeps
<1> QED
  BY <1>2, <1>5 DEF LsfKeeps

-----------------------------------------------------------------------------
(***************************************************************************)
(* The invariant.                                                          *)
(***************************************************************************)
LEMMA LsfInitInv == LsfInit => LsfInv
<1> SUFFICES ASSUME LsfInit PROVE LsfInv
  OBVIOUS
<1>1. jobs = <<>> /\ JobId = {}
  BY DEF LsfInit, ServiceInit, JobId
<1>2. ServiceTypes(LsfPC) /\ ExitAtEnd /\ ObjectsInUse
  BY InitTypes DEF LsfInit, ServiceInit
<1> QED
  BY <1>1, <1>2 DEF LsfInit, ServiceInit, LsfInv, ObjectsStand, CallsInTurn, OwnJobsHeld

(* A step keeps the invariant and is a step of the state diagram. *)
LEMMA LsfNextInv ==
  ASSUME LsfInv, [LsfNext]_vars
  PROVE  LsfInv' /\ [Diagram!Next]_Remembered
<1>1. ASSUME UNCHANGED <<adaptor, known, object, call, lock, last>>,
             jobs' \in Seq(Job), Len(jobs') = Len(jobs), ExitAtEnd'
      PROVE  LsfInv' /\ [Diagram!Next]_Remembered
  <2>1. ServiceTypes(LsfPC)' /\ ObjectsInUse'
    BY <1>1 DEF LsfInv, ServiceTypes, ObjectsInUse, JobId, ObjectNow, CallNow, Exclusive, Public
  <2>2. ObjectsStand' /\ CallsInTurn' /\ OwnJobsHeld'
    BY <1>1 DEF LsfInv, ObjectsStand, CallsInTurn, OwnJobsHeld, JobId
  <2>3. UNCHANGED Remembered
    BY <1>1 DEF Remembered, Public
  <2> QED
    BY <1>1, <2>1, <2>2, <2>3 DEF LsfInv
<1>2. CASE UNCHANGED vars
  BY <1>1, <1>2, LsfJobsSame, LsfFacts DEF vars
<1>3. ASSUME NEW t \in Thread, LsfKeeps(t), UNCHANGED adaptor
      PROVE  LsfInv' /\ [Diagram!Next]_Remembered
  BY <1>3, LsfEffectKeeps DEF LsfKeeps
<1>4. ASSUME UNCHANGED adaptor, ManagerStep(Live, {"zero", "positive"})
      PROVE  LsfInv' /\ [Diagram!Next]_Remembered
  <2>1. PICK i \in JobId :
          \/ jobs[i].phase = "accepted" /\ Become(i, "active")
          \/ jobs[i].phase \in Live /\ \E p \in Live \ {jobs[i].phase} : Become(i, p)
          \/ jobs[i].phase = "active" /\ \E e \in {"zero", "positive"} : Ended(i, "complete", e)
          \/ jobs[i].phase = "complete" /\ Become(i, "gone")
    BY <1>4, LsfFacts DEF ManagerStep
  <2>2. jobs \in Seq(Job) /\ ExitAtEnd
    BY LsfFacts DEF LsfInv
  <2>3. jobs' \in Seq(Job) /\ Len(jobs') = Len(jobs) /\ ExitAtEnd'
    BY <2>1, <2>2, ManagedJob
  <2> QED
    BY <1>1, <1>4, <2>3 DEF ManagerStep
<1> QED
  BY <1>2, <1>3, <1>4, LsfBeginKeeps, LsfBsubKeeps, LsfSleepKeeps, LsfCommandKeeps DEF LsfNext

(* What the invariant says. *)
LEMMA LsfTypeOKHolds == LsfInv => LsfTypeOK
BY ServiceTypesOK DEF LsfInv, LsfTypeOK

LEMMA LsfSubmittedOnceHolds == LsfInv => LsfSubmittedOnce
<1>1. ASSUME LsfInv, NEW o \in Object, object[o] # Absent
      PROVE  Cardinality(object[o].stood) <= 1
  <2>1. object[o].stood = {} \/ object[o].stood = {object[o].id}
    BY <1>1, LsfFacts DEF Stands
  <2>2. Cardinality({}) = 0 /\ Cardinality({object[o].id}) = 1
    BY FS_EmptySet, FS_Singleton
  <2> QED
    BY <2>1, <2>2
<1> QED
  BY <1>1 DEF LsfSubmittedOnce

LEMMA LsfNoJobLostHolds == LsfInv => LsfNoJobLost
BY LsfFacts DEF LsfInv, OwnJobsHeld, LsfNoJobLost, Lost, Reachable

(* The invariant of the lsf adaptor holds in every state. *)
THEOREM LsfInvariant == LsfSpec => []LsfInv
<1>1. LsfInit => LsfInv
  BY LsfInitInv
<1>2. LsfInv /\ [LsfNext]_vars => LsfInv'
  BY LsfNextInv
<1> QED
  BY <1>1, <1>2, PTL DEF LsfSpec

(* Every variable of the lsf adaptor keeps its type. *)
THEOREM LsfTypeCorrect == LsfSpec => []LsfTypeOK
BY LsfTypeOKHolds, LsfInvariant, PTL

(* One job is submitted for an object, however many threads run it. *)
THEOREM LsfRunOnce == LsfSpec => []LsfSubmittedOnce
BY LsfSubmittedOnceHolds, LsfInvariant, PTL

(* Every job that has been submitted is at hand in an object. *)
THEOREM LsfJobsReachable == LsfSpec => []LsfNoJobLost
BY LsfNoJobLostHolds, LsfInvariant, PTL

(* What the objects of lsf remember implements the state diagram of a SAGA  *)
(* job.                                                                     *)
THEOREM LsfDiagramImplemented == LsfSpec => FollowsDiagram
<1>1. LsfInit => Diagram!Init
  BY DEF LsfInit, ServiceInit, Remembered, Unremembered, Diagram!Init, Public, Absent
<1>2. LsfInv /\ [LsfNext]_vars => [Diagram!Next]_Remembered
  BY LsfNextInv
<1> QED
  BY <1>1, <1>2, LsfInvariant, PTL DEF LsfSpec, FollowsDiagram, Diagram!Spec

-----------------------------------------------------------------------------
(***************************************************************************)
(* The other adaptors.  The modules of their proofs are instantiated here  *)
(* as MCJobs instantiates the adaptors' modules: what the two mean is the  *)
(* same, which expanding both shows.                                       *)
(***************************************************************************)
BP == INSTANCE BatchJobProofs
GP == INSTANCE GridsamJobProofs

(* pbspro, torque and naregi. *)
LEMMA BatchSame ==
  /\ Batch!Init = BP!Init
  /\ Batch!Next = BP!Next
  /\ Batch!TypeOK = BP!TypeOK
  /\ Batch!ReportsFate = BP!ReportsFate
  /\ Batch!NoJobLost = BP!NoJobLost
  /\ Batch!OnlyOppositeOrdersHang = BP!OnlyOppositeOrdersHang
<1>1. Batch!Init = BP!Init
  BY DEF Batch!Init, Batch!BatchAdaptor, Batch!ServiceInit, Batch!Foreign, Batch!Pbs,
     Batch!Absent, Batch!Idle, Batch!Mutex, BP!Init, BP!BatchAdaptor, BP!ServiceInit,
     BP!Foreign, BP!Pbs, BP!Absent, BP!Idle, BP!Mutex
<1>2. Batch!Next = BP!Next
  BY DEF Batch!Next, Batch!Continue, Batch!Begin, Batch!ManagerStep, Batch!Live, Batch!Submit,
     Batch!Record, Batch!SetRunning, Batch!SubmitJob, Batch!RegisterJob, Batch!Find,
     Batch!Probe, Batch!Query, Batch!Trace, Batch!Update, Batch!CancelJob,
     Batch!CreateJob, Batch!RunJob, Batch!GetJob, Batch!Run, Batch!GetState,
     Batch!Cancel, Batch!Become, Batch!Ended, Batch!Available, Batch!Submitted,
     Batch!Acquire, Batch!NextId, Batch!Throw, Batch!StandFor, Batch!Goto, Batch!Return,
     Batch!Release, Batch!Pbs, Batch!Found, Batch!NotFound, Batch!Traced, Batch!Carry,
     Batch!Idle, Batch!Absent, Batch!NewObject, Batch!Begins, Batch!Public, Batch!Final,
     Batch!Mutex, Batch!StateOf, Batch!Calling, BP!Next, BP!Continue, BP!Begin,
     BP!ManagerStep, BP!Live, BP!Submit, BP!Record, BP!SetRunning, BP!SubmitJob,
     BP!RegisterJob, BP!Find, BP!Probe, BP!Query, BP!Trace, BP!Update, BP!CancelJob,
     BP!CreateJob, BP!RunJob, BP!GetJob, BP!Run, BP!GetState, BP!Cancel, BP!Become,
     BP!Ended, BP!Available, BP!Submitted, BP!Acquire, BP!NextId, BP!Throw, BP!StandFor,
     BP!Goto, BP!Return, BP!Release, BP!Pbs, BP!Found, BP!NotFound, BP!Traced, BP!Carry,
     BP!Idle, BP!Absent, BP!NewObject, BP!Begins, BP!Public, BP!Final, BP!Mutex,
     BP!StateOf, BP!Calling
<1>3. Batch!TypeOK = BP!TypeOK
  BY DEF Batch!TypeOK, Batch!BatchAdaptor, Batch!ServiceTypeOK, Batch!BatchPC, Batch!Pbs,
     Batch!Exit, Batch!Live, Batch!JobObject, Batch!Idle, Batch!State, Batch!Mutex,
     Batch!Absent, Batch!Final, BP!TypeOK, BP!BatchAdaptor, BP!ServiceTypeOK,
     BP!BatchPC, BP!Pbs, BP!Exit, BP!Live, BP!JobObject, BP!Idle, BP!State, BP!Mutex,
     BP!Absent, BP!Final,
     Batch!Cardinality, BP!Cardinality
<1>4. Batch!ReportsFate = BP!ReportsFate
  BY DEF Batch!ReportsFate, Batch!Pbs, Batch!Public, Batch!TellsFate, Batch!Final, Batch!FateOf,
     Batch!Exit, BP!ReportsFate, BP!Pbs, BP!Public, BP!TellsFate, BP!Final, BP!FateOf,
     BP!Exit
<1>5. Batch!NoJobLost = BP!NoJobLost
  BY DEF Batch!NoJobLost, Batch!Lost, Batch!Reachable, Batch!Absent, Batch!Idle, BP!NoJobLost,
     BP!Lost, BP!Reachable, BP!Absent, BP!Idle
<1>6. Batch!OnlyOppositeOrdersHang = BP!OnlyOppositeOrdersHang
  BY DEF Batch!OnlyOppositeOrdersHang, Batch!Waits, Batch!Idle, Batch!Wanted, Batch!Pbs,
     BP!OnlyOppositeOrdersHang, BP!Waits, BP!Idle, BP!Wanted, BP!Pbs
<1> QED
  BY <1>1, <1>2, <1>3, <1>4, <1>5, <1>6

(* gridsam. *)
LEMMA GridsamSame ==
  /\ Gridsam!Init = GP!Init
  /\ Gridsam!Next = GP!Next
  /\ Gridsam!TypeOK = GP!TypeOK
  /\ Gridsam!ReportsFate = GP!ReportsFate
  /\ Gridsam!RunningHasId = GP!RunningHasId
<1>1. Gridsam!Init = GP!Init
  BY DEF Gridsam!Init, Gridsam!ServiceInit, Gridsam!Absent, Gridsam!Idle, Gridsam!Mutex, GP!Init,
     GP!ServiceInit, GP!Absent, GP!Idle, GP!Mutex
<1>2. Gridsam!Next = GP!Next
  BY DEF Gridsam!Next, Gridsam!ReadState, Gridsam!SubmitJob, Gridsam!Status, Gridsam!Adopt,
     Gridsam!Commit, Gridsam!Query, Gridsam!Update, Gridsam!TerminateJob,
     Gridsam!CreateJob, Gridsam!RunJob, Gridsam!GetJob, Gridsam!Run, Gridsam!GetState,
     Gridsam!Cancel, Gridsam!ManagerStep, Gridsam!Carry, Gridsam!Submitted,
     Gridsam!NextId, Gridsam!Goto, Gridsam!Available, Gridsam!Shown,
     Gridsam!GridsamState, Gridsam!Acquire, Gridsam!Release, Gridsam!Public,
     Gridsam!Absent, Gridsam!Return, Gridsam!Throw, Gridsam!Live, Gridsam!Ended,
     Gridsam!Idle, Gridsam!NewObject, Gridsam!Begins, Gridsam!ObjectFor, Gridsam!Become,
     Gridsam!Mutex, Gridsam!Calling, GP!Next, GP!ReadState, GP!SubmitJob, GP!Status,
     GP!Adopt, GP!Commit, GP!Query, GP!Update, GP!TerminateJob, GP!CreateJob, GP!RunJob,
     GP!GetJob, GP!Run, GP!GetState, GP!Cancel, GP!ManagerStep, GP!Carry, GP!Submitted,
     GP!NextId, GP!Goto, GP!Available, GP!Shown, GP!GridsamState, GP!Acquire,
     GP!Release, GP!Public, GP!Absent, GP!Return, GP!Throw, GP!Live, GP!Ended, GP!Idle,
     GP!NewObject, GP!Begins, GP!ObjectFor, GP!Become, GP!Mutex, GP!Calling
<1>3. Gridsam!TypeOK = GP!TypeOK
  BY DEF Gridsam!TypeOK, Gridsam!ServiceTypeOK, Gridsam!GridsamPC, Gridsam!Exit, Gridsam!Live,
     Gridsam!JobObject, Gridsam!Idle, Gridsam!State, Gridsam!Mutex, Gridsam!Absent,
     Gridsam!Final, GP!TypeOK, GP!ServiceTypeOK, GP!GridsamPC, GP!Exit, GP!Live,
     GP!JobObject, GP!Idle, GP!State, GP!Mutex, GP!Absent, GP!Final,
     Gridsam!Cardinality, GP!Cardinality
<1>4. Gridsam!ReportsFate = GP!ReportsFate
  BY DEF Gridsam!ReportsFate, Gridsam!Public, Gridsam!TellsFate, Gridsam!Final, Gridsam!FateOf,
     Gridsam!Exit, GP!ReportsFate, GP!Public, GP!TellsFate, GP!Final, GP!FateOf, GP!Exit
<1>5. Gridsam!RunningHasId = GP!RunningHasId
  BY DEF Gridsam!RunningHasId, Gridsam!Public, GP!RunningHasId, GP!Public
<1> QED
  BY <1>1, <1>2, <1>3, <1>4, <1>5

-----------------------------------------------------------------------------
(***************************************************************************)
(* All adaptors.                                                           *)
(***************************************************************************)
BatchAdaptors == {"pbspro", "torque", "naregi"}

JobsInv ==
  /\ adaptor \in BatchAdaptors \cup {"lsf", "gridsam", "drmaa", "aws"}
  /\ adaptor \in BatchAdaptors => BP!BatchInv
  /\ adaptor = "lsf" => LsfInv
  /\ adaptor = "gridsam" => GP!GridsamInv
  /\ adaptor = "drmaa" => DrmaaInv
  /\ CloudInv

LEMMA CloudStays == CloudInv /\ UNCHANGED cloudVars => CloudInv'
BY DEF cloudVars, CloudInv, CloudTypes, ServicesMean, AllAccounted, Accounted, ServiceNow

(* The state diagram means the same in the module of the proofs. *)
LEMMA DiagramsSame == [BP!Diagram!Next]_(BP!Remembered) => [Diagram!Next]_Remembered
BY DEF BP!Diagram!Next, BP!Diagram!After, BP!Diagram!Started, BP!Diagram!Final, BP!Remembered,
     BP!Unremembered, BP!Public, BP!Cardinality, Diagram!Next, Diagram!After, Diagram!Started,
     Diagram!Final, Remembered, Unremembered, Public, Cardinality

LEMMA JobsInitInv == Init => JobsInv
<1> SUFFICES ASSUME Init PROVE JobsInv
  OBVIOUS
<1>1. CloudInv
  BY CloudInitInv DEF Init
<1>2. CASE Batch!Init
  <2>1. BP!BatchInv
    BY <1>2, BatchSame, BP!InitInv, JobServiceAssumption
  <2>2. adaptor \in BatchAdaptors
    BY <1>2 DEF BatchAdaptors, Batch!Init, Batch!BatchAdaptor, Batch!Pbs
  <2> QED
    BY <1>1, <2>1, <2>2 DEF JobsInv, BatchAdaptors
<1>3. CASE LsfInit
  <2>1. LsfInv
    BY <1>3, LsfInitInv
  <2>2. adaptor = "lsf"
    BY <1>3 DEF LsfInit
  <2> QED
    BY <1>1, <2>1, <2>2 DEF JobsInv, BatchAdaptors
<1>4. CASE Gridsam!Init
  <2>1. GP!GridsamInv
    BY <1>4, GridsamSame, GP!InitInv, JobServiceAssumption
  <2>2. adaptor = "gridsam"
    BY <1>4 DEF Gridsam!Init
  <2> QED
    BY <1>1, <2>1, <2>2 DEF JobsInv, BatchAdaptors
<1>5. CASE Drmaa!Init
  <2>1. DrmaaInv
    BY <1>5, DrmaaInitInv
  <2> QED
    BY <1>1, <2>1 DEF JobsInv, BatchAdaptors, DrmaaInv
<1>6. CASE adaptor = "aws"
  BY <1>1, <1>6 DEF JobsInv, BatchAdaptors
<1> QED
  BY <1>2, <1>3, <1>4, <1>5, <1>6 DEF Init

(* A step keeps the invariant and is a step of the state diagram. *)
LEMMA JobsNextInv ==
  ASSUME JobsInv, [Next]_<<vars, cloudVars>>
  PROVE  JobsInv' /\ [Diagram!Next]_Remembered
<1>1. CASE adaptor \in BatchAdaptors /\ Batch!Next /\ UNCHANGED cloudVars
  <2>1. BP!BatchInv /\ BP!Next
    BY <1>1, BatchSame DEF JobsInv
  <2>2. BP!BatchInv' /\ [BP!Diagram!Next]_(BP!Remembered)
    BY <2>1, BP!NextInv, JobServiceAssumption
  <2>3. adaptor' = adaptor
    BY <1>1 DEF Batch!Next
  <2>4. CloudInv'
    BY <1>1, CloudStays DEF JobsInv
  <2>5. [Diagram!Next]_Remembered
    BY <2>2, DiagramsSame
  <2> QED
    BY <1>1, <2>2, <2>3, <2>4, <2>5 DEF JobsInv, BatchAdaptors
<1>2. CASE adaptor = "lsf" /\ LsfNext /\ UNCHANGED cloudVars
  <2>1. LsfInv' /\ [Diagram!Next]_Remembered
    BY <1>2, LsfNextInv DEF JobsInv
  <2>2. adaptor' = adaptor
    BY <1>2 DEF LsfNext
  <2>3. CloudInv'
    BY <1>2, CloudStays DEF JobsInv
  <2> QED
    BY <1>2, <2>1, <2>2, <2>3 DEF JobsInv, BatchAdaptors
<1>3. ASSUME UNCHANGED adaptor, adaptor \notin {"pbspro", "torque", "lsf"}
      PROVE  [Diagram!Next]_Remembered
  BY <1>3 DEF Remembered, Unremembered
<1>4. CASE adaptor = "gridsam" /\ Gridsam!Next /\ UNCHANGED cloudVars
  <2>1. GP!GridsamInv /\ GP!Next
    BY <1>4, GridsamSame DEF JobsInv
  <2>2. GP!GridsamInv'
    BY <2>1, GP!NextInv, JobServiceAssumption
  <2>3. adaptor' = adaptor
    BY <1>4 DEF Gridsam!Next
  <2>4. CloudInv'
    BY <1>4, CloudStays DEF JobsInv
  <2> QED
    BY <1>3, <1>4, <2>2, <2>3, <2>4 DEF JobsInv, BatchAdaptors
<1>5. CASE adaptor = "drmaa" /\ Drmaa!Next /\ UNCHANGED cloudVars
  <2>1. DrmaaInv'
    BY <1>5, DrmaaNextInv DEF JobsInv
  <2>2. adaptor' = adaptor
    BY <1>5 DEF Drmaa!Next
  <2>3. CloudInv'
    BY <1>5, CloudStays DEF JobsInv
  <2> QED
    BY <1>3, <1>5, <2>1, <2>2, <2>3 DEF JobsInv, BatchAdaptors
<1>6. CASE adaptor = "aws" /\ CloudNext /\ UNCHANGED vars
  <2>1. CloudInv' /\ adaptor' = adaptor
    BY <1>6, CloudNextInv DEF JobsInv, vars
  <2> QED
    BY <1>3, <1>6, <2>1 DEF JobsInv, BatchAdaptors
<1>7. CASE UNCHANGED <<vars, cloudVars>>
  <2>1. UNCHANGED <<adaptor, jobs, known, object, call, lock, last>> /\ UNCHANGED vars
    BY <1>7 DEF vars
  <2>2. CloudInv'
    BY <1>7, CloudStays DEF JobsInv
  <2>3. BP!BatchInv => BP!BatchInv'
    BY <2>1, BP!NextInv, JobServiceAssumption DEF BP!vars
  <2>4. LsfInv => LsfInv'
    BY <2>1, LsfNextInv DEF vars
  <2>5. GP!GridsamInv => GP!GridsamInv'
    BY <2>1, GP!NextInv, JobServiceAssumption DEF GP!vars
  <2>6. DrmaaInv => DrmaaInv'
    BY <2>1 DEF DrmaaInv, ServiceTypes, ExitAtEnd, ObjectsInUse, CallsAsk, AllHeld, Held,
         JobId, ObjectNow, CallNow, Exclusive, Public
  <2>7. UNCHANGED Remembered
    BY <2>1 DEF Remembered, Public
  <2> QED
    BY <2>1, <2>2, <2>3, <2>4, <2>5, <2>6, <2>7 DEF JobsInv
<1> QED
  BY <1>1, <1>2, <1>4, <1>5, <1>6, <1>7
  DEF Next, Batch!BatchAdaptor, Batch!Pbs, BatchAdaptors

(* What the adaptors' invariants say of the properties of MCJobs. *)
LEMMA JobsFacts ==
  ASSUME JobsInv
  PROVE  /\ TypeOK /\ ReportsFate /\ NoJobLost /\ OnlyOppositeOrdersHang
         /\ SubmittedOnce /\ RunningHasId /\ LostOnlyByRerun
         /\ LeakedByFailureOnly /\ SubmitsToItsInstance
<1>1. Batch!BatchAdaptor = BatchAdaptors
  BY DEF Batch!BatchAdaptor, Batch!Pbs, BatchAdaptors
<1>2. adaptor \in BatchAdaptors =>
        Batch!TypeOK /\ Batch!ReportsFate /\ Batch!NoJobLost /\ Batch!OnlyOppositeOrdersHang
  BY BatchSame, BP!TypeOKHolds, BP!ReportsFateHolds, BP!NoJobLostHolds,
     BP!OnlyOppositeOrdersHangHolds, JobServiceAssumption DEF JobsInv
<1>3. adaptor = "lsf" => LsfTypeOK /\ LsfNoJobLost /\ LsfSubmittedOnce
  BY LsfTypeOKHolds, LsfNoJobLostHolds, LsfSubmittedOnceHolds DEF JobsInv
<1>4. adaptor = "gridsam" => Gridsam!TypeOK /\ Gridsam!ReportsFate /\ Gridsam!RunningHasId
  BY GridsamSame, GP!InvFacts, JobServiceAssumption DEF JobsInv
<1>5. adaptor = "drmaa" => Drmaa!TypeOK /\ Drmaa!LostOnlyByRerun
  BY DrmaaInvFacts DEF JobsInv
<1>6. CloudTypeOK /\ LeakedByFailureOnly /\ SubmitsToItsInstance
  BY CloudFacts DEF JobsInv
<1>7. TypeOK
  BY <1>1, <1>2, <1>3, <1>4, <1>5, <1>6 DEF JobsInv, TypeOK, BatchAdaptors
<1>8. ReportsFate
  <2>1. adaptor \notin BatchAdaptors => Batch!ReportsFate
    BY DEF Batch!ReportsFate, Batch!Pbs, BatchAdaptors
  <2> QED
    BY <1>2, <1>4, <2>1 DEF ReportsFate
<1> QED
  BY <1>1, <1>2, <1>3, <1>4, <1>5, <1>6, <1>7, <1>8
  DEF NoJobLost, OnlyOppositeOrdersHang, SubmittedOnce, RunningHasId, LostOnlyByRerun

(* The invariants of the adaptors hold in every state. *)
THEOREM Invariant == Spec => []JobsInv
<1>1. Init => JobsInv
  BY JobsInitInv
<1>2. JobsInv /\ [Next]_<<vars, cloudVars>> => JobsInv'
  BY JobsNextInv
<1> QED
  BY <1>1, <1>2, PTL DEF Spec

(* Every variable of the job adaptors and of the cloud keeps its type. *)
THEOREM TypeCorrect == Spec => []TypeOK
BY Invariant, JobsFacts, PTL

(* A final state that an object of pbspro, torque or gridsam remembers is   *)
(* the fate of a job it has stood for.                                      *)
THEOREM FateReported == Spec => []ReportsFate
BY Invariant, JobsFacts, PTL

(* pbspro, torque, naregi and lsf lose no job they have submitted. *)
THEOREM JobsReachable == Spec => []NoJobLost
BY Invariant, JobsFacts, PTL

(* Threads of pbspro, torque and naregi wait for each other only if one is *)
(* in get_job.                                                              *)
THEOREM OnlyGetJobHangs == Spec => []OnlyOppositeOrdersHang
BY Invariant, JobsFacts, PTL

(* Threads that run one object of lsf submit one job. *)
THEOREM RunOnce == Spec => []SubmittedOnce
BY Invariant, JobsFacts, PTL

(* An object of gridsam that says its job runs or is done has its id. *)
THEOREM IdRemembered == Spec => []RunningHasId
BY Invariant, JobsFacts, PTL

(* A job of drmaa that nobody has the id of any more is one whose object has *)
(* been run again.                                                          *)
THEOREM RerunLoses == Spec => []LostOnlyByRerun
BY Invariant, JobsFacts, PTL

(* An instance of the cloud that is left running is one whose constructor   *)
(* has thrown or that could not be terminated.                              *)
THEOREM InstancesReleased == Spec => []LeakedByFailureOnly
BY Invariant, JobsFacts, PTL

(* A service of aws submits to the instance it has started or was given.    *)
THEOREM InstanceUsed == Spec => []SubmitsToItsInstance
BY Invariant, JobsFacts, PTL

(* What the objects of pbspro, torque and lsf remember implements the state *)
(* diagram of a SAGA job.                                                   *)
THEOREM DiagramImplemented == Spec => FollowsDiagram
<1>1. Init => Diagram!Init
  <2>1. Init => object = [o \in Object |-> Absent]
    BY DEF Init, ServiceInit, Absent, Batch!Init, Batch!ServiceInit, Batch!Absent,
         LsfInit, Gridsam!Init, Gridsam!ServiceInit,
         Gridsam!Absent, Drmaa!Init, Drmaa!ServiceInit, Drmaa!Absent
  <2> QED
    BY <2>1 DEF Remembered, Unremembered, Diagram!Init, Public, Absent
<1>2. JobsInv /\ [Next]_<<vars, cloudVars>> => [Diagram!Next]_Remembered
  BY JobsNextInv
<1> QED
  BY <1>1, <1>2, Invariant, PTL DEF Spec, FollowsDiagram, Diagram!Spec
=============================================================================
