---------------------------- MODULE CloudService ----------------------------
(***************************************************************************)
(* The job service of the AWS adaptor.  Its constructor starts an instance *)
(* (a virtual machine) of the cloud, or attaches to one that is given by   *)
(* id or by host name; then it creates an ssh job service `js` that does   *)
(* all the work.  Its destructor terminates the instance vm_id, unless the *)
(* configuration says ec2_keepalive.  C++ runs no destructor when the      *)
(* constructor throws.                                                     *)
(*                                                                         *)
(* The constructor locks the adaptor's data from its first to its last     *)
(* line: one service is constructed at a time.                             *)
(***************************************************************************)
EXTENDS Naturals, Sequences

CONSTANTS
    Service,   \* job services an application may construct
    MaxVM      \* bound on the instances that are started

ASSUME CloudAssumption == MaxVM \in Nat

VARIABLES
    vms,       \* instances of the cloud, by id
    service,   \* the job services
    keepalive  \* ec2_keepalive of the configuration

cloudVars == <<vms, service, keepalive>>

\* `failed` is a history: a constructor has thrown after it had started the
\* instance, or the command that was to terminate it has failed.
VM == [phase : {"pending", "running", "terminated"}, failed : BOOLEAN]

\* 0 is an empty vm_id, vm_ip, or host of js.  `meant` is a history: the
\* instance the constructor has started or was given.
NoService == [pc |-> "absent"]
Constructing(pc, how, id, ip, v) ==
    [pc |-> pc, how |-> how, vm_id |-> id, vm_ip |-> ip, js |-> 0, meant |-> v]

NobodyConstructs == \A s \in Service : service[s].pc \in {"absent", "ready"}
Exists(s) == service[s] # NoService
Running(v) == vms[v].phase = "running"

ConstructorThrows(s) ==
    /\ service' = [service EXCEPT ![s] = NoService]
    /\ vms' = IF service[s].how = "started"
              THEN [vms EXCEPT ![service[s].meant].failed = TRUE] ELSE vms
Proceed(s, pc) == service' = [service EXCEPT ![s].pc = pc] /\ UNCHANGED vms

-----------------------------------------------------------------------------
\* A seeded fault: the new id is kept in a variable of the block.
StartInstanceLocally(s) ==
    /\ NobodyConstructs /\ service[s] = NoService
    /\ Len(vms) < MaxVM
    /\ vms' = Append(vms, [phase |-> "pending", failed |-> FALSE])
    /\ service' = [service EXCEPT ![s] =
           Constructing("describe", "started", 0, 0, Len(vms) + 1)]

\* ec2-run-instances may start an instance and not tell its id.
StartInstance(s) ==
    /\ NobodyConstructs /\ service[s] = NoService
    /\ Len(vms) < MaxVM
    /\ \E told \in BOOLEAN :
        /\ vms' = Append(vms, [phase |-> "pending", failed |-> ~told])
        /\ service' = [service EXCEPT ![s] =
               IF told THEN Constructing("describe", "started", Len(vms) + 1, 0, Len(vms) + 1)
               ELSE NoService]

\* Polls while the instance is pending.
DescribeInstance(s) ==
    /\ service[s].pc = "describe"
    /\ \/ /\ Running(service[s].meant)
          /\ service' = [service EXCEPT ![s].pc = "ssh", ![s].vm_ip = service[s].meant]
          /\ UNCHANGED vms
       \/ ConstructorThrows(s)

\* Tries a hundred times, whether the instance lives or not.
TrySsh(s) ==
    /\ service[s].pc = "ssh"
    /\ \/ Running(service[s].vm_ip) /\ Proceed(s, "create")
       \/ ConstructorThrows(s)

\* The block declares a vm_id_ of its own, the member stays empty.
AttachById(s, v) ==
    /\ NobodyConstructs /\ service[s] = NoService
    /\ Running(v)
    /\ service' = [service EXCEPT ![s] = Constructing("create", "id", 0, v, v)]
    /\ UNCHANGED vms

\* The block declares a vm_ip_ of its own, the member stays empty.
AttachByHost(s, v) ==
    /\ NobodyConstructs /\ service[s] = NoService
    /\ Running(v)
    /\ service' = [service EXCEPT ![s] = Constructing("create", "host", v, 0, v)]
    /\ UNCHANGED vms
-----------------------------------------------------------------------------
\* A seeded fault: the url is made from the member the other branch sets.
CreateServiceOfId(s) ==
    /\ service[s].pc = "create"
    /\ service' = [service EXCEPT ![s].pc = "prepare", ![s].js = service[s].vm_id]
    /\ UNCHANGED vms

\* The url of the ssh job service is made from vm_ip.
CreateService(s) ==
    /\ service[s].pc = "create"
    /\ \/ /\ service' = [service EXCEPT ![s].pc = "prepare", ![s].js = service[s].vm_ip]
          /\ UNCHANGED vms
       \/ ConstructorThrows(s)

\* A script prepares an instance that has been started, if one is configured.
PrepareImage(s) ==
    /\ service[s].pc = "prepare"
    /\ \/ Proceed(s, "ready")
       \/ service[s].how = "started" /\ ConstructorThrows(s)

Destroy(s) ==
    /\ service[s].pc = "ready"
    /\ service' = [service EXCEPT ![s] = NoService]
    /\ IF keepalive \/ service[s].vm_id = 0 THEN UNCHANGED vms
       ELSE \/ vms' = [vms EXCEPT ![service[s].vm_id].phase = "terminated"]
            \/ vms' = [vms EXCEPT ![service[s].vm_id].failed = TRUE]

CloudStep ==
    /\ \E v \in DOMAIN vms : \E p \in {"running", "terminated"} :
        /\ vms[v].phase \in {"pending", "running"} \ {p}
        /\ vms' = [vms EXCEPT ![v].phase = p]
    /\ UNCHANGED service

-----------------------------------------------------------------------------
CloudInit ==
    /\ vms = <<>>
    /\ service = [s \in Service |-> NoService]
    /\ keepalive \in BOOLEAN

CloudNext ==
    /\ \/ \E s \in Service :
           \/ StartInstance(s) \/ DescribeInstance(s) \/ TrySsh(s)
           \/ \E v \in DOMAIN vms : AttachById(s, v) \/ AttachByHost(s, v)
           \/ CreateService(s) \/ PrepareImage(s) \/ Destroy(s)
       \/ CloudStep
    /\ UNCHANGED keepalive

CloudSpec == CloudInit /\ [][CloudNext]_cloudVars

-----------------------------------------------------------------------------
CloudTypeOK ==
    /\ vms \in Seq(VM)
    /\ Len(vms) <= MaxVM
    /\ service \in [Service -> {NoService} \cup
           [pc : {"describe", "ssh", "create", "prepare", "ready"},
            how : {"started", "id", "host"}, vm_id : 0..MaxVM, vm_ip : 0..MaxVM,
            js : 0..MaxVM, meant : 1..MaxVM]]
    /\ keepalive \in BOOLEAN

\* An instance that this application has started, and that is to be terminated
\* with its service, is left running only if the constructor has thrown or the
\* command has failed: otherwise a service has its id.
LeakedByFailureOnly ==
    ~keepalive =>
        \A v \in DOMAIN vms :
            \/ vms[v].phase = "terminated"
            \/ vms[v].failed
            \/ \E s \in Service : Exists(s) /\ service[s].vm_id = v

\* A job service that has started its instance, or was given its id, submits
\* to that instance.
SubmitsToItsInstance ==
    \A s \in Service :
        service[s].pc = "ready" /\ service[s].how # "host" => service[s].js = service[s].meant
=============================================================================
