# Verification of the SAGA C++ legacy adaptors

SAGA is an interface for grid and cloud middleware (jobs, files, replicas,
adverts, remote procedure calls). An *adaptor* implements one part of that
interface on top of one middleware. The repository holds some two dozen
adaptors; this directory holds TLA+ models of those whose own logic is hard to
get right, the TLC configurations that check them on small instances, and
theorems checked by TLAPS.

Paths in this document are relative to `src/`.

1. [Inventory](#inventory)
2. [Modules and how they correspond to the code](#modules)
3. [What the runs check](#runs)
4. [Bounds](#bounds)
5. [Fairness and deadlock](#fairness)
6. [What is proved](#proofs)
7. [Where the code departs from what it says](#findings)
8. [Assumptions and what is not modelled](#assumptions)
9. [Plan](#plan)

<a id="inventory"></a>
## 1. Inventory

Most adaptors pass each call on to a library or a command and keep nothing but
a handle. The interesting ones keep state that several parties change: the
advert services, and the job adaptors, which remember the state of a job that
the batch system changes behind their back.

### sql_fast_advert (`sql/trunk/sql_fast_advert`) — modelled but for searches

A tree of adverts (directories and entries, both with attributes) in a
relational database, kept as nested sets: each row owns an interval
`lft..rgt`, and a row is below another when its interval lies inside.

* *State.* Tables `nodes` (id, name, hash of the path, dir, lft, rgt) and
  `attributes`, sequence `nodes_id_seq`. In each process, an open object with a
  *copy* of its row, and the rows last listed.
* *Operations.* `find_node`, `get_path`, `get_child_nodes`; the stored
  procedures `insert_node`, `remove_node`, `set_attribute`; on top of them the
  constructors with the flags Create and CreateParents, set/remove attribute,
  list, change_dir, remove of an entry, remove of the object itself.
* *Interaction.* Every SQL statement runs in a session of its own, so the calls
  of different processes interleave between any two statements. An insertion or
  a removal moves the bounds of *all* rows behind it, also the bounds that
  another process has just read.
* *Hard.* Stale bounds; two queries that must agree on what a path is (by hash,
  by intervals); recursion in `create_parents`; a row read into a struct with
  fewer members than columns.
* *Correct when* the intervals never overlap, intervals and paths tell the same
  story, a removal takes exactly its subtree, a key has one scalar value, a
  new node has no attributes, and every call ends.

### async_advert server (`async_advert_adaptor/server/advert_zmq_mongodb.js`) — modelled

A node.js program that keeps the same kind of tree as MongoDB documents, serves
requests on a REP socket, and publishes changes on a PUB socket.

* *State.* One document per path with the list of its children, attributes and
  data; `messageQueue`, the changes not published yet; the handlers and
  callbacks under way.
* *Operations.* get, exists, open, create, createParents, remove, setAttribute,
  removeAttribute, setString, removeString; the timer that publishes.
* *Interaction.* One thread; a handler runs up to the next database call and
  goes on in its callback, so callbacks interleave. The REP socket takes the
  next request only when the last one is answered, but `remove` answers first
  and works afterwards.
* *Hard.* Parent and child are saved by two operations; a removal that is going
  on meets the next request; requests that are never answered.
* *Correct when* the lists of children agree with the documents, no write loses
  another one, a removal takes the whole subtree, and requests are answered.

### async_advert client (`async_advert_adaptor/sql_async_advert`) — connection modelled, objects partly

* *State.* `_id_map` (url to id), `_update_map` (id to "must be fetched again"),
  `_node_map` (url to content), and in each object `_opened`.
* *Operations.* `create_directory`, `create_parents_directory`,
  `open_directory`, `exists_directory`, `close_directory`, `remove_directory`,
  `get_value`, `get_state`, the writes, and `read_handler`, the thread that
  receives published changes and subscribes and unsubscribes.
* *Interaction.* The application thread talks to the server by request and
  answer and to `read_handler` by a PAIR socket and by the maps; the server
  talks to `read_handler` by publishing.
* *Hard.* A notice that arrives while the content is being fetched; an
  unsubscription that arrives after the url has been opened again;
  subscriptions that are made after the state they protect was read.
* *Correct when* the cache is old only while a notice is on its way, and an
  object can be opened whenever its node is there.

### Job adaptors (`pbspro`, `torque`, `naregi`, `lsf`, `gridsam`, `drmaa`) — modelled but for what only reads

* *State.* A job object remembers a state (the metric `task_state`, in drmaa a
  member), and the id of the job it has submitted or was made for. pbspro,
  torque, naregi and gridsam list the jobs they have submitted in the adaptor
  (`known_jobs_`). The wrapper of the DRMAA library keeps one state for all.
* *Operations.* run, get_state, cancel, suspend, resume, wait of a job;
  create_job, run_job, get_job of a job service.
* *Interaction.* SAGA tasks call one job object from several threads, under
  mutexes of the adaptor's data, the job service and the job object, which every
  adaptor uses in its own way; the resource manager goes on by itself, and its
  commands fail.
* *Hard.* Check-then-act on the remembered state; a late answer of the resource
  manager that overwrites a newer one; calls that fail between the submission
  and the registration of a job; two mutexes taken in opposite orders.
* *Correct when* a final state is final and true, no job is lost, a New object
  submits one job, and calls do not wait for each other for ever.

### AWS job adaptor (`aws/trunk/aws_job`) — modelled

* *State.* Of each job service the id and address of a virtual machine, and the
  ssh job service that does the work; the machines of the cloud.
* *Operations.* The constructor (start a machine, or attach to one by id or by
  host name; wait until ssh works; prepare the image) and the destructor.
  All other calls go to the ssh job service.
* *Hard.* Every step of the constructor may throw, and C++ runs no destructor
  then; local variables that hide members.
* *Correct when* no machine is left running, and jobs go to the machine meant.

### hbase_advert (`hbase/trunk/hbase_advert`) — modelled

Adverts in the tables of HBase, reached through Thrift.

* *State.* Table `nodes` with a row `<name>-<id>` for each node (columns
  `node_id`, `node_name`, `parent_id`, `is_dir`), table `metadata` with the
  attributes in rows of the same keys. An object keeps its url only.
* *Operations.* The constructors of both objects, which look a path up
  (`url_exists`) and create what is missing of it (`create_url`); set and remove
  of an attribute. The others read or are not implemented; nothing removes nodes.
* *Interaction.* Each helper scans a whole table, and each column is written by a
  call of its own, without transactions: clients interleave between all of them.
* *Hard.* A new id is the number of rows; a node is half written for a while, or
  for good; `get_node_id` answers an id even if it finds no such entry.
* *Correct when* what `url_exists` finds is a tree that only grows, and the
  attributes of a path are in the row of that path.

### Others — not modelled

`opencloud_job` hands every call on to the Sphere service. `htbl_advert` is
hbase_advert ported to Hypertable, but calls `create_scanner` on a table pointer
it has never set (`htable/trunk/htbl_advert/common_helpers.cpp:34`, 130), so it
does not get as far as a table. The file adaptors (`hdfs`, `kfs`, `curl`, `opencloud`, `irods`), the
replica adaptors (`irods`, `rns`), the contexts and `ninfg_rpc` make one library
call per operation; `globusonline_file` is a skeleton; the `*_async.cpp` files
wrap each operation in a task. `PROJECT.json` lists every part with its reason,
and under `hazards` what can go wrong in this code that a test would hardly
reach, with the properties that would show it.

<a id="modules"></a>
## 2. Modules and how they correspond to the code

| Module | What it is |
| --- | --- |
| `NestedSet` | The two tables of sql_fast_advert and the statements on them, as operators on sets of rows. |
| `FastAdvert` | Several clients of sql_fast_advert on one database: one action per SQL statement. |
| `Namespace` | The abstract specification of an advert tree: a set of paths. |
| `MCFastAdvert` | Paths and symmetry for TLC. |
| `AdvertServerProofs`, `AdvertConnectionProofs`, `HbaseAdvertProofs`, `BatchJobProofs`, `GridsamJobProofs` | The theorems about the module named. |
| `AdvertsProofs` | The theorems about `FastAdvert` and `Adverts`. |
| `JobServiceProofs` | Lemmas the proofs about job adaptors share. |
| `JobsProofs` | The theorems about `LsfJob`, `DrmaaJob`, `CloudService` and their composition with the others, `MCJobs`. |
| `AdvertServer` | The async advert server and the clients that send it requests. |
| `MCAdvertServer` | Paths, requests and symmetry for TLC. |
| `AdvertConnection` | A client of that server at one url: application thread, `read_handler`, and the server as it looks from there. |
| `HbaseAdvert` | Several clients of hbase_advert on its two tables: one action per scan or write. |
| `Adverts` | `FastAdvert` and `HbaseAdvert` side by side: the initial state chooses the store, as the scheme of a url does. |
| `MCAdverts` | Paths, names and calls for TLC. |
| `JobService` | What the job adaptors share: job objects, threads, mutexes, the resource manager. |
| `BatchJob`, `LsfJob`, `GridsamJob`, `DrmaaJob` | The calls of pbspro, torque and naregi; of lsf; of gridsam; of drmaa. |
| `JobDiagram` | The abstract specification of job objects: the state diagram of a SAGA job. |
| `CloudService` | The AWS job service and its virtual machines. |
| `MCJobs` | All of them for TLC: the initial state chooses the adaptor. |

The modules hold, next to the operators that model code, some marked "a seeded
fault": the same operator with a plausible mistake in it. No specification uses
them. `PROJECT.json` pairs each with a property that fails once the faulty
operator takes the place of the right one, which shows that the property
depends on that piece of code.

### NestedSet and FastAdvert

A table is a set of rows. A row's `hash` is the path itself, and `name` is the
last component of that path. `Snapshot` is what a C++ `node` holds after a
query; `NoNode` is the default-constructed node that means "not found". A query
that may match several rows delivers any of them, so `FindNode` and `GetPath`
are sets of answers.

| Code | TLA+ |
| --- | --- |
| `find_node`, `find_parent_node` | `FindNode`, `FindParent` |
| `get_path` | `GetPath` |
| `get_child_nodes`, its two statements | `Depth`, `ChildNodes` |
| `insert_node`, `remove_node`, `set_attribute` in `fast_advert.sql` | `InsertNode`, `RemoveNode` with `Doomed`, `SetScalar`, `AddVectorValue` |
| `database_connection::insert_node` | `QueryPath`, then `ExecInsertNode`; `InsertedSnapshots` is the row it reads back, with its columns shifted |
| constructor, `create_parents` | `Open`, `FindParentNode`, `RefindParentNode` and the two above; the recursion is the stack `todo` |
| `sync_set_attribute`, `sync_set_vector_attribute`, `sync_remove_attribute` | `SetAttribute`, `SetVectorAttribute` then `ExecVectorValue` for each value, `RemoveAttribute` |
| `sync_list` | `List`, `SelectChildren` |
| `sync_change_dir` | `ChangeDir` |
| `sync_remove(entry, flags)`, `sync_remove(flags)` | `RemoveEntry` then `ExecRemoveNode`; `RemoveSelf` |
| an exception of the database | `DatabaseError` |

A client has one object, which stands for an entry and a directory: their
methods use the same connection functions on the row they hold. `call`, `todo`,
`found` and `ppath` are the local variables of the call being made. A call that
`create_parents` never gets out of (the root row is missing) is `pc = "dead"`.
`Ops` selects which calls the clients make, so that a run can ask about some of
them.

`Namespace` says what a reader of the API expects: creating adds a path below
an existing one, removing takes a path with all below it. `FastAdvert`
implements it with `entries <- {n.hash : n \in nodes}`.

### AdvertServer

One action is a callback together with the database operation it waited for.
`running` holds the handlers that have not answered, `tasks` the callbacks that
`remove` leaves behind. `Ready` is the REP socket: no request is handed over
before the last one is answered. `step = "failed"` is a handler that threw in a
callback or ended without an answer.

| Code | TLA+ |
| --- | --- |
| get, exists, open | `Get`, `Exists`, `Open` |
| create | `Create`, `CreateFindParent`, `SaveParent`, `SaveNew` |
| createParents | `CreateParents`, then for each prefix `ParentsFindParent`, `ParentsFindNode`, `SaveParent`, `SaveNew` |
| remove, recursiveRemove | `RemoveNode`, `FindChild`, `RemoveDoc`, `FindParent`, `Detach` |
| set/removeAttribute, set/removeString | `Write`, `Save` |
| `messageQueue`, `setInterval` | `queue`, `Flush` |

### AdvertConnection

`current`, `version` and `doomed` are the document at the url, how often it was
written, and removals that were answered but not carried out. `OthersCreate`,
`OthersUpdate` and `OthersRemove` are all other clients. A request takes three
steps: it is sent (`Fetch`, `Set`, ...), served (`ServeGet`, ...) and its answer
used (`Got`, ...). `Poll`, `ReadMessage` and `ReadCommand` are one round of
`read_handler`, which looks at both sockets and then serves first the message
and then the command; `Drop` is the SUB socket discarding what it has no
subscription for. `object` is the value of `_opened`.

### HbaseAdvert

A row of `nodes` is a record of its name, id and parent; `numbered` says whether
it has the column `node_id`, which the row does not that `create_url`'s last
write may bring about. `metadata` holds one cell per attribute; a cell remembers
as histories through which path it was written and whether that path existed at
the beginning of the call. `call` is where a client is in its call and its local
variables; `raced` is a history: two creations have once overlapped between
counting the rows and writing the parent.

| Code | TLA+ |
| --- | --- |
| `get_node_id`, `entry_exists`, `get_new_node_id` | `GetNodeId`, `EntryExists`, `GetNewNodeId` |
| the constructors and their flags | `Open` with a goal, `Missing`, `Present` |
| `url_exists` | for each component `CheckEntry`, `Descend`; then `CheckLast` |
| `create_url` | for each component `CreateEntry`, then `FollowEntry` or `CountRows`, `WriteNumber`, `WriteParent`; then `WriteKind` |
| `sync_set_attribute`, `sync_remove_attribute` | `ChangeAttribute`, `ClimbDown` for each component (`get_parent_id_of_entry`), `FindRow`, `WriteAttribute` |
| an exception of Thrift, the death of a client | `IOError` |

`is_dir` and `node_name` are left out, since no operation that writes reads
them; their writes are part of the step that writes the column before. `Follow`
is `url_exists` in one step, for the properties. `ActsAsNamespace` says with
`entries <- Found` that the paths it finds change as in `Namespace`.

### JobService and the modules that extend it

`jobs` is the resource manager: each job has a phase ("accepted" is not shown
yet, "active" covers queued, held and running, "astray" is what the adaptors
find no state for, "complete" is over and still shown, "gone" is not shown any
more) and a way it has ended. `object` holds what the job objects remember;
`stood`, a history, is the set of jobs an object has submitted or was made for.
`call` is the local state of the call a thread is in, `lock` who holds which
mutex, `known` is `known_jobs_`, `last` the member `state` of the DRMAA wrapper.
A step is what happens between two points where another thread can interfere:
a lock, or a command.

| Code | TLA+ |
| --- | --- |
| `instance_data`, `adaptor_data` of the SAGA engine | `Acquire`, held until the call returns or throws |
| an exception in a constructor or a service call | `Throw`: locks are released, the new object is destroyed |
| pbspro, torque, naregi `sync_run` | `Run` (the test), `Submit`, `Record`, `SetRunning` |
| `sync_run_job_noio` | `RunJob`, `SubmitJob`, `RegisterJob`, then as `get_state` |
| `sync_get_job` | `GetJob`, `Find`, `Probe`, then as `get_state` |
| `sync_get_state` | `GetState`, `Query` (`StateOf`), `Trace` (tracejob), `Update` |
| naregi `sync_cancel` | `Cancel`, `CancelJob` |
| lsf `sync_run`, `sync_suspend`, `sync_resume`, `sync_cancel` | `Run`, `Bsub`, `Sleep`; `Suspend`, `Resume`, `Cancel`, then `Command` |
| gridsam `sync_run`, `state_setter` | `Run`, `ReadState`, `SubmitJob`, `Status`, `Adopt`, `Commit` |
| gridsam `sync_get_state`, `sync_cancel` | `GetState`, `Query`, `Update`; `Cancel`, `TerminateJob` |
| drmaa `sync_run`, `sync_wait`, and one library call each | `Run`, `SubmitJob`, `AssignId`; `Wait`, `WaitJob`; `Control` |

`JobDiagram` says that an object leaves New by being run and never leaves a
final state. pbspro, torque and lsf implement it with `state <- Remembered`,
as long as an object stands for one job. naregi and gridsam do not: without a
lock a late "Running" replaces "Done". An object of pbspro and its like that is
run by two threads at once submits two jobs; it is "disputed" in the diagram.

### CloudService

`service[s]` holds the members `vm_id`, `vm_ip` and `js`, and how far the
constructor has got; `vms` are the machines. `how` tells which branch of the
constructor was taken, and what the other member is left empty by: the local
variables `vm_id_` and `vm_ip_` hide the members. The adaptor's lock admits one
constructor at a time.

<a id="runs"></a>
## 3. What the runs check

| Run | Question | Properties |
| --- | --- | --- |
| `fast_serial` | One client, all calls but removing an object's own node. | `TypeOK`; `WellNested`: intervals never overlap; `PathsMatchNesting`: paths are unique and a row covers exactly the rows whose path it prefixes; `ImplementsNamespace`: refinement of `Namespace`; `ListingIsExact`: counting intervals finds exactly the children |
| `adverts` | Two clients create nodes at the same time, in sql_fast_advert with bounds and look-ups that may be stale, or in hbase_advert, where they also write attributes. | sql: `WellNested`; `NestingKept`: an insertion never changes which existing row is below which; `RepeatsBounded`: a path below the root is inserted at most once per client (for paths of up to three components, see section 6). hbase: `HbaseTypeOK`; `ActsAsNamespace`: while creations do not overlap, what `url_exists` finds is a tree that grows by one path at a time, wherever clients die; `LostToRivalOnly`: and if they do, a path is lost only when its row gets a second parent or an older row takes its place; `OwnAttributes`: an attribute set through an object whose path existed is in that path's row |
| `fast_remove` | Two clients create, list and remove in every way. | `FreshRemovalIsExact`: with bounds that are still current, a removal takes exactly the subtree; `OnlyRootLossHangs`: `create_parents` recurses for ever only without a root row; `CallsReturn`: every call ends, or its process has died in `create_parents` |
| `fast_attributes` | Scalar and vector writes of two clients, also to nodes that are gone. | `OneScalarPerKey`, `NoInheritedAttributes` |
| `fast_self_remove` | *violated*: see section 7. | `RemovesOwnSubtree` |
| `server_tree` | Two clients create and write. | `TypeOK`; `TreeConsistent`: the lists of children agree with the documents; `OkNamesDocument`: the id answered is that of the document; `NoLostAttribute` |
| `server_removal` | A tree of three levels is built below a node that stays and torn down while earlier removals go on. | `AlwaysAnswered`; `RemovalRestoresTree`: an undisturbed removal takes everything below the path and leaves the lists right; `RemovesOnlyBelow`: no removal, disturbed or not, takes a document that is not at or below a path a client may ask to remove |
| `server_no_answer` | *violated*: see section 7. | `AlwaysAnswered` |
| `conn_cache` | Application thread, `read_handler` and server at one url. | `TypeOK`; `NoUpdateForgotten`: the cache is old only while a notice is on its way or was dropped for want of a subscription; `StaleIsNoticed`: and the client finds out |
| `conn_reopen` | *violated*: see section 7. | `OpensWhatExists` |
| `jobs` | Two threads, two job objects, each job adaptor in turn; services of the AWS adaptor. | `TypeOK`; `ReportsFate`: a final state is how a job of the object has ended (pbspro, torque, gridsam); `NoJobLost`: what was submitted is at hand also if the call fails (pbspro, torque, naregi, lsf); `OnlyOppositeOrdersHang`: only get_job and run_job can wait for each other, and no lock outlives its call; `FollowsDiagram`: refinement of `JobDiagram` (pbspro, torque, lsf); `SubmittedOnce` (lsf); `RunningHasId` (gridsam); `LostOnlyByRerun` (drmaa); `LeakedByFailureOnly`, `SubmitsToItsInstance` (aws) |
| `drmaa_rerun` | *violated*: see section 7. | `StartedOnce` |

Some things do *not* hold, and the properties are stated so that this can be
seen. With two clients paths are not unique in sql_fast_advert (both may find a
path missing and insert it), a row inserted with a stale bound may land under
another parent, and a removal with stale bounds may take other rows or tear the
intervals apart: that is why `PathsMatchNesting` and the refinement are checked
with one client, `WellNested` without concurrent removals, and
`FreshRemovalIsExact` says "if the bounds are still those of a row". In the
server, a create whose parent is removed between look-up and save leaves an
orphan, and a removal may overwrite a list of children that was extended in the
meantime: `TreeConsistent` is checked without removals, `RemovalRestoresTree`
for removals that no other change disturbs. In the job adaptors a job is submitted twice when two
threads run one object of pbspro, torque, naregi or gridsam; a gridsam job whose
first status query fails has no id and cannot be cancelled; naregi takes a job
that is not listed any more for cancelled; an AWS service attached by host name
makes its ssh service for an empty host and terminates, in its destructor, an
instance it has not started. In hbase_advert two overlapping creations may draw
one id, and then one row stands for two paths or a path disappears; an attribute
set through a directory object whose path does not exist goes to a row that
another path has or will get; and with the flag Exclusive the constructors throw
AlreadyExists when the path does *not* exist (`hbase_advert_advert.cpp:67`), so
`Exclusive` opens what is there and creates nothing. No document of the
repository promises more, so these are limits of the design rather than findings.

<a id="bounds"></a>
## 4. Bounds

* `MaxId` (FastAdvert): ids drawn from `nodes_id_seq` over the whole behaviour,
  not rows at one time. The insertion after the last id fails, as it does in a
  database whose sequence is exhausted. Three ids are a root and two nodes,
  the least at which a stale bound matters; `fast_serial` uses five and paths
  three levels deep (`Deep`), so that a removal takes a subtree with a subtree.
* Paths: `Fork` has siblings and a child, `Chain` a child of a child. `Ladder` is
  a node that stays and three levels below it, which is what `recursiveRemove`
  needs to be recursive; the node that stays is there to be removed by mistake.
  Two components are enough to tell siblings apart.
* Two clients: every race here is between two calls, one of which goes stale.
* `Value` has one value where only the tree matters, two where values do; a
  vector has two values.
* `MaxTasks`, `MaxQueue` (AdvertServer): no `remove` is sent while more than
  `MaxTasks` callbacks are outstanding, no change is asked for while more than
  `MaxQueue` messages are queued. They bound the bag and the queue at the
  moment a request is *sent*; with 0, an answered removal still overlaps with
  the next creation or write and with everything of another client.
* `MaxId`, `MaxVersion` (AdvertConnection): documents over time at the url, and
  contents of each. Two of each show a notice of an old document and a missed
  one of the present document; the safety properties also hold with three
  contents. `MaxSubs`: an object is constructed only while each id has at most
  that many subscriptions, so that the counts stay finite; a second
  subscription, which the code makes when only one of its create flags is set,
  is within the bound. `MaxPending`: calls start only while at most so many
  commands wait for `read_handler`; `conn_reopen` needs one.
* Two job objects, two threads, two jobs (`MaxJob`, at least one), so that an
  object can come to stand for two jobs while another call is about one of them. A job of
  another program may be there from the start (`Foreign`), for the branch of
  get_job that finds none of its own. When `MaxJob` jobs have been accepted,
  submissions fail, as they may at any time.
* Two cloud services and three instances (`MaxVM`) over the whole behaviour: one
  service starts what the other attaches to.
* `adverts` is `FastAdvert` with four ids and `Fork`, or hbase: the initial state
  chooses the store, as in `jobs` the adaptor. The paths of hbase are `/a`,
  `/ab` and `/ab/a`, in which one name begins another and one name has two
  parents: the least at which `get_node_id` can answer with the wrong row. `HCalls` divides the calls between two clients:
  one has objects of `/ab/a` that need not exist, the other creates what is above
  and beside it. `MaxRows`: three rows, one for each path; a scan that would
  count more does not return. With the three rows there are two paths that draw
  one id, a path that disappears, a row brought about by `create_url`'s last
  write alone, and attributes in rows of other paths. The constraint
  `AttributesMatter` leaves out states that have raced and hold attributes:
  `OwnAttributes` says nothing of them, and no step reads `metadata`, so each
  change of `nodes` that they allow is also found from the state without them.
* `jobs` checks each adaptor by itself: the initial state chooses it, since no
  two adaptors share state.
* Symmetry is used only for clients with equal commands, for attribute values,
  and for job objects and threads, in runs that check no liveness property.

<a id="fairness"></a>
## 5. Fairness and deadlock

* `FastAdvert`: weak fairness of `Continue(c)`, the statements of a call that
  has begun. A thread inside a call goes on; nothing forces it to make another
  call, and no statement is forced to fail.
* `AdvertServer`: weak fairness of the running handlers and of the callbacks of
  each path, since the database calls back. Strong fairness of `Accept(c)`: the
  REP socket takes requests from its clients in turn, and `Ready` is false
  while another client is served.
* `AdvertConnection`: weak fairness of the timer, of the server, of both
  threads. Strong fairness of a poll that finds the message at the head of the
  SUB socket, and of dropping one without a subscription: a message that has
  been sent arrives, but a poll may come before it any number of times.
* The specifications of the job adaptors state no fairness: the deadlock of
  get_job and run_job would refute any liveness property of pbspro, and a wait
  takes as long as the resource manager likes.
* `CHECK_DEADLOCK FALSE` where the system may stop: a process that died in
  `create_parents`, a server that waits for ever to answer a request that
  failed, a client that waits for that answer, clients that have used up
  their ids or versions, and threads that hold each other's locks when no more
  jobs are accepted.

<a id="proofs"></a>
## 6. What is proved

Every theorem holds for any value of the constants that the assumption of its
module admits: any clients, threads, objects, paths, keys, and any bounds. The
assumptions only say what kind of thing a constant is (`FastAdvertAssumption`,
`AdvertServerAssumption`, `AdvertConnectionAssumption`, `CloudAssumption`), that
there can be a job at all (`JobServiceAssumption`: `MaxJob` is at least 1,
without which the job that may be there from the start would have no id), and
how names are ordered (`HbaseConstantsFit`: `Rank` is the place of a name in the
order of the row keys, no two names share one, and `Begins`, the names that
begin with a given one, holds the name itself and none that comes before it).

| Module | Theorems | Inductive invariant |
| --- | --- | --- |
| `AdvertsProofs` | sql: `TypeOK`, `WellNested`, `NestingKept`, `FreshRemovalIsExact`, `OneScalarPerKey`, `NoInheritedAttributes`, `OnlyRootLossHangs`, `RepeatsBounded`; with one client `PathsMatchNesting`, `ListingIsExact`, refinement of `Namespace`. hbase, of the run's specification: `HbaseTypeOK`, `OwnAttributes`, `ActsAsNamespace`, `LostToRivalOnly` | `TypeInv`, with `NestInv`, `IdsDrawn`, `RootWanted`, `GrowInv` and `SerialInv` |
| `HbaseAdvertProofs` | the same four of `HbaseAdvert` by itself | `HbaseInv` |
| `AdvertServerProofs` | `TypeOK`, `OkNamesDocument`, `NoLostAttribute`, `RemovesOnlyBelow`; without removals `TreeConsistent` | `ServerInv`, `RemovalInv`, `TreeInv` |
| `AdvertConnectionProofs` | `TypeOK`, `NoUpdateForgotten` | `ConnInv` |
| `JobServiceProofs` | lemmas on jobs, objects, calls and locks for the three below | |
| `BatchJobProofs` | `TypeOK`, `NoJobLost`, `ReportsFate`, `OnlyOppositeOrdersHang`, refinement of `JobDiagram` | `BatchInv` |
| `GridsamJobProofs` | `TypeOK`, `ReportsFate`, `RunningHasId` | `GridsamInv` |
| `JobsProofs` | lsf: `SubmittedOnce`, `NoJobLost`, refinement of `JobDiagram`; drmaa: `LostOnlyByRerun`; aws: `LeakedByFailureOnly`, `SubmitsToItsInstance`; and all properties of the run `jobs` as theorems of its specification, the refinement `FollowsDiagram` among them | `LsfInv`, `JobsInv` |

Every safety property that a passing run checks, invariant or action property,
is a theorem; what is left to TLC is at the end of this section.

### sql_fast_advert

`TypeOK` is not inductive: `Head(todo)` must exist where it is used, and the
components of a new path must be names. `TypeInv` adds that ids are unique,
finite in number and drawn in order, that only the root row has the root path,
that what is still to be inserted is never the root path, and that a vector
write has a value left.

`NestedSets(nodes)` is kept by an insertion at *any* position
(`InsertKeepsNesting`): the rows move by a monotone map that leaves the two new
bounds free. This is why stale bounds cannot break the intervals while clients
only insert, and why an insertion never changes which row is below which
(`InsertKeepsCovers`). A removal keeps the nesting if its bounds are those of a
row (`RemoveKeepsNesting`), hence `FreshFound`: the row a removal has found is
still as it was. That holds only when nobody else moves it, which is `Careful`:
no object removes its own node, and entries are removed only when there is one
client. `NestingCorrect` needs that assumption; with a weaker one it is false.

`IdsDrawn` says that every id a client holds or an attribute row refers to is
smaller than the next id of the sequence. A new row's id is the next one, so
it finds no attribute rows, however long ago the writers' nodes disappeared.
`RootWanted` says that `create_parents` asks for the root path only once the
root row has been deleted; no action brings that row back.

`RepeatsBounded` is proved under `Growing`: nobody removes, paths have at most
three components, clients are finite in number. The invariant `GrowInv` counts:
the rows of `/n` and the clients that may still insert `/n` are together at most
as many as the clients, once there is one such row (`RepeatsCounted`). For an
insertion to be counted at the right path the answer of `get_path` must be right
where it matters, so `GrowInv` also says that the root row begins at 1, that
nothing gets between the root and the rows below it (`TopAlone`), and what each
client in `create_parents` has found (`FrameSound`). The restriction to three
components is needed: with `/b` and `/a/b/a/b` TLC finds a client that inserts
`/a/b/a` below a row that has moved; that row gets another hash, the second
look-up of `create_parents` (`sql_fast_advert_advert.cpp:282`) does not find it
and is not tested, and the last component is inserted in front of the root, as
`/b`, again by each attempt.

The three properties of one client are proved under `Serial`: there is at most
one client and no object removes its own node. `PathTree` says of a table that a
path has one row, that a row covers another exactly when its path is a beginning
of the other's, and that the paths above a path are there. An insertion behind
the left bound of the parent keeps it (`InsertKeepsTree`) if the path of the new
row is the parent's and one component, and that is what `get_path` must deliver:
`PathOfRow` shows that the rows above a row, one for each length
(`AncestorsCounted`), come ordered by their left bounds in the order of their
paths, so that the last components put together are the path itself. `SerialInv`
adds what the client holds between two statements: the paths `create_parents`
has still to insert are one below the other and absent (`Chain`, `Absent`), the
parent it has read is still the row it was, and the depth it has measured is
still the depth. With this, `ListingIsExact` is a fact about the second query
(`ChildRows`), an insertion is a `Create` of `Namespace` and a removal a `Drop`.

### The async advert server and its client

`ServerInv` holds for any commands. At most one handler runs (`OneHandler`,
which is the REP socket); ids are unique and there is always a free one; and
`Undisturbed`: between the callbacks of a handler the path it is creating stays
free, the id it has drawn unused, and the attributes it has read unchanged. The
callbacks of earlier removals run meanwhile, but they only take documents away
and change lists of children. `OkNamesDocument` and `NoLostAttribute` follow.

`RemovalInv` is what removals need besides, next to any other requests. Each
callback that a removal still expects is `Purposeful`: the path it looks up or
takes away is at or below one that a client may ask to remove, and the id it
removes by belongs to no document at another path, nor to one about to be saved.
The second part is why an id is new only if no callback knows it
(`NewIdIsNew`), and it is what keeps a late `RemoveDoc` from taking a node that
was created since; that the root may never go keeps it there (`Rooted`), so that
no handler creates it a second time and every name that is pushed is the end of
a path. `RemovesOnlyBelow` and `TypeOK` follow. For `TypeOK` the list that
`Detach` writes must be a list of names: `Spliced` is a recursive function, of
which `SplicedIsLoop` and `LoopIs` show that it satisfies its equation, and
`SplicedTyped` looks at the first position at which it would go wrong.

`TreeInv` is about clients that ask for no removal (`NoRemovals`): every document
but the root is listed exactly once in the one above it, or the handler that has
just saved it there is about to save the document; the handler holds the parent
it looked up, whose list nobody else has changed. Here `TreeConsistent` is a
theorem. With removals it is false.

`ConnInv` says that the ids in use were given by the server (`IdsInOrder`,
`IdsGiven`), that what a call has tested still holds when it goes on
(`CallsSound`), that what a poll has seen is still there (`PollSound`), and
`CacheSound`: the cache, or the answer being put into it, is current, or its
flag is cleared, or the notice is on its way, or it was dropped. The delicate
step is the answer to `get`: the flag was set *before* the request was sent, so a
notice handled in between clears it again, and the answer does not count.

### hbase_advert

`TypeInv` adds to `TypeOK` that the table is finite and has one row for a name
and an id, and that a call is at a component of its path. `HbaseInv` says of the
time before two creations have met (`~raced`): `Numbered`, every id in use has
been counted, a row with a parent has its id alone among these, and an id that
was drawn but is not linked yet is beyond all others; `CallsOnTheirWay`, a call
that changes an attribute of a path that existed has got where that path leads;
`OwnCells`, what was written this way is in the row of its path. `OwnAttributes`
follows. `LostToRivalOnly` needs `TypeInv` alone: where a linked row keeps its
parent and no older row takes its place, every path leads where it led
(`FollowKept`). That neither happens without a race (`NoRival`) is what keeps
the calls on their way.

`Follow` is recursive in the length of the path. `WayIs` shows that there is a
function with its equation, so that `Follow` satisfies it, and statements about
all paths are proved from a shortest path for which they would be false
(`LeastNat`). One of them is `FollowInjective`: no two paths lead to one row,
because a linked row has its id alone. From this `GrowsLikeTree`, which is the
refinement of `Namespace`: linking a row brings exactly one path about, below
one that was there, since the row was a leaf and has nothing below it yet.

The run's specification lets the initial state choose the store
(`StoresRunApart`: each store then behaves as by itself), so that the theorems
about either hold of it.

### Job adaptors

The invariants relate three things: what the resource manager has, what an object
remembers, and what a call in progress carries from one to the other.
`BatchInv` (pbspro, torque, naregi) is `BatchTypes` (among them, that who holds a
mutex is inside a call); `OwnJobsKnown`: a job of the program is registered, or
its submitter is about to register it; `FateInv`: a job ends once, an object has
stood for the job a call asks about on its behalf, and a final state on its way
or remembered is how that job has ended; and `DiagramInv`: under the adaptor's
lock, a call that is about to write a state finds its object New or standing for
several jobs, or writes nothing that leaves a final state. Only naregi works
without that lock, and only naregi has no such theorem.

`LsfInv` says that an object has an id exactly if it has been run, and that a
thread between its test and its submission has an object without a job, and has
it locked unless no other thread can reach it. `GridsamInv` says that an object
that remembers Running or Done has an id, and that a state is carried together
with a job the object has stood for. `JobsInv` is these three, an invariant of
drmaa, and `CloudInv`: a service means one instance from the start and submits
to it once it has its address, and an instance that runs has a service that has
started it. Each is claimed of its own adaptor, which the initial state chooses
and no step changes.

The refinement of `JobDiagram` is proved step by step: every step of pbspro,
torque or lsf, under the invariant, is a step of the diagram or leaves
`Remembered` unchanged. Naregi and gridsam do not implement it (section 2), which
is no gap of the proof.

### Only model-checked

* Liveness (`CallsReturn`, `AlwaysAnswered`, `RemovalRestoresTree`,
  `StaleIsNoticed`): the prover does not handle ENABLED.

<a id="findings"></a>
## 7. Where the code departs from what it says

* **Removing an object's own node** (`fast_self_remove`,
  `sql/trunk/sql_fast_advert/sql_fast_advert_database_connection.cpp:251`).
  `insert_node` selects the columns id, name, dir, lft, rgt into id, name, lft,
  rgt, so an object that has created its node carries the `dir` column as its
  left bound, and the left bound as its right one. `sync_remove(flags)` hands
  these to the stored procedure, which the comment at line 281 calls "Remove
  the node and its childs"; the rows removed are others. An object that opened
  an existing node carries bounds of the time of opening.
* **No answer** (`server_no_answer`,
  `async_advert_adaptor/server/advert_zmq_mongodb.js:411`). A write to a node
  that another client has removed is not answered. The REP socket then takes no
  request of any client. "The server responds with a JSON coded diretory /
  entry" (`async_advert_adaptor/whitepaper/AsyncAdvert Slides/AsyncAdvert.tex:117`).
* **Closing and opening again** (`conn_reopen`,
  `async_advert_adaptor/sql_async_advert/sql_async_server_connection.cpp:117`).
  `close_directory` only queues "unsub". If the url is opened again before
  `read_handler` gets to it, the late "unsub" erases the flag that
  `open_directory` has set, and the constructor's "make sure directory exists"
  (`sql_async_advert_advert.cpp:139`) throws although the node is there.
* **A job object runs twice** (`drmaa_rerun`,
  `drmaa/trunk/drmaa-job/ogf_drmaa_job.cpp:175`). `sync_run` throws "can run
  only 'New' jobs" (line 177) unless the member `state_` is New; no operation
  sets that member after the constructor. A second run submits a second job,
  and its id replaces that of the first, which nothing in the program can get
  at any more.

<a id="assumptions"></a>
## 8. Assumptions and what is not modelled

* *PostgreSQL* executes one statement, and one stored procedure, atomically. At
  READ COMMITTED two procedures may interleave between their UPDATE
  statements, and nothing in the code would keep the intervals apart then. The
  other back ends of SOCI are not
  considered: the stored procedures exist for PostgreSQL only.
* *HBase.* A scan returns what is in the table at one moment, in the order of the
  row keys, and a mutateRow of one column is atomic. `entry_exists` scans twice;
  the model takes both as one step. Ids have one digit and names hold no
  character that comes before '-', so that rows are ordered by name and then id;
  paths are not the root.
* *Hashes.* `find_node` compares a 32 bit hash. The models assume that no two
  paths in use collide.
* *MongoDB and mongoose.* One operation on one document is atomic, operations
  in flight are executed in any order, a second document with a path is
  refused, `push` appends in place, `splice` and `commit` write the whole
  field, and saving a document that is gone changes nothing.
* *ZeroMQ 2.1.* Messages are delivered late but in order; a SUB socket filters
  when it receives, counts equal subscriptions and ignores the cancellation of
  one it does not have. Reconnection and high-water marks are left out.
* *Crashes.* Neither adaptor persists anything of its own beside the database,
  and both databases keep what they have accepted. A client that crashes is a
  client that makes no further step, which the unfair specifications allow.
* *SAGA engine.* `instance_data` and `adaptor_data` are objects that lock a
  recursive mutex from their declaration to the end of their scope, also when
  an exception leaves it. Reading or writing one attribute or metric of a job
  object is atomic, and so is the assignment of a string member, which C++ does
  not promise for drmaa's unlocked `jobid_`.
* *Resource managers.* A command is one step. It may fail at any time without
  effect, or, where the adaptor takes the id from its output, the submission
  counts as done only with the id. Jobs end once, keep their ids, and an id is
  not used again. DRMAA's wait forgets the job it reports. What bjobs,
  qstat or GridSAM shows is the state at that moment.
* *C++.* gridsam's `state_setter` writes the state in a destructor, which is
  assumed not to throw while an exception is under way.
* *Left out of the job adaptors:* listing, descriptions and streams (they only
  read), job scripts and staging (text), contexts, the SOAP stubs.
* *Left out of sql_fast_advert:* searching by pattern (it only reads), the data
  string of an entry (one more scalar attribute), copy, move and link (they
  throw).
* *Left out of the async client:* operations of a directory on other entries,
  several objects at one url, several application threads, the destructor.

<a id="plan"></a>
## 9. Plan

Done: `NestedSet`, `FastAdvert`, `Namespace`, `AdvertServer`,
`AdvertConnection`, `JobService` with the modules of six job adaptors and
`JobDiagram`, `CloudService`, `HbaseAdvert`, `Adverts`, each with its proofs. The
order followed the weight of the logic: first the database that several
processes share, then the server with its callbacks and its client, then the job
adaptors, then the column store.

What could still be added to the models:

1. `AdvertConnection` with a second url, for the operations of a directory, and
   with two objects at one url.
2. The stored procedures of `fast_advert.sql` split at their statements, as
   READ COMMITTED allows.

To prove: nothing that the runs check is left but liveness. What is added above
to the models would need `CacheSound` for each url, and a nesting invariant
between the statements of a stored procedure, which READ COMMITTED does not keep.
