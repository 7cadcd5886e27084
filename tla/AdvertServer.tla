---------------------------- MODULE AdvertServer -----------------------------
(***************************************************************************)
(* The advert server, async_advert_adaptor/server/advert_zmq_mongodb.js.   *)
(*                                                                         *)
(* The server is one thread.  A handler runs up to its next call of the    *)
(* database and goes on in the callback of that call; in between, other    *)
(* callbacks run.  One action is a callback together with the database     *)
(* operation it waited for.  The REP socket hands over the next request    *)
(* only when the last one has been answered, so two handlers overlap only  *)
(* where one goes on after its answer, which "remove" does.                *)
(*                                                                         *)
(* Of MongoDB and mongoose the model assumes: an operation on one document *)
(* is atomic, operations in flight may be executed in any order; a second  *)
(* document with a path is refused; push appends in place while splice and *)
(* commit write the whole field; saving a document that is gone changes    *)
(* nothing and reports no error.                                           *)
(***************************************************************************)
EXTENDS Integers, FiniteSets, Bags, SequencesExt

CONSTANTS
  Name,      \* path components
  Client,    \* connections that send requests
  Target,    \* the paths the clients ask for
  Key,       \* attribute keys
  Commands,  \* Commands[c]: the requests c may send, pairs of a command and a path
  MaxTasks,  \* bound: no "remove" is sent while more callbacks are outstanding
  MaxQueue   \* bound: no change is asked for while more messages are queued

Path     == Seq(Name)
RootPath == <<>>

Writes      == {"setAttribute", "removeAttribute", "setString", "removeString"}
Changes     == {"create", "createParents", "remove"}
AllCommands == {"get", "exists", "open"} \cup Changes \cup Writes

ASSUME AdvertServerAssumption ==
  /\ Target \subseteq Path
  /\ Commands \in [Client -> SUBSET (AllCommands \X Target)]
  /\ Key # {}
  /\ MaxTasks \in Nat
  /\ MaxQueue \in Nat

VARIABLES
  docs,       \* the collection of AdvertNode documents
  queue,      \* messageQueue
  request,    \* request[c]: what c waits to have answered, or NoRequest
  running,    \* the handlers of requests not answered yet
  tasks,      \* bag of the callbacks "remove" still expects after its answer
  opened      \* opened[c]: the paths c was given an id for

vars == <<docs, queue, request, running, tasks, opened>>

(* A document.  Its "attributes" is undefined until one has been set. *)
Document == [id : Nat \ {0}, path : Path, nodes : Seq(Name), defined : BOOLEAN, keys : SUBSET Key]

NewDoc(i, p) == [id |-> i, path |-> p, nodes |-> <<>>, defined |-> FALSE, keys |-> {}]

NoKey     == CHOOSE k \in Key : TRUE
Request   == [cmd : AllCommands \cup {"none"}, path : Path, key : Key]
NoRequest == [cmd |-> "none", path |-> RootPath, key |-> NoKey]

(* "failed": the callback threw an exception, or ended without an answer. *)
Where   == {"parent", "node", "saveParent", "saveNew", "save", "failed"}
Handler == [client : Client, cmd : AllCommands, step : Where, path : Path,
            i : Nat, id : Nat, keys : SUBSET Key]
Task    == [kind : {"child", "remove", "parent", "detach"}, id : Nat, path : Path, nodes : Seq(Name)]

Init ==
  /\ docs = {NewDoc(1, RootPath)}
  /\ queue = <<>>
  /\ request = [c \in Client |-> NoRequest]
  /\ running = {}
  /\ tasks = EmptyBag
  /\ opened = [c \in Client |-> {}]

-----------------------------------------------------------------------------
(***************************************************************************)
(* Database, queue and socket.                                             *)
(***************************************************************************)
At(p)           == {d \in docs : d.path = p}
Change(i, D(_)) == {IF d.id = i THEN D(d) ELSE d : d \in docs}

(* An id nobody refers to any more is as good as one never used. *)
UsedIds ==
  {d.id : d \in docs} \cup DOMAIN queue \cup {h.id : h \in running}
    \cup {t.id : t \in BagToSet(tasks)}
NewId == CHOOSE i \in 1 .. (Cardinality(UsedIds) + 1) : i \notin UsedIds

(* messageQueue[id] = type: a later message replaces an earlier one. *)
Announce(i, type) == queue' = [j \in DOMAIN queue \cup {i} |-> IF j = i THEN type ELSE queue[j]]

(* A seeded fault: requests are handed over while others are being answered. *)
ReadyEagerly == TRUE

Ready == running = {}

(* responder.send: c goes on, with the id of a document at p or without. *)
AnswerId(c, p) ==
  /\ request' = [request EXCEPT ![c] = NoRequest]
  /\ opened' = [opened EXCEPT ![c] = @ \cup {p}]
Answer(c) ==
  /\ request' = [request EXCEPT ![c] = NoRequest]
  /\ UNCHANGED opened

Begin(c, cmd) == Ready /\ request[c].cmd = cmd /\ \A h \in running : h.client # c

(* The handler of c's request waits for the database call it has made. *)
Enter(c, step, i, id, keys) ==
  running' = running \cup {[client |-> c, cmd |-> request[c].cmd, step |-> step,
                            path |-> request[c].path, i |-> i, id |-> id, keys |-> keys]}
Resume(h, g) == running' = (running \ {h}) \cup {g}
Leave(h)     == running' = running \ {h}

(* The paths the i-th round of a handler is about. *)
NodePath(h) == SubSeq(h.path, 1, h.i)

-----------------------------------------------------------------------------
(***************************************************************************)
(* get, exists, open: one query, one answer.                               *)
(***************************************************************************)
Get(c) ==
  /\ Begin(c, "get")
  /\ Answer(c)
  /\ UNCHANGED <<docs, queue, running, tasks>>

Exists(c) ==
  /\ Begin(c, "exists")
  /\ Answer(c)
  /\ UNCHANGED <<docs, queue, running, tasks>>

Open(c) ==
  LET p == request[c].path
  IN
  /\ Begin(c, "open")
  /\ \/ At(p) # {} /\ AnswerId(c, p)
     \/ At(p) = {} /\ Answer(c)
  /\ UNCHANGED <<docs, queue, running, tasks>>

-----------------------------------------------------------------------------
(***************************************************************************)
(* create                                                                  *)
(***************************************************************************)
Create(c) ==
  LET p == request[c].path
  IN
  /\ Begin(c, "create")
  /\ \/ At(p) # {} /\ AnswerId(c, p) /\ UNCHANGED running
     \/ At(p) = {} /\ Enter(c, "parent", Len(p), 0, {}) /\ UNCHANGED <<request, opened>>
  /\ UNCHANGED <<docs, queue, tasks>>

(* A seeded fault: a missing parent is waited for. *)
CreateAwaitParent(h) ==
  LET up == At(Front(h.path))
  IN
  /\ h.cmd = "create" /\ h.step = "parent"
  /\ \/ up = {} /\ Leave(h)
     \/ \E d \in up : Resume(h, [h EXCEPT !.step = "saveParent", !.id = d.id])
  /\ UNCHANGED <<docs, queue, request, tasks, opened>>

CreateFindParent(h) ==
  LET up == At(Front(h.path))
  IN
  /\ h.cmd = "create" /\ h.step = "parent"
  /\ \/ /\ up = {}
        /\ Answer(h.client)
        /\ Leave(h)
     \/ /\ \E d \in up : Resume(h, [h EXCEPT !.step = "saveParent", !.id = d.id])
        /\ UNCHANGED <<request, opened>>
  /\ UNCHANGED <<docs, queue, tasks>>

(* A seeded fault: the parent lists the path of its child. *)
ChildPath(h) == NodePath(h)

(* newNode.name *)
ChildName(h) == Last(NodePath(h))

(* node.nodes.push, node.save and its callback. *)
SaveParent(h) ==
  LET Push(d) == [d EXCEPT !.nodes = Append(@, ChildName(h))]
  IN
  /\ h.step = "saveParent"
  /\ docs' = Change(h.id, Push)
  /\ Announce(h.id, "updated")
  /\ Resume(h, [h EXCEPT !.step = "saveNew", !.id = NewId])
  /\ UNCHANGED <<request, tasks, opened>>

(* newNode.save and its callback; a refused save is not noticed. *)
SaveNew(h) ==
  /\ h.step = "saveNew"
  /\ docs' = docs \cup (IF At(NodePath(h)) = {} THEN {NewDoc(h.id, NodePath(h))} ELSE {})
  /\ \/ /\ h.i = Len(h.path)
        /\ AnswerId(h.client, h.path)
        /\ Leave(h)
     \/ /\ h.i < Len(h.path)
        /\ Resume(h, [h EXCEPT !.step = "parent", !.i = @ + 1, !.id = 0])
        /\ UNCHANGED <<request, opened>>
  /\ UNCHANGED <<queue, tasks>>

-----------------------------------------------------------------------------
(***************************************************************************)
(* createParents: a round of the same for every prefix of the path.        *)
(***************************************************************************)
CreateParents(c) ==
  /\ Begin(c, "createParents")
  /\ Enter(c, "parent", 0, 0, {})
  /\ UNCHANGED <<docs, queue, request, tasks, opened>>

(* A seeded fault: the path in front of the parent's. *)
ParentPathAbove(h) == SubSeq(h.path, 1, h.i - 2)

(* slice(0, i - 1); for i = 0 that is slice(0, -1), all but the last name. *)
ParentPath(h) == SubSeq(h.path, 1, IF h.i = 0 THEN Len(h.path) - 1 ELSE h.i - 1)

ParentsFindParent(h) ==
  LET up == At(ParentPath(h))
  IN
  /\ h.cmd = "createParents" /\ h.step = "parent"
  /\ \/ up = {} /\ Resume(h, [h EXCEPT !.step = "node"])
     \/ \E d \in up : Resume(h, [h EXCEPT !.step = "node", !.id = d.id])
  /\ UNCHANGED <<docs, queue, request, tasks, opened>>

(* Pushing onto the nodes of a parent that is null throws. *)
ParentsFindNode(h) ==
  LET here == At(NodePath(h))
  IN
  /\ h.step = "node"
  /\ \/ /\ h.i = Len(h.path) /\ here # {}
        /\ AnswerId(h.client, h.path)
        /\ Leave(h)
     \/ /\ h.i < Len(h.path) /\ here # {}
        /\ Resume(h, [h EXCEPT !.step = "parent", !.i = @ + 1, !.id = 0])
        /\ UNCHANGED <<request, opened>>
     \/ /\ here = {}
        /\ Resume(h, [h EXCEPT !.step = IF h.id = 0 THEN "failed" ELSE "saveParent"])
        /\ UNCHANGED <<request, opened>>
  /\ UNCHANGED <<docs, queue, tasks>>

-----------------------------------------------------------------------------
(***************************************************************************)
(* remove: answered at once, the rest is done by callbacks.  To look the   *)
(* same child up twice makes no difference, so that is done once.          *)
(***************************************************************************)
ToDo(kind, id, p, s) == [kind |-> kind, id |-> id, path |-> p, nodes |-> s]

(* A seeded fault: only the children of the node itself are looked up. *)
ChildTasksFlat(d) ==
  {ToDo("child", 0, Append(d.path, n), <<>>) : n \in {m \in ToSet(d.nodes) : Len(d.path) = 2}}

(* recursiveRemove looks up path + "/" + name for each child.  Below the    *)
(* root that is "//name", which is nobody's path.                           *)
ChildTasks(d) ==
  {ToDo("child", 0, Append(d.path, n), <<>>) : n \in {m \in ToSet(d.nodes) : d.path # RootPath}}

RemoveTask(d) == ToDo("remove", d.id, d.path, <<>>)
ParentTask(d) == ToDo("parent", d.id, d.path, <<>>)

RemoveNode(c) ==
  LET p     == request[c].path
      inner == {d \in At(p) : d.path # RootPath}
  IN
  /\ Begin(c, "remove")
  /\ tasks' = tasks (+) SetToBag(UNION {ChildTasks(d) \cup {RemoveTask(d), ParentTask(d)} : d \in inner})
  /\ request' = [request EXCEPT ![c] = NoRequest]
  /\ opened' = [opened EXCEPT ![c] = @ \ {p}]
  /\ UNCHANGED <<docs, queue, running>>

(* A callback is served and has others follow. *)
Serve(t, new) == tasks' = (tasks (-) SetToBag({t})) (+) SetToBag(new)

(* A child that is found is removed with its own children. *)
FindChild(t) ==
  /\ t.kind = "child"
  /\ Serve(t, UNION {ChildTasks(d) \cup {RemoveTask(d)} : d \in At(t.path)})
  /\ UNCHANGED <<docs, queue, request, running, opened>>

(* node.remove and its callback. *)
RemoveDoc(t) ==
  /\ t.kind = "remove"
  /\ docs' = {d \in docs : d.id # t.id}
  /\ Announce(t.id, "removed")
  /\ Serve(t, {})
  /\ UNCHANGED <<request, running, opened>>

(* The loop of splices takes n out, but skips what moves up behind it. *)
Spliced(s, n) ==
  LET Visit[i \in 0 .. Len(s)] ==
        IF i = 0 THEN [kept |-> <<>>, cut |-> FALSE]
        ELSE LET r == Visit[i - 1]
             IN  IF s[i] = n /\ ~r.cut THEN [kept |-> r.kept, cut |-> TRUE]
                 ELSE [kept |-> Append(r.kept, s[i]), cut |-> FALSE]
  IN  Visit[Len(s)].kept

(* A seeded fault: the callback takes the parent for the node to remove. *)
FindParentShadowed(t) ==
  /\ t.kind = "parent"
  /\ Serve(t, {RemoveTask(d) : d \in At(Front(t.path))})
  /\ UNCHANGED <<docs, queue, request, running, opened>>

(* The parent is looked up; its nodes, without the name, will be written. *)
FindParent(t) ==
  /\ t.kind = "parent"
  /\ Serve(t, {ToDo("detach", d.id, t.path, Spliced(d.nodes, Last(t.path))) : d \in At(Front(t.path))})
  /\ UNCHANGED <<docs, queue, request, running, opened>>

(* parentNode.save and its callback. *)
Detach(t) ==
  LET Put(d) == [d EXCEPT !.nodes = t.nodes]
  IN
  /\ t.kind = "detach"
  /\ docs' = Change(t.id, Put)
  /\ Announce(t.id, "updated")
  /\ Serve(t, {})
  /\ UNCHANGED <<request, running, opened>>

-----------------------------------------------------------------------------
(***************************************************************************)
(* setAttribute, removeAttribute, setString, removeString.  There is no    *)
(* answer for a path without a node, and "delete" on attributes that are   *)
(* undefined throws.                                                       *)
(***************************************************************************)
Write(c) ==
  LET r == request[c]
      Keys(d) == CASE r.cmd = "setAttribute"    -> d.keys \cup {r.key}
                   [] r.cmd = "removeAttribute" -> d.keys \ {r.key}
                   [] OTHER                     -> d.keys
  IN
  /\ \E cmd \in Writes : Begin(c, cmd)
  /\ \/ At(r.path) = {} /\ Enter(c, "failed", 0, 0, {})
     \/ \E d \in At(r.path) :
          IF r.cmd = "removeAttribute" /\ ~d.defined
          THEN Enter(c, "failed", 0, 0, {})
          ELSE Enter(c, "save", 0, d.id, Keys(d))
  /\ UNCHANGED <<docs, queue, request, tasks, opened>>

(* node.save and its callback; setString leaves the attributes alone. *)
Save(h) ==
  LET Put(d) == [d EXCEPT !.defined = TRUE, !.keys = h.keys]
  IN
  /\ h.step = "save"
  /\ docs' = IF h.cmd \in {"setAttribute", "removeAttribute"} THEN Change(h.id, Put) ELSE docs
  /\ Announce(h.id, "updated")
  /\ AnswerId(h.client, h.path)
  /\ Leave(h)
  /\ UNCHANGED tasks

-----------------------------------------------------------------------------
(* The timer publishes what is queued. *)
Flush ==
  /\ queue # <<>>
  /\ queue' = <<>>
  /\ UNCHANGED <<docs, request, running, tasks, opened>>

(* A client sends a request; some need an open object for the path. *)
Send(c, cmd, p, k) ==
  /\ request[c] = NoRequest
  /\ <<cmd, p>> \in Commands[c]
  /\ cmd \in Writes \cup {"get", "remove"} => p \in opened[c]
  /\ cmd \notin {"setAttribute", "removeAttribute"} => k = NoKey
  /\ cmd = "remove" => BagCardinality(tasks) <= MaxTasks
  /\ cmd \in Changes \cup Writes => Cardinality(DOMAIN queue) <= MaxQueue
  /\ request' = [request EXCEPT ![c] = [cmd |-> cmd, path |-> p, key |-> k]]
  /\ UNCHANGED <<docs, queue, running, tasks, opened>>

Accept(c) ==
  \/ Get(c)
  \/ Exists(c)
  \/ Open(c)
  \/ Create(c)
  \/ CreateParents(c)
  \/ RemoveNode(c)
  \/ Write(c)

Proceed(h) ==
  \/ CreateFindParent(h)
  \/ SaveParent(h)
  \/ SaveNew(h)
  \/ ParentsFindParent(h)
  \/ ParentsFindNode(h)
  \/ Save(h)

Perform(t) ==
  \/ FindChild(t)
  \/ RemoveDoc(t)
  \/ FindParent(t)
  \/ Detach(t)

Next ==
  \/ \E c \in Client, cmd \in AllCommands, p \in Target, k \in Key : Send(c, cmd, p, k)
  \/ \E c \in Client : Accept(c)
  \/ \E h \in running : Proceed(h)
  \/ \E t \in BagToSet(tasks) : Perform(t)
  \/ Flush

Spec == Init /\ [][Next]_vars

(* The database answers every call; the REP socket queues clients fairly. *)
Places   == UNION {{SubSeq(p, 1, i) : i \in 0 .. Len(p)} : p \in Target}
FairSpec ==
  /\ Spec
  /\ \A c \in Client : SF_vars(Accept(c))
  /\ WF_vars(\E h \in running : Proceed(h))
  /\ \A p \in Places : WF_vars(\E t \in BagToSet(tasks) : t.path = p /\ Perform(t))

-----------------------------------------------------------------------------
(***************************************************************************)
(* Properties.                                                             *)
(***************************************************************************)

(* Every variable ranges over the values the code can give it. *)
TypeOK ==
  /\ docs \in SUBSET Document
  /\ DOMAIN queue \subseteq Nat \ {0}
  /\ \A i \in DOMAIN queue : queue[i] \in {"updated", "removed"}
  /\ request \in [Client -> Request]
  /\ running \in SUBSET Handler
  /\ IsABag(tasks) /\ BagToSet(tasks) \subseteq Task
  /\ opened \in [Client -> SUBSET Target]

(* The array "nodes" of a document and the documents themselves tell the    *)
(* same story, although they are saved by separate operations: a document   *)
(* is listed exactly once in the document above it, and what is listed      *)
(* exists or is about to be saved.                                          *)
Times(n, s)  == Cardinality({i \in DOMAIN s : s[i] = n})
TreeConsistent ==
  /\ \A d \in docs : d.path # RootPath =>
       \E u \in At(Front(d.path)) : Times(Last(d.path), u.nodes) = 1
  /\ \A u \in docs : \A n \in ToSet(u.nodes) :
       \/ At(Append(u.path, n)) # {}
       \/ \E h \in running : h.step = "saveNew" /\ NodePath(h) = Append(u.path, n)

(* The id that createParents and create go on with or answer names a        *)
(* document at that path: a save that was refused because another client    *)
(* created the path meanwhile, which nobody would notice, does not happen.  *)
OkNamesDocument ==
  [][\A h \in running : SaveNew(h) => \E d \in docs' : d.id = h.id /\ d.path = NodePath(h)]_vars

(* A key disappears from the attributes of a document only when it is taken *)
(* away by a removeAttribute of that key, although every write rewrites all *)
(* attributes from a copy it has read before.                               *)
NoLostAttribute ==
  [][\A d \in docs, e \in docs' : d.id = e.id =>
       \A k \in d.keys \ e.keys :
         \E h \in running : Save(h) /\ h.cmd = "removeAttribute" /\ request[h.client].key = k]_vars

(* A removal, which looks up child after child while other requests are      *)
(* served, takes only documents at or below a path that a client may ask to *)
(* remove, and never the root.                                              *)
MayGo(p) ==
  \E c \in Client, q \in Target \ {RootPath} : <<"remove", q>> \in Commands[c] /\ IsPrefix(q, p)
RemovesOnlyBelow ==
  [][\A d \in docs : (\A e \in docs' : e.id # d.id) => MayGo(d.path)]_vars

(* "The server responds": every request is answered. *)
AlwaysAnswered ==
  \A c \in Client : (request[c] # NoRequest) ~> (request[c] = NoRequest)

(* A removal that starts from a settled tree and is not disturbed by others *)
(* that change the tree takes the node away with everything below it, and   *)
(* leaves a settled tree.                                                   *)
Settled    == running = {} /\ tasks = EmptyBag /\ TreeConsistent
Removed(p) == \A d \in docs : ~IsPrefix(p, d.path)
Disturbed(c) ==
  \E x \in Client : request[x].cmd \in Changes /\ (x # c \/ tasks # EmptyBag)
RemovalRestoresTree ==
  \A c \in Client : \A p \in {q \in Target \ {RootPath} : <<"remove", q>> \in Commands[c]} :
    (Settled /\ request[c].cmd = "remove" /\ request[c].path = p)
      ~> (Settled /\ Removed(p)) \/ Disturbed(c)
=============================================================================
