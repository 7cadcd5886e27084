------------------------- MODULE AdvertServerProofs --------------------------
(***************************************************************************)
(* Theorems about AdvertServer, for any paths, clients, keys and commands. *)
(***************************************************************************)
EXTENDS AdvertServer, FiniteSetTheorems, SequenceTheorems, WellFoundedInduction, TLAPS

-----------------------------------------------------------------------------
(***************************************************************************)
(* The invariant, in named parts.  What holds whatever the clients ask for *)
(* comes first.                                                            *)
(***************************************************************************)

(* A document, whatever its list of children is.                           *)
IsDocument(d) ==
  /\ d = [id |-> d.id, path |-> d.path, nodes |-> d.nodes, defined |-> d.defined, keys |-> d.keys]
  /\ d.id \in Nat \ {0}
  /\ d.path \in Path
  /\ d.defined \in BOOLEAN
  /\ d.keys \subseteq Key

(* A handler works for a request that is still there.                      *)
Serves(h) ==
  /\ request[h.client].cmd = h.cmd
  /\ request[h.client].path = h.path
  /\ h.path \in Target
  /\ h.i <= Len(h.path)
  /\ h.cmd = "create" => h.i = Len(h.path)

Types ==
  /\ \A d \in docs : IsDocument(d)
  /\ running \in SUBSET Handler
  /\ request \in [Client -> Request]
  /\ \A c \in Client : request[c].cmd # "none" => request[c].path \in Target
  /\ \A h \in running : Serves(h)

UniqueIds  == \A d, e \in docs : d.id = e.id => d = e
OneHandler == \A h, g \in running : h = g

(* So there is always an id to be given away.                              *)
IdsBounded == \E n \in Nat : UsedIds \subseteq 0 .. n

(* Between the callbacks of a handler nobody takes its path or its id, and *)
(* nobody changes the attributes it has read.                              *)
Undisturbed(h) ==
  /\ h.step \in {"saveParent", "saveNew"} => At(NodePath(h)) = {}
  /\ h.step = "parent" /\ h.cmd = "create" => At(h.path) = {}
  /\ h.step = "saveNew" => h.id # 0 /\ \A d \in docs : d.id # h.id
  /\ h.step = "save" =>
       \A d \in docs : d.id = h.id =>
         /\ h.cmd = "setAttribute"    => h.keys = d.keys \cup {request[h.client].key}
         /\ h.cmd = "removeAttribute" => h.keys = d.keys \ {request[h.client].key}

ServerInv ==
  /\ Types
  /\ UniqueIds
  /\ OneHandler
  /\ IdsBounded
  /\ \A h \in running : Undisturbed(h)

(* What holds besides while nobody asks for a removal.                     *)
NoRemovals == \A c \in Client, p \in Target : <<"remove", p>> \notin Commands[c]

TreeTypes ==
  /\ \A d \in docs : d.nodes \in Seq(Name)
  /\ DOMAIN queue \subseteq Nat \ {0}
  /\ \A i \in DOMAIN queue : queue[i] \in {"updated", "removed"}
  /\ opened \in [Client -> SUBSET Target]
  /\ tasks = EmptyBag
  /\ \A c \in Client : request[c].cmd # "remove"

Rooted == \E d \in docs : d.path = RootPath

(* The document above the one a handler is about, and what it lists.       *)
ParentHeld(h) ==
  /\ h.step = "parent" => h.id = 0
  /\ h.step = "save" => h.id # 0
  /\ h.step \in {"saveParent", "saveNew"} => h.i # 0
  /\ h.step = "node" /\ h.id # 0 => \E u \in docs : u.id = h.id /\ u.path = ParentPath(h)
  /\ h.step = "saveParent" => \E u \in docs : u.id = h.id /\ u.path = Front(NodePath(h))
  /\ h.step = "saveNew" =>
       \E u \in docs : u.path = Front(NodePath(h)) /\ Times(Last(NodePath(h)), u.nodes) = 1

ListedOnce ==
  \A d \in docs : d.path # RootPath =>
    \E u \in At(Front(d.path)) : Times(Last(d.path), u.nodes) = 1

ListedExist ==
  \A u \in docs : \A n \in ToSet(u.nodes) :
    \/ At(Append(u.path, n)) # {}
    \/ \E h \in running : h.step = "saveNew" /\ NodePath(h) = Append(u.path, n)

TreeInv ==
  /\ ServerInv
  /\ TreeTypes
  /\ Rooted
  /\ \A h \in running : ParentHeld(h)
  /\ ListedOnce
  /\ ListedExist

-----------------------------------------------------------------------------
(***************************************************************************)
(* Ids, bags and the collection of documents.                              *)
(***************************************************************************)
LEMMA NewIdIsNew ==
  ASSUME IdsBounded
  PROVE  NewId \in Nat \ {0} /\ NewId \notin UsedIds
<1>1. PICK n \in Nat : UsedIds \subseteq 0 .. n
  BY DEF IdsBounded
<1>2. IsFiniteSet(0 .. n)
  BY FS_Interval
<1>3. IsFiniteSet(UsedIds) /\ Cardinality(UsedIds) \in Nat
  BY <1>1, <1>2, FS_Subset, FS_CardinalityType
<1>4. PICK m : m = Cardinality(UsedIds)
  OBVIOUS
<1>5. \E i \in 1 .. (m + 1) : i \notin UsedIds
  <2> SUFFICES ASSUME 1 .. (m + 1) \subseteq UsedIds
               PROVE  FALSE
    OBVIOUS
  <2>1. m \in Nat /\ 1 \in Int /\ m + 1 \in Int
    BY <1>3, <1>4
  <2>2. Cardinality(1 .. (m + 1)) = IF 1 > m + 1 THEN 0 ELSE (m + 1) - 1 + 1
    BY <2>1, FS_Interval
  <2>3. Cardinality(1 .. (m + 1)) <= Cardinality(UsedIds)
    BY <1>3, FS_Subset
  <2> QED
    BY <1>4, <2>1, <2>2, <2>3
<1>6. NewId \in 1 .. (m + 1) /\ NewId \notin UsedIds
  BY <1>4, <1>5 DEF NewId
<1> QED
  BY <1>3, <1>4, <1>6

LEMMA IdsGrow ==
  ASSUME IdsBounded, NEW i \in Nat, UsedIds' \subseteq UsedIds \cup {0, i}
  PROVE  IdsBounded'
<1>1. PICK n \in Nat : UsedIds \subseteq 0 .. n
  BY DEF IdsBounded
<1>2. n + i \in Nat /\ UsedIds' \subseteq 0 .. n + i
  BY <1>1
<1> QED
  BY <1>2 DEF IdsBounded

(* What is served goes out of the bag, what follows comes in.              *)
LEMMA Served ==
  ASSUME NEW t, NEW new, Serve(t, new)
  PROVE  BagToSet(tasks') \subseteq BagToSet(tasks) \cup new
<1> DEFINE B == tasks (-) SetToBag({t})
<1>1. tasks' = B (+) SetToBag(new)
  BY DEF Serve
<1>2. DOMAIN B \subseteq DOMAIN tasks
  BY DEF (-), SetToBag
<1> HIDE DEF B
<1>3. DOMAIN tasks' = DOMAIN B \cup new
  BY <1>1 DEF (+), SetToBag
<1> QED
  BY <1>2, <1>3 DEF BagToSet

LEMMA Added ==
  ASSUME NEW new, tasks' = tasks (+) SetToBag(new)
  PROVE  BagToSet(tasks') = BagToSet(tasks) \cup new
BY DEF (+), SetToBag, BagToSet

-----------------------------------------------------------------------------
(***************************************************************************)
(* Steps, by what they change.                                             *)
(***************************************************************************)
LEMMA InitInv ==
  ASSUME Init
  PROVE  ServerInv
<1>1. PICK d : d = NewDoc(1, RootPath)
  OBVIOUS
<1>2. docs = {d} /\ d.id = 1 /\ IsDocument(d)
  BY <1>1 DEF Init, NewDoc, IsDocument, RootPath, Path
<1>3. NoRequest \in Request /\ NoRequest.cmd = "none"
  <2>1. NoKey \in Key
    BY AdvertServerAssumption DEF NoKey
  <2> QED
    BY <2>1 DEF NoRequest, Request, RootPath, Path
<1>4. Types
  BY <1>2, <1>3 DEF Init, Types
<1>5. UniqueIds /\ OneHandler
  BY <1>2 DEF Init, UniqueIds, OneHandler
<1>6. IdsBounded
  <2>1. BagToSet(tasks) = {} /\ DOMAIN queue = {} /\ running = {}
    BY DEF Init, EmptyBag, SetToBag, BagToSet
  <2>2. UsedIds \subseteq 0 .. 1
    BY <1>2, <2>1 DEF UsedIds
  <2> QED
    BY <2>2 DEF IdsBounded
<1>7. \A h \in running : Undisturbed(h)
  BY DEF Init
<1> QED
  BY <1>4, <1>5, <1>6, <1>7 DEF ServerInv

(* The documents as a handler sees them: nobody but the handler itself adds *)
(* one or changes attributes.                                               *)
DocsStay ==
  /\ \A e \in docs' : IsDocument(e)
  /\ \A e \in docs' : \E d \in docs : e.id = d.id /\ e.path = d.path /\ e.keys = d.keys
  /\ UniqueIds'

LEMMA SameDocs ==
  ASSUME ServerInv, UNCHANGED docs
  PROVE  DocsStay
BY DEF ServerInv, Types, DocsStay, UniqueIds

(* The documents of id i have the lists of f, the others are untouched.    *)
NodesAre(i, f) ==
  /\ \A d \in docs : d.id # i => d \in docs'
  /\ \A d \in docs : d.id = i =>
       \E e \in docs' : e.id = d.id /\ e.path = d.path /\ e.nodes = f[d]
  /\ \A e \in docs' : \E d \in docs :
       /\ e.id = d.id /\ e.path = d.path
       /\ e.nodes = IF d.id = i THEN f[d] ELSE d.nodes

(* The list of children of the document i is written.                      *)
LEMMA NodesChanged ==
  ASSUME ServerInv, NEW i, NEW f,
         docs' = {IF d.id = i THEN [d EXCEPT !.nodes = f[d]] ELSE d : d \in docs}
  PROVE  DocsStay /\ NodesAre(i, f)
<1>1. ASSUME NEW d \in docs
      PROVE  LET e == [d EXCEPT !.nodes = f[d]]
             IN  /\ e.id = d.id /\ e.path = d.path /\ e.keys = d.keys /\ e.nodes = f[d]
                 /\ IsDocument(e)
  <2>1. IsDocument(d)
    BY DEF ServerInv, Types
  <2>2. PICK e : e = [d EXCEPT !.nodes = f[d]]
    OBVIOUS
  <2>3. e = [id |-> d.id, path |-> d.path, nodes |-> f[d], defined |-> d.defined, keys |-> d.keys]
    BY <2>1, <2>2 DEF IsDocument
  <2> QED
    BY <2>1, <2>2, <2>3 DEF IsDocument
<1> DEFINE D(d) == IF d.id = i THEN [d EXCEPT !.nodes = f[d]] ELSE d
<1>2. docs' = {D(d) : d \in docs}
  OBVIOUS
<1>3. \A d \in docs :
        /\ D(d).id = d.id /\ D(d).path = d.path /\ D(d).keys = d.keys
        /\ D(d).nodes = IF d.id = i THEN f[d] ELSE d.nodes
        /\ IsDocument(D(d))
        /\ d.id # i => D(d) = d
  BY <1>1 DEF ServerInv, Types
<1> HIDE DEF D
<1>4. UniqueIds'
  BY <1>2, <1>3 DEF ServerInv, UniqueIds
<1> QED
  BY <1>2, <1>3, <1>4 DEF DocsStay, NodesAre

(* A step of somebody else.                                                *)
LEMMA OthersStep ==
  ASSUME ServerInv, DocsStay, IdsBounded', running' = running,
         request' \in [Client -> Request],
         \A c \in Client : request'[c].cmd # "none" => request'[c].path \in Target,
         \A h \in running : request'[h.client] = request[h.client]
  PROVE  ServerInv'
<1>1. Types'
  BY DEF ServerInv, Types, DocsStay, Serves
<1>2. UniqueIds' /\ OneHandler'
  BY DEF ServerInv, DocsStay, OneHandler
<1>3. ASSUME NEW h \in running
      PROVE  Undisturbed(h)'
  <2>1. \A p : At(p) = {} => At(p)' = {}
    BY DEF DocsStay, At
  <2>2. UNCHANGED NodePath(h)
    BY DEF NodePath
  <2>3. Undisturbed(h)
    BY DEF ServerInv
  <2>4. /\ h.step \in {"saveParent", "saveNew"} => At(NodePath(h))' = {}
        /\ h.step = "parent" /\ h.cmd = "create" => At(h.path)' = {}
    BY <2>1, <2>2, <2>3 DEF Undisturbed
  <2>5. h.step = "saveNew" => h.id # 0 /\ \A d \in docs' : d.id # h.id
    BY <2>3 DEF DocsStay, Undisturbed
  <2>6. h.step = "save" =>
          \A d \in docs' : d.id = h.id =>
            /\ h.cmd = "setAttribute"    => h.keys = d.keys \cup {request'[h.client].key}
            /\ h.cmd = "removeAttribute" => h.keys = d.keys \ {request'[h.client].key}
    BY <2>3 DEF DocsStay, Undisturbed
  <2> QED
    BY <2>4, <2>5, <2>6 DEF Undisturbed
<1> QED
  BY <1>1, <1>2, <1>3 DEF ServerInv

(* A handler goes on, or begins.                                           *)
LEMMA GoesOn ==
  ASSUME ServerInv, DocsStay, IdsBounded', NEW g \in Handler, running' = {g},
         Serves(g), Undisturbed(g)', UNCHANGED request
  PROVE  ServerInv'
<1>1. Serves(g)'
  BY DEF Serves
<1>2. Types'
  BY <1>1 DEF ServerInv, Types, DocsStay
<1>3. UniqueIds' /\ OneHandler'
  BY DEF DocsStay, OneHandler
<1> QED
  BY <1>2, <1>3 DEF ServerInv

(* The last handler is done, or a request is answered at once.             *)
LEMMA Answers ==
  ASSUME ServerInv, DocsStay, IdsBounded', running' = {}, NEW c \in Client,
         request' = [request EXCEPT ![c] = NoRequest]
  PROVE  ServerInv'
<1>1. NoRequest \in Request /\ NoRequest.cmd = "none"
  <2>1. NoKey \in Key
    BY AdvertServerAssumption DEF NoKey
  <2> QED
    BY <2>1 DEF NoRequest, Request, RootPath, Path
<1>2. Types'
  BY <1>1 DEF ServerInv, Types, DocsStay
<1>3. UniqueIds' /\ OneHandler'
  BY DEF DocsStay, OneHandler
<1> QED
  BY <1>2, <1>3 DEF ServerInv

(* There is one handler at most, so the one that runs is all.              *)
LEMMA OnlyHandler ==
  ASSUME ServerInv, NEW h \in running
  PROVE  /\ running = {h} /\ h \in Handler /\ Serves(h) /\ Undisturbed(h)
         /\ \A g : Resume(h, g) => running' = {g}
         /\ Leave(h) => running' = {}
<1>1. running = {h}
  BY DEF ServerInv, OneHandler
<1> QED
  BY <1>1 DEF ServerInv, Types, Resume, Leave

LEMMA QueueIds ==
  ASSUME NEW i, NEW type, Announce(i, type)
  PROVE  DOMAIN queue' = DOMAIN queue \cup {i}
BY DEF Announce

(* What ids there are.                                                     *)
LEMMA IdsAre ==
  ASSUME ServerInv, DocsStay, NEW i \in Nat,
         DOMAIN queue' \subseteq DOMAIN queue \cup {i},
         \A g \in running' : g.id \in UsedIds \cup {0, i},
         \A t \in BagToSet(tasks') : t.id \in UsedIds \cup {0, i}
  PROVE  IdsBounded'
<1>1. {d.id : d \in docs'} \subseteq UsedIds
  BY DEF DocsStay, UsedIds
<1>2. DOMAIN queue' \subseteq UsedIds \cup {i}
  BY DEF UsedIds
<1>3. UsedIds' \subseteq UsedIds \cup {0, i}
  BY <1>1, <1>2 DEF UsedIds
<1> QED
  BY <1>3, IdsGrow DEF ServerInv

-----------------------------------------------------------------------------
(***************************************************************************)
(* Requests and the first callback.                                        *)
(***************************************************************************)
LEMMA SendKeeps ==
  ASSUME ServerInv, NEW c \in Client, NEW cmd \in AllCommands, NEW p \in Target, NEW k \in Key,
         Send(c, cmd, p, k)
  PROVE  ServerInv'
<1>1. PICK r : r = [cmd |-> cmd, path |-> p, key |-> k]
  OBVIOUS
<1>2. /\ request' = [request EXCEPT ![c] = r] /\ request[c] = NoRequest
      /\ UNCHANGED <<docs, queue, running, tasks>>
  BY <1>1 DEF Send
<1>3. r \in Request /\ r.path \in Target
  BY <1>1, AdvertServerAssumption DEF Request
<1>4. /\ request' \in [Client -> Request]
      /\ request'[c] = r /\ \A x \in Client : x # c => request'[x] = request[x]
  BY <1>2, <1>3 DEF ServerInv, Types
<1>5. \A h \in running : h.client \in Client /\ h.client # c
  <2> SUFFICES ASSUME NEW h \in running
               PROVE  h.client \in Client /\ h.client # c
    OBVIOUS
  <2>1. h.client \in Client /\ h.cmd \in AllCommands /\ request[h.client].cmd = h.cmd
    BY DEF ServerInv, Types, Handler, Serves
  <2>2. NoRequest.cmd = "none" /\ "none" \notin AllCommands
    BY DEF NoRequest, AllCommands, Changes, Writes
  <2> QED
    BY <1>2, <2>1, <2>2
<1>6. DocsStay
  BY <1>2, SameDocs
<1>7. IdsBounded'
  BY <1>2 DEF ServerInv, IdsBounded, UsedIds
<1>8. \A x \in Client : request'[x].cmd # "none" => request'[x].path \in Target
  BY <1>3, <1>4 DEF ServerInv, Types
<1>9. \A h \in running : request'[h.client] = request[h.client]
  BY <1>4, <1>5
<1> QED
  BY <1>2, <1>4, <1>6, <1>7, <1>8, <1>9, OthersStep

LEMMA AnswersAtOnce ==
  ASSUME ServerInv, NEW c \in Client, running = {},
         UNCHANGED <<docs, queue, running>>,
         request' = [request EXCEPT ![c] = NoRequest],
         \A t \in BagToSet(tasks') : t.id \in UsedIds \cup {0}
  PROVE  ServerInv'
<1>1. DocsStay
  BY SameDocs
<1>2. IdsBounded'
  BY <1>1, IdsAre
<1> QED
  BY <1>1, <1>2, Answers

LEMMA TaskIds ==
  \A t \in BagToSet(tasks) : t.id \in UsedIds
BY DEF UsedIds

LEMMA DocIds ==
  \A d \in docs : d.id \in UsedIds
BY DEF UsedIds

LEMMA QueriesKeep ==
  ASSUME ServerInv, NEW c \in Client, Get(c) \/ Exists(c) \/ Open(c)
  PROVE  ServerInv'
<1>1. /\ running = {} /\ UNCHANGED <<docs, queue, running, tasks>>
      /\ request' = [request EXCEPT ![c] = NoRequest]
  BY DEF Get, Exists, Open, Begin, Ready, Answer, AnswerId
<1> QED
  BY <1>1, TaskIds, AnswersAtOnce

LEMMA NewTaskIds ==
  ASSUME NEW D \in SUBSET docs
  PROVE  \A t \in UNION {ChildTasks(d) \cup {RemoveTask(d), ParentTask(d)} : d \in D} :
           t.id \in UsedIds \cup {0}
<1> SUFFICES ASSUME NEW d \in D, NEW t \in ChildTasks(d) \cup {RemoveTask(d), ParentTask(d)}
             PROVE  t.id \in UsedIds \cup {0}
  OBVIOUS
<1>1. CASE t \in ChildTasks(d)
  BY <1>1 DEF ChildTasks, ToDo
<1>2. CASE t \in {RemoveTask(d), ParentTask(d)}
  BY <1>2, DocIds DEF RemoveTask, ParentTask, ToDo
<1> QED
  BY <1>1, <1>2

LEMMA RemoveNodeKeeps ==
  ASSUME ServerInv, NEW c \in Client, RemoveNode(c)
  PROVE  ServerInv'
<1>1. PICK D \in SUBSET docs :
        tasks' = tasks (+) SetToBag(UNION {ChildTasks(d) \cup {RemoveTask(d), ParentTask(d)} : d \in D})
  BY DEF RemoveNode, At
<1>2. /\ running = {} /\ UNCHANGED <<docs, queue, running>>
      /\ request' = [request EXCEPT ![c] = NoRequest]
  BY DEF RemoveNode, Begin, Ready
<1>3. BagToSet(tasks') = BagToSet(tasks)
        \cup UNION {ChildTasks(d) \cup {RemoveTask(d), ParentTask(d)} : d \in D}
  BY <1>1, Added
<1>4. \A t \in BagToSet(tasks') : t.id \in UsedIds \cup {0}
  BY <1>3, TaskIds, NewTaskIds
<1> QED
  BY <1>2, <1>4, AnswersAtOnce

(* A handler has made its first call of the database.                      *)
LEMMA EnterKeeps ==
  ASSUME ServerInv, NEW c \in Client, NEW step \in Where, NEW i \in Nat, NEW id \in Nat,
         NEW keys \in SUBSET Key, NEW cmd \in AllCommands,
         running = {}, request[c].cmd = cmd, Enter(c, step, i, id, keys),
         UNCHANGED <<docs, queue, request, tasks>>,
         id = 0 \/ id \in UsedIds,
         i <= Len(request[c].path),
         cmd = "create" => i = Len(request[c].path),
         \A g : g = [client |-> c, cmd |-> cmd, step |-> step, path |-> request[c].path,
                     i |-> i, id |-> id, keys |-> keys] => Undisturbed(g)
  PROVE  ServerInv'
<1>1. PICK g : g = [client |-> c, cmd |-> cmd, step |-> step, path |-> request[c].path,
                    i |-> i, id |-> id, keys |-> keys]
  OBVIOUS
<1>2. running' = {g}
  BY <1>1 DEF Enter
<1>3. request[c].path \in Target /\ request[c].path \in Path
  <2>1. cmd # "none"
    BY DEF AllCommands, Changes, Writes
  <2> QED
    BY <2>1, AdvertServerAssumption DEF ServerInv, Types
<1>4. g \in Handler /\ Serves(g)
  BY <1>1, <1>3 DEF Handler, Serves
<1>5. Undisturbed(g)'
  <2>1. Undisturbed(g)
    BY <1>1
  <2> QED
    BY <2>1 DEF Undisturbed, At, NodePath
<1>6. DocsStay
  BY SameDocs
<1>7. IdsBounded'
  <2>1. \A x \in running' : x.id \in UsedIds \cup {0}
    BY <1>1, <1>2
  <2> QED
    BY <1>6, <2>1, TaskIds, IdsAre
<1> QED
  BY <1>2, <1>4, <1>5, <1>6, <1>7, GoesOn

LEMMA CreateKeeps ==
  ASSUME ServerInv, NEW c \in Client, Create(c)
  PROVE  ServerInv'
<1>1. PICK p : p = request[c].path
  OBVIOUS
<1>2. /\ running = {} /\ request[c].cmd = "create" /\ UNCHANGED <<docs, queue, tasks>>
      /\ \/ At(p) # {} /\ AnswerId(c, p) /\ UNCHANGED running
         \/ At(p) = {} /\ Enter(c, "parent", Len(p), 0, {}) /\ UNCHANGED <<request, opened>>
  BY <1>1 DEF Create, Begin, Ready
<1>3. CASE At(p) # {} /\ AnswerId(c, p) /\ UNCHANGED running
  BY <1>2, <1>3, TaskIds, AnswersAtOnce DEF AnswerId
<1>4. CASE At(p) = {} /\ Enter(c, "parent", Len(p), 0, {}) /\ UNCHANGED <<request, opened>>
  <2>1. p \in Path /\ Len(p) \in Nat
    <3>1. p \in Path
      BY <1>1 DEF ServerInv, Types, Request
    <3> QED
      BY <3>1 DEF Path
  <2>2. \A g : g = [client |-> c, cmd |-> "create", step |-> "parent", path |-> p,
                    i |-> Len(p), id |-> 0, keys |-> {}] => Undisturbed(g)
    BY <1>4 DEF Undisturbed
  <2>3. "create" \in AllCommands /\ "parent" \in Where /\ {} \in SUBSET Key /\ 0 \in Nat
    BY DEF AllCommands, Changes, Where
  <2> QED
    BY <1>1, <1>2, <1>4, <2>1, <2>2, <2>3, EnterKeeps
<1> QED
  BY <1>2, <1>3, <1>4

LEMMA CreateParentsKeeps ==
  ASSUME ServerInv, NEW c \in Client, CreateParents(c)
  PROVE  ServerInv'
<1>1. /\ running = {} /\ request[c].cmd = "createParents" /\ UNCHANGED <<docs, queue, request, tasks>>
      /\ Enter(c, "parent", 0, 0, {})
  BY DEF CreateParents, Begin, Ready
<1>2. Len(request[c].path) \in Nat
  <2>1. request[c].path \in Path
    BY DEF ServerInv, Types, Request
  <2> QED
    BY <2>1 DEF Path
<1>3. \A g : g = [client |-> c, cmd |-> "createParents", step |-> "parent",
                  path |-> request[c].path, i |-> 0, id |-> 0, keys |-> {}] => Undisturbed(g)
  BY DEF Undisturbed
<1>4. "createParents" \in AllCommands /\ "parent" \in Where /\ {} \in SUBSET Key /\ 0 \in Nat
  BY DEF AllCommands, Changes, Where
<1> QED
  BY <1>1, <1>2, <1>3, <1>4, EnterKeeps

LEMMA WriteKeeps ==
  ASSUME ServerInv, NEW c \in Client, Write(c)
  PROVE  ServerInv'
<1> DEFINE r == request[c]
           Keys(d) == CASE r.cmd = "setAttribute"    -> d.keys \cup {r.key}
                        [] r.cmd = "removeAttribute" -> d.keys \ {r.key}
                        [] OTHER                     -> d.keys
<1>1. /\ running = {} /\ r.cmd \in Writes /\ UNCHANGED <<docs, queue, request, tasks>>
      /\ \/ Enter(c, "failed", 0, 0, {})
         \/ \E d \in At(r.path) : Enter(c, "save", 0, d.id, Keys(d))
  BY DEF Write, Begin, Ready
<1>2. r.cmd \in AllCommands /\ r.cmd # "create" /\ {"failed", "save"} \subseteq Where
  BY <1>1 DEF AllCommands, Writes, Where
<1>3. Len(r.path) \in Nat /\ r.key \in Key
  <2>1. r.path \in Path /\ r.key \in Key
    BY DEF ServerInv, Types, Request
  <2> QED
    BY <2>1 DEF Path
<1>4. CASE Enter(c, "failed", 0, 0, {})
  <2>1. \A g : g = [client |-> c, cmd |-> r.cmd, step |-> "failed",
                    path |-> r.path, i |-> 0, id |-> 0, keys |-> {}] => Undisturbed(g)
    BY DEF Undisturbed
  <2>2. {} \in SUBSET Key /\ 0 \in Nat
    OBVIOUS
  <2> QED
    BY <1>1, <1>2, <1>3, <1>4, <2>1, <2>2, EnterKeeps
<1>5. ASSUME NEW d \in At(r.path), Enter(c, "save", 0, d.id, Keys(d))
      PROVE  ServerInv'
  <2>1. d \in docs /\ d.id \in Nat /\ d.keys \subseteq Key /\ d.id \in UsedIds
    BY DocIds DEF At, ServerInv, Types, IsDocument
  <2>2. PICK K : K = Keys(d)
    OBVIOUS
  <2>3. /\ K \in SUBSET Key
        /\ r.cmd = "setAttribute" => K = d.keys \cup {r.key}
        /\ r.cmd = "removeAttribute" => K = d.keys \ {r.key}
    BY <1>3, <2>1, <2>2
  <2>4. ASSUME NEW g, g = [client |-> c, cmd |-> r.cmd, step |-> "save",
                    path |-> r.path, i |-> 0, id |-> d.id, keys |-> K]
        PROVE  Undisturbed(g)
    <3>1. \A e \in docs : e.id = d.id => e = d
      BY <2>1 DEF ServerInv, UniqueIds
    <3> QED
      BY <2>3, <2>4, <3>1 DEF Undisturbed
  <2>5. Enter(c, "save", 0, d.id, K)
    BY <1>5, <2>2
  <2> HIDE DEF Keys
  <2> QED
    BY <1>1, <1>2, <1>3, <2>1, <2>3, <2>4, <2>5, EnterKeeps
<1> QED
  BY <1>1, <1>4, <1>5

LEMMA AcceptKeeps ==
  ASSUME ServerInv, NEW c \in Client, Accept(c)
  PROVE  ServerInv'
BY QueriesKeep, CreateKeeps, CreateParentsKeeps, RemoveNodeKeeps, WriteKeeps DEF Accept

-----------------------------------------------------------------------------
(***************************************************************************)
(* The later callbacks.                                                    *)
(***************************************************************************)

(* A handler that has looked documents up goes on.                         *)
LEMMA LookedUp ==
  ASSUME ServerInv, NEW h \in running, NEW g \in Handler, Resume(h, g),
         UNCHANGED <<docs, queue, request, tasks>>,
         g.id \in UsedIds \cup {0}, Serves(g), Undisturbed(g)
  PROVE  ServerInv'
<1>1. running' = {g}
  BY OnlyHandler
<1>2. Undisturbed(g)'
  BY DEF Undisturbed, At, NodePath
<1>3. DocsStay
  BY SameDocs
<1>4. IdsBounded'
  <2>1. \A x \in running' : x.id \in UsedIds \cup {0}
    BY <1>1
  <2> QED
    BY <1>3, <2>1, TaskIds, IdsAre
<1> QED
  BY <1>1, <1>2, <1>3, <1>4, GoesOn

LEMMA CreateFindParentKeeps ==
  ASSUME ServerInv, NEW h \in running, CreateFindParent(h)
  PROVE  ServerInv'
<1>1. /\ h.cmd = "create" /\ h.step = "parent"
      /\ running = {h} /\ h \in Handler /\ Serves(h) /\ Undisturbed(h)
  BY OnlyHandler DEF CreateFindParent
<1>2. CASE Answer(h.client) /\ Leave(h) /\ UNCHANGED <<docs, queue, tasks>>
  <2>1. h.client \in Client /\ running' = {} /\ request' = [request EXCEPT ![h.client] = NoRequest]
    BY <1>1, <1>2, OnlyHandler DEF Handler, Answer
  <2>2. DocsStay
    BY <1>2, SameDocs
  <2>3. IdsBounded'
    BY <1>2, <2>1, <2>2, TaskIds, IdsAre
  <2> QED
    BY <2>1, <2>2, <2>3, Answers
<1>3. ASSUME NEW d \in docs, Resume(h, [h EXCEPT !.step = "saveParent", !.id = d.id]),
             UNCHANGED <<docs, queue, request, tasks>>
      PROVE  ServerInv'
  <2>1. PICK g : g = [h EXCEPT !.step = "saveParent", !.id = d.id]
    OBVIOUS
  <2>2. d.id \in Nat /\ d.id \in UsedIds
    BY DocIds DEF ServerInv, Types, IsDocument
  <2>3. /\ g \in Handler /\ g.client = h.client /\ g.cmd = h.cmd /\ g.step = "saveParent"
        /\ g.path = h.path /\ g.i = h.i /\ g.id = d.id
    BY <1>1, <2>1, <2>2 DEF Handler, Where
  <2>4. Serves(g)
    BY <1>1, <2>3 DEF Serves
  <2>5. Undisturbed(g)
    <3>1. NodePath(g) = h.path
      <4>1. h.path \in Seq(Name) /\ h.i = Len(h.path)
        BY <1>1 DEF Serves, Handler, Path
      <4>2. SubSeq(h.path, 1, Len(h.path)) = h.path
        BY <4>1
      <4> QED
        BY <2>3, <4>1, <4>2 DEF NodePath
    <3> QED
      BY <1>1, <2>3, <3>1 DEF Undisturbed
  <2> QED
    BY <1>3, <2>1, <2>2, <2>3, <2>4, <2>5, LookedUp
<1> QED
  BY <1>2, <1>3 DEF CreateFindParent, At

LEMMA ParentsFindParentKeeps ==
  ASSUME ServerInv, NEW h \in running, ParentsFindParent(h)
  PROVE  ServerInv'
<1>1. /\ h.cmd = "createParents" /\ UNCHANGED <<docs, queue, request, tasks>>
      /\ running = {h} /\ h \in Handler /\ Serves(h) /\ Undisturbed(h)
  BY OnlyHandler DEF ParentsFindParent
<1>2. ASSUME NEW id \in Nat, id \in UsedIds \cup {0}, NEW g,
             \A x : x = g.id => x = id, g \in Handler,
             g.client = h.client, g.cmd = h.cmd, g.step = "node", g.path = h.path, g.i = h.i,
             Resume(h, g)
      PROVE  ServerInv'
  <2>1. Serves(g)
    BY <1>1, <1>2 DEF Serves
  <2>2. Undisturbed(g)
    BY <1>2 DEF Undisturbed
  <2> QED
    BY <1>1, <1>2, <2>1, <2>2, LookedUp
<1>3. h.id \in UsedIds /\ h.id \in Nat
  BY <1>1 DEF UsedIds, Handler
<1>4. CASE Resume(h, [h EXCEPT !.step = "node"])
  <2>1. PICK g : g = [h EXCEPT !.step = "node"]
    OBVIOUS
  <2>2. /\ g \in Handler /\ g.client = h.client /\ g.cmd = h.cmd /\ g.step = "node"
        /\ g.path = h.path /\ g.i = h.i /\ g.id = h.id
    BY <1>1, <2>1 DEF Handler, Where
  <2> QED
    BY <1>2, <1>3, <1>4, <2>1, <2>2
<1>5. ASSUME NEW d \in docs, Resume(h, [h EXCEPT !.step = "node", !.id = d.id])
      PROVE  ServerInv'
  <2>1. PICK g : g = [h EXCEPT !.step = "node", !.id = d.id]
    OBVIOUS
  <2>2. d.id \in Nat /\ d.id \in UsedIds
    BY DocIds DEF ServerInv, Types, IsDocument
  <2>3. /\ g \in Handler /\ g.client = h.client /\ g.cmd = h.cmd /\ g.step = "node"
        /\ g.path = h.path /\ g.i = h.i /\ g.id = d.id
    BY <1>1, <2>1, <2>2 DEF Handler, Where
  <2> QED
    BY <1>2, <1>5, <2>1, <2>2, <2>3
<1> QED
  BY <1>4, <1>5 DEF ParentsFindParent, At

(* The next round of createParents.                                        *)
LEMMA NextRound ==
  ASSUME ServerInv, NEW h \in running, h.i < Len(h.path), NEW g,
         g = [h EXCEPT !.step = "parent", !.i = @ + 1, !.id = 0]
  PROVE  g \in Handler /\ g.id = 0 /\ Serves(g) /\ Undisturbed(g) /\ Undisturbed(g)'
<1>1. h \in Handler /\ Serves(h)
  BY OnlyHandler
<1>2. h.cmd # "create"
  BY <1>1 DEF Serves
<1>3. Len(h.path) \in Nat /\ h.i \in Nat
  BY <1>1 DEF Handler, Path
<1>4. /\ g \in Handler /\ g.client = h.client /\ g.cmd = h.cmd /\ g.step = "parent"
      /\ g.path = h.path /\ g.i = h.i + 1 /\ g.id = 0
  <2>1. h.i + 1 \in Nat /\ "parent" \in Where
    BY <1>3 DEF Where
  <2> QED
    BY <1>1, <2>1 DEF Handler
<1>5. Serves(g)
  BY <1>1, <1>2, <1>3, <1>4 DEF Serves
<1>6. Undisturbed(g) /\ Undisturbed(g)'
  BY <1>2, <1>4 DEF Undisturbed
<1> QED
  BY <1>4, <1>5, <1>6

LEMMA ParentsFindNodeKeeps ==
  ASSUME ServerInv, NEW h \in running, ParentsFindNode(h)
  PROVE  ServerInv'
<1>1. /\ h.step = "node" /\ UNCHANGED <<docs, queue, tasks>>
      /\ running = {h} /\ h \in Handler /\ Serves(h) /\ Undisturbed(h)
  BY OnlyHandler DEF ParentsFindNode
<1>2. CASE AnswerId(h.client, h.path) /\ Leave(h)
  <2>1. h.client \in Client /\ running' = {} /\ request' = [request EXCEPT ![h.client] = NoRequest]
    BY <1>1, <1>2, OnlyHandler DEF Handler, AnswerId
  <2>2. DocsStay
    BY <1>1, SameDocs
  <2>3. IdsBounded'
    BY <1>1, <2>1, <2>2, TaskIds, IdsAre
  <2> QED
    BY <2>1, <2>2, <2>3, Answers
<1>3. CASE /\ h.i < Len(h.path)
           /\ Resume(h, [h EXCEPT !.step = "parent", !.i = @ + 1, !.id = 0])
           /\ UNCHANGED <<request, opened>>
  <2>1. PICK g : g = [h EXCEPT !.step = "parent", !.i = @ + 1, !.id = 0]
    OBVIOUS
  <2>2. g \in Handler /\ g.id = 0 /\ Serves(g) /\ Undisturbed(g)
    BY <1>3, <2>1, NextRound
  <2> QED
    BY <1>1, <1>3, <2>1, <2>2, LookedUp
<1>4. CASE /\ At(NodePath(h)) = {}
           /\ Resume(h, [h EXCEPT !.step = IF h.id = 0 THEN "failed" ELSE "saveParent"])
           /\ UNCHANGED <<request, opened>>
  <2>1. PICK g : g = [h EXCEPT !.step = IF h.id = 0 THEN "failed" ELSE "saveParent"]
    OBVIOUS
  <2>2. /\ g \in Handler /\ g.client = h.client /\ g.cmd = h.cmd
        /\ g.step \in {"failed", "saveParent"}
        /\ g.path = h.path /\ g.i = h.i /\ g.id = h.id
    BY <1>1, <2>1 DEF Handler, Where
  <2>3. Serves(g)
    BY <1>1, <2>2 DEF Serves
  <2>4. Undisturbed(g)
    BY <1>4, <2>2 DEF Undisturbed, NodePath
  <2>5. g.id \in UsedIds
    BY <1>1, <2>2 DEF UsedIds
  <2> QED
    BY <1>1, <1>4, <2>1, <2>2, <2>3, <2>4, <2>5, LookedUp
<1> QED
  BY <1>2, <1>3, <1>4 DEF ParentsFindNode

(* The new document gets an id that no document, message or callback has.  *)
LEMMA SaveParentKeeps ==
  ASSUME ServerInv, NEW h \in running, SaveParent(h)
  PROVE  ServerInv'
<1>0. PICK g : g = [h EXCEPT !.step = "saveNew", !.id = NewId]
  OBVIOUS
<1>1. /\ h.step = "saveParent" /\ Announce(h.id, "updated") /\ Resume(h, g)
      /\ UNCHANGED <<request, tasks, opened>>
      /\ docs' = {IF d.id = h.id THEN [d EXCEPT !.nodes = Append(@, ChildName(h))] ELSE d : d \in docs}
      /\ running = {h} /\ h \in Handler /\ Serves(h) /\ Undisturbed(h)
  BY <1>0, OnlyHandler DEF SaveParent, Change
<1>2. PICK f : f = [d \in docs |-> Append(d.nodes, ChildName(h))]
  OBVIOUS
<1>3. docs' = {IF d.id = h.id THEN [d EXCEPT !.nodes = f[d]] ELSE d : d \in docs}
  BY <1>1, <1>2
<1>4. DocsStay
  BY <1>3, NodesChanged
<1>5. NewId \in Nat \ {0} /\ NewId \notin UsedIds
  BY NewIdIsNew DEF ServerInv
<1>6. /\ g \in Handler /\ g.client = h.client /\ g.cmd = h.cmd /\ g.step = "saveNew"
      /\ g.path = h.path /\ g.i = h.i /\ g.id = NewId
  BY <1>0, <1>1, <1>5 DEF Handler, Where
<1>7. Serves(g)
  BY <1>1, <1>6 DEF Serves
<1>8. Undisturbed(g)'
  <2>1. NodePath(g)' = NodePath(h)
    BY <1>6 DEF NodePath
  <2>2. At(NodePath(h)) = {}
    BY <1>1 DEF Undisturbed
  <2>3. At(NodePath(g))' = {}
    BY <1>4, <2>1, <2>2 DEF At, DocsStay
  <2>4. \A d \in docs' : d.id # NewId
    BY <1>4, <1>5, DocIds DEF DocsStay
  <2> QED
    BY <1>5, <1>6, <2>3, <2>4 DEF Undisturbed
<1>9. running' = {g}
  BY <1>1, OnlyHandler
<1>10. IdsBounded'
  <2>1. DOMAIN queue' \subseteq UsedIds
    <3>1. h.id \in UsedIds /\ DOMAIN queue \subseteq UsedIds
      BY DEF UsedIds
    <3>2. DOMAIN queue' = DOMAIN queue \cup {h.id}
      BY <1>1, QueueIds
    <3> QED
      BY <3>1, <3>2
  <2>2. {d.id : d \in docs'} \subseteq UsedIds
    BY <1>4 DEF DocsStay, UsedIds
  <2>3. {t.id : t \in BagToSet(tasks')} \subseteq UsedIds
    BY <1>1, TaskIds
  <2>4. {x.id : x \in running'} \subseteq {NewId}
    BY <1>6, <1>9
  <2>5. UsedIds' \subseteq UsedIds \cup {0, NewId}
    BY <2>1, <2>2, <2>3, <2>4 DEF UsedIds
  <2> QED
    BY <1>5, <2>5, IdsGrow DEF ServerInv
<1> QED
  BY <1>1, <1>4, <1>6, <1>7, <1>8, <1>9, <1>10, GoesOn

(* The path is still free, so the document is saved under the new id.      *)
LEMMA NewSaved ==
  ASSUME ServerInv, NEW h \in running, SaveNew(h)
  PROVE  LET d == NewDoc(h.id, NodePath(h))
         IN  /\ docs' = docs \cup {d} /\ IsDocument(d)
             /\ d.id = h.id /\ d.path = NodePath(h) /\ d.nodes = <<>>
             /\ \A e \in docs : e.id # h.id
             /\ UniqueIds'
<1>1. PICK d : d = NewDoc(h.id, NodePath(h))
  OBVIOUS
<1>2. /\ h \in Handler /\ Undisturbed(h) /\ h.step = "saveNew" /\ Serves(h)
  BY OnlyHandler DEF SaveNew
<1>3. h.id \in Nat \ {0} /\ At(NodePath(h)) = {} /\ \A e \in docs : e.id # h.id
  BY <1>2 DEF Undisturbed, Handler
<1>4. NodePath(h) \in Path
  <2>1. h.path \in Seq(Name) /\ h.i \in Nat /\ h.i <= Len(h.path)
    BY <1>2 DEF Handler, Path, Serves
  <2>2. SubSeq(h.path, 1, h.i) \in Seq(Name)
    <3>1. \A n \in 1 .. h.i : n \in 1 .. Len(h.path)
      BY <2>1
    <3> QED
      BY <2>1, <3>1, SubSeqProperties
  <2> QED
    BY <2>2 DEF NodePath, Path
<1>5. IsDocument(d) /\ d.id = h.id /\ d.path = NodePath(h) /\ d.nodes = <<>>
  BY <1>1, <1>3, <1>4 DEF NewDoc, IsDocument
<1>6. docs' = docs \cup {d}
  BY <1>1, <1>3 DEF SaveNew
<1>7. UniqueIds'
  BY <1>3, <1>5, <1>6 DEF ServerInv, UniqueIds
<1> QED
  BY <1>1, <1>3, <1>5, <1>6, <1>7

LEMMA SaveNewKeeps ==
  ASSUME ServerInv, NEW h \in running, SaveNew(h)
  PROVE  ServerInv'
<1>1. /\ running = {h} /\ h \in Handler /\ UNCHANGED <<queue, tasks>>
  BY OnlyHandler DEF SaveNew
<1>2. PICK d : d = NewDoc(h.id, NodePath(h))
  OBVIOUS
<1>3. docs' = docs \cup {d} /\ IsDocument(d) /\ d.id = h.id /\ UniqueIds'
  BY <1>2, NewSaved
<1>4. \A e \in docs' : IsDocument(e)
  BY <1>3 DEF ServerInv, Types
<1>5. {e.id : e \in docs'} \subseteq UsedIds
  BY <1>3 DEF UsedIds
<1>6. ASSUME \A g \in running' : g.id = 0
      PROVE  IdsBounded'
  <2>1. UsedIds' \subseteq UsedIds \cup {0, 0}
    BY <1>1, <1>5, <1>6 DEF UsedIds
  <2> QED
    BY <2>1, IdsGrow DEF ServerInv
<1>7. CASE AnswerId(h.client, h.path) /\ Leave(h)
  <2>1. /\ h.client \in Client /\ running' = {}
        /\ request' = [request EXCEPT ![h.client] = NoRequest]
    BY <1>1, <1>7, OnlyHandler DEF Handler, AnswerId
  <2>2. NoRequest \in Request /\ NoRequest.cmd = "none"
    <3>1. NoKey \in Key
      BY AdvertServerAssumption DEF NoKey
    <3> QED
      BY <3>1 DEF NoRequest, Request, RootPath, Path
  <2>3. Types'
    BY <1>4, <2>1, <2>2 DEF ServerInv, Types
  <2>4. IdsBounded' /\ OneHandler' /\ \A g \in running' : Undisturbed(g)'
    BY <1>6, <2>1 DEF OneHandler
  <2> QED
    BY <1>3, <2>3, <2>4 DEF ServerInv
<1>8. CASE /\ h.i < Len(h.path)
           /\ Resume(h, [h EXCEPT !.step = "parent", !.i = @ + 1, !.id = 0])
           /\ UNCHANGED <<request, opened>>
  <2>1. PICK g : g = [h EXCEPT !.step = "parent", !.i = @ + 1, !.id = 0]
    OBVIOUS
  <2>2. g \in Handler /\ g.id = 0 /\ Serves(g) /\ Undisturbed(g)'
    BY <1>8, <2>1, NextRound
  <2>3. running' = {g}
    BY <1>8, <2>1, OnlyHandler
  <2>4. Types'
    BY <1>4, <1>8, <2>2, <2>3 DEF ServerInv, Types, Serves
  <2>5. IdsBounded' /\ OneHandler' /\ \A x \in running' : Undisturbed(x)'
    BY <1>6, <2>2, <2>3 DEF OneHandler
  <2> QED
    BY <1>3, <2>4, <2>5 DEF ServerInv
<1> QED
  BY <1>7, <1>8 DEF SaveNew

(* The attributes of a document are written.                               *)
LEMMA KeysChanged ==
  ASSUME ServerInv, NEW h \in running, NEW K \in SUBSET Key,
         docs' = {IF d.id = h.id THEN [d EXCEPT !.defined = TRUE, !.keys = K] ELSE d : d \in docs}
  PROVE  /\ \A e \in docs' : IsDocument(e)
         /\ \A e \in docs' : \E d \in docs :
              /\ e.id = d.id /\ e.path = d.path /\ e.nodes = d.nodes
              /\ e.keys = IF d.id = h.id THEN K ELSE d.keys
         /\ \A d \in docs : \E e \in docs' : e.id = d.id /\ e.path = d.path /\ e.nodes = d.nodes
         /\ UniqueIds'
<1>1. ASSUME NEW d \in docs
      PROVE  LET e == [d EXCEPT !.defined = TRUE, !.keys = K]
             IN  /\ e.id = d.id /\ e.path = d.path /\ e.keys = K /\ e.nodes = d.nodes
                 /\ IsDocument(e)
  <2>1. IsDocument(d)
    BY DEF ServerInv, Types
  <2>2. PICK e : e = [d EXCEPT !.defined = TRUE, !.keys = K]
    OBVIOUS
  <2>3. e = [id |-> d.id, path |-> d.path, nodes |-> d.nodes, defined |-> TRUE, keys |-> K]
    BY <2>1, <2>2 DEF IsDocument
  <2> QED
    BY <2>1, <2>2, <2>3 DEF IsDocument
<1> DEFINE D(d) == IF d.id = h.id THEN [d EXCEPT !.defined = TRUE, !.keys = K] ELSE d
<1>2. docs' = {D(d) : d \in docs}
  OBVIOUS
<1>3. \A d \in docs :
        /\ D(d).id = d.id /\ D(d).path = d.path /\ D(d).nodes = d.nodes
        /\ D(d).keys = IF d.id = h.id THEN K ELSE d.keys
        /\ IsDocument(D(d))
  BY <1>1 DEF ServerInv, Types
<1> HIDE DEF D
<1>4. UniqueIds'
  <2>1. \A d \in docs : D(d).id = d.id
    BY <1>3
  <2>2. ASSUME NEW d \in docs, NEW e \in docs, d.id = e.id
        PROVE  D(d) = D(e)
    <3>1. d = e
      BY <2>2 DEF ServerInv, UniqueIds
    <3> QED
      BY <3>1
  <2>3. ASSUME NEW x \in docs', NEW y \in docs', x.id = y.id
        PROVE  x = y
    <3>1. PICK d \in docs : x = D(d)
      BY <1>2
    <3>2. PICK e \in docs : y = D(e)
      BY <1>2
    <3>3. d.id = e.id
      BY <2>1, <2>3, <3>1, <3>2
    <3> QED
      BY <2>2, <3>1, <3>2, <3>3
  <2> QED
    BY <2>3 DEF UniqueIds
<1> QED
  BY <1>2, <1>3, <1>4

(* What a write leaves of the documents.                                   *)
LEMMA Saved ==
  ASSUME ServerInv, NEW h \in running, Save(h)
  PROVE  /\ \A e \in docs' : IsDocument(e)
         /\ \A e \in docs' : \E d \in docs :
              /\ e.id = d.id /\ e.path = d.path /\ e.nodes = d.nodes
              /\ e.keys = IF d.id = h.id /\ h.cmd \in {"setAttribute", "removeAttribute"}
                          THEN h.keys ELSE d.keys
         /\ \A d \in docs : \E e \in docs' : e.id = d.id /\ e.path = d.path /\ e.nodes = d.nodes
         /\ UniqueIds'
<1>1. CASE h.cmd \in {"setAttribute", "removeAttribute"}
  <2>1. docs' = {IF d.id = h.id THEN [d EXCEPT !.defined = TRUE, !.keys = h.keys] ELSE d : d \in docs}
    BY <1>1 DEF Save, Change
  <2>2. h.keys \in SUBSET Key
    BY OnlyHandler DEF Handler
  <2>3. /\ \A e \in docs' : IsDocument(e)
        /\ \A e \in docs' : \E d \in docs :
             /\ e.id = d.id /\ e.path = d.path /\ e.nodes = d.nodes
             /\ e.keys = IF d.id = h.id THEN h.keys ELSE d.keys
        /\ \A d \in docs : \E e \in docs' : e.id = d.id /\ e.path = d.path /\ e.nodes = d.nodes
        /\ UniqueIds'
    BY <2>1, <2>2, KeysChanged
  <2> QED
    BY <1>1, <2>3
<1>2. CASE h.cmd \notin {"setAttribute", "removeAttribute"}
  <2>1. docs' = docs
    BY <1>2 DEF Save
  <2> QED
    BY <1>2, <2>1 DEF ServerInv, Types, UniqueIds
<1> QED
  BY <1>1, <1>2

LEMMA SaveKeeps ==
  ASSUME ServerInv, NEW h \in running, Save(h)
  PROVE  ServerInv'
<1>1. /\ running = {h} /\ h \in Handler /\ UNCHANGED tasks /\ running' = {}
      /\ request' = [request EXCEPT ![h.client] = NoRequest] /\ Announce(h.id, "updated")
  BY OnlyHandler DEF Save, AnswerId
<1>2. /\ \A e \in docs' : IsDocument(e)
      /\ \A e \in docs' : \E d \in docs : e.id = d.id
      /\ UniqueIds'
  BY Saved
<1>3. NoRequest \in Request /\ NoRequest.cmd = "none"
  <2>1. NoKey \in Key
    BY AdvertServerAssumption DEF NoKey
  <2> QED
    BY <2>1 DEF NoRequest, Request, RootPath, Path
<1>4. Types'
  <2>1. h.client \in Client
    BY <1>1 DEF Handler
  <2> QED
    BY <1>1, <1>2, <1>3, <2>1 DEF ServerInv, Types
<1>5. IdsBounded'
  <2>1. h.id \in UsedIds
    BY DEF UsedIds
  <2>2. DOMAIN queue' \subseteq UsedIds
    <3>1. DOMAIN queue' = DOMAIN queue \cup {h.id}
      BY <1>1, QueueIds
    <3> QED
      BY <2>1, <3>1 DEF UsedIds
  <2>3. UsedIds' \subseteq UsedIds \cup {0, 0}
    BY <1>1, <1>2, <2>2 DEF UsedIds
  <2> QED
    BY <2>3, IdsGrow DEF ServerInv
<1> QED
  BY <1>1, <1>2, <1>4, <1>5 DEF ServerInv, OneHandler

LEMMA ProceedKeeps ==
  ASSUME ServerInv, NEW h \in running, Proceed(h)
  PROVE  ServerInv'
BY CreateFindParentKeeps, SaveParentKeeps, SaveNewKeeps, ParentsFindParentKeeps,
   ParentsFindNodeKeeps, SaveKeeps DEF Proceed

-----------------------------------------------------------------------------
(***************************************************************************)
(* What is left of a removal, and the timer.                               *)
(***************************************************************************)
LEMMA BackgroundKeeps ==
  ASSUME ServerInv, DocsStay, UNCHANGED <<request, running>>, NEW i \in UsedIds,
         DOMAIN queue' \subseteq DOMAIN queue \cup {i},
         \A t \in BagToSet(tasks') : t.id \in UsedIds \cup {0}
  PROVE  ServerInv'
<1>1. {d.id : d \in docs'} \subseteq UsedIds
  BY DEF DocsStay, UsedIds
<1>2. DOMAIN queue' \subseteq UsedIds
  BY DEF UsedIds
<1>3. UsedIds' \subseteq UsedIds \cup {0, 0}
  BY <1>1, <1>2 DEF UsedIds
<1>4. IdsBounded'
  BY <1>3, IdsGrow DEF ServerInv
<1> QED
  BY <1>4, OthersStep DEF ServerInv, Types

LEMMA PerformKeeps ==
  ASSUME ServerInv, NEW t \in BagToSet(tasks), Perform(t)
  PROVE  ServerInv'
<1>1. t.id \in UsedIds
  BY TaskIds
<1>2. CASE FindChild(t)
  <2>1. /\ UNCHANGED <<docs, queue, request, running>>
        /\ Serve(t, UNION {ChildTasks(d) \cup {RemoveTask(d)} : d \in At(t.path)})
    BY <1>2 DEF FindChild
  <2>2. BagToSet(tasks') \subseteq
          BagToSet(tasks) \cup UNION {ChildTasks(d) \cup {RemoveTask(d)} : d \in At(t.path)}
    BY <2>1, Served
  <2>3. \A x \in UNION {ChildTasks(d) \cup {RemoveTask(d)} : d \in At(t.path)} :
          x.id \in UsedIds \cup {0}
    BY NewTaskIds DEF At
  <2>4. \A x \in BagToSet(tasks') : x.id \in UsedIds \cup {0}
    BY <2>2, <2>3, TaskIds
  <2>5. DocsStay
    BY <2>1, SameDocs
  <2> QED
    BY <1>1, <2>1, <2>4, <2>5, BackgroundKeeps
<1>3. CASE RemoveDoc(t)
  <2>1. /\ UNCHANGED <<request, running>> /\ docs' = {d \in docs : d.id # t.id}
        /\ Announce(t.id, "removed") /\ Serve(t, {})
    BY <1>3 DEF RemoveDoc
  <2>2. DOMAIN queue' = DOMAIN queue \cup {t.id}
    BY <2>1, QueueIds
  <2>3. \A x \in BagToSet(tasks') : x.id \in UsedIds
    BY <2>1, Served, TaskIds
  <2>4. DocsStay
    BY <2>1 DEF ServerInv, Types, UniqueIds, DocsStay
  <2> QED
    BY <1>1, <2>1, <2>2, <2>3, <2>4, BackgroundKeeps
<1>4. CASE FindParent(t)
  <2>1. /\ UNCHANGED <<docs, queue, request, running>>
        /\ Serve(t, {ToDo("detach", d.id, t.path, Spliced(d.nodes, Last(t.path))) :
                       d \in At(Front(t.path))})
    BY <1>4 DEF FindParent
  <2>2. \A x \in {ToDo("detach", d.id, t.path, Spliced(d.nodes, Last(t.path))) :
                    d \in At(Front(t.path))} : x.id \in UsedIds
    BY DocIds DEF ToDo, At
  <2>3. \A x \in BagToSet(tasks') : x.id \in UsedIds
    BY <2>1, <2>2, Served, TaskIds
  <2>4. DocsStay
    BY <2>1, SameDocs
  <2> QED
    BY <1>1, <2>1, <2>3, <2>4, BackgroundKeeps
<1>5. CASE Detach(t)
  <2>1. /\ UNCHANGED <<request, running>> /\ Announce(t.id, "updated") /\ Serve(t, {})
        /\ docs' = {IF d.id = t.id THEN [d EXCEPT !.nodes = t.nodes] ELSE d : d \in docs}
    BY <1>5 DEF Detach, Change
  <2>2. PICK f : f = [d \in docs |-> t.nodes]
    OBVIOUS
  <2>3. docs' = {IF d.id = t.id THEN [d EXCEPT !.nodes = f[d]] ELSE d : d \in docs}
    BY <2>1, <2>2
  <2>4. DocsStay
    BY <2>3, NodesChanged
  <2>5. DOMAIN queue' = DOMAIN queue \cup {t.id}
    BY <2>1, QueueIds
  <2>6. \A x \in BagToSet(tasks') : x.id \in UsedIds
    BY <2>1, Served, TaskIds
  <2> QED
    BY <1>1, <2>1, <2>4, <2>5, <2>6, BackgroundKeeps
<1> QED
  BY <1>2, <1>3, <1>4, <1>5 DEF Perform

LEMMA FlushKeeps ==
  ASSUME ServerInv, Flush
  PROVE  ServerInv'
<1>1. DocsStay
  BY SameDocs DEF Flush
<1>2. UNCHANGED <<request, running, tasks>> /\ DOMAIN queue' = {}
  BY DEF Flush
<1>3. IdsBounded'
  BY <1>1, <1>2, TaskIds, DocIds, IdsAre DEF UsedIds
<1> QED
  BY <1>1, <1>2, <1>3, OthersStep DEF ServerInv, Types

LEMMA NextInv ==
  ASSUME ServerInv, [Next]_vars
  PROVE  ServerInv'
<1>1. CASE UNCHANGED vars
  <2>1. UNCHANGED <<docs, queue, request, running, tasks>>
    BY <1>1 DEF vars
  <2>2. DocsStay /\ IdsBounded'
    BY <2>1, SameDocs DEF ServerInv, IdsBounded, UsedIds
  <2> QED
    BY <2>1, <2>2, OthersStep DEF ServerInv, Types
<1> QED
  BY <1>1, SendKeeps, AcceptKeeps, ProceedKeeps, PerformKeeps, FlushKeeps DEF Next

(* Every step leaves the documents as they are for everybody else, or is   *)
(* the one save that adds a document or the one that writes attributes.    *)
LEMMA StepKinds ==
  ASSUME ServerInv, [Next]_vars
  PROVE  DocsStay \/ \E h \in running : SaveNew(h) \/ Save(h)
<1>1. CASE UNCHANGED docs
  BY <1>1, SameDocs
<1>2. ASSUME NEW h \in running, SaveParent(h)
      PROVE  DocsStay
  <2>1. docs' = {IF d.id = h.id THEN [d EXCEPT !.nodes = Append(@, ChildName(h))] ELSE d : d \in docs}
    BY <1>2 DEF SaveParent, Change
  <2>2. PICK f : f = [d \in docs |-> Append(d.nodes, ChildName(h))]
    OBVIOUS
  <2>3. docs' = {IF d.id = h.id THEN [d EXCEPT !.nodes = f[d]] ELSE d : d \in docs}
    BY <2>1, <2>2
  <2> QED
    BY <2>3, NodesChanged
<1>3. ASSUME NEW t, Detach(t)
      PROVE  DocsStay
  <2>1. docs' = {IF d.id = t.id THEN [d EXCEPT !.nodes = t.nodes] ELSE d : d \in docs}
    BY <1>3 DEF Detach, Change
  <2>2. PICK f : f = [d \in docs |-> t.nodes]
    OBVIOUS
  <2>3. docs' = {IF d.id = t.id THEN [d EXCEPT !.nodes = f[d]] ELSE d : d \in docs}
    BY <2>1, <2>2
  <2> QED
    BY <2>3, NodesChanged
<1>4. ASSUME NEW t, RemoveDoc(t)
      PROVE  DocsStay
  BY <1>4 DEF RemoveDoc, ServerInv, Types, UniqueIds, DocsStay
<1>5. ASSUME NEW c \in Client, Accept(c)
      PROVE  UNCHANGED docs
  BY <1>5 DEF Accept, Get, Exists, Open, Create, CreateParents, RemoveNode, Write
<1>6. ASSUME NEW c \in Client, NEW cmd, NEW p, NEW k, Send(c, cmd, p, k)
      PROVE  UNCHANGED docs
  BY <1>6 DEF Send
<1>7. ASSUME NEW h \in running, Proceed(h)
      PROVE  UNCHANGED docs \/ SaveParent(h) \/ SaveNew(h) \/ Save(h)
  BY <1>7 DEF Proceed, CreateFindParent, ParentsFindParent, ParentsFindNode
<1>8. ASSUME NEW t \in BagToSet(tasks), Perform(t)
      PROVE  UNCHANGED docs \/ RemoveDoc(t) \/ Detach(t)
  BY <1>8 DEF Perform, FindChild, FindParent
<1>9. CASE Flush
  BY <1>1, <1>9 DEF Flush
<1>10. CASE UNCHANGED vars
  BY <1>1, <1>10 DEF vars
<1> QED
  BY <1>1, <1>2, <1>3, <1>4, <1>5, <1>6, <1>7, <1>8, <1>9, <1>10 DEF Next

-----------------------------------------------------------------------------
(***************************************************************************)
(* Theorems, whatever the clients ask for.                                 *)
(***************************************************************************)

(* In every reachable state ids are unique, one handler runs at most, and  *)
(* between its callbacks its path stays free, its id unused and the        *)
(* attributes it has read unchanged, also while removals go on.            *)
THEOREM Invariant == Spec => []ServerInv
<1>1. Init => ServerInv
  BY InitInv
<1>2. ServerInv /\ [Next]_vars => ServerInv'
  BY NextInv
<1> QED
  BY <1>1, <1>2, PTL DEF Spec

(* No save of a new document is refused unnoticed: the id that create and  *)
(* createParents answer names the document at that path.                   *)
THEOREM SavedUnderItsId == Spec => OkNamesDocument
<1>1. ServerInv => [\A h \in running : SaveNew(h) =>
                      \E d \in docs' : d.id = h.id /\ d.path = NodePath(h)]_vars
  <2> SUFFICES ASSUME ServerInv, NEW h \in running, SaveNew(h)
               PROVE  \E d \in docs' : d.id = h.id /\ d.path = NodePath(h)
    OBVIOUS
  <2>1. PICK d : d = NewDoc(h.id, NodePath(h))
    OBVIOUS
  <2>2. docs' = docs \cup {d} /\ d.id = h.id /\ d.path = NodePath(h)
    BY <2>1, NewSaved
  <2> QED
    BY <2>2
<1>2. [][\A h \in running : SaveNew(h) =>
           \E d \in docs' : d.id = h.id /\ d.path = NodePath(h)]_vars <=> OkNamesDocument
  BY DEF OkNamesDocument
<1> QED
  BY <1>1, <1>2, Invariant, PTL

(* The attributes of a document lose a key in one kind of step.            *)
LEMMA KeysLost ==
  ASSUME ServerInv, [Next]_vars, NEW d \in docs, NEW e \in docs', d.id = e.id,
         NEW k \in d.keys \ e.keys
  PROVE  \E h \in running : Save(h) /\ h.cmd = "removeAttribute" /\ request[h.client].key = k
<1>1. \A x \in docs : x.id = e.id => x = d
  BY DEF ServerInv, UniqueIds
<1>2. CASE DocsStay
  BY <1>1, <1>2 DEF DocsStay
<1>3. ASSUME NEW h \in running, SaveNew(h)
      PROVE  FALSE
  <2>1. PICK n : n = NewDoc(h.id, NodePath(h))
    OBVIOUS
  <2>2. docs' = docs \cup {n} /\ n.id = h.id /\ \A x \in docs : x.id # h.id
    BY <1>3, <2>1, NewSaved
  <2> QED
    BY <1>1, <2>2
<1>4. ASSUME NEW h \in running, Save(h)
      PROVE  h.cmd = "removeAttribute" /\ request[h.client].key = k
  <2>1. e.keys = IF d.id = h.id /\ h.cmd \in {"setAttribute", "removeAttribute"}
                 THEN h.keys ELSE d.keys
    BY <1>1, <1>4, Saved
  <2>2. d.id = h.id /\ h.cmd \in {"setAttribute", "removeAttribute"} /\ k \notin h.keys
    BY <2>1
  <2>3. h.step = "save" /\ Undisturbed(h)
    BY <1>4, OnlyHandler DEF Save
  <2>4. /\ h.cmd = "setAttribute"    => h.keys = d.keys \cup {request[h.client].key}
        /\ h.cmd = "removeAttribute" => h.keys = d.keys \ {request[h.client].key}
    BY <2>2, <2>3 DEF Undisturbed
  <2> QED
    BY <2>2, <2>4
<1> QED
  BY <1>2, <1>3, <1>4, StepKinds

(* A write rewrites all attributes of a document from a copy that was read *)
(* before, and yet loses no key but the one it was asked to remove.        *)
THEOREM AttributesKept == Spec => NoLostAttribute
<1>1. ServerInv /\ [Next]_vars =>
        [\A d \in docs, e \in docs' : d.id = e.id =>
           \A k \in d.keys \ e.keys :
             \E h \in running : Save(h) /\ h.cmd = "removeAttribute" /\ request[h.client].key = k]_vars
  BY KeysLost
<1>2. [][\A d \in docs, e \in docs' : d.id = e.id =>
           \A k \in d.keys \ e.keys :
             \E h \in running : Save(h) /\ h.cmd = "removeAttribute" /\ request[h.client].key = k]_vars
      <=> NoLostAttribute
  BY DEF NoLostAttribute
<1> QED
  BY <1>1, <1>2, Invariant, PTL DEF Spec

-----------------------------------------------------------------------------
(***************************************************************************)
(* The tree, while nobody asks for a removal.                              *)
(***************************************************************************)
LEMMA FirstNames ==
  ASSUME NEW s \in Seq(Name), NEW m \in Nat, m <= Len(s)
  PROVE  /\ SubSeq(s, 1, m) \in Seq(Name) /\ Len(SubSeq(s, 1, m)) = m
         /\ \A j \in 1 .. m : SubSeq(s, 1, m)[j] = s[j]
<1>1. \A j \in 1 .. m : j \in 1 .. Len(s)
  OBVIOUS
<1> QED
  BY <1>1, SubSeqProperties

LEMMA PathEnds ==
  /\ \A p \in Path : p # RootPath =>
       Front(p) \in Path /\ Last(p) \in Name /\ Append(Front(p), Last(p)) = p
  /\ \A p \in Path, n \in Name :
       /\ Append(p, n) \in Path /\ Append(p, n) # RootPath
       /\ Front(Append(p, n)) = p /\ Last(Append(p, n)) = n
<1>1. ASSUME NEW p \in Seq(Name), p # <<>>
      PROVE  Front(p) \in Seq(Name) /\ Last(p) \in Name /\ Append(Front(p), Last(p)) = p
  <2>1. Len(p) \in Nat \ {0}
    BY <1>1
  <2>2. Last(p) \in Name
    BY <2>1 DEF Last
  <2>3. PICK f : f = SubSeq(p, 1, Len(p) - 1)
    OBVIOUS
  <2>4. f \in Seq(Name) /\ Len(f) = Len(p) - 1 /\ \A j \in 1 .. Len(p) - 1 : f[j] = p[j]
    <3>1. Len(p) - 1 \in Nat /\ Len(p) - 1 <= Len(p)
      BY <2>1
    <3> QED
      BY <2>3, <3>1, FirstNames
  <2>5. PICK a : a = Append(f, p[Len(p)])
    OBVIOUS
  <2>6. /\ a \in Seq(Name) /\ Len(a) = Len(p) /\ a[Len(p)] = p[Len(p)]
        /\ \A j \in 1 .. Len(p) - 1 : a[j] = p[j]
    BY <2>1, <2>2, <2>4, <2>5 DEF Last
  <2>7. a = p
    <3>1. \A j \in 1 .. Len(p) : a[j] = p[j]
      BY <2>1, <2>6
    <3> QED
      BY <2>6, <3>1, SeqEqual
  <2> QED
    BY <2>2, <2>3, <2>4, <2>5, <2>7 DEF Front, Last
<1>2. ASSUME NEW p \in Seq(Name), NEW n \in Name
      PROVE  /\ Append(p, n) \in Seq(Name) /\ Append(p, n) # <<>>
             /\ Front(Append(p, n)) = p /\ Last(Append(p, n)) = n
  <2>1. PICK a : a = Append(p, n)
    OBVIOUS
  <2>2. /\ a \in Seq(Name) /\ Len(a) = Len(p) + 1 /\ a[Len(p) + 1] = n /\ Len(p) \in Nat
        /\ \A j \in 1 .. Len(p) : a[j] = p[j]
    BY <2>1
  <2>3. PICK f : f = SubSeq(a, 1, Len(p))
    OBVIOUS
  <2>4. f \in Seq(Name) /\ Len(f) = Len(p) /\ \A j \in 1 .. Len(p) : f[j] = a[j]
    BY <2>2, <2>3, FirstNames
  <2>5. f = p
    BY <2>2, <2>4, SeqEqual
  <2>6. Len(a) - 1 = Len(p) /\ a # <<>>
    BY <2>2
  <2> QED
    BY <2>1, <2>2, <2>3, <2>5, <2>6 DEF Front, Last
<1> QED
  BY <1>1, <1>2 DEF Path, RootPath

(* Where a handler is in its path.                                         *)
LEMMA NodePaths ==
  ASSUME ServerInv, NEW h \in running
  PROVE  /\ NodePath(h) \in Path /\ ParentPath(h) \in Path
         /\ h.i = 0 => NodePath(h) = RootPath
         /\ h.i # 0 => NodePath(h) # RootPath /\ ParentPath(h) = Front(NodePath(h))
         /\ h.i = Len(h.path) => NodePath(h) = h.path
         /\ h.path \in Target
<1>1. h.path \in Seq(Name) /\ h.i \in Nat /\ h.i <= Len(h.path) /\ h.path \in Target
  BY OnlyHandler DEF Handler, Path, Serves
<1>2. \A m \in Nat : m <= Len(h.path) =>
        /\ SubSeq(h.path, 1, m) \in Seq(Name) /\ Len(SubSeq(h.path, 1, m)) = m
        /\ \A j \in 1 .. m : SubSeq(h.path, 1, m)[j] = h.path[j]
  BY <1>1, FirstNames
<1>3. PICK q : q = NodePath(h)
  OBVIOUS
<1>4. q = SubSeq(h.path, 1, h.i)
  BY <1>3 DEF NodePath
<1>5. q \in Seq(Name) /\ Len(q) = h.i /\ \A j \in 1 .. h.i : q[j] = h.path[j]
  BY <1>1, <1>2, <1>4
<1>6. h.i = 0 => q = <<>>
  BY <1>5
<1>7. h.i # 0 => q # <<>>
  BY <1>5
<1>8. h.i = Len(h.path) => q = h.path
  BY <1>1, <1>5, SeqEqual
<1>9. ASSUME h.i # 0
      PROVE  ParentPath(h) = Front(q) /\ ParentPath(h) \in Seq(Name)
  <2>1. PICK u : u = SubSeq(h.path, 1, h.i - 1)
    OBVIOUS
  <2>2. h.i - 1 \in Nat /\ h.i - 1 <= Len(h.path)
    BY <1>1, <1>9
  <2>3. u \in Seq(Name) /\ Len(u) = h.i - 1 /\ \A j \in 1 .. h.i - 1 : u[j] = h.path[j]
    BY <1>2, <2>1, <2>2
  <2>4. PICK f : f = SubSeq(q, 1, h.i - 1)
    OBVIOUS
  <2>5. f \in Seq(Name) /\ Len(f) = h.i - 1 /\ \A j \in 1 .. h.i - 1 : f[j] = q[j]
    <3>1. h.i - 1 <= Len(q)
      BY <1>1, <1>5
    <3> QED
      BY <1>5, <2>2, <2>4, <3>1, FirstNames
  <2>6. \A j \in 1 .. h.i - 1 : f[j] = u[j]
    <3>1. \A j \in 1 .. h.i - 1 : j \in 1 .. h.i
      BY <1>1
    <3> QED
      BY <1>5, <2>3, <2>5, <3>1
  <2>7. f = u
    BY <2>3, <2>5, <2>6, SeqEqual
  <2> QED
    BY <1>5, <1>9, <2>1, <2>3, <2>4, <2>7 DEF ParentPath, Front
<1>10. CASE h.i = 0
  <2>1. PICK m : m = Len(h.path) - 1
    OBVIOUS
  <2>2. ParentPath(h) = SubSeq(h.path, 1, m)
    BY <1>10, <2>1 DEF ParentPath
  <2>3. SubSeq(h.path, 1, m) \in Seq(Name)
    <3>1. CASE Len(h.path) = 0
      <4>1. m = -1
        BY <2>1, <3>1
      <4> QED
        BY <1>1, <4>1
    <3>2. CASE Len(h.path) # 0
      <4>1. m \in Nat /\ m <= Len(h.path)
        BY <1>1, <2>1, <3>2
      <4> QED
        BY <1>2, <4>1
    <3> QED
      BY <3>1, <3>2
  <2> QED
    BY <1>1, <1>3, <1>5, <1>6, <1>8, <1>10, <2>2, <2>3 DEF Path, RootPath
<1>11. CASE h.i # 0
  BY <1>1, <1>3, <1>5, <1>7, <1>8, <1>9, <1>11 DEF Path, RootPath
<1> QED
  BY <1>10, <1>11

LEMMA TimesIs ==
  ASSUME NEW s \in Seq(Name), NEW m \in Name, NEW n \in Name
  PROVE  /\ n \notin ToSet(s) => Times(n, s) = 0
         /\ Times(n, s) \in Nat
         /\ Times(n, Append(s, m)) = IF m = n THEN Times(n, s) + 1 ELSE Times(n, s)
<1>1. DOMAIN s = 1 .. Len(s) /\ Len(s) \in Nat
  OBVIOUS
<1>2. PICK S : S = {i \in DOMAIN s : s[i] = n}
  OBVIOUS
<1>3. IsFiniteSet(S) /\ S \subseteq 1 .. Len(s)
  <2>1. IsFiniteSet(1 .. Len(s))
    <3>1. 1 \in Int /\ Len(s) \in Int
      BY <1>1
    <3> QED
      BY <3>1, FS_Interval
  <2>2. S \subseteq 1 .. Len(s)
    BY <1>1, <1>2
  <2> QED
    BY <2>1, <2>2, FS_Subset
<1>4. Times(n, s) = Cardinality(S)
  BY <1>2 DEF Times
<1>5. n \notin ToSet(s) => S = {}
  BY <1>2 DEF ToSet
<1>6. PICK a : a = Append(s, m)
  OBVIOUS
<1>7. /\ DOMAIN a = 1 .. (Len(s) + 1) /\ a[Len(s) + 1] = m
      /\ \A j \in 1 .. Len(s) : a[j] = s[j]
  BY <1>1, <1>6
<1>8. {i \in DOMAIN a : a[i] = n} = IF m = n THEN S \cup {Len(s) + 1} ELSE S
  <2>1. 1 .. (Len(s) + 1) = (1 .. Len(s)) \cup {Len(s) + 1} /\ Len(s) + 1 \notin 1 .. Len(s)
    BY <1>1
  <2> QED
    BY <1>1, <1>2, <1>7, <2>1
<1>9. Cardinality(S \cup {Len(s) + 1}) = Cardinality(S) + 1
  <2>1. Len(s) + 1 \notin S
    BY <1>1, <1>3
  <2> QED
    BY <1>3, <2>1, FS_AddElement
<1>10. Times(n, a) = IF m = n THEN Cardinality(S) + 1 ELSE Cardinality(S)
  <2>1. Times(n, a) = Cardinality(IF m = n THEN S \cup {Len(s) + 1} ELSE S)
    BY <1>8 DEF Times
  <2> QED
    BY <1>9, <2>1
<1>11. Cardinality(S) \in Nat /\ (S = {} => Cardinality(S) = 0)
  BY <1>3, FS_CardinalityType, FS_EmptySet
<1> QED
  BY <1>4, <1>5, <1>6, <1>10, <1>11

LEMMA TreeInit ==
  ASSUME Init
  PROVE  TreeInv
<1>1. PICK d : d = NewDoc(1, RootPath)
  OBVIOUS
<1>2. docs = {d} /\ d.path = RootPath /\ d.nodes = <<>>
  BY <1>1 DEF Init, NewDoc
<1>3. TreeTypes
  <2>0. <<>> \in Seq(Name)
    OBVIOUS
  <2>1. \A e \in docs : e.nodes \in Seq(Name)
    BY <1>2, <2>0
  <2>2. queue = <<>> /\ DOMAIN queue = {}
    BY DEF Init
  <2>3. opened \in [Client -> SUBSET Target]
    BY DEF Init
  <2>4. tasks = EmptyBag /\ \A c \in Client : request[c].cmd # "remove"
    BY DEF Init, NoRequest
  <2> QED
    BY <2>1, <2>2, <2>3, <2>4 DEF TreeTypes
<1>4. Rooted /\ ListedOnce /\ ListedExist
  <2>1. ToSet(<<>>) = {}
    BY DEF ToSet
  <2> QED
    BY <1>2, <2>1 DEF Rooted, ListedOnce, ListedExist
<1>5. \A h \in running : ParentHeld(h)
  BY DEF Init
<1> QED
  BY <1>3, <1>4, <1>5, InitInv DEF TreeInv

(* Documents come and go nowhere, and list what they listed.               *)
NodesStay ==
  /\ \A d \in docs : \E e \in docs' : e.id = d.id /\ e.path = d.path /\ e.nodes = d.nodes
  /\ \A e \in docs' : \E d \in docs : e.id = d.id /\ e.path = d.path /\ e.nodes = d.nodes

LEMMA TreeStays ==
  ASSUME TreeInv, ServerInv', NodesStay, TreeTypes',
         \A h \in running' : ParentHeld(h) \/ ParentHeld(h)',
         \A h \in running : h.step = "saveNew" => h \in running'
  PROVE  TreeInv'
<1>1. \A p : At(p) # {} => At(p)' # {}
  BY DEF NodesStay, At
<1>2. Rooted'
  BY DEF TreeInv, Rooted, NodesStay
<1>3. ListedOnce'
  <2> SUFFICES ASSUME NEW e \in docs', e.path # RootPath
               PROVE  \E u \in docs' : u.path = Front(e.path) /\ Times(Last(e.path), u.nodes) = 1
    BY DEF ListedOnce, At
  <2>1. PICK d \in docs : e.path = d.path
    BY DEF NodesStay
  <2>2. PICK u \in docs : u.path = Front(e.path) /\ Times(Last(e.path), u.nodes) = 1
    BY <2>1 DEF TreeInv, ListedOnce, At
  <2> QED
    BY <2>2 DEF NodesStay
<1>4. ListedExist'
  <2> SUFFICES ASSUME NEW e \in docs', NEW n \in ToSet(e.nodes)
               PROVE  \/ At(Append(e.path, n))' # {}
                      \/ \E h \in running' : h.step = "saveNew" /\ NodePath(h) = Append(e.path, n)
    BY DEF ListedExist, NodePath
  <2>1. PICK d \in docs : e.path = d.path /\ e.nodes = d.nodes
    BY DEF NodesStay
  <2> QED
    BY <1>1, <2>1 DEF TreeInv, ListedExist
<1>5. ASSUME NEW h \in running', ParentHeld(h)
      PROVE  ParentHeld(h)'
  <2>1. /\ h.step = "node" /\ h.id # 0 => \E u \in docs' : u.id = h.id /\ u.path = ParentPath(h)
        /\ h.step = "saveParent" => \E u \in docs' : u.id = h.id /\ u.path = Front(NodePath(h))
        /\ h.step = "saveNew" => \E u \in docs' : /\ u.path = Front(NodePath(h))
                                                  /\ Times(Last(NodePath(h)), u.nodes) = 1
    BY <1>5 DEF ParentHeld, NodesStay
  <2> QED
    BY <1>5, <2>1 DEF ParentHeld, NodePath, ParentPath
<1> QED
  BY <1>2, <1>3, <1>4, <1>5 DEF TreeInv

(* A step that touches neither the documents nor the queue.                *)
LEMMA QuietStep ==
  ASSUME TreeInv, ServerInv', UNCHANGED <<docs, queue, tasks>>,
         opened' \in [Client -> SUBSET Target],
         \A c \in Client : request'[c].cmd # "remove",
         \A h \in running' : ParentHeld(h),
         \A h \in running : h.step = "saveNew" => h \in running'
  PROVE  TreeInv'
<1>1. NodesStay
  BY DEF NodesStay
<1>2. TreeTypes'
  BY DEF TreeInv, TreeTypes
<1> QED
  BY <1>1, <1>2, TreeStays

LEMMA Answered ==
  ASSUME TreeInv, NEW c \in Client, NEW p \in Target, AnswerId(c, p) \/ Answer(c)
  PROVE  /\ opened' \in [Client -> SUBSET Target]
         /\ \A x \in Client : request'[x].cmd # "remove"
<1>1. request' = [request EXCEPT ![c] = NoRequest]
  BY DEF AnswerId, Answer
<1>2. \A x \in Client : request'[x].cmd # "remove"
  BY <1>1 DEF TreeInv, TreeTypes, ServerInv, Types, NoRequest
<1>3. opened' \in [Client -> SUBSET Target]
  <2>1. CASE AnswerId(c, p)
    BY <2>1 DEF AnswerId, TreeInv, TreeTypes
  <2>2. CASE Answer(c)
    BY <2>2 DEF Answer, TreeInv, TreeTypes
  <2> QED
    BY <2>1, <2>2
<1> QED
  BY <1>2, <1>3

LEMMA RequestPath ==
  ASSUME ServerInv, NEW c \in Client, request[c].cmd # "none"
  PROVE  request[c].path \in Target
BY DEF ServerInv, Types

LEMMA AcceptTree ==
  ASSUME TreeInv, ServerInv', NEW c \in Client, Accept(c)
  PROVE  TreeInv'
<1>0. ServerInv
  BY DEF TreeInv
<1>1. CASE Get(c) \/ Exists(c) \/ Open(c)
  <2>1. running = {} /\ request[c].cmd \in {"get", "exists", "open"} /\ UNCHANGED <<docs, queue, tasks, running>>
    BY <1>1 DEF Get, Exists, Open, Begin, Ready
  <2>2. request[c].path \in Target
    BY <1>0, <2>1, RequestPath
  <2>3. AnswerId(c, request[c].path) \/ Answer(c)
    BY <1>1 DEF Get, Exists, Open
  <2>4. opened' \in [Client -> SUBSET Target] /\ \A x \in Client : request'[x].cmd # "remove"
    BY <2>2, <2>3, Answered
  <2> QED
    BY <2>1, <2>4, QuietStep
<1>2. ASSUME NEW step \in Where, NEW i, NEW id, NEW keys, Enter(c, step, i, id, keys),
             running = {}, UNCHANGED <<docs, queue, tasks, request, opened>>,
             step = "parent" => id = 0, step = "save" => id # 0,
             step \notin {"node", "saveParent", "saveNew"}
      PROVE  TreeInv'
  <2>1. PICK g : g = [client |-> c, cmd |-> request[c].cmd, step |-> step, path |-> request[c].path,
                      i |-> i, id |-> id, keys |-> keys]
    OBVIOUS
  <2>2. running' = {g} /\ g.step = step /\ g.id = id
    BY <1>2, <2>1 DEF Enter
  <2>3. ParentHeld(g)
    BY <1>2, <2>2 DEF ParentHeld
  <2>4. opened' \in [Client -> SUBSET Target] /\ \A x \in Client : request'[x].cmd # "remove"
    BY <1>2 DEF TreeInv, TreeTypes
  <2> QED
    BY <1>2, <2>2, <2>3, <2>4, QuietStep
<1>3. "parent" \in Where /\ "failed" \in Where /\ "save" \in Where
  BY DEF Where
<1>4. CASE Create(c)
  <2>1. running = {} /\ request[c].cmd = "create" /\ UNCHANGED <<docs, queue, tasks>>
    BY <1>4 DEF Create, Begin, Ready
  <2>2. CASE AnswerId(c, request[c].path) /\ UNCHANGED running
    <3>1. request[c].path \in Target
      BY <1>0, <2>1, RequestPath
    <3>2. opened' \in [Client -> SUBSET Target] /\ \A x \in Client : request'[x].cmd # "remove"
      BY <2>2, <3>1, Answered
    <3> QED
      BY <2>1, <2>2, <3>2, QuietStep
  <2>3. CASE Enter(c, "parent", Len(request[c].path), 0, {}) /\ UNCHANGED <<request, opened>>
    BY <1>2, <1>3, <2>1, <2>3
  <2> QED
    BY <1>4, <2>2, <2>3 DEF Create
<1>5. CASE CreateParents(c)
  <2>1. /\ running = {} /\ UNCHANGED <<docs, queue, tasks, request, opened>>
        /\ Enter(c, "parent", 0, 0, {})
    BY <1>5 DEF CreateParents, Begin, Ready
  <2> QED
    BY <1>2, <1>3, <2>1
<1>6. CASE Write(c)
  <2>1. /\ running = {} /\ UNCHANGED <<docs, queue, tasks, request, opened>>
        /\ \/ Enter(c, "failed", 0, 0, {})
           \/ \E id, keys : id # 0 /\ Enter(c, "save", 0, id, keys)
    <3>1. \A d \in docs : d.id # 0
      BY <1>0 DEF ServerInv, Types, IsDocument
    <3> QED
      BY <1>6, <3>1 DEF Write, Begin, Ready, At
  <2>2. CASE Enter(c, "failed", 0, 0, {})
    BY <1>2, <1>3, <2>1, <2>2
  <2>3. ASSUME NEW id, NEW keys, id # 0, Enter(c, "save", 0, id, keys)
        PROVE  TreeInv'
    BY <1>2, <1>3, <2>1, <2>3
  <2> QED
    BY <2>1, <2>2, <2>3
<1>7. ~RemoveNode(c)
  BY DEF RemoveNode, Begin, TreeInv, TreeTypes
<1> QED
  BY <1>1, <1>4, <1>5, <1>6, <1>7 DEF Accept

LEMMA SendTree ==
  ASSUME NoRemovals, TreeInv, ServerInv',
         NEW c \in Client, NEW cmd \in AllCommands, NEW p \in Target, NEW k \in Key,
         Send(c, cmd, p, k)
  PROVE  TreeInv'
<1>1. PICK r : r = [cmd |-> cmd, path |-> p, key |-> k]
  OBVIOUS
<1>2. /\ request' = [request EXCEPT ![c] = r] /\ <<cmd, p>> \in Commands[c]
      /\ UNCHANGED <<docs, queue, running, tasks, opened>>
  BY <1>1 DEF Send
<1>3. cmd # "remove" /\ r.cmd = cmd
  BY <1>1, <1>2 DEF NoRemovals
<1>4. \A x \in Client : request'[x].cmd # "remove"
  BY <1>2, <1>3 DEF TreeInv, TreeTypes, ServerInv, Types
<1>5. opened' \in [Client -> SUBSET Target] /\ \A h \in running' : ParentHeld(h)
  BY <1>2 DEF TreeInv, TreeTypes
<1> QED
  BY <1>2, <1>4, <1>5, QuietStep

LEMMA FindTree ==
  ASSUME TreeInv, ServerInv', NEW h \in running,
         CreateFindParent(h) \/ ParentsFindParent(h) \/ ParentsFindNode(h)
  PROVE  TreeInv'
<1>0. /\ ServerInv /\ running = {h} /\ h \in Handler /\ Serves(h) /\ Undisturbed(h)
      /\ ParentHeld(h) /\ UNCHANGED <<docs, queue, tasks>> /\ h.step \in {"parent", "node"}
  BY OnlyHandler DEF TreeInv, CreateFindParent, ParentsFindParent, ParentsFindNode
<1>1. h.client \in Client /\ h.path \in Target
  BY <1>0 DEF Handler, Serves
<1>2. CASE Leave(h) /\ (AnswerId(h.client, h.path) \/ Answer(h.client))
  <2>1. running' = {}
    BY <1>0, <1>2 DEF Leave
  <2>2. opened' \in [Client -> SUBSET Target] /\ \A x \in Client : request'[x].cmd # "remove"
    BY <1>1, <1>2, Answered
  <2> QED
    BY <1>0, <2>1, <2>2, QuietStep
<1>3. ASSUME NEW g, ParentHeld(g), Resume(h, g), UNCHANGED <<request, opened>>
      PROVE  TreeInv'
  <2>1. running' = {g}
    BY <1>0, <1>3 DEF Resume
  <2>2. opened' \in [Client -> SUBSET Target] /\ \A x \in Client : request'[x].cmd # "remove"
    BY <1>3 DEF TreeInv, TreeTypes
  <2> QED
    BY <1>0, <1>3, <2>1, <2>2, QuietStep
<1>4. CASE CreateFindParent(h)
  <2>1. ASSUME NEW d \in At(Front(h.path)), Resume(h, [h EXCEPT !.step = "saveParent", !.id = d.id]),
               UNCHANGED <<request, opened>>
        PROVE  TreeInv'
    <3>1. PICK g : g = [h EXCEPT !.step = "saveParent", !.id = d.id]
      OBVIOUS
    <3>2. g.step = "saveParent" /\ g.id = d.id /\ g.path = h.path /\ g.i = h.i
      BY <1>0, <3>1 DEF Handler
    <3>3. NodePath(h) = h.path /\ NodePath(g) = NodePath(h)
      BY <1>0, <1>4, <3>2, NodePaths DEF CreateFindParent, Serves, NodePath
    <3>4. h.i # 0
      <4>1. At(h.path) = {}
        BY <1>0, <1>4 DEF CreateFindParent, Undisturbed
      <4>2. At(RootPath) # {}
        BY DEF TreeInv, Rooted, At
      <4> QED
        BY <1>0, <3>3, <4>1, <4>2, NodePaths
    <3>5. ParentHeld(g)
      BY <2>1, <3>2, <3>3, <3>4 DEF ParentHeld, At
    <3> QED
      BY <1>3, <2>1, <3>1, <3>5
  <2> QED
    BY <1>2, <1>4, <2>1 DEF CreateFindParent
<1>5. CASE ParentsFindParent(h)
  <2>0. h.id = 0 /\ UNCHANGED <<request, opened>>
    BY <1>0, <1>5 DEF ParentHeld, ParentsFindParent
  <2>1. CASE Resume(h, [h EXCEPT !.step = "node"])
    <3>1. PICK g : g = [h EXCEPT !.step = "node"]
      OBVIOUS
    <3>2. g.step = "node" /\ g.id = 0
      BY <1>0, <2>0, <3>1 DEF Handler
    <3>3. ParentHeld(g)
      BY <3>2 DEF ParentHeld
    <3> QED
      BY <1>3, <2>0, <2>1, <3>1, <3>3
  <2>2. ASSUME NEW d \in At(ParentPath(h)), Resume(h, [h EXCEPT !.step = "node", !.id = d.id])
        PROVE  TreeInv'
    <3>1. PICK g : g = [h EXCEPT !.step = "node", !.id = d.id]
      OBVIOUS
    <3>2. g.step = "node" /\ g.id = d.id /\ g.path = h.path /\ g.i = h.i
      BY <1>0, <3>1 DEF Handler
    <3>3. ParentPath(g) = ParentPath(h)
      BY <3>2 DEF ParentPath
    <3>4. ParentHeld(g)
      BY <2>2, <3>2, <3>3 DEF ParentHeld, At
    <3> QED
      BY <1>3, <2>0, <2>2, <3>1, <3>4
  <2> QED
    BY <1>5, <2>1, <2>2 DEF ParentsFindParent
<1>6. CASE ParentsFindNode(h)
  <2>1. CASE /\ Resume(h, [h EXCEPT !.step = "parent", !.i = @ + 1, !.id = 0])
             /\ UNCHANGED <<request, opened>>
    <3>1. PICK g : g = [h EXCEPT !.step = "parent", !.i = @ + 1, !.id = 0]
      OBVIOUS
    <3>2. g.step = "parent" /\ g.id = 0
      BY <1>0, <3>1 DEF Handler
    <3>3. ParentHeld(g)
      BY <3>2 DEF ParentHeld
    <3> QED
      BY <1>3, <2>1, <3>1, <3>3
  <2>2. CASE /\ At(NodePath(h)) = {}
             /\ Resume(h, [h EXCEPT !.step = IF h.id = 0 THEN "failed" ELSE "saveParent"])
             /\ UNCHANGED <<request, opened>>
    <3>1. PICK g : g = [h EXCEPT !.step = IF h.id = 0 THEN "failed" ELSE "saveParent"]
      OBVIOUS
    <3>2. /\ g.step = (IF h.id = 0 THEN "failed" ELSE "saveParent")
          /\ g.id = h.id /\ g.path = h.path /\ g.i = h.i
      BY <1>0, <3>1 DEF Handler
    <3>3. NodePath(g) = NodePath(h)
      BY <3>2 DEF NodePath
    <3>4. h.i # 0
      <4>1. At(RootPath) # {}
        BY DEF TreeInv, Rooted, At
      <4> QED
        BY <1>0, <2>2, <4>1, NodePaths
    <3>5. ParentPath(h) = Front(NodePath(h))
      BY <1>0, <3>4, NodePaths
    <3>6. h.id # 0 => \E u \in docs : u.id = h.id /\ u.path = Front(NodePath(h))
      BY <1>0, <1>6, <3>5 DEF ParentHeld, ParentsFindNode
    <3>7. ParentHeld(g)
      BY <3>2, <3>3, <3>4, <3>6 DEF ParentHeld
    <3> QED
      BY <1>3, <2>2, <3>1, <3>7
  <2> QED
    BY <1>2, <1>6, <2>1, <2>2 DEF ParentsFindNode
<1> QED
  BY <1>4, <1>5, <1>6

LEMMA QueueTyped ==
  ASSUME TreeTypes, NEW i \in Nat \ {0}, Announce(i, "updated")
  PROVE  /\ DOMAIN queue' \subseteq Nat \ {0}
         /\ \A j \in DOMAIN queue' : queue'[j] \in {"updated", "removed"}
<1>1. queue' = [j \in DOMAIN queue \cup {i} |-> IF j = i THEN "updated" ELSE queue[j]]
  BY DEF Announce
<1>2. DOMAIN queue' = DOMAIN queue \cup {i}
  BY <1>1
<1>3. \A j \in DOMAIN queue \cup {i} : queue'[j] = IF j = i THEN "updated" ELSE queue[j]
  BY <1>1
<1> QED
  BY <1>2, <1>3 DEF TreeTypes

LEMMA SaveTree ==
  ASSUME TreeInv, ServerInv', NEW h \in running, Save(h)
  PROVE  TreeInv'
<1>0. /\ ServerInv /\ running = {h} /\ h \in Handler /\ Serves(h) /\ h.step = "save"
      /\ UNCHANGED tasks /\ AnswerId(h.client, h.path) /\ running' = {}
  BY OnlyHandler DEF TreeInv, Save
<1>1. h.client \in Client /\ h.path \in Target
  BY <1>0 DEF Handler, Serves
<1>2. opened' \in [Client -> SUBSET Target] /\ \A x \in Client : request'[x].cmd # "remove"
  BY <1>0, <1>1, Answered
<1>3. /\ \A e \in docs' : \E d \in docs : e.id = d.id /\ e.path = d.path /\ e.nodes = d.nodes
      /\ \A d \in docs : \E e \in docs' : e.id = d.id /\ e.path = d.path /\ e.nodes = d.nodes
  BY <1>0, Saved
<1>4. NodesStay
  BY <1>3 DEF NodesStay
<1>5. TreeTypes /\ Announce(h.id, "updated")
  BY DEF TreeInv, Save
<1>6. h.id \in Nat \ {0}
  BY <1>0 DEF Handler, TreeInv, ParentHeld
<1>7. /\ DOMAIN queue' \subseteq Nat \ {0}
      /\ \A j \in DOMAIN queue' : queue'[j] \in {"updated", "removed"}
  BY <1>5, <1>6, QueueTyped
<1>8. TreeTypes'
  BY <1>0, <1>2, <1>3, <1>5, <1>7 DEF TreeTypes
<1> QED
  BY <1>0, <1>4, <1>8, TreeStays

(* The parent did not list the child yet, as the path was free and no      *)
(* other save was under way.                                               *)
LEMMA SaveParentTree ==
  ASSUME TreeInv, ServerInv', NEW h \in running, SaveParent(h)
  PROVE  TreeInv'
<1>0. PICK g : g = [h EXCEPT !.step = "saveNew", !.id = NewId]
  OBVIOUS
<1>1. /\ h.step = "saveParent" /\ Announce(h.id, "updated") /\ UNCHANGED <<request, tasks, opened>>
      /\ docs' = {IF d.id = h.id THEN [d EXCEPT !.nodes = Append(@, ChildName(h))] ELSE d : d \in docs}
      /\ ServerInv /\ running = {h} /\ running' = {g}
      /\ h \in Handler /\ Serves(h) /\ Undisturbed(h) /\ ParentHeld(h)
  <2>1. ServerInv
    BY DEF TreeInv
  <2> QED
    BY <1>0, <2>1, OnlyHandler DEF SaveParent, Change, TreeInv
<1>2. PICK q : q = NodePath(h)
  OBVIOUS
<1>3. PICK n : n = Last(q)
  OBVIOUS
<1>4. q \in Path /\ q # RootPath /\ n \in Name /\ Front(q) \in Path /\ Append(Front(q), n) = q
  <2>1. q \in Path /\ q # RootPath
    BY <1>1, <1>2, NodePaths DEF ParentHeld
  <2> QED
    BY <1>3, <2>1, PathEnds
<1>5. At(q) = {} /\ ChildName(h) = n
  BY <1>1, <1>2, <1>3 DEF Undisturbed, ChildName
<1>6. PICK f : f = [d \in docs |-> Append(d.nodes, n)]
  OBVIOUS
<1>7. \A d \in docs : f[d] = Append(d.nodes, n) /\ d.nodes \in Seq(Name) /\ d.path \in Path
  BY <1>6 DEF TreeInv, TreeTypes, ServerInv, Types, IsDocument
<1>8. docs' = {IF d.id = h.id THEN [d EXCEPT !.nodes = f[d]] ELSE d : d \in docs}
  BY <1>1, <1>5, <1>6
<1>9. /\ \A d \in docs : d.id # h.id => d \in docs'
      /\ \A d \in docs : d.id = h.id =>
           \E e \in docs' : e.id = d.id /\ e.path = d.path /\ e.nodes = Append(d.nodes, n)
      /\ \A e \in docs' : \E d \in docs :
           /\ e.id = d.id /\ e.path = d.path
           /\ e.nodes = IF d.id = h.id THEN Append(d.nodes, n) ELSE d.nodes
  <2>1. ServerInv
    BY <1>1
  <2>2. NodesAre(h.id, f)
    BY <1>8, <2>1, NodesChanged
  <2>3. \A d \in docs : d.id # h.id => d \in docs'
    BY <2>2 DEF NodesAre
  <2>4. ASSUME NEW d \in docs, d.id = h.id
        PROVE  \E e \in docs' : e.id = d.id /\ e.path = d.path /\ e.nodes = Append(d.nodes, n)
    BY <1>7, <2>2, <2>4 DEF NodesAre
  <2>5. ASSUME NEW e \in docs'
        PROVE  \E d \in docs :
                 /\ e.id = d.id /\ e.path = d.path
                 /\ e.nodes = IF d.id = h.id THEN Append(d.nodes, n) ELSE d.nodes
    <3>1. PICK d \in docs : /\ e.id = d.id /\ e.path = d.path
                            /\ e.nodes = IF d.id = h.id THEN f[d] ELSE d.nodes
      BY <2>2 DEF NodesAre
    <3>2. f[d] = Append(d.nodes, n)
      BY <1>7
    <3> QED
      BY <3>1, <3>2
  <2> QED
    BY <2>3, <2>4, <2>5
<1>10. g.step = "saveNew" /\ NodePath(g) = q /\ g.i # 0
  <2>1. g.step = "saveNew" /\ g.path = h.path /\ g.i = h.i
    BY <1>0, <1>1 DEF Handler
  <2> QED
    BY <1>1, <1>2, <2>1 DEF NodePath, ParentHeld
<1>11. PICK u \in docs : u.id = h.id /\ u.path = Front(q)
  BY <1>1, <1>2 DEF ParentHeld
<1>12. \A d \in docs : d.id = h.id => d = u
  BY <1>1, <1>11 DEF ServerInv, UniqueIds
<1>13. \A p : At(p) # {} => At(p)' # {}
  <2>1. \A d \in docs : \E e \in docs' : e.path = d.path
    BY <1>9
  <2> QED
    BY <2>1 DEF At
<1>14. \A d \in docs : \A m \in ToSet(d.nodes) : At(Append(d.path, m)) # {}
  BY <1>1 DEF TreeInv, ListedExist
<1>15. Times(n, u.nodes) = 0
  <2>1. n \notin ToSet(u.nodes)
    BY <1>4, <1>5, <1>11, <1>14
  <2> QED
    BY <1>4, <1>7, <2>1, TimesIs
<1>16. TreeTypes'
  <2>1. \A e \in docs' : e.nodes \in Seq(Name)
    <3>1. \A d \in docs : Append(d.nodes, n) \in Seq(Name)
      BY <1>4, <1>7
    <3> QED
      BY <1>7, <1>9, <3>1
  <2>2. h.id \in Nat \ {0}
    BY <1>1, <1>11 DEF ServerInv, Types, IsDocument
  <2>3. TreeTypes
    BY DEF TreeInv
  <2>4. /\ DOMAIN queue' \subseteq Nat \ {0}
        /\ \A j \in DOMAIN queue' : queue'[j] \in {"updated", "removed"}
    BY <1>1, <2>2, <2>3, QueueTyped
  <2> QED
    BY <1>1, <2>1, <2>3, <2>4 DEF TreeTypes
<1>17. Rooted'
  BY <1>13 DEF TreeInv, Rooted, At
<1>18. ListedExist'
  <2> SUFFICES ASSUME NEW e \in docs', NEW m \in ToSet(e.nodes)
               PROVE  At(Append(e.path, m))' # {} \/ NodePath(g) = Append(e.path, m)
    BY <1>1, <1>10 DEF ListedExist, NodePath
  <2>1. PICK d \in docs : /\ e.path = d.path
                          /\ e.nodes = d.nodes \/ (d.id = h.id /\ e.nodes = Append(d.nodes, n))
    BY <1>9
  <2>2. CASE m \in ToSet(d.nodes)
    BY <1>13, <1>14, <2>1, <2>2
  <2>3. CASE m \notin ToSet(d.nodes)
    <3>1. d.id = h.id /\ e.nodes = Append(d.nodes, n)
      BY <2>1, <2>3
    <3>2. m = n
      <4>1. \A s \in Seq(Name) : ToSet(Append(s, n)) \subseteq ToSet(s) \cup {n}
        <5> SUFFICES ASSUME NEW s \in Seq(Name), NEW j \in DOMAIN Append(s, n)
                     PROVE  Append(s, n)[j] \in ToSet(s) \cup {n}
          BY DEF ToSet
        <5>1. j \in 1 .. (Len(s) + 1) /\ Len(s) \in Nat /\ DOMAIN s = 1 .. Len(s)
          BY <1>4
        <5>2. CASE j = Len(s) + 1
          BY <1>4, <5>1, <5>2
        <5>3. CASE j # Len(s) + 1
          <6>1. j \in 1 .. Len(s) /\ Append(s, n)[j] = s[j]
            BY <1>4, <5>1, <5>3
          <6> QED
            BY <5>1, <6>1 DEF ToSet
        <5> QED
          BY <5>2, <5>3
      <4> QED
        BY <1>7, <2>3, <3>1, <4>1
    <3>3. e.path = Front(q)
      BY <1>11, <1>12, <2>1, <3>1
    <3> QED
      BY <1>4, <1>10, <3>2, <3>3
  <2> QED
    BY <2>2, <2>3
<1>19. ListedOnce'
  <2> SUFFICES ASSUME NEW e \in docs', e.path # RootPath
               PROVE  \E v \in docs' : v.path = Front(e.path) /\ Times(Last(e.path), v.nodes) = 1
    BY DEF ListedOnce, At
  <2>1. PICK d \in docs : e.path = d.path
    BY <1>9
  <2>2. PICK v \in docs : v.path = Front(e.path) /\ Times(Last(e.path), v.nodes) = 1
    BY <2>1 DEF TreeInv, ListedOnce, At
  <2>3. CASE v.id # h.id
    BY <1>9, <2>2, <2>3
  <2>4. CASE v.id = h.id
    <3>1. v = u
      BY <1>12, <2>4
    <3>2. PICK w \in docs' : w.path = v.path /\ w.nodes = Append(v.nodes, n)
      BY <1>9, <2>4
    <3>3. Last(e.path) \in Name /\ Append(Front(e.path), Last(e.path)) = e.path
      <4>1. e.path \in Path
        BY <1>7, <2>1
      <4> QED
        BY <4>1, PathEnds
    <3>4. Last(e.path) # n
      <4> SUFFICES ASSUME Last(e.path) = n PROVE FALSE
        OBVIOUS
      <4>1. d.path = q
        BY <1>4, <1>11, <2>1, <2>2, <3>1, <3>3
      <4> QED
        BY <1>5, <4>1 DEF At
    <3>5. Times(Last(e.path), w.nodes) = Times(Last(e.path), v.nodes)
      BY <1>4, <1>7, <3>2, <3>3, <3>4, TimesIs
    <3> QED
      BY <2>2, <3>2, <3>5
  <2> QED
    BY <2>3, <2>4
<1>20. ParentHeld(g)'
  <2>1. PICK w \in docs' : w.path = u.path /\ w.nodes = Append(u.nodes, n)
    BY <1>9, <1>11
  <2>2. Times(n, w.nodes) = 1
    BY <1>4, <1>7, <1>15, <2>1, TimesIs
  <2>3. w.path = Front(NodePath(g)) /\ Times(Last(NodePath(g)), w.nodes) = 1
    BY <1>3, <1>10, <1>11, <2>1, <2>2
  <2> QED
    BY <1>10, <2>3 DEF ParentHeld, NodePath
<1> QED
  BY <1>1, <1>16, <1>17, <1>18, <1>19, <1>20 DEF TreeInv

LEMMA SaveNewTree ==
  ASSUME TreeInv, ServerInv', NEW h \in running, SaveNew(h)
  PROVE  TreeInv'
<1>0. /\ ServerInv /\ running = {h} /\ h \in Handler /\ Serves(h) /\ h.step = "saveNew"
      /\ ParentHeld(h) /\ UNCHANGED <<queue, tasks>>
  BY OnlyHandler DEF TreeInv, SaveNew
<1>1. PICK d : d = NewDoc(h.id, NodePath(h))
  OBVIOUS
<1>2. docs' = docs \cup {d} /\ d.path = NodePath(h) /\ d.nodes = <<>>
  BY <1>0, <1>1, NewSaved
<1>3. /\ opened' \in [Client -> SUBSET Target]
      /\ \A x \in Client : request'[x].cmd # "remove"
      /\ \A g \in running' : ParentHeld(g)'
  <2>1. CASE AnswerId(h.client, h.path) /\ Leave(h)
    <3>1. h.client \in Client /\ h.path \in Target /\ running' = {}
      BY <1>0, <2>1 DEF Handler, Serves, Leave
    <3> QED
      BY <2>1, <3>1, Answered
  <2>2. CASE /\ Resume(h, [h EXCEPT !.step = "parent", !.i = @ + 1, !.id = 0])
             /\ UNCHANGED <<request, opened>>
    <3>1. PICK g : g = [h EXCEPT !.step = "parent", !.i = @ + 1, !.id = 0]
      OBVIOUS
    <3>2. running' = {g} /\ g.step = "parent" /\ g.id = 0
      BY <1>0, <2>2, <3>1 DEF Resume, Handler
    <3>3. ParentHeld(g)'
      BY <3>2 DEF ParentHeld
    <3> QED
      BY <2>2, <3>2, <3>3 DEF TreeInv, TreeTypes
  <2> QED
    BY <2>1, <2>2 DEF SaveNew
<1>4. TreeTypes'
  <2>0. <<>> \in Seq(Name)
    OBVIOUS
  <2>1. \A e \in docs' : e.nodes \in Seq(Name)
    BY <1>2, <2>0 DEF TreeInv, TreeTypes
  <2> QED
    BY <1>0, <1>3, <2>1 DEF TreeInv, TreeTypes
<1>5. Rooted'
  BY <1>2 DEF TreeInv, Rooted
<1>6. ListedOnce'
  <2> SUFFICES ASSUME NEW e \in docs', e.path # RootPath
               PROVE  \E u \in docs : u.path = Front(e.path) /\ Times(Last(e.path), u.nodes) = 1
    BY <1>2 DEF ListedOnce, At
  <2>1. CASE e \in docs
    BY <2>1 DEF TreeInv, ListedOnce, At
  <2>2. CASE e = d
    BY <1>0, <1>2, <2>2 DEF ParentHeld
  <2> QED
    BY <1>2, <2>1, <2>2
<1>7. ListedExist'
  <2> SUFFICES ASSUME NEW u \in docs', NEW n \in ToSet(u.nodes)
               PROVE  At(Append(u.path, n))' # {}
    BY DEF ListedExist
  <2>1. u \in docs
    <3>1. ToSet(<<>>) = {}
      BY DEF ToSet
    <3> QED
      BY <1>2, <3>1
  <2>2. CASE At(Append(u.path, n)) # {}
    BY <1>2, <2>2 DEF At
  <2>3. CASE NodePath(h) = Append(u.path, n)
    BY <1>2, <2>3 DEF At
  <2> QED
    BY <1>0, <2>1, <2>2, <2>3 DEF TreeInv, ListedExist
<1> QED
  BY <1>3, <1>4, <1>5, <1>6, <1>7 DEF TreeInv

LEMMA TreeNext ==
  ASSUME NoRemovals, TreeInv, [Next]_vars
  PROVE  TreeInv'
<1>1. ServerInv'
  BY NextInv DEF TreeInv
<1>2. ASSUME NEW h \in running, Proceed(h)
      PROVE  TreeInv'
  BY <1>1, <1>2, FindTree, SaveParentTree, SaveNewTree, SaveTree DEF Proceed
<1>3. BagToSet(tasks) = {}
  BY DEF TreeInv, TreeTypes, EmptyBag, SetToBag, BagToSet
<1>4. CASE Flush
  <2>1. UNCHANGED <<docs, request, running, tasks, opened>> /\ queue' = <<>>
    BY <1>4 DEF Flush
  <2>2. NodesStay
    BY <2>1 DEF NodesStay
  <2>3. TreeTypes'
    <3>1. DOMAIN queue' = {}
      BY <2>1
    <3> QED
      BY <2>1, <3>1 DEF TreeInv, TreeTypes
  <2>4. \A h \in running' : ParentHeld(h)
    BY <2>1 DEF TreeInv
  <2> QED
    BY <1>1, <2>1, <2>2, <2>3, <2>4, TreeStays
<1>5. CASE UNCHANGED vars
  <2>1. UNCHANGED <<docs, queue, request, running, tasks, opened>>
    BY <1>5 DEF vars
  <2> QED
    BY <1>1, <2>1, QuietStep DEF TreeInv, TreeTypes
<1> QED
  BY <1>1, <1>2, <1>3, <1>4, <1>5, SendTree, AcceptTree DEF Next

(* While no client asks for a removal, the lists of children and the       *)
(* documents are in step at every moment.                                  *)
THEOREM TreeInvariant == NoRemovals => (Spec => []TreeInv)
<1> SUFFICES ASSUME NoRemovals
             PROVE  Spec => []TreeInv
  OBVIOUS
<1>1. Init => TreeInv
  BY TreeInit
<1>2. TreeInv /\ [Next]_vars => TreeInv'
  BY TreeNext
<1> QED
  BY <1>1, <1>2, PTL DEF Spec

(* A document is listed exactly once in the one above it, and what is      *)
(* listed exists or is about to be saved.                                  *)
THEOREM Consistent == NoRemovals => (Spec => []TreeConsistent)
<1> SUFFICES ASSUME NoRemovals
             PROVE  Spec => []TreeConsistent
  OBVIOUS
<1>1. TreeInv => TreeConsistent
  BY DEF TreeInv, ListedOnce, ListedExist, TreeConsistent
<1>2. Spec => []TreeInv
  BY TreeInvariant
<1> QED
  BY <1>1, <1>2, PTL

-----------------------------------------------------------------------------
(***************************************************************************)
(* What is left of removals, next to other requests.                       *)
(***************************************************************************)
LEMMA LeastNat ==
  ASSUME NEW S, S \subseteq Nat, S # {}
  PROVE  \E x \in S : \A y \in S : x <= y
<1>1. PICK x \in S : \A y \in S : ~(<<y, x>> \in OpToRel(<, Nat))
  BY WFMin, NatLessThanWellFounded, Zenon
<1>2. \A y \in S : ~(y < x)
  BY <1>1 DEF OpToRel
<1> QED
  BY <1>2

(* The loop of splices, up to each element of the list.                    *)
Cut(r, m, n) ==
  IF m = n /\ ~r.cut THEN [kept |-> r.kept, cut |-> TRUE]
  ELSE [kept |-> Append(r.kept, m), cut |-> FALSE]

Loop(s, n) ==
  CHOOSE Visit : Visit = [i \in 0 .. Len(s) |->
    IF i = 0 THEN [kept |-> <<>>, cut |-> FALSE]
    ELSE LET r == Visit[i - 1]
         IN  IF s[i] = n /\ ~r.cut THEN [kept |-> r.kept, cut |-> TRUE]
             ELSE [kept |-> Append(r.kept, s[i]), cut |-> FALSE]]

LEMMA SplicedIsLoop == \A s, n : Spliced(s, n) = Loop(s, n)[Len(s)].kept
BY DEF Spliced, Loop

LEMMA LoopIs ==
  ASSUME NEW s, NEW n, Len(s) \in Nat
  PROVE  Loop(s, n) = [i \in 0 .. Len(s) |->
           IF i = 0 THEN [kept |-> <<>>, cut |-> FALSE] ELSE Cut(Loop(s, n)[i - 1], s[i], n)]
<1> DEFINE Visits(f, m) == f = [i \in 0 .. m |->
             IF i = 0 THEN [kept |-> <<>>, cut |-> FALSE] ELSE Cut(f[i - 1], s[i], n)]
           Bad == {m \in Nat : ~\E f : Visits(f, m)}
<1>1. Bad = {}
  <2> SUFFICES ASSUME Bad # {} PROVE FALSE
    OBVIOUS
  <2>1. PICK m \in Bad : \A k \in Bad : m <= k
    BY LeastNat
  <2>2. m \in Nat /\ ~\E f : Visits(f, m)
    BY <2>1
  <2>3. CASE m = 0
    <3>1. PICK f : f = [i \in 0 .. 0 |-> [kept |-> <<>>, cut |-> FALSE]]
      OBVIOUS
    <3>2. Visits(f, 0)
      BY <3>1
    <3> QED
      BY <2>2, <2>3, <3>2
  <2>4. CASE m # 0
    <3>1. m - 1 \in Nat /\ m - 1 \notin Bad
      <4>1. m - 1 \in Nat /\ ~(m <= m - 1)
        BY <2>2, <2>4
      <4> QED
        BY <2>1, <4>1
    <3>2. PICK g : Visits(g, m - 1)
      BY <3>1
    <3>3. PICK f : f = [i \in 0 .. m |-> IF i = m THEN Cut(g[m - 1], s[m], n) ELSE g[i]]
      OBVIOUS
    <3>4. \A i \in 0 .. m : f[i] = IF i = 0 THEN [kept |-> <<>>, cut |-> FALSE] ELSE Cut(f[i - 1], s[i], n)
      <4> SUFFICES ASSUME NEW i \in 0 .. m
                   PROVE  f[i] = IF i = 0 THEN [kept |-> <<>>, cut |-> FALSE] ELSE Cut(f[i - 1], s[i], n)
        OBVIOUS
      <4>1. CASE i = m
        <5>1. m # 0 /\ m - 1 \in 0 .. m /\ m - 1 # m
          BY <2>2, <2>4
        <5>2. f[m - 1] = g[m - 1] /\ f[m] = Cut(g[m - 1], s[m], n)
          BY <2>2, <3>3, <5>1
        <5> QED
          BY <4>1, <5>1, <5>2
      <4>2. CASE i # m /\ i = 0
        <5>1. 0 \in 0 .. m - 1
          BY <3>1
        <5>2. g[0] = [kept |-> <<>>, cut |-> FALSE]
          BY <3>2, <5>1
        <5> QED
          BY <3>3, <4>2, <5>2
      <4>3. CASE i # m /\ i # 0
        <5>1. i \in 0 .. m - 1 /\ i - 1 \in 0 .. m /\ i - 1 # m
          BY <2>2, <4>3
        <5>2. g[i] = Cut(g[i - 1], s[i], n)
          BY <3>2, <4>3, <5>1
        <5>3. f[i - 1] = g[i - 1] /\ f[i] = g[i]
          BY <3>3, <4>3, <5>1
        <5> QED
          BY <4>3, <5>2, <5>3
      <4> QED
        BY <4>1, <4>2, <4>3
    <3>5. Visits(f, m)
      BY <2>2, <3>3, <3>4
    <3> QED
      BY <2>2, <3>5
  <2> QED
    BY <2>3, <2>4
<1>2. PICK f : Visits(f, Len(s))
  BY <1>1
<1>3. Loop(s, n) = CHOOSE Visit : Visits(Visit, Len(s))
  BY DEF Loop, Cut
<1>4. Visits(Loop(s, n), Len(s))
  BY <1>2, <1>3
<1> QED
  BY <1>4

(* What is left of a list of names is a list of names.                     *)
LEMMA SplicedTyped ==
  ASSUME NEW s \in Seq(Name), NEW n
  PROVE  Spliced(s, n) \in Seq(Name)
<1>1. PICK v : v = Loop(s, n)
  OBVIOUS
<1>2. Len(s) \in Nat
  OBVIOUS
<1>3. v = [i \in 0 .. Len(s) |-> IF i = 0 THEN [kept |-> <<>>, cut |-> FALSE] ELSE Cut(v[i - 1], s[i], n)]
  BY <1>1, <1>2, LoopIs
<1> DEFINE Bad == {i \in 0 .. Len(s) : v[i].kept \notin Seq(Name)}
<1>4. Bad = {}
  <2> SUFFICES ASSUME Bad # {} PROVE FALSE
    OBVIOUS
  <2>1. Bad \subseteq Nat
    BY <1>2
  <2>2. PICK i \in Bad : \A j \in Bad : i <= j
    BY <2>1, LeastNat
  <2>3. i \in 0 .. Len(s) /\ v[i].kept \notin Seq(Name)
    BY <2>2
  <2>4. i # 0
    BY <1>3, <2>3
  <2>5. i - 1 \in 0 .. Len(s) /\ ~(i <= i - 1) /\ i \in 1 .. Len(s)
    BY <1>2, <2>3, <2>4
  <2>6. v[i - 1].kept \in Seq(Name)
    BY <2>2, <2>5
  <2>7. v[i] = Cut(v[i - 1], s[i], n)
    BY <1>3, <2>3, <2>4
  <2>8. PICK r : r = v[i - 1]
    OBVIOUS
  <2>9. v[i].kept = r.kept \/ v[i].kept = Append(r.kept, s[i])
    BY <2>7, <2>8 DEF Cut
  <2>10. s[i] \in Name /\ r.kept \in Seq(Name)
    BY <2>5, <2>6, <2>8
  <2>11. Append(r.kept, s[i]) \in Seq(Name)
    BY <2>10
  <2> QED
    BY <2>3, <2>9, <2>10, <2>11
<1>5. Len(s) \in 0 .. Len(s)
  BY <1>2
<1> QED
  BY <1>1, <1>4, <1>5, SplicedIsLoop

LEMMA PrefixOf ==
  /\ \A p \in Path : IsPrefix(p, p)
  /\ \A p, q \in Path, n \in Name : IsPrefix(p, q) => IsPrefix(p, Append(q, n))
  /\ \A p \in Path : IsPrefix(p, RootPath) => p = RootPath
<1>1. ASSUME NEW p \in Seq(Name), NEW q \in Seq(Name), NEW n \in Name, IsPrefix(p, q)
      PROVE  IsPrefix(p, Append(q, n))
  <2>1. PICK a : a = Append(q, n)
    OBVIOUS
  <2>2. /\ a \in Seq(Name) /\ Len(a) = Len(q) + 1 /\ Len(p) \in Nat /\ Len(q) \in Nat
        /\ \A j \in 1 .. Len(q) : a[j] = q[j]
    BY <2>1
  <2>3. PICK m : m = Len(p)
    OBVIOUS
  <2>4. m \in Nat /\ m <= Len(q) /\ m <= Len(a)
    BY <1>1, <2>2, <2>3 DEF IsPrefix
  <2>5. PICK x : x = SubSeq(q, 1, m)
    OBVIOUS
  <2>6. PICK y : y = SubSeq(a, 1, m)
    OBVIOUS
  <2>7. x \in Seq(Name) /\ Len(x) = m /\ \A j \in 1 .. m : x[j] = q[j]
    BY <2>4, <2>5, FirstNames
  <2>8. y \in Seq(Name) /\ Len(y) = m /\ \A j \in 1 .. m : y[j] = a[j]
    BY <2>2, <2>4, <2>6, FirstNames
  <2>9. \A j \in 1 .. m : x[j] = y[j]
    <3>1. \A j \in 1 .. m : j \in 1 .. Len(q)
      BY <2>2, <2>4
    <3> QED
      BY <2>2, <2>7, <2>8, <3>1
  <2>10. x = y
    BY <2>7, <2>8, <2>9, SeqEqual
  <2> QED
    BY <1>1, <2>1, <2>3, <2>4, <2>5, <2>6, <2>10 DEF IsPrefix
<1>2. ASSUME NEW p \in Seq(Name)
      PROVE  IsPrefix(p, p)
  BY DEF IsPrefix
<1>3. ASSUME NEW p \in Seq(Name), IsPrefix(p, <<>>)
      PROVE  p = <<>>
  BY <1>3 DEF IsPrefix
<1> QED
  BY <1>1, <1>2, <1>3 DEF Path, RootPath

LEMMA MayGoBelow ==
  /\ ~MayGo(RootPath)
  /\ \A p \in Path, n \in Name : MayGo(p) => MayGo(Append(p, n))
  /\ \A c \in Client, p \in Target \ {RootPath} : <<"remove", p>> \in Commands[c] => MayGo(p)
<1>1. Target \subseteq Path
  BY AdvertServerAssumption
<1> QED
  BY <1>1, PrefixOf DEF MayGo

(* A bag of callbacks stays one.                                           *)
LEMMA BagServed ==
  ASSUME IsABag(tasks), NEW t \in BagToSet(tasks), NEW new, Serve(t, new)
  PROVE  IsABag(tasks')
<1> DEFINE B == tasks (-) SetToBag({t})
<1>1. tasks' = B (+) SetToBag(new)
  BY DEF Serve
<1>2. \A e \in DOMAIN B : B[e] \in Nat /\ B[e] > 0
  BY DEF (-), SetToBag, IsABag, BagToSet
<1> HIDE DEF B
<1>3. tasks' = [e \in DOMAIN B \cup new |->
                  (IF e \in DOMAIN B THEN B[e] ELSE 0) + (IF e \in new THEN 1 ELSE 0)]
  BY <1>1 DEF (+), SetToBag
<1>4. \A e \in DOMAIN tasks' : tasks'[e] \in Nat /\ tasks'[e] > 0
  BY <1>2, <1>3
<1> QED
  BY <1>3, <1>4 DEF IsABag

LEMMA BagAdded ==
  ASSUME IsABag(tasks), NEW new, tasks' = tasks (+) SetToBag(new)
  PROVE  IsABag(tasks')
<1>1. tasks' = [e \in DOMAIN tasks \cup new |->
                  (IF e \in DOMAIN tasks THEN tasks[e] ELSE 0) + (IF e \in new THEN 1 ELSE 0)]
  BY DEF (+), SetToBag
<1>2. \A e \in DOMAIN tasks : tasks[e] \in Nat /\ tasks[e] > 0
  BY DEF IsABag
<1>3. \A e \in DOMAIN tasks' : tasks'[e] \in Nat /\ tasks'[e] > 0
  BY <1>1, <1>2
<1> QED
  BY <1>1, <1>3 DEF IsABag

(* What the callbacks of a removal are after: nodes at or below a path that *)
(* may be removed, by ids that no other document has or will get.           *)
Purposeful(t) ==
  /\ t.kind \in {"child", "remove"} => MayGo(t.path)
  /\ t.kind \in {"remove", "detach"} => t.id # 0
  /\ t.kind = "remove" =>
       /\ \A d \in docs : d.id = t.id => d.path = t.path
       /\ \A h \in running : h.step = "saveNew" => h.id # t.id

(* What is saved is a document, and what is created is not the root.       *)
Sound(h) ==
  /\ h.step \in {"save", "saveParent"} => h.id # 0
  /\ h.step \in {"saveParent", "saveNew"} => h.i # 0

QueueOK ==
  /\ DOMAIN queue \subseteq Nat \ {0}
  /\ \A i \in DOMAIN queue : queue[i] \in {"updated", "removed"}

NodesOK == \A d \in docs : d.nodes \in Seq(Name)

TasksOK ==
  /\ IsABag(tasks)
  /\ BagToSet(tasks) \subseteq Task
  /\ \A t \in BagToSet(tasks) : Purposeful(t)

(* Clients ask for what they may ask for.                                  *)
ClientsOK ==
  /\ opened \in [Client -> SUBSET Target]
  /\ \A c \in Client : request[c].cmd # "none" => <<request[c].cmd, request[c].path>> \in Commands[c]

RemovalInv ==
  /\ ServerInv
  /\ Rooted
  /\ NodesOK
  /\ QueueOK
  /\ ClientsOK
  /\ \A h \in running : Sound(h)
  /\ TasksOK

LEMMA RemovalInit ==
  ASSUME Init
  PROVE  RemovalInv
<1>1. PICK d : d = NewDoc(1, RootPath)
  OBVIOUS
<1>2. docs = {d} /\ d.path = RootPath /\ d.nodes = <<>>
  BY <1>1 DEF Init, NewDoc
<1>3. Rooted /\ NodesOK
  <2>1. <<>> \in Seq(Name)
    OBVIOUS
  <2> QED
    BY <1>2, <2>1 DEF Rooted, NodesOK
<1>4. QueueOK
  <2>1. DOMAIN queue = {}
    BY DEF Init
  <2> QED
    BY <2>1 DEF QueueOK
<1>5. ClientsOK
  BY DEF Init, ClientsOK, NoRequest
<1>6. TasksOK
  <2>1. DOMAIN tasks = {}
    BY DEF Init, EmptyBag, SetToBag
  <2> QED
    BY <2>1 DEF Init, EmptyBag, SetToBag, TasksOK, IsABag, BagToSet
<1>7. \A h \in running : Sound(h)
  BY DEF Init
<1> QED
  BY <1>3, <1>4, <1>5, <1>6, <1>7, InitInv DEF RemovalInv

LEMMA QueueKept ==
  ASSUME QueueOK, NEW i \in Nat \ {0}, NEW type \in {"updated", "removed"}, Announce(i, type)
  PROVE  QueueOK'
<1>1. queue' = [j \in DOMAIN queue \cup {i} |-> IF j = i THEN type ELSE queue[j]]
  BY DEF Announce
<1>2. DOMAIN queue' = DOMAIN queue \cup {i}
  BY <1>1
<1>3. \A j \in DOMAIN queue \cup {i} : queue'[j] = IF j = i THEN type ELSE queue[j]
  BY <1>1
<1> QED
  BY <1>2, <1>3 DEF QueueOK

LEMMA ClientAnswered ==
  ASSUME ServerInv, ClientsOK, NEW c \in Client, NEW p \in Target, AnswerId(c, p) \/ Answer(c)
  PROVE  ClientsOK'
<1>1. request' = [request EXCEPT ![c] = NoRequest]
  BY DEF AnswerId, Answer
<1>2. \A x \in Client : request'[x] = NoRequest \/ request'[x] = request[x]
  BY <1>1 DEF ServerInv, Types
<1>3. NoRequest.cmd = "none"
  BY DEF NoRequest
<1>4. opened' \in [Client -> SUBSET Target]
  <2>1. CASE AnswerId(c, p)
    BY <2>1 DEF AnswerId, ClientsOK
  <2>2. CASE Answer(c)
    BY <2>2 DEF Answer, ClientsOK
  <2> QED
    BY <2>1, <2>2
<1> QED
  BY <1>2, <1>3, <1>4 DEF ClientsOK

LEMMA ClientsSame ==
  ASSUME ClientsOK, UNCHANGED <<request, opened>>
  PROVE  ClientsOK'
BY DEF ClientsOK

(* Ids do not move to other paths, and a document that is saved first has  *)
(* an id no removal is after.                                              *)
LEMMA StillPurposeful ==
  ASSUME NEW t, Purposeful(t),
         \A e \in docs' :
           \/ \E d \in docs : e.id = d.id /\ e.path = d.path
           \/ \E h \in running : h.step = "saveNew" /\ h.id = e.id,
         \A h \in running' : h.step = "saveNew" => h \in running \/ h.id # t.id
  PROVE  Purposeful(t)'
<1>1. /\ t.kind \in {"child", "remove"} => MayGo(t.path)
      /\ t.kind \in {"remove", "detach"} => t.id # 0
  BY DEF Purposeful
<1>2. ASSUME t.kind = "remove"
      PROVE  /\ \A d \in docs' : d.id = t.id => d.path = t.path
             /\ \A h \in running' : h.step = "saveNew" => h.id # t.id
  BY <1>2 DEF Purposeful
<1> QED
  BY <1>1, <1>2 DEF Purposeful, MayGo

LEMMA TasksStay ==
  ASSUME RemovalInv, UNCHANGED tasks,
         \A e \in docs' :
           \/ \E d \in docs : e.id = d.id /\ e.path = d.path
           \/ \E h \in running : h.step = "saveNew" /\ h.id = e.id,
         \A h \in running' : h.step = "saveNew" =>
           h \in running \/ \A t \in BagToSet(tasks) : h.id # t.id
  PROVE  TasksOK'
<1>1. \A t \in BagToSet(tasks) : Purposeful(t)'
  BY StillPurposeful DEF RemovalInv, TasksOK
<1> QED
  BY <1>1 DEF RemovalInv, TasksOK

(* Nothing but requests and handlers changes.                              *)
LEMMA FrontStep ==
  ASSUME RemovalInv, ServerInv', UNCHANGED <<docs, queue, tasks>>, ClientsOK',
         \A h \in running' : Sound(h),
         \A h \in running' : h.step = "saveNew" => h \in running
  PROVE  RemovalInv'
<1>1. TasksOK'
  BY TasksStay
<1>2. Rooted' /\ NodesOK' /\ QueueOK'
  BY DEF RemovalInv, Rooted, NodesOK, QueueOK
<1>3. \A h \in running' : Sound(h)'
  BY DEF Sound
<1> QED
  BY <1>1, <1>2, <1>3 DEF RemovalInv

LEMMA SendRemoval ==
  ASSUME RemovalInv, ServerInv',
         NEW c \in Client, NEW cmd \in AllCommands, NEW p \in Target, NEW k \in Key,
         Send(c, cmd, p, k)
  PROVE  RemovalInv'
<1>1. PICK r : r = [cmd |-> cmd, path |-> p, key |-> k]
  OBVIOUS
<1>2. /\ request' = [request EXCEPT ![c] = r] /\ <<cmd, p>> \in Commands[c]
      /\ UNCHANGED <<docs, queue, running, tasks, opened>>
  BY <1>1 DEF Send
<1>3. r.cmd = cmd /\ r.path = p
  BY <1>1
<1>4. \A x \in Client : (x = c /\ request'[x] = r) \/ request'[x] = request[x]
  BY <1>2 DEF RemovalInv, ServerInv, Types
<1>5. ClientsOK'
  BY <1>2, <1>3, <1>4 DEF RemovalInv, ClientsOK
<1>6. \A h \in running' : Sound(h)
  BY <1>2 DEF RemovalInv
<1> QED
  BY <1>2, <1>5, <1>6, FrontStep

LEMMA QueriesRemoval ==
  ASSUME RemovalInv, ServerInv', NEW c \in Client,
         Get(c) \/ Exists(c) \/ Open(c) \/ Create(c) \/ CreateParents(c) \/ Write(c)
  PROVE  RemovalInv'
<1>0. ServerInv /\ ClientsOK
  BY DEF RemovalInv
<1>1. ASSUME running = {}, request[c].cmd # "none", UNCHANGED <<docs, queue, tasks, running>>,
             AnswerId(c, request[c].path) \/ Answer(c)
      PROVE  RemovalInv'
  <2>1. request[c].path \in Target
    BY <1>0, <1>1, RequestPath
  <2>2. ClientsOK'
    BY <1>0, <1>1, <2>1, ClientAnswered
  <2> QED
    BY <1>1, <2>2, FrontStep
<1>2. ASSUME NEW step \in Where, NEW i, NEW id, NEW keys, Enter(c, step, i, id, keys),
             running = {}, UNCHANGED <<docs, queue, tasks, request, opened>>,
             step = "save" => id # 0, step \notin {"saveParent", "saveNew"}
      PROVE  RemovalInv'
  <2>1. PICK g : g = [client |-> c, cmd |-> request[c].cmd, step |-> step, path |-> request[c].path,
                      i |-> i, id |-> id, keys |-> keys]
    OBVIOUS
  <2>2. running' = {g} /\ g.step = step /\ g.id = id
    BY <1>2, <2>1 DEF Enter
  <2>3. Sound(g)
    BY <1>2, <2>2 DEF Sound
  <2>4. ClientsOK'
    BY <1>0, <1>2, ClientsSame
  <2> QED
    BY <1>2, <2>2, <2>3, <2>4, FrontStep
<1>3. "parent" \in Where /\ "failed" \in Where /\ "save" \in Where
  BY DEF Where
<1>4. CASE Get(c) \/ Exists(c) \/ Open(c)
  <2>1. running = {} /\ request[c].cmd # "none" /\ UNCHANGED <<docs, queue, tasks, running>>
    BY <1>4 DEF Get, Exists, Open, Begin, Ready
  <2>2. AnswerId(c, request[c].path) \/ Answer(c)
    BY <1>4 DEF Get, Exists, Open
  <2> QED
    BY <1>1, <2>1, <2>2
<1>5. CASE Create(c)
  <2>1. running = {} /\ request[c].cmd # "none" /\ UNCHANGED <<docs, queue, tasks>>
    BY <1>5 DEF Create, Begin, Ready
  <2>2. CASE AnswerId(c, request[c].path) /\ UNCHANGED running
    BY <1>1, <2>1, <2>2
  <2>3. CASE Enter(c, "parent", Len(request[c].path), 0, {}) /\ UNCHANGED <<request, opened>>
    BY <1>2, <1>3, <2>1, <2>3
  <2> QED
    BY <1>5, <2>2, <2>3 DEF Create
<1>6. CASE CreateParents(c)
  <2>1. /\ running = {} /\ UNCHANGED <<docs, queue, tasks, request, opened>>
        /\ Enter(c, "parent", 0, 0, {})
    BY <1>6 DEF CreateParents, Begin, Ready
  <2> QED
    BY <1>2, <1>3, <2>1
<1>7. CASE Write(c)
  <2>1. /\ running = {} /\ UNCHANGED <<docs, queue, tasks, request, opened>>
        /\ \/ Enter(c, "failed", 0, 0, {})
           \/ \E id, keys : id # 0 /\ Enter(c, "save", 0, id, keys)
    <3>1. \A d \in docs : d.id # 0
      BY <1>0 DEF ServerInv, Types, IsDocument
    <3> QED
      BY <1>7, <3>1 DEF Write, Begin, Ready, At
  <2>2. CASE Enter(c, "failed", 0, 0, {})
    BY <1>2, <1>3, <2>1, <2>2
  <2>3. ASSUME NEW id, NEW keys, id # 0, Enter(c, "save", 0, id, keys)
        PROVE  RemovalInv'
    BY <1>2, <1>3, <2>1, <2>3
  <2> QED
    BY <2>1, <2>2, <2>3
<1> QED
  BY <1>4, <1>5, <1>6, <1>7

(* What follows from a document that may go.                               *)
LEMMA TasksMade ==
  ASSUME RemovalInv, NEW d \in docs, MayGo(d.path)
  PROVE  \A t \in ChildTasks(d) \cup {RemoveTask(d), ParentTask(d)} : t \in Task /\ Purposeful(t)
<1>1. d.id \in Nat \ {0} /\ d.path \in Path /\ d.nodes \in Seq(Name) /\ <<>> \in Seq(Name)
  BY DEF RemovalInv, ServerInv, Types, IsDocument, NodesOK
<1>2. ASSUME NEW t \in ChildTasks(d)
      PROVE  t \in Task /\ Purposeful(t)
  <2>1. PICK n \in ToSet(d.nodes) : t = ToDo("child", 0, Append(d.path, n), <<>>)
    BY DEF ChildTasks
  <2>2. n \in Name
    BY <1>1 DEF ToSet
  <2>3. Append(d.path, n) \in Path /\ MayGo(Append(d.path, n))
    BY <1>1, <2>2, PathEnds, MayGoBelow
  <2>4. t.kind = "child" /\ t.path = Append(d.path, n)
    BY <2>1 DEF ToDo
  <2>5. t \in Task
    BY <1>1, <2>1, <2>3 DEF ToDo, Task
  <2> QED
    BY <2>3, <2>4, <2>5 DEF Purposeful
<1>3. RemoveTask(d) \in Task /\ Purposeful(RemoveTask(d))
  <2>1. PICK t : t = RemoveTask(d)
    OBVIOUS
  <2>2. t.kind = "remove" /\ t.path = d.path /\ t.id = d.id
    BY <2>1 DEF RemoveTask, ToDo
  <2>3. t \in Task
    BY <1>1, <2>1 DEF RemoveTask, ToDo, Task
  <2>4. \A e \in docs : e.id = t.id => e.path = t.path
    BY <2>2 DEF RemovalInv, ServerInv, UniqueIds
  <2>5. \A h \in running : h.step = "saveNew" => h.id # t.id
    BY <2>2 DEF RemovalInv, ServerInv, Undisturbed
  <2> QED
    BY <1>1, <2>1, <2>2, <2>3, <2>4, <2>5 DEF Purposeful
<1>4. ParentTask(d) \in Task /\ Purposeful(ParentTask(d))
  <2>1. PICK t : t = ParentTask(d)
    OBVIOUS
  <2>2. t.kind = "parent"
    BY <2>1 DEF ParentTask, ToDo
  <2>3. t \in Task
    BY <1>1, <2>1 DEF ParentTask, ToDo, Task
  <2> QED
    BY <2>1, <2>2, <2>3 DEF Purposeful
<1> QED
  BY <1>2, <1>3, <1>4

LEMMA RemoveNodeRemoval ==
  ASSUME RemovalInv, ServerInv', NEW c \in Client, RemoveNode(c)
  PROVE  RemovalInv'
<1>1. PICK p : p = request[c].path
  OBVIOUS
<1>2. PICK D : D = {d \in At(p) : d.path # RootPath}
  OBVIOUS
<1>3. PICK new : new = UNION {ChildTasks(d) \cup {RemoveTask(d), ParentTask(d)} : d \in D}
  OBVIOUS
<1>4. /\ running = {} /\ request[c].cmd = "remove" /\ UNCHANGED <<docs, queue, running>>
      /\ tasks' = tasks (+) SetToBag(new)
      /\ request' = [request EXCEPT ![c] = NoRequest]
      /\ opened' = [opened EXCEPT ![c] = @ \ {p}]
  BY <1>1, <1>2, <1>3 DEF RemoveNode, Begin, Ready
<1>5. p \in Target /\ <<"remove", p>> \in Commands[c]
  <2>1. request[c].cmd # "none"
    BY <1>4
  <2> QED
    BY <1>1, <1>4, <2>1, RequestPath DEF RemovalInv, ClientsOK
<1>6. \A d \in D : d \in docs /\ MayGo(d.path)
  BY <1>2, <1>5, MayGoBelow DEF At
<1>7. \A t \in new : t \in Task /\ Purposeful(t)
  BY <1>3, <1>6, TasksMade
<1>8. BagToSet(tasks') = BagToSet(tasks) \cup new
  BY <1>4, Added
<1>9. \A t \in BagToSet(tasks') : t \in Task /\ Purposeful(t)
  BY <1>7, <1>8 DEF RemovalInv, TasksOK
<1>10. TasksOK'
  <2>1. IsABag(tasks')
    BY <1>4, BagAdded DEF RemovalInv, TasksOK
  <2>2. \A t \in BagToSet(tasks') : Purposeful(t)'
    BY <1>4, <1>9 DEF Purposeful, MayGo
  <2> QED
    BY <1>9, <2>1, <2>2 DEF TasksOK, Task
<1>11. ClientsOK'
  <2>1. \A x \in Client : request'[x] = NoRequest \/ request'[x] = request[x]
    BY <1>4 DEF RemovalInv, ServerInv, Types
  <2>2. NoRequest.cmd = "none"
    BY DEF NoRequest
  <2>3. opened' \in [Client -> SUBSET Target]
    BY <1>4 DEF RemovalInv, ClientsOK
  <2> QED
    BY <2>1, <2>2, <2>3 DEF RemovalInv, ClientsOK
<1>12. Rooted' /\ NodesOK' /\ QueueOK'
  BY <1>4 DEF RemovalInv, Rooted, NodesOK, QueueOK
<1> QED
  BY <1>4, <1>10, <1>11, <1>12 DEF RemovalInv

LEMMA FindRemoval ==
  ASSUME RemovalInv, ServerInv', NEW h \in running,
         CreateFindParent(h) \/ ParentsFindParent(h) \/ ParentsFindNode(h)
  PROVE  RemovalInv'
<1>0. /\ ServerInv /\ running = {h} /\ h \in Handler /\ Serves(h) /\ Undisturbed(h)
      /\ UNCHANGED <<docs, queue, tasks>> /\ h.step \in {"parent", "node"} /\ ClientsOK
  <2>1. ServerInv /\ ClientsOK
    BY DEF RemovalInv
  <2>2. UNCHANGED <<docs, queue, tasks>> /\ h.step \in {"parent", "node"}
    <3>1. CASE CreateFindParent(h)
      BY <3>1, Zenon DEF CreateFindParent
    <3>2. CASE ParentsFindParent(h)
      BY <3>2, Zenon DEF ParentsFindParent
    <3>3. CASE ParentsFindNode(h)
      BY <3>3, Zenon DEF ParentsFindNode
    <3> QED
      BY <3>1, <3>2, <3>3
  <2> QED
    BY <2>1, <2>2, OnlyHandler
<1>1. h.client \in Client /\ h.path \in Target
  BY <1>0 DEF Handler, Serves
<1>2. CASE Leave(h) /\ (AnswerId(h.client, h.path) \/ Answer(h.client))
  <2>1. running' = {}
    BY <1>0, <1>2 DEF Leave
  <2>2. ClientsOK'
    BY <1>0, <1>1, <1>2, ClientAnswered
  <2> QED
    BY <1>0, <2>1, <2>2, FrontStep
<1>3. ASSUME NEW g, Sound(g), g.step # "saveNew", Resume(h, g), UNCHANGED <<request, opened>>
      PROVE  RemovalInv'
  <2>1. running' = {g}
    BY <1>0, <1>3 DEF Resume
  <2>2. ClientsOK'
    BY <1>0, <1>3, ClientsSame
  <2> QED
    BY <1>0, <1>3, <2>1, <2>2, FrontStep
<1>4. CASE CreateFindParent(h)
  <2>1. ASSUME NEW d \in At(Front(h.path)), Resume(h, [h EXCEPT !.step = "saveParent", !.id = d.id]),
               UNCHANGED <<request, opened>>
        PROVE  RemovalInv'
    <3>1. PICK g : g = [h EXCEPT !.step = "saveParent", !.id = d.id]
      OBVIOUS
    <3>2. g.step = "saveParent" /\ g.id = d.id /\ g.i = h.i
      BY <1>0, <3>1 DEF Handler
    <3>3. h.i # 0
      <4>1. At(h.path) = {} /\ NodePath(h) = h.path
        <5>1. h.cmd = "create" /\ h.step = "parent"
          BY <1>4, Zenon DEF CreateFindParent
        <5> QED
          BY <1>0, <5>1, NodePaths DEF Undisturbed, Serves
      <4>2. At(RootPath) # {}
        BY DEF RemovalInv, Rooted, At
      <4> QED
        BY <1>0, <4>1, <4>2, NodePaths
    <3>4. d.id # 0
      BY <1>0 DEF ServerInv, Types, IsDocument, At
    <3>5. Sound(g)
      BY <3>2, <3>3, <3>4 DEF Sound
    <3> QED
      BY <1>3, <2>1, <3>1, <3>2, <3>5
  <2> QED
    BY <1>2, <1>4, <2>1, Zenon DEF CreateFindParent
<1>5. CASE ParentsFindParent(h)
  <2>1. UNCHANGED <<request, opened>>
    BY <1>5, Zenon DEF ParentsFindParent
  <2>2. \A g : g.step = "node" => Sound(g) /\ g.step # "saveNew"
    BY DEF Sound
  <2>3. CASE Resume(h, [h EXCEPT !.step = "node"])
    <3>1. PICK g : g = [h EXCEPT !.step = "node"]
      OBVIOUS
    <3>2. g.step = "node"
      BY <1>0, <3>1 DEF Handler
    <3> QED
      BY <1>3, <2>1, <2>2, <2>3, <3>1, <3>2
  <2>4. ASSUME NEW d \in At(ParentPath(h)), Resume(h, [h EXCEPT !.step = "node", !.id = d.id])
        PROVE  RemovalInv'
    <3>1. PICK g : g = [h EXCEPT !.step = "node", !.id = d.id]
      OBVIOUS
    <3>2. g.step = "node"
      BY <1>0, <3>1 DEF Handler
    <3> QED
      BY <1>3, <2>1, <2>2, <2>4, <3>1, <3>2
  <2> QED
    BY <1>5, <2>3, <2>4, Zenon DEF ParentsFindParent
<1>6. CASE ParentsFindNode(h)
  <2>1. CASE /\ Resume(h, [h EXCEPT !.step = "parent", !.i = @ + 1, !.id = 0])
             /\ UNCHANGED <<request, opened>>
    <3>1. PICK g : g = [h EXCEPT !.step = "parent", !.i = @ + 1, !.id = 0]
      OBVIOUS
    <3>2. g.step = "parent"
      BY <1>0, <3>1 DEF Handler
    <3>3. Sound(g)
      BY <3>2 DEF Sound
    <3> QED
      BY <1>3, <2>1, <3>1, <3>2, <3>3
  <2>2. CASE /\ At(NodePath(h)) = {}
             /\ Resume(h, [h EXCEPT !.step = IF h.id = 0 THEN "failed" ELSE "saveParent"])
             /\ UNCHANGED <<request, opened>>
    <3>1. PICK g : g = [h EXCEPT !.step = IF h.id = 0 THEN "failed" ELSE "saveParent"]
      OBVIOUS
    <3>2. /\ g.step = (IF h.id = 0 THEN "failed" ELSE "saveParent")
          /\ g.id = h.id /\ g.i = h.i
      BY <1>0, <3>1 DEF Handler
    <3>3. h.i # 0
      <4>1. At(RootPath) # {}
        BY DEF RemovalInv, Rooted, At
      <4> QED
        BY <1>0, <2>2, <4>1, NodePaths
    <3>4. Sound(g) /\ g.step # "saveNew"
      BY <3>2, <3>3 DEF Sound
    <3> QED
      BY <1>3, <2>2, <3>1, <3>4
  <2> QED
    BY <1>2, <1>6, <2>1, <2>2 DEF ParentsFindNode
<1> QED
  BY <1>4, <1>5, <1>6

(* The name that is pushed is the end of a path, and the new id is one that *)
(* no callback of a removal knows.                                          *)
LEMMA SaveParentRemoval ==
  ASSUME RemovalInv, ServerInv', NEW h \in running, SaveParent(h)
  PROVE  RemovalInv'
<1>0. PICK g : g = [h EXCEPT !.step = "saveNew", !.id = NewId]
  OBVIOUS
<1>1. /\ h.step = "saveParent" /\ Announce(h.id, "updated") /\ UNCHANGED <<request, tasks, opened>>
      /\ docs' = {IF d.id = h.id THEN [d EXCEPT !.nodes = Append(@, ChildName(h))] ELSE d : d \in docs}
      /\ ServerInv /\ running = {h} /\ running' = {g} /\ h \in Handler /\ Sound(h)
  <2>1. ServerInv
    BY DEF RemovalInv
  <2> QED
    BY <1>0, <2>1, OnlyHandler DEF SaveParent, Change, RemovalInv
<1>2. ChildName(h) \in Name
  <2>1. NodePath(h) \in Path /\ NodePath(h) # RootPath
    BY <1>1, NodePaths DEF Sound
  <2> QED
    BY <2>1, PathEnds DEF ChildName
<1>3. PICK f : f = [d \in docs |-> Append(d.nodes, ChildName(h))]
  OBVIOUS
<1>4. docs' = {IF d.id = h.id THEN [d EXCEPT !.nodes = f[d]] ELSE d : d \in docs}
  BY <1>1, <1>3
<1>5. DocsStay /\ NodesAre(h.id, f)
  BY <1>1, <1>4, NodesChanged
<1>6. NodesOK'
  <2>1. \A d \in docs : d.nodes \in Seq(Name) /\ f[d] \in Seq(Name)
    BY <1>2, <1>3 DEF RemovalInv, NodesOK
  <2> QED
    BY <1>5, <2>1 DEF NodesAre, NodesOK
<1>7. Rooted'
  <2>1. PICK d \in docs : d.path = RootPath
    BY DEF RemovalInv, Rooted
  <2>2. \E e \in docs' : e.path = d.path
    BY <1>5 DEF NodesAre
  <2> QED
    BY <2>1, <2>2 DEF Rooted
<1>8. QueueOK'
  <2>1. h.id \in Nat \ {0}
    BY <1>1 DEF Handler, Sound
  <2> QED
    BY <1>1, <2>1, QueueKept DEF RemovalInv
<1>9. ClientsOK'
  BY <1>1, ClientsSame DEF RemovalInv
<1>10. NewId \notin UsedIds
  BY <1>1, NewIdIsNew DEF ServerInv
<1>11. g.step = "saveNew" /\ g.i = h.i /\ g.id = NewId
  BY <1>0, <1>1 DEF Handler
<1>12. Sound(g)'
  BY <1>1, <1>11 DEF Sound
<1>13. TasksOK'
  <2>1. \A e \in docs' : \E d \in docs : e.id = d.id /\ e.path = d.path
    BY <1>5 DEF DocsStay
  <2>2. \A t \in BagToSet(tasks) : g.id # t.id
    BY <1>10, <1>11, TaskIds
  <2> QED
    BY <1>1, <2>1, <2>2, TasksStay
<1> QED
  BY <1>1, <1>6, <1>7, <1>8, <1>9, <1>12, <1>13 DEF RemovalInv

LEMMA SaveNewRemoval ==
  ASSUME RemovalInv, ServerInv', NEW h \in running, SaveNew(h)
  PROVE  RemovalInv'
<1>1. /\ ServerInv /\ ClientsOK /\ running = {h} /\ h \in Handler /\ Serves(h)
      /\ h.step = "saveNew" /\ UNCHANGED <<queue, tasks>>
  BY OnlyHandler DEF SaveNew, RemovalInv
<1>2. PICK d : d = NewDoc(h.id, NodePath(h))
  OBVIOUS
<1>3. docs' = docs \cup {d} /\ d.id = h.id /\ d.nodes = <<>>
  BY <1>1, <1>2, NewSaved
<1>4. NodesOK'
  <2>1. <<>> \in Seq(Name)
    OBVIOUS
  <2> QED
    BY <1>3, <2>1 DEF RemovalInv, NodesOK
<1>5. Rooted' /\ QueueOK'
  BY <1>1, <1>3 DEF RemovalInv, Rooted, QueueOK
<1>6. ASSUME \A g \in running' : g.step = "parent", ClientsOK'
      PROVE  RemovalInv'
  <2>1. TasksOK'
    BY <1>1, <1>3, <1>6, TasksStay
  <2>2. \A g \in running' : Sound(g)'
    BY <1>6 DEF Sound
  <2> QED
    BY <1>4, <1>5, <1>6, <2>1, <2>2 DEF RemovalInv
<1>7. CASE AnswerId(h.client, h.path) /\ Leave(h)
  <2>1. h.client \in Client /\ h.path \in Target
    BY <1>1 DEF Handler, Serves
  <2>2. ClientsOK' /\ running' = {}
    BY <1>1, <1>7, <2>1, ClientAnswered DEF Leave
  <2> QED
    BY <1>6, <2>2
<1>8. CASE /\ Resume(h, [h EXCEPT !.step = "parent", !.i = @ + 1, !.id = 0])
           /\ UNCHANGED <<request, opened>>
  <2>1. PICK g : g = [h EXCEPT !.step = "parent", !.i = @ + 1, !.id = 0]
    OBVIOUS
  <2>2. g.step = "parent"
    BY <1>1, <2>1 DEF Handler
  <2>3. running' = {g}
    BY <1>1, <1>8, <2>1 DEF Resume
  <2>4. ClientsOK'
    BY <1>1, <1>8, ClientsSame
  <2> QED
    BY <1>6, <2>2, <2>3, <2>4
<1> QED
  BY <1>7, <1>8 DEF SaveNew

LEMMA SaveRemoval ==
  ASSUME RemovalInv, ServerInv', NEW h \in running, Save(h)
  PROVE  RemovalInv'
<1>1. /\ ServerInv /\ ClientsOK /\ running' = {} /\ h \in Handler /\ Serves(h) /\ Sound(h)
      /\ h.step = "save" /\ UNCHANGED tasks /\ AnswerId(h.client, h.path) /\ Announce(h.id, "updated")
  BY OnlyHandler DEF Save, RemovalInv
<1>2. /\ \A e \in docs' : \E d \in docs : e.id = d.id /\ e.path = d.path /\ e.nodes = d.nodes
      /\ \A d \in docs : \E e \in docs' : e.id = d.id /\ e.path = d.path /\ e.nodes = d.nodes
  BY <1>1, Saved
<1>3. NodesOK' /\ Rooted'
  BY <1>2 DEF RemovalInv, NodesOK, Rooted
<1>4. QueueOK'
  <2>1. h.id \in Nat \ {0}
    BY <1>1 DEF Handler, Sound
  <2> QED
    BY <1>1, <2>1, QueueKept DEF RemovalInv
<1>5. ClientsOK'
  <2>1. h.client \in Client /\ h.path \in Target
    BY <1>1 DEF Handler, Serves
  <2> QED
    BY <1>1, <2>1, ClientAnswered
<1>6. TasksOK'
  BY <1>1, <1>2, TasksStay
<1> QED
  BY <1>1, <1>3, <1>4, <1>5, <1>6 DEF RemovalInv

(* A callback that only looks something up.                                *)
LEMMA LookupRemoval ==
  ASSUME RemovalInv, ServerInv', UNCHANGED <<docs, queue, request, running, opened>>,
         NEW t \in BagToSet(tasks), NEW new, Serve(t, new),
         \A x \in new : x \in Task /\ Purposeful(x)
  PROVE  RemovalInv'
<1>1. BagToSet(tasks') \subseteq BagToSet(tasks) \cup new
  BY Served
<1>2. \A x \in BagToSet(tasks') : x \in Task /\ Purposeful(x)
  BY <1>1 DEF RemovalInv, TasksOK
<1>3. TasksOK'
  <2>1. IsABag(tasks')
    BY BagServed DEF RemovalInv, TasksOK
  <2>2. \A x \in BagToSet(tasks') : Purposeful(x)'
    BY <1>2 DEF Purposeful, MayGo
  <2> QED
    BY <1>2, <2>1, <2>2 DEF TasksOK, Task
<1>4. Rooted' /\ NodesOK' /\ QueueOK' /\ ClientsOK'
  BY DEF RemovalInv, Rooted, NodesOK, QueueOK, ClientsOK
<1>5. \A h \in running' : Sound(h)'
  BY DEF RemovalInv, Sound
<1> QED
  BY <1>3, <1>4, <1>5 DEF RemovalInv

(* A callback that writes to the collection, the last of its kind.         *)
LEMMA WriteRemoval ==
  ASSUME RemovalInv, ServerInv', UNCHANGED <<request, running, opened>>,
         NEW t \in BagToSet(tasks), Serve(t, {}), t.kind \in {"remove", "detach"},
         NEW type \in {"updated", "removed"}, Announce(t.id, type),
         \A e \in docs' : \E d \in docs : e.id = d.id /\ e.path = d.path,
         NodesOK', Rooted'
  PROVE  RemovalInv'
<1>1. t \in Task /\ Purposeful(t)
  BY DEF RemovalInv, TasksOK
<1>2. QueueOK'
  <2>1. t.id \in Nat \ {0}
    BY <1>1 DEF Task, Purposeful
  <2> QED
    BY <2>1, QueueKept DEF RemovalInv
<1>3. BagToSet(tasks') \subseteq BagToSet(tasks)
  BY Served
<1>4. TasksOK'
  <2>1. IsABag(tasks')
    BY BagServed DEF RemovalInv, TasksOK
  <2>2. \A x \in BagToSet(tasks') : x \in Task /\ Purposeful(x)
    BY <1>3 DEF RemovalInv, TasksOK
  <2>3. \A x \in BagToSet(tasks') : Purposeful(x)'
    BY <2>2, StillPurposeful
  <2> QED
    BY <2>1, <2>2, <2>3 DEF TasksOK, Task
<1>5. ClientsOK' /\ \A h \in running' : Sound(h)'
  BY DEF RemovalInv, ClientsOK, Sound
<1> QED
  BY <1>2, <1>4, <1>5 DEF RemovalInv

LEMMA PerformRemoval ==
  ASSUME RemovalInv, ServerInv', NEW t \in BagToSet(tasks), Perform(t)
  PROVE  RemovalInv'
<1>0. ServerInv /\ t \in Task /\ Purposeful(t)
  BY DEF RemovalInv, TasksOK
<1>1. CASE FindChild(t)
  <2>1. PICK new : new = UNION {ChildTasks(d) \cup {RemoveTask(d)} : d \in At(t.path)}
    OBVIOUS
  <2>2. /\ UNCHANGED <<docs, queue, request, running, opened>> /\ Serve(t, new) /\ t.kind = "child"
    BY <1>1, <2>1 DEF FindChild
  <2>3. \A d \in At(t.path) : d \in docs /\ MayGo(d.path)
    BY <1>0, <2>2 DEF At, Purposeful
  <2>4. \A x \in new : x \in Task /\ Purposeful(x)
    BY <2>1, <2>3, TasksMade
  <2> QED
    BY <2>2, <2>4, LookupRemoval
<1>2. CASE FindParent(t)
  <2>1. PICK new : new = {ToDo("detach", d.id, t.path, Spliced(d.nodes, Last(t.path))) :
                            d \in At(Front(t.path))}
    OBVIOUS
  <2>2. UNCHANGED <<docs, queue, request, running, opened>> /\ Serve(t, new)
    BY <1>2, <2>1 DEF FindParent
  <2>3. ASSUME NEW x \in new
        PROVE  x \in Task /\ Purposeful(x)
    <3>1. PICK d \in docs : x = ToDo("detach", d.id, t.path, Spliced(d.nodes, Last(t.path)))
      BY <2>1 DEF At
    <3>2. d.id \in Nat \ {0} /\ d.nodes \in Seq(Name) /\ t.path \in Path
      BY <1>0 DEF RemovalInv, ServerInv, Types, IsDocument, NodesOK, Task
    <3>3. Spliced(d.nodes, Last(t.path)) \in Seq(Name)
      BY <3>2, SplicedTyped
    <3>4. x \in Task
      BY <3>1, <3>2, <3>3 DEF ToDo, Task
    <3>5. x.kind = "detach" /\ x.id = d.id
      BY <3>1 DEF ToDo
    <3> QED
      BY <3>2, <3>4, <3>5 DEF Purposeful
  <2> QED
    BY <2>2, <2>3, LookupRemoval
<1>3. CASE RemoveDoc(t)
  <2>1. /\ UNCHANGED <<request, running, opened>> /\ docs' = {d \in docs : d.id # t.id}
        /\ Announce(t.id, "removed") /\ Serve(t, {}) /\ t.kind = "remove"
    BY <1>3 DEF RemoveDoc
  <2>2. NodesOK'
    BY <2>1 DEF RemovalInv, NodesOK
  <2>3. Rooted'
    <3>1. PICK d \in docs : d.path = RootPath
      BY DEF RemovalInv, Rooted
    <3>2. d.id # t.id
      BY <1>0, <2>1, <3>1, MayGoBelow DEF Purposeful
    <3> QED
      BY <2>1, <3>1, <3>2 DEF Rooted
  <2> QED
    BY <2>1, <2>2, <2>3, WriteRemoval
<1>4. CASE Detach(t)
  <2>1. /\ UNCHANGED <<request, running, opened>> /\ Announce(t.id, "updated") /\ Serve(t, {})
        /\ docs' = {IF d.id = t.id THEN [d EXCEPT !.nodes = t.nodes] ELSE d : d \in docs}
        /\ t.kind = "detach"
    BY <1>4 DEF Detach, Change
  <2>2. PICK f : f = [d \in docs |-> t.nodes]
    OBVIOUS
  <2>3. docs' = {IF d.id = t.id THEN [d EXCEPT !.nodes = f[d]] ELSE d : d \in docs}
    BY <2>1, <2>2
  <2>4. DocsStay /\ NodesAre(t.id, f)
    BY <1>0, <2>3, NodesChanged
  <2>5. NodesOK'
    <3>1. \A d \in docs : d.nodes \in Seq(Name) /\ f[d] \in Seq(Name)
      BY <1>0, <2>2 DEF RemovalInv, NodesOK, Task
    <3> QED
      BY <2>4, <3>1 DEF NodesAre, NodesOK
  <2>6. Rooted'
    <3>1. PICK d \in docs : d.path = RootPath
      BY DEF RemovalInv, Rooted
    <3>2. \E e \in docs' : e.path = d.path
      BY <2>4 DEF NodesAre
    <3> QED
      BY <3>1, <3>2 DEF Rooted
  <2>7. \A e \in docs' : \E d \in docs : e.id = d.id /\ e.path = d.path
    BY <2>4 DEF DocsStay
  <2> QED
    BY <2>1, <2>5, <2>6, <2>7, WriteRemoval
<1> QED
  BY <1>1, <1>2, <1>3, <1>4 DEF Perform

LEMMA RemovalNext ==
  ASSUME RemovalInv, [Next]_vars
  PROVE  RemovalInv'
<1>1. ServerInv'
  BY NextInv DEF RemovalInv
<1>2. ASSUME NEW c \in Client, Accept(c)
      PROVE  RemovalInv'
  BY <1>1, <1>2, QueriesRemoval, RemoveNodeRemoval DEF Accept
<1>3. ASSUME NEW h \in running, Proceed(h)
      PROVE  RemovalInv'
  BY <1>1, <1>3, FindRemoval, SaveParentRemoval, SaveNewRemoval, SaveRemoval DEF Proceed
<1>4. CASE Flush
  <2>1. UNCHANGED <<docs, request, running, tasks, opened>> /\ queue' = <<>>
    BY <1>4 DEF Flush
  <2>2. DOMAIN queue' = {}
    BY <2>1
  <2>3. TasksOK'
    BY <2>1, TasksStay
  <2>4. \A h \in running' : Sound(h)'
    BY <2>1 DEF RemovalInv, Sound
  <2> QED
    BY <1>1, <2>1, <2>2, <2>3, <2>4 DEF RemovalInv, Rooted, NodesOK, QueueOK, ClientsOK
<1>5. CASE UNCHANGED vars
  <2>1. UNCHANGED <<docs, queue, request, running, tasks, opened>>
    BY <1>5 DEF vars
  <2>2. ClientsOK'
    BY <2>1, ClientsSame DEF RemovalInv
  <2> QED
    BY <1>1, <2>1, <2>2, FrontStep DEF RemovalInv
<1> QED
  BY <1>1, <1>2, <1>3, <1>4, <1>5, SendRemoval, PerformRemoval DEF Next

(* While removals go on next to other requests, every callback they still  *)
(* expect is after a node below a path that may be removed, the root stays *)
(* and everything has its type.                                            *)
THEOREM RemovalInvariant == Spec => []RemovalInv
<1>1. Init => RemovalInv
  BY RemovalInit
<1>2. RemovalInv /\ [Next]_vars => RemovalInv'
  BY RemovalNext
<1> QED
  BY <1>1, <1>2, PTL DEF Spec

(* Every variable ranges over the values the code can give it.             *)
THEOREM TypeCorrect == Spec => []TypeOK
<1>1. RemovalInv => TypeOK
  <2> SUFFICES ASSUME RemovalInv
               PROVE  TypeOK
    OBVIOUS
  <2>1. \A d \in docs : d \in Document
    <3> SUFFICES ASSUME NEW d \in docs
                 PROVE  d \in Document
      OBVIOUS
    <3>1. IsDocument(d) /\ d.nodes \in Seq(Name)
      BY DEF RemovalInv, ServerInv, Types, NodesOK
    <3> QED
      BY <3>1 DEF IsDocument, Document
  <2> QED
    BY <2>1 DEF RemovalInv, ServerInv, Types, QueueOK, ClientsOK, TasksOK, TypeOK
<1> QED
  BY <1>1, RemovalInvariant, PTL

(* A document disappears only with a callback for it, and what may be       *)
(* removed is at or below a path a client may ask to remove: never the root *)
(* and nothing beside that path, whatever else is done meanwhile.           *)
THEOREM RemovalsStayBelow == Spec => RemovesOnlyBelow
<1>1. RemovalInv /\ [Next]_vars =>
        [\A d \in docs : (\A e \in docs' : e.id # d.id) => MayGo(d.path)]_vars
  <2> SUFFICES ASSUME RemovalInv, [Next]_vars, NEW d \in docs, \A e \in docs' : e.id # d.id
               PROVE  MayGo(d.path)
    OBVIOUS
  <2>1. ServerInv /\ ~UNCHANGED docs
    BY DEF RemovalInv
  <2>2. ASSUME NEW h \in running, Proceed(h)
        PROVE  FALSE
    <3>1. SaveParent(h) \/ SaveNew(h) \/ Save(h)
      <4>1. CreateFindParent(h) \/ ParentsFindParent(h) \/ ParentsFindNode(h) => UNCHANGED docs
        BY Zenon DEF CreateFindParent, ParentsFindParent, ParentsFindNode
      <4> QED
        BY <2>1, <2>2, <4>1 DEF Proceed
    <3>2. ~Save(h)
      BY <2>1, Saved
    <3>3. ~SaveNew(h)
      BY DEF SaveNew
    <3>4. CASE SaveParent(h)
      <4>1. docs' = {IF x.id = h.id THEN [x EXCEPT !.nodes = Append(@, ChildName(h))] ELSE x : x \in docs}
        BY <3>4 DEF SaveParent, Change
      <4>2. PICK f : f = [x \in docs |-> Append(x.nodes, ChildName(h))]
        OBVIOUS
      <4>3. docs' = {IF x.id = h.id THEN [x EXCEPT !.nodes = f[x]] ELSE x : x \in docs}
        BY <4>1, <4>2
      <4>4. NodesAre(h.id, f)
        BY <2>1, <4>3, NodesChanged
      <4> QED
        BY <4>4 DEF NodesAre
    <3> QED
      BY <3>1, <3>2, <3>3, <3>4
  <2>3. ASSUME NEW t \in BagToSet(tasks), Perform(t)
        PROVE  MayGo(d.path)
    <3>1. RemoveDoc(t) \/ Detach(t)
      BY <2>1, <2>3 DEF Perform, FindChild, FindParent
    <3>2. CASE RemoveDoc(t)
      <4>1. d.id = t.id /\ t.kind = "remove"
        BY <3>2 DEF RemoveDoc
      <4>2. Purposeful(t)
        BY DEF RemovalInv, TasksOK
      <4> QED
        BY <4>1, <4>2 DEF Purposeful
    <3>3. CASE Detach(t)
      <4>1. docs' = {IF x.id = t.id THEN [x EXCEPT !.nodes = t.nodes] ELSE x : x \in docs}
        BY <3>3 DEF Detach, Change
      <4>2. PICK f : f = [x \in docs |-> t.nodes]
        OBVIOUS
      <4>3. docs' = {IF x.id = t.id THEN [x EXCEPT !.nodes = f[x]] ELSE x : x \in docs}
        BY <4>1, <4>2
      <4>4. NodesAre(t.id, f)
        BY <2>1, <4>3, NodesChanged
      <4> QED
        BY <4>4 DEF NodesAre
    <3> QED
      BY <3>1, <3>2, <3>3
  <2>4. \A c \in Client : ~Accept(c)
    BY <2>1 DEF Accept, Get, Exists, Open, Create, CreateParents, RemoveNode, Write
  <2>5. \A c \in Client, cmd \in AllCommands, p \in Target, k \in Key : ~Send(c, cmd, p, k)
    BY <2>1 DEF Send
  <2>6. ~Flush /\ ~UNCHANGED vars
    BY <2>1 DEF Flush, vars
  <2> QED
    BY <2>2, <2>3, <2>4, <2>5, <2>6 DEF Next
<1> QED
  BY <1>1, RemovalInvariant, PTL DEF Spec, RemovesOnlyBelow
=============================================================================
