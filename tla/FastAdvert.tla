----------------------------- MODULE FastAdvert ------------------------------
(***************************************************************************)
(* Clients of the sql_fast_advert adaptor working on one shared database   *)
(* (src/sql/trunk/sql_fast_advert).                                        *)
(*                                                                         *)
(* Each client is an application thread with one open object, which stands *)
(* for an advert entry and for an advert directory: the calls of both use  *)
(* the row they hold, and no call checks its kind.  Every SAGA call is a   *)
(* series of SQL statements, each in a session of its own, so the calls of *)
(* different clients interleave between any two statements; one statement, *)
(* or one stored procedure, is one atomic step.                            *)
(***************************************************************************)
EXTENDS NestedSet

CONSTANTS
  Client,    \* application threads
  Target,    \* the paths the applications use
  Key,       \* attribute keys
  Value,     \* attribute values
  Ops,       \* the groups of calls the applications make, a subset of AllOps
  MaxId      \* bound on the ids drawn from nodes_id_seq

AllOps == {"create", "attribute", "list", "change_dir", "remove_entry", "remove_self"}

ASSUME FastAdvertAssumption ==
  /\ Target \subseteq Path
  /\ Ops \subseteq AllOps
  /\ Key # {}
  /\ MaxId \in Nat

VARIABLES
  nodes,       \* table nodes
  attributes,  \* table attributes
  nextId,      \* sequence nodes_id_seq
  handle,      \* handle[c]: the client's advert object, or NoHandle
  pc,          \* pc[c]: where the client is in the call it is making
  call,        \* call[c]: the arguments of that call
  todo,        \* todo[c]: paths create_parents has still to insert, next first
  found,       \* found[c]: the call's local copy of a row (parent_node, db_node)
  ppath,       \* ppath[c]: get_path's answer
  listing      \* listing[c]: member node_vector, the ids last listed

tables == <<nodes, attributes, nextId>>
frame  == <<call, todo, found, ppath>>
vars   == <<nodes, attributes, nextId, handle, pc, call, todo, found, ppath, listing>>

NoHandle == [open |-> FALSE, path |-> RootPath, node |-> NoNode]
Handle   == [open : BOOLEAN, path : Path, node : Snapshot]

Mode == {"open", "create", "create_parents"}
Call == [kind : {"dir", "entry"}, mode : Mode, path : Path, depth : Nat,
         key : Key, values : Seq(Value)]

Where == {"idle", "parent", "refind", "path", "insert", "vector", "children", "remove", "dead"}

Attribute == [node_id : Nat, key : Key, value : Value, is_vector : BOOLEAN]

SomeKey == CHOOSE k \in Key : TRUE
NoCall  == [kind |-> "entry", mode |-> "open", path |-> RootPath, depth |-> 0,
            key |-> SomeKey, values |-> <<>>]

Init ==
  /\ nodes = {RootRow}
  /\ attributes = {}
  /\ nextId = RootId + 1
  /\ handle = [c \in Client |-> NoHandle]
  /\ pc = [c \in Client |-> "idle"]
  /\ call = [c \in Client |-> NoCall]
  /\ todo = [c \in Client |-> <<>>]
  /\ found = [c \in Client |-> NoNode]
  /\ ppath = [c \in Client |-> RootPath]
  /\ listing = [c \in Client |-> {}]

Idle(c)     == pc[c] = "idle"
IsOpen(c)   == Idle(c) /\ handle[c].open
Goto(c, l)  == pc' = [pc EXCEPT ![c] = l]

(* The call ends: its locals are gone. *)
Return(c) ==
  /\ Goto(c, "idle")
  /\ call' = [call EXCEPT ![c] = NoCall]
  /\ todo' = [todo EXCEPT ![c] = <<>>]
  /\ found' = [found EXCEPT ![c] = NoNode]
  /\ ppath' = [ppath EXCEPT ![c] = RootPath]

-----------------------------------------------------------------------------
(***************************************************************************)
(* Constructors of advert_cpi_impl and advertdirectory_cpi_impl.           *)
(***************************************************************************)

(* find_node(path); a missing node is an exception unless a create flag is *)
(* set.  The previous object of the client is gone.                        *)
Open(c, kind, mode, p) ==
  /\ Idle(c)
  /\ mode # "open" => "create" \in Ops
  /\ listing' = [listing EXCEPT ![c] = {}]
  /\ \E n \in FindNode(nodes, p) :
       \/ /\ n.id # 0
          /\ handle' = [handle EXCEPT ![c] = [open |-> TRUE, path |-> p, node |-> n]]
          /\ UNCHANGED <<pc, frame>>
       \/ /\ n.id = 0
          /\ mode = "open"
          /\ handle' = [handle EXCEPT ![c] = NoHandle]
          /\ UNCHANGED <<pc, frame>>
       \/ /\ n.id = 0
          /\ mode # "open"
          /\ handle' = [handle EXCEPT ![c] = NoHandle]
          /\ call' = [call EXCEPT ![c] = [NoCall EXCEPT !.kind = kind, !.mode = mode, !.path = p]]
          /\ todo' = [todo EXCEPT ![c] = <<p>>]
          /\ Goto(c, "parent")
          /\ UNCHANGED <<found, ppath>>
  /\ UNCHANGED tables

(* find_node(path.parent_path()) of the constructor and of create_parents. *)
FindParentNode(c) ==
  LET p      == Head(todo[c])
      Create == call[c].mode = "create"
  IN
  /\ pc[c] = "parent"
  /\ \E n \in FindParent(nodes, p) :
       \/ /\ n.id # 0
          /\ Create \/ n.dir # "f"
          /\ found' = [found EXCEPT ![c] = n]
          /\ Goto(c, "path")
          /\ UNCHANGED <<call, todo, ppath>>
       \/ (* IncorrectURL *)
          /\ IF Create THEN n.id = 0 ELSE n.dir = "f"
          /\ Return(c)
       \/ (* create_parents calls itself for the parent ... *)
          /\ ~Create /\ n.id = 0 /\ p # RootPath
          /\ todo' = [todo EXCEPT ![c] = <<Front(p)>> \o @]
          /\ UNCHANGED <<pc, call, found, ppath>>
       \/ (* ... without end when the root row is gone. *)
          /\ ~Create /\ n.id = 0 /\ p = RootPath
          /\ Goto(c, "dead")
          /\ UNCHANGED frame
  /\ UNCHANGED <<tables, handle, listing>>

(* A seeded fault: wait for a parent that somebody has removed. *)
RefindParentForever(c) ==
  /\ pc[c] = "refind"
  /\ \E n \in FindParent(nodes, Head(todo[c])) :
       /\ found' = [found EXCEPT ![c] = n]
       /\ Goto(c, IF n.id = 0 THEN "refind" ELSE "path")
  /\ call' = [call EXCEPT ![c].kind = "dir"]
  /\ UNCHANGED <<tables, handle, listing, todo, ppath>>

(* Back from the recursion, create_parents looks the parent up again; this *)
(* time insert_node is left its default, is_dir = true.                    *)
RefindParentNode(c) ==
  /\ pc[c] = "refind"
  /\ \E n \in FindParent(nodes, Head(todo[c])) : found' = [found EXCEPT ![c] = n]
  /\ call' = [call EXCEPT ![c].kind = "dir"]
  /\ Goto(c, "path")
  /\ UNCHANGED <<tables, handle, listing, todo, ppath>>

(* insert_node, first statement: get_path(parent). *)
QueryPath(c) ==
  /\ pc[c] = "path"
  /\ \E p \in GetPath(nodes, found[c].id) : ppath' = [ppath EXCEPT ![c] = p]
  /\ Goto(c, "insert")
  /\ UNCHANGED <<tables, handle, listing, call, todo, found>>

(* A seeded fault: the id is that of the next row. *)
InsertedSnapshotsNextId(T, h) ==
  {[id |-> n.id + 1, dir |-> "FALSE", lft |-> 1, rgt |-> n.lft] : n \in RowsAt(T, h)}

(* The row comes back as id, name, dir, lft, rgt but is read into id, name, *)
(* lft, rgt: lft holds the dir column, rgt the left bound, dir its default. *)
InsertedSnapshots(T, h) ==
  {[id |-> n.id, dir |-> "FALSE", lft |-> d, rgt |-> n.lft] : n \in RowsAt(T, h), d \in {0, 1}}

(* insert_node, second statement: the stored procedure insert_node.  It   *)
(* fails when the sequence has no id left.                                *)
ExecInsertNode(c) ==
  LET p == Head(todo[c])
      h == Append(ppath[c], Last(p))
      T == InsertNode(nodes, nextId, call[c].kind = "dir", found[c].lft, h)
  IN
  /\ pc[c] = "insert"
  /\ \/ /\ nextId <= MaxId
        /\ nodes' = T
        /\ nextId' = nextId + 1
        /\ \/ /\ Len(todo[c]) = 1
              /\ \E s \in InsertedSnapshots(T, h) :
                   handle' = [handle EXCEPT ![c] =
                               [open |-> TRUE, path |-> call[c].path, node |-> s]]
              /\ Return(c)
           \/ /\ Len(todo[c]) > 1
              /\ todo' = [todo EXCEPT ![c] = Tail(@)]
              /\ Goto(c, "refind")
              /\ UNCHANGED <<handle, call, found, ppath>>
     \/ /\ nextId > MaxId
        /\ Return(c)
        /\ UNCHANGED <<nodes, nextId, handle>>
  /\ UNCHANGED <<attributes, listing>>

-----------------------------------------------------------------------------
(***************************************************************************)
(* Calls on an open object.                                                *)
(***************************************************************************)

(* sync_set_attribute *)
SetAttribute(c, k, v) ==
  /\ IsOpen(c)
  /\ "attribute" \in Ops
  /\ attributes' = SetScalar(attributes, handle[c].node.id, k, v)
  /\ UNCHANGED <<nodes, nextId, handle, pc, frame, listing>>

(* sync_set_vector_attribute executes set_attribute once for each value. *)
SetVectorAttribute(c, k, vs) ==
  /\ IsOpen(c)
  /\ "attribute" \in Ops
  /\ call' = [call EXCEPT ![c] = [NoCall EXCEPT !.key = k, !.values = vs]]
  /\ Goto(c, "vector")
  /\ UNCHANGED <<tables, handle, todo, found, ppath, listing>>

ExecVectorValue(c) ==
  LET vs == call[c].values
  IN
  /\ pc[c] = "vector"
  /\ attributes' = AddVectorValue(attributes, handle[c].node.id, call[c].key, Head(vs))
  /\ \/ /\ Len(vs) = 1
        /\ Return(c)
     \/ /\ Len(vs) > 1
        /\ call' = [call EXCEPT ![c].values = Tail(@)]
        /\ UNCHANGED <<pc, todo, found, ppath>>
  /\ UNCHANGED <<nodes, nextId, handle, listing>>

(* sync_remove_attribute *)
RemoveAttribute(c, k) ==
  /\ IsOpen(c)
  /\ "attribute" \in Ops
  /\ attributes' = DropAttribute(attributes, handle[c].node.id, k)
  /\ UNCHANGED <<nodes, nextId, handle, pc, frame, listing>>

(* sync_list: get_child_nodes measures the depth, then selects the rows. *)
List(c) ==
  /\ IsOpen(c)
  /\ "list" \in Ops
  /\ listing' = [listing EXCEPT ![c] = {}]
  /\ call' = [call EXCEPT ![c] = [NoCall EXCEPT !.depth = Depth(nodes, handle[c].node.id)]]
  /\ Goto(c, "children")
  /\ UNCHANGED <<tables, handle, todo, found, ppath>>

SelectChildren(c) ==
  /\ pc[c] = "children"
  /\ listing' = [listing EXCEPT ![c] =
                   {n.id : n \in ChildNodes(nodes, handle[c].node.id, call[c].depth)}]
  /\ Return(c)
  /\ UNCHANGED <<tables, handle>>

(* sync_change_dir overwrites dir_node, with an empty node if there is no  *)
(* such directory; the member "path" is shadowed and keeps its value.      *)
ChangeDir(c, p) ==
  /\ IsOpen(c)
  /\ "change_dir" \in Ops
  /\ \E n \in FindNode(nodes, p) : handle' = [handle EXCEPT ![c].node = n]
  /\ UNCHANGED <<tables, pc, frame, listing>>

(* sync_remove(entry, flags): look the entry up, then refuse what is not   *)
(* there, the root, and a non-empty node unless the flag Recursive is set. *)
RemoveEntry(c, p, recursive) ==
  /\ IsOpen(c)
  /\ "remove_entry" \in Ops
  /\ \E n \in FindNode(nodes, p) :
       /\ n.id \notin {NoNode.id, RootId}
       /\ recursive \/ NodeIsLeaf(n)
       /\ found' = [found EXCEPT ![c] = n]
  /\ Goto(c, "remove")
  /\ UNCHANGED <<tables, handle, call, todo, ppath, listing>>

(* The stored procedure remove_node(lft, rgt) of a row copied earlier. *)
RemoveRows(s) ==
  /\ nodes' = RemoveNode(nodes, s.lft, s.rgt)
  /\ attributes' =
       {a \in attributes : \A n \in Doomed(nodes, s.lft, s.rgt) : n.id # a.node_id}
  /\ UNCHANGED nextId

ExecRemoveNode(c) ==
  /\ pc[c] = "remove"
  /\ RemoveRows(found[c])
  /\ Return(c)
  /\ UNCHANGED <<handle, listing>>

(* sync_remove(flags) removes the object's own node, as it was when opened. *)
RemoveSelf(c) ==
  /\ IsOpen(c)
  /\ "remove_self" \in Ops
  /\ RemoveRows(handle[c].node)
  /\ UNCHANGED <<handle, pc, frame, listing>>

(* A statement fails and the call ends in an exception. *)
DatabaseError(c) ==
  /\ pc[c] \notin {"idle", "dead"}
  /\ Return(c)
  /\ UNCHANGED <<tables, handle, listing>>

(* The statements a call still has to execute once it has begun. *)
Continue(c) ==
  \/ FindParentNode(c)
  \/ RefindParentNode(c)
  \/ QueryPath(c)
  \/ ExecInsertNode(c)
  \/ ExecVectorValue(c)
  \/ SelectChildren(c)
  \/ ExecRemoveNode(c)

Next ==
  \E c \in Client :
    \/ \E k \in {"dir", "entry"}, m \in Mode, p \in Target : Open(c, k, m, p)
    \/ \E k \in Key, v \in Value : SetAttribute(c, k, v)
    \/ \E k \in Key, v, w \in Value : SetVectorAttribute(c, k, <<v, w>>)
    \/ \E k \in Key : RemoveAttribute(c, k)
    \/ List(c)
    \/ \E p \in Target : ChangeDir(c, p)
    \/ \E p \in Target, r \in BOOLEAN : RemoveEntry(c, p, r)
    \/ RemoveSelf(c)
    \/ Continue(c)
    \/ DatabaseError(c)

Spec == Init /\ [][Next]_vars

(* A thread inside a call keeps executing it; it need not make another. *)
FairSpec == Spec /\ \A c \in Client : WF_vars(Continue(c))

-----------------------------------------------------------------------------
(***************************************************************************)
(* Properties.                                                             *)
(***************************************************************************)

(* Every variable ranges over the values the columns and members can hold. *)
TypeOK ==
  /\ nodes \in SUBSET Row
  /\ attributes \in SUBSET Attribute
  /\ nextId \in Nat
  /\ handle \in [Client -> Handle]
  /\ pc \in [Client -> Where]
  /\ call \in [Client -> Call]
  /\ todo \in [Client -> Seq(Path)]
  /\ found \in [Client -> Snapshot]
  /\ ppath \in [Client -> Path]
  /\ listing \in [Client -> SUBSET Nat]

(* The rows of the nodes table always form nested sets.  insert_node may be *)
(* given a left bound that other clients have moved since it was read: the  *)
(* new interval may then land under the wrong parent, but it never overlaps *)
(* another one.                                                             *)
WellNested == NestedSets(nodes)

(* An insertion or a removal shifts the bounds of the other rows but never  *)
(* changes which of them the queries find below which, even when the bound  *)
(* it works with was read before another client moved the rows.             *)
NestingKept ==
  [][\A m, n \in nodes, p, q \in nodes' :
       m.id = p.id /\ n.id = q.id => (Covers(m, n) <=> Covers(p, q))]_nodes

(* Nothing but a look-up some statements earlier keeps two clients from      *)
(* inserting one path twice.  Below the root a client does so at most once:  *)
(* what it or another client has inserted is found for good.  (True of paths *)
(* of up to three components.  Further down, a row misplaced by a stale bound *)
(* gets another hash and is not found again, and create_parents, which does   *)
(* not test its second look-up, then puts the next row in front of the root.) *)
RepeatsBounded ==
  \A n \in Name : Cardinality(RowsAt(nodes, <<n>>)) <= Cardinality(Client)

(* A path has one row, and one row covers another exactly when its path is a *)
(* prefix of the other's: get_path, get_child_nodes and remove_node, which   *)
(* follow the intervals, agree with find_node, which follows the hash.       *)
PathsMatchNesting ==
  \A m, n \in nodes :
    /\ m.hash = n.hash => m = n
    /\ Covers(m, n) <=> IsPrefix(m.hash, n.hash)

(* The table implements a set of paths: rows are created below existing rows *)
(* only, and a removal takes a path with everything below it.                *)
Tree == INSTANCE Namespace WITH entries <- {n.hash : n \in nodes}
ImplementsNamespace == Tree!Spec

(* What sync_list caches are the rows whose path is one component longer    *)
(* than that of the directory's node, even though it only counts intervals. *)
Below(d)     == {n \in nodes : n.hash # RootPath /\ Front(n.hash) = d.hash}
ListingIsExact ==
  [][\A c \in Client : SelectChildren(c) =>
       listing'[c] = {n.id : n \in UNION {Below(d) : d \in {m \in nodes : m.id = handle[c].node.id}}}]_vars

(* A key has at most one scalar row per node, whatever mixture of scalar    *)
(* and vector calls the clients interleave.                                 *)
OneScalarPerKey ==
  \A a, b \in attributes :
    a.node_id = b.node_id /\ a.key = b.key /\ ~a.is_vector /\ ~b.is_vector => a = b

(* Clients keep writing attributes through objects whose node is gone, but  *)
(* no node created later ever starts with such left-over attributes.        *)
NoInheritedAttributes ==
  [][\A n \in nodes' : (\A m \in nodes : m.id # n.id) =>
                          \A a \in attributes' : a.node_id # n.id]_vars

(* create_parents recurses forever only after the root row has been lost. *)
OnlyRootLossHangs ==
  \A c \in Client : pc[c] = "dead" => RowsAt(nodes, RootPath) = {}

(* Removing a row whose bounds are still current removes it with exactly the *)
(* rows inside it, and what is left are nested sets again.                   *)
Subtree(id) == {n \in nodes : \E m \in nodes : m.id = id /\ (n = m \/ Inside(n, m))}
Gone        == {n \in nodes : \A m \in nodes' : m.id # n.id}
FreshRemovalIsExact ==
  [][\A c \in Client :
       /\ ExecRemoveNode(c)
       /\ \E n \in nodes : SnapshotOf(n) = found[c]
       /\ NestedSets(nodes)
       => Gone = Subtree(found[c].id) /\ NestedSets(nodes')]_vars

(* "Remove the node and its childs": sync_remove(flags) on an open object    *)
(* removes the object's own node and what lies inside it.                    *)
RemovesOwnSubtree ==
  [][\A c \in Client : RemoveSelf(c) => Gone = Subtree(handle[c].node.id)]_vars

(* A call that has begun ends, or the process has died in create_parents. *)
CallsReturn == \A c \in Client : ~Idle(c) ~> pc[c] \in {"idle", "dead"}
=============================================================================
