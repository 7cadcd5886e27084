---------------------------- MODULE HbaseAdvert ------------------------------
(***************************************************************************)
(* Clients of the hbase_advert adaptor that share the tables "nodes" and   *)
(* "metadata" (src/hbase/trunk/hbase_advert).                              *)
(*                                                                         *)
(* Every helper scans a whole table, and a node is written by one          *)
(* mutateRow per column; a mutateRow is a step of its own, and so is a scan *)
(* (entry_exists makes two, which are taken as one).                        *)
(* HBase returns rows in the order of their keys, "<name>-<id>".  The      *)
(* model assumes ids of one digit and names in which no character comes    *)
(* before '-', so rows are ordered by name and then by id.                 *)
(***************************************************************************)
EXTENDS Integers, FiniteSets, SequencesExt

CONSTANTS
  Client,     \* application threads, each with one object
  Name,       \* path components
  Rank,       \* Rank[n]: the place of name n in the order of characters
  Begins,     \* Begins[n]: the names of which n is a beginning, n among them
  Target,     \* the paths the applications use
  Calls,      \* Calls[c]: the calls c makes, pairs of a goal and a path
  Key,        \* attribute keys
  MaxRows     \* bound: the table "nodes" takes no row beyond

Path     == Seq(Name)
RootId   == 0
EmptyId  == 0         \* the empty string that get_node_id returns for nothing
NoParent == -1        \* a row without the column entry:parent_id

(* What a constructor does, by its flags, and the changes of an attribute. *)
Mode     == {"exclusive", "create", "verify"}
Goal     == Mode \cup {"set", "remove"}

(* What the constants must satisfy. *)
ConstantsFit ==
  /\ Target \subseteq Path \ {<<>>}
  /\ Calls \in [Client -> SUBSET (Goal \X Target)]
  /\ Rank \in [Name -> Nat]
  /\ \A m, n \in Name : Rank[m] = Rank[n] => m = n
  /\ Begins \in [Name -> SUBSET Name]
  /\ \A n \in Name : n \in Begins[n] /\ \A m \in Begins[n] : Rank[n] <= Rank[m]
  /\ Key # {}
  /\ MaxRows \in Nat

VARIABLES
  nodes,     \* table "nodes"
  metadata,  \* table "metadata"
  object,    \* object[c]: the path c has an object for, or <<>>
  call,      \* call[c]: where c is in the call it is making, and its locals
  raced      \* a history: two creations have once been under way together

vars == <<nodes, metadata, object, call, raced>>

(* A row of "nodes".  Only a row that create_url's last write has brought   *)
(* about is not numbered, that is, has no column entry:node_id.  A cell of  *)
(* "metadata" remembers the path it was written through, and whether that   *)
(* path existed: both are histories.                                        *)
Row  == [name : Name, id : 0 .. MaxRows, numbered : BOOLEAN, parent : {NoParent} \cup (0 .. MaxRows)]
Cell == [name : Name, id : 0 .. MaxRows, key : Key, path : Target, existed : BOOLEAN]

(* "parent" is parent_id, "up" pidstring, "id" node_id of the helpers. *)
Where   == {"idle", "check", "descend", "last", "create", "follow", "count", "number",
            "parent", "kind", "climb", "find", "write"}
SomeKey == CHOOSE k \in Key : TRUE
Call    == [pc : Where, goal : Goal \cup {"none"}, isDir : BOOLEAN, path : Target \cup {<<>>}, i : Nat \ {0},
            up : 0 .. MaxRows, parent : 0 .. MaxRows, id : 0 .. MaxRows,
            key : Key, existed : BOOLEAN]
NoCall  == [pc |-> "idle", goal |-> "none", isDir |-> FALSE, path |-> <<>>, i |-> 1,
            up |-> RootId, parent |-> RootId, id |-> EmptyId,
            key |-> SomeKey, existed |-> FALSE]

Init ==
  /\ nodes = {}
  /\ metadata = {}
  /\ object = [c \in Client |-> <<>>]
  /\ call = [c \in Client |-> NoCall]
  /\ raced = FALSE

-----------------------------------------------------------------------------
(***************************************************************************)
(* common_helpers.cpp, on a table T.                                       *)
(***************************************************************************)
Before(r, s) == Rank[r.name] < Rank[s.name] \/ (r.name = s.name /\ r.id <= s.id)
FirstOf(S)   == CHOOSE r \in S : \A s \in S : Before(r, s)
LastOf(S)    == CHOOSE r \in S : \A s \in S : Before(s, r)

(* A seeded fault: the scan takes only the exact name, and goes on after a  *)
(* row that matches. *)
GetNodeIdLast(T, n, parent) ==
  LET children == {r \in T : r.name = n /\ r.parent = parent}
  IN  IF children # {} THEN LastOf(children).id ELSE EmptyId

(* The scan stops at the first row that begins with n below the parent;    *)
(* without one it returns the last id it has met on rows that begin with n. *)
GetNodeId(T, n, parent) ==
  LET matching == {r \in T : r.name \in Begins[n]}
      children == {r \in matching : r.parent = parent}
      numbered == {r \in matching : r.numbered}
  IN  CASE children # {} -> FirstOf(children).id
        [] children = {} /\ numbered # {} -> LastOf(numbered).id
        [] OTHER -> EmptyId

EntryExists(T, n, parent) ==
  \E r \in T : r.name = n /\ r.id = GetNodeId(T, n, parent) /\ r.parent = parent

(* A seeded fault: the number of rows is itself the new id. *)
GetNewNodeIdZero(T) == Cardinality(T)

GetNewNodeId(T) == Cardinality(T) + 1

(* mutateRow of single columns leaves the other columns of the row alone. *)
RowAt(T, n, id) == {r \in T : r.name = n /\ r.id = id}

(* A seeded fault: a row is inserted whatever is there. *)
PutNumberAnew(T, n, id) == T \cup {[name |-> n, id |-> id, numbered |-> TRUE, parent |-> NoParent]}

PutNumber(T, n, id) ==
  (T \ RowAt(T, n, id))
    \cup {[name |-> n, id |-> id, numbered |-> TRUE,
           parent |-> IF RowAt(T, n, id) = {} THEN NoParent ELSE FirstOf(RowAt(T, n, id)).parent]}
PutParent(T, n, id, parent) ==
  {IF r.name = n /\ r.id = id THEN [r EXCEPT !.parent = parent] ELSE r : r \in T}
PutKind(T, n, id) ==
  IF RowAt(T, n, id) # {} THEN T
  ELSE T \cup {[name |-> n, id |-> id, numbered |-> FALSE, parent |-> NoParent]}

(* url_exists without the steps: the path can be followed from the root.   *)
Follow(T, p) ==
  LET Down[i \in 0 .. Len(p)] ==
        IF i = 0 THEN RootId
        ELSE LET up == Down[i - 1]
             IN  IF up # NoParent /\ EntryExists(T, p[i], up) THEN GetNodeId(T, p[i], up) ELSE NoParent
  IN  Down[Len(p)]
UrlExists(T, p) == Follow(T, p) # NoParent

-----------------------------------------------------------------------------
At(c, l)     == call[c].pc = l
Goto(c, k)   == call' = [call EXCEPT ![c] = k]
Return(c)    == Goto(c, NoCall)
Component(k) == k.path[k.i]
IsLast(k)    == k.i = Len(k.path)

(* A helper begins with the first component of the path. *)
Begin(k, l) == [k EXCEPT !.pc = l, !.i = 1, !.up = RootId, !.parent = RootId, !.id = EmptyId]

(* A helper is through with a component: on to the next, or to l. *)
Advance(k, l, parent) ==
  [k EXCEPT !.pc = IF IsLast(k) THEN l ELSE @, !.i = IF IsLast(k) THEN @ ELSE @ + 1,
            !.up = k.parent, !.parent = parent]

(* Constructors of advert_cpi_impl and advertdirectory_cpi_impl: the flags *)
(* choose the goal.  A directory opened without flags need not exist.      *)
Open(c, isDir, goal, p) ==
  LET unchecked == isDir /\ goal = "verify"
  IN
  /\ At(c, "idle")
  /\ <<goal, p>> \in Calls[c]
  /\ object' = [object EXCEPT ![c] = IF unchecked THEN p ELSE <<>>]
  /\ Goto(c, IF unchecked THEN NoCall
             ELSE Begin([NoCall EXCEPT !.goal = goal, !.isDir = isDir, !.path = p], "check"))
  /\ UNCHANGED <<nodes, metadata, raced>>

(* url_exists is false: "Exclusive" and an entry that must be there throw. *)
Missing(c) ==
  /\ Goto(c, IF call[c].goal = "create" THEN Begin(call[c], "create") ELSE NoCall)
  /\ UNCHANGED object

(* url_exists is true: an entry that was not just verified is verified now. *)
Present(c) ==
  LET k == call[c]
  IN
  \/ /\ k.isDir \/ k.goal = "verify"
     /\ object' = [object EXCEPT ![c] = k.path]
     /\ Return(c)
  \/ /\ ~k.isDir /\ k.goal # "verify"
     /\ Goto(c, Begin([k EXCEPT !.goal = "verify"], "check"))
     /\ UNCHANGED object

(* url_exists: entry_exists for a component ... *)
CheckEntry(c) ==
  LET k == call[c]
  IN
  /\ At(c, "check")
  /\ \/ /\ EntryExists(nodes, Component(k), k.parent)
        /\ Goto(c, [k EXCEPT !.pc = "descend"])
        /\ UNCHANGED object
     \/ /\ ~EntryExists(nodes, Component(k), k.parent)
        /\ Missing(c)
  /\ UNCHANGED <<nodes, metadata, raced>>

(* ... and get_node_id. *)
Descend(c) ==
  LET k == call[c]
  IN
  /\ At(c, "descend")
  /\ Goto(c, Advance([k EXCEPT !.pc = "check"], "last", GetNodeId(nodes, Component(k), k.parent)))
  /\ UNCHANGED <<nodes, metadata, object, raced>>

(* After the loop the last component is looked up once more. *)
CheckLast(c) ==
  LET k == call[c]
  IN
  /\ At(c, "last")
  /\ \/ EntryExists(nodes, Component(k), k.up) /\ Present(c)
     \/ ~EntryExists(nodes, Component(k), k.up) /\ Missing(c)
  /\ UNCHANGED <<nodes, metadata, raced>>

-----------------------------------------------------------------------------
(***************************************************************************)
(* create_url: a round for each component, then is_dir of the last.        *)
(***************************************************************************)
CreateEntry(c) ==
  LET k == call[c]
  IN
  /\ At(c, "create")
  /\ Goto(c, [k EXCEPT !.pc = IF EntryExists(nodes, Component(k), k.parent) THEN "follow" ELSE "count"])
  /\ UNCHANGED <<nodes, metadata, object, raced>>

FollowEntry(c) ==
  LET k == call[c]
  IN
  /\ At(c, "follow")
  /\ Goto(c, Advance([k EXCEPT !.pc = "create"], "kind", GetNodeId(nodes, Component(k), k.parent)))
  /\ UNCHANGED <<nodes, metadata, object, raced>>

CountRows(c) ==
  LET k  == call[c]
      id == GetNewNodeId(nodes)
  IN
  /\ At(c, "count")
  /\ id <= MaxRows
  /\ Goto(c, [k EXCEPT !.pc = "number", !.id = id])
  /\ raced' = (raced \/ \E d \in Client \ {c} : At(d, "number") \/ At(d, "parent"))
  /\ UNCHANGED <<nodes, metadata, object>>

(* mutateRow of node_id brings the row about; node_name tells nothing new. *)
WriteNumber(c) ==
  LET k == call[c]
  IN
  /\ At(c, "number")
  /\ nodes' = PutNumber(nodes, Component(k), k.id)
  /\ Goto(c, [k EXCEPT !.pc = "parent"])
  /\ UNCHANGED <<metadata, object, raced>>

(* mutateRow of parent_id; nothing depends on is_dir, which follows. *)
WriteParent(c) ==
  LET k == call[c]
  IN
  /\ At(c, "parent")
  /\ nodes' = PutParent(nodes, Component(k), k.id, k.parent)
  /\ Goto(c, Advance([k EXCEPT !.pc = "create"], "kind", k.id))
  /\ UNCHANGED <<metadata, object, raced>>

(* The last mutateRow names the row by the last component and the last id   *)
(* drawn, which is none if the path has come into being meanwhile.          *)
WriteKind(c) ==
  LET k == call[c]
  IN
  /\ At(c, "kind")
  /\ nodes' = PutKind(nodes, Component(k), k.id)
  /\ Present(c)
  /\ UNCHANGED <<metadata, raced>>

-----------------------------------------------------------------------------
(***************************************************************************)
(* sync_set_attribute, sync_remove_attribute.                              *)
(***************************************************************************)
ChangeAttribute(c, goal, a) ==
  LET p == object[c]
  IN
  /\ At(c, "idle")
  /\ <<goal, p>> \in Calls[c]
  /\ Goto(c, Begin([NoCall EXCEPT !.goal = goal, !.path = p, !.key = a,
                                  !.existed = UrlExists(nodes, p)], "climb"))
  /\ UNCHANGED <<nodes, metadata, object, raced>>

(* get_parent_id_of_entry asks for ids without a test that they belong to   *)
(* the component; only the empty answer is refused, by lexical_cast.        *)
ClimbDown(c) ==
  LET k  == call[c]
      id == GetNodeId(nodes, Component(k), k.parent)
  IN
  /\ At(c, "climb")
  /\ Goto(c, IF id = EmptyId THEN NoCall ELSE Advance(k, "find", id))
  /\ UNCHANGED <<nodes, metadata, object, raced>>

(* A seeded fault: the row is looked for below the node itself. *)
FindRowBelow(c) ==
  LET k == call[c]
  IN
  /\ At(c, "find")
  /\ Goto(c, [k EXCEPT !.pc = "write", !.id = GetNodeId(nodes, Component(k), k.parent)])
  /\ UNCHANGED <<nodes, metadata, object, raced>>

FindRow(c) ==
  LET k == call[c]
  IN
  /\ At(c, "find")
  /\ Goto(c, [k EXCEPT !.pc = "write", !.id = GetNodeId(nodes, Component(k), k.up)])
  /\ UNCHANGED <<nodes, metadata, object, raced>>

(* mutateRow or deleteAll of one column of "metadata". *)
WriteAttribute(c) ==
  LET k    == call[c]
      here == {m \in metadata : m.name = Component(k) /\ m.id = k.id /\ m.key = k.key}
      cell == [name |-> Component(k), id |-> k.id, key |-> k.key, path |-> k.path, existed |-> k.existed]
  IN
  /\ At(c, "write")
  /\ metadata' = (metadata \ here) \cup (IF k.goal = "set" THEN {cell} ELSE {})
  /\ Return(c)
  /\ UNCHANGED <<nodes, object, raced>>

-----------------------------------------------------------------------------
(* Thrift throws: the call ends where it is.  So does a client that dies. *)
IOError(c) ==
  /\ ~At(c, "idle")
  /\ Return(c)
  /\ UNCHANGED <<nodes, metadata, object, raced>>

Next ==
  \E c \in Client :
    \/ \E d \in BOOLEAN, g \in Mode, p \in Target : Open(c, d, g, p)
    \/ CheckEntry(c)
    \/ Descend(c)
    \/ CheckLast(c)
    \/ CreateEntry(c)
    \/ FollowEntry(c)
    \/ CountRows(c)
    \/ WriteNumber(c)
    \/ WriteParent(c)
    \/ WriteKind(c)
    \/ \E g \in {"set", "remove"}, a \in Key : ChangeAttribute(c, g, a)
    \/ ClimbDown(c)
    \/ FindRow(c)
    \/ WriteAttribute(c)
    \/ IOError(c)

Spec == Init /\ [][Next]_vars

-----------------------------------------------------------------------------
(***************************************************************************)
(* Properties.                                                             *)
(***************************************************************************)

(* Every variable ranges over the values the columns and locals can hold. *)
TypeOK ==
  /\ nodes \in SUBSET Row
  /\ \A r, s \in nodes : r.name = s.name /\ r.id = s.id => r = s
  /\ metadata \in SUBSET Cell
  /\ object \in [Client -> Target \cup {<<>>}]
  /\ call \in [Client -> Call]
  /\ raced \in BOOLEAN

(* What url_exists finds is a tree to which paths are added below paths     *)
(* that are there, although a node is written column by column and a client *)
(* may die in between - unless two creations have been under way together,  *)
(* which draws an id twice or brings the rows into the wrong order.         *)
Places == UNION {{SubSeq(q, 1, i) : i \in 0 .. Len(q)} : q \in Target}
Found  == {p \in Places : UrlExists(nodes, p)}
Tree   == INSTANCE Namespace WITH entries <- Found
ActsAsNamespace ==
  [][nodes' # nodes /\ ~raced' =>
       Found' = Found \/ \E p \in Found, n \in Name : Tree!Create(p, n)]_nodes

(* Even then a path that was found is lost only to a rival: the step gives  *)
(* a parent to a row that already has one, or that comes before a row with  *)
(* the same name and parent.                                                *)
LostToRivalOnly ==
  [][nodes' # nodes => \A p \in Found \ Found' : \E c \in Client :
       LET k == call[c] IN
       /\ WriteParent(c)
       /\ \E r \in nodes :
            /\ r.name = Component(k)
            /\ \/ r.id = k.id /\ r.parent # NoParent
               \/ r.id > k.id /\ r.parent = k.parent]_nodes

(* An attribute that was set through an object whose path existed is in the *)
(* row of that path: no set_attribute through an object of another path has *)
(* gone to its place, and the path has kept its row.                        *)
OwnAttributes ==
  ~raced => \A m \in metadata :
              m.existed => m.name = Last(m.path) /\ m.id = Follow(nodes, m.path)
=============================================================================
