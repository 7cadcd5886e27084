------------------------------ MODULE NestedSet ------------------------------
(***************************************************************************)
(* The "nodes" and "attributes" tables of the sql_fast_advert adaptor and  *)
(* the statements its database_connection and its stored procedures run on *)
(* them (src/sql/trunk/sql_fast_advert/fast_advert.sql and                 *)
(* sql_fast_advert_database_connection.cpp).                               *)
(*                                                                         *)
(* The tree of adverts is kept as nested sets: a row owns the interval     *)
(* lft..rgt, and a node is below another when its interval lies inside.    *)
(* A table is a set of rows.  The hash column holds a 32 bit hash of the   *)
(* path; it is modelled by the path itself (no two paths collide), and the *)
(* name column by the last component of that path, which is what           *)
(* insert_node stores.                                                     *)
(***************************************************************************)
EXTENDS Integers, FiniteSets, SequencesExt

CONSTANT Name      \* the components a path is made of

Path     == Seq(Name)
RootPath == <<>>
RootId   == 1

Row == [id : Nat, dir : BOOLEAN, lft : Nat, rgt : Nat, hash : Path]

RootRow == [id |-> RootId, dir |-> TRUE, lft |-> 1, rgt |-> 2, hash |-> RootPath]

-----------------------------------------------------------------------------
(***************************************************************************)
(* Nesting.                                                                *)
(***************************************************************************)

(* n is found by "n.lft BETWEEN m.lft AND m.rgt": m is n or above it. *)
Covers(m, n) == m.lft <= n.lft /\ n.lft <= m.rgt

(* The row is a proper interval, and two rows are nested or disjoint. *)
Inside(m, n)   == n.lft < m.lft /\ m.rgt < n.rgt
Disjoint(m, n) == m.rgt < n.lft \/ n.rgt < m.lft

NestedSets(T) ==
  /\ \A n \in T : n.lft < n.rgt
  /\ \A m, n \in T : m.id # n.id => Inside(m, n) \/ Inside(n, m) \/ Disjoint(m, n)

-----------------------------------------------------------------------------
(***************************************************************************)
(* Queries.  A client gets a copy of the columns id, dir, lft and rgt; the *)
(* copy it gets when no row matches is the default-constructed node.       *)
(***************************************************************************)
Snapshot == [id : Nat, dir : {"t", "f", "FALSE"}, lft : Nat, rgt : Nat]

NoNode == [id |-> 0, dir |-> "FALSE", lft |-> 0, rgt |-> 0]

SnapshotOf(n) ==
  [id |-> n.id, dir |-> IF n.dir THEN "t" ELSE "f", lft |-> n.lft, rgt |-> n.rgt]

RowsAt(T, p) == {n \in T : n.hash = p}

(* A seeded fault: only directories are found. *)
FindNodeOfDirs(T, p) ==
  LET dirs == {n \in RowsAt(T, p) : n.dir}
  IN  IF dirs = {} THEN {NoNode} ELSE {SnapshotOf(n) : n \in dirs}

(* When several rows match, the statement delivers any one of them. *)
FindNode(T, p) ==
  IF RowsAt(T, p) = {} THEN {NoNode} ELSE {SnapshotOf(n) : n \in RowsAt(T, p)}

(* A seeded fault: the parent of "/name" is taken to be the empty string. *)
FindParentBelowRoot(T, p) == IF Len(p) <= 1 THEN {NoNode} ELSE FindNode(T, Front(p))

(* The parent of "/" is the empty string, which hashes to no row. *)
FindParent(T, p) == IF p = RootPath THEN {NoNode} ELSE FindNode(T, Front(p))

NodeIsLeaf(s) == s.rgt - s.lft = 1

(* The rows joined as "parent" of the node with this id. *)
Ancestors(T, id) == {m \in T : \E n \in T : n.id = id /\ Covers(m, n)}

(* The orders "ORDER BY lft" can deliver a set of rows in. *)
OrderedByLft(S) ==
  {f \in [1 .. Cardinality(S) -> S] :
     \A i, j \in 1 .. Cardinality(S) : i < j => f[i] # f[j] /\ f[i].lft <= f[j].lft}

(* The answers of get_path: the names on the way to the node, root excluded. *)
GetPath(T, id) ==
  {[i \in DOMAIN f |-> Last(f[i].hash)] :
     f \in OrderedByLft({m \in Ancestors(T, id) : m.id # RootId})}

(* The first query of get_child_nodes: how deep the parent lies.  The result *)
(* variable keeps its initial 0 when the query selects nothing.              *)
Depth(T, id) ==
  LET up == Ancestors(T, id) IN IF up = {} THEN 0 ELSE Cardinality(up) - 1

(* A seeded fault: the level is off by one. *)
ChildNodesOfDepth(T, id, depth) ==
  {n \in T : /\ \E m \in T : m.id = id /\ Covers(m, n)
             /\ Cardinality(Ancestors(T, n.id)) - depth = 1}

(* The second one: the rows one level below that depth, inside the parent. *)
ChildNodes(T, id, depth) ==
  {n \in T : /\ \E m \in T : m.id = id /\ Covers(m, n)
             /\ Cardinality(Ancestors(T, n.id)) - (depth + 1) = 1}

-----------------------------------------------------------------------------
(***************************************************************************)
(* Stored procedures that change the nodes table.                          *)
(***************************************************************************)

(* Seeded faults: the right bounds are forgotten; the new row goes in front of *)
(* its parent; a removal keeps the node, or everything below the node.         *)
OpenGapLeft(n, l) == [n EXCEPT !.lft = IF @ > l THEN @ + 2 ELSE @]

(* Make room behind position l: every bound beyond it moves up by two. *)
Raised(x, l)  == IF x > l THEN x + 2 ELSE x
OpenGap(n, l) == [n EXCEPT !.lft = Raised(@, l), !.rgt = Raised(@, l)]

InsertNodeBefore(T, id, dir, l, h) ==
  {OpenGap(n, l - 1) : n \in T}
    \cup {[id |-> id, dir |-> dir, lft |-> l, rgt |-> l + 1, hash |-> h]}

InsertNode(T, id, dir, l, h) ==
  {OpenGap(n, l) : n \in T}
    \cup {[id |-> id, dir |-> dir, lft |-> l + 1, rgt |-> l + 2, hash |-> h]}

DoomedBelow(T, l, r) == {n \in T : l < n.lft /\ n.lft <= r}
DoomedAlone(T, l, r) == {n \in T : l = n.lft}

Doomed(T, l, r) == {n \in T : l <= n.lft /\ n.lft <= r}

(* A seeded fault: the bounds in front of the gap move down as well. *)
LoweredEvery(x, l, r) == x - (r - l + 1)

(* Close the gap l..r: every bound beyond it moves down by its width. *)
Lowered(x, l, r)  == IF x > r THEN x - (r - l + 1) ELSE x
CloseGap(n, l, r) == [n EXCEPT !.lft = Lowered(@, l, r), !.rgt = Lowered(@, l, r)]

RemoveNode(T, l, r) == {CloseGap(n, l, r) : n \in T \ Doomed(T, l, r)}

-----------------------------------------------------------------------------
(***************************************************************************)
(* The attributes table.  Rows that agree in every column are merged.      *)
(***************************************************************************)
AttrRows(A, id, k) == {a \in A : a.node_id = id /\ a.key = k}

(* A seeded fault: a row counts as found only if it has the same value. *)
SetScalarOfValue(A, id, k, v) ==
  A \cup {[node_id |-> id, key |-> k, value |-> v, is_vector |-> FALSE]}

(* set_attribute(id, k, v, 'f'): overwrite whatever rows the key has, which *)
(* keep their is_vector column, or insert a scalar row.                     *)
SetScalar(A, id, k, v) ==
  LET old == AttrRows(A, id, k)
  IN  (A \ old) \cup (IF old = {}
                      THEN {[node_id |-> id, key |-> k, value |-> v, is_vector |-> FALSE]}
                      ELSE {[a EXCEPT !.value = v] : a \in old})

(* set_attribute(id, k, v, 't'): add v to the values the key already has. *)
AddVectorValue(A, id, k, v) ==
  IF \E a \in AttrRows(A, id, k) : a.value = v
  THEN A
  ELSE A \cup {[node_id |-> id, key |-> k, value |-> v, is_vector |-> TRUE]}

DropAttribute(A, id, k) == A \ AttrRows(A, id, k)
=============================================================================
