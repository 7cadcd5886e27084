---------------------------- MODULE AdvertsProofs ----------------------------
(***************************************************************************)
(* Theorems about the two adverts, for any clients, paths, keys and values: *)
(* those about FastAdvert are proved here, those about HbaseAdvert are       *)
(* carried over from HbaseAdvertProofs at the end.                           *)
(***************************************************************************)
EXTENDS Adverts, FunctionTheorems, FiniteSetTheorems, SequenceTheorems, TLAPS

-----------------------------------------------------------------------------
(***************************************************************************)
(* The stored procedures on a table of rows.                               *)
(***************************************************************************)

(* No two rows share an id. *)
UniqueIds(T) == \A m, n \in T : m.id = n.id => m = n

(* Moving the bounds behind l up by two keeps a row a row. *)
LEMMA OpenGapRow ==
  ASSUME NEW l \in Nat, NEW n \in Row
  PROVE  /\ OpenGap(n, l) \in Row
         /\ OpenGap(n, l).id = n.id
         /\ OpenGap(n, l).dir = n.dir
         /\ OpenGap(n, l).hash = n.hash
         /\ OpenGap(n, l).lft = IF n.lft > l THEN n.lft + 2 ELSE n.lft
         /\ OpenGap(n, l).rgt = IF n.rgt > l THEN n.rgt + 2 ELSE n.rgt
<1>1. Raised(n.lft, l) \in Nat /\ Raised(n.rgt, l) \in Nat
  BY DEF Raised, Row
<1>2. /\ OpenGap(n, l) \in Row
      /\ OpenGap(n, l).id = n.id
      /\ OpenGap(n, l).dir = n.dir
      /\ OpenGap(n, l).hash = n.hash
      /\ OpenGap(n, l).lft = Raised(n.lft, l)
      /\ OpenGap(n, l).rgt = Raised(n.rgt, l)
  BY <1>1 DEF OpenGap, Row
<1> QED
  BY <1>2 DEF Raised

(* Moving the bounds behind r down by the width of l..r keeps a row a row. *)
LEMMA CloseGapRow ==
  ASSUME NEW l \in Nat, NEW r \in Nat, NEW n \in Row
  PROVE  /\ CloseGap(n, l, r) \in Row
         /\ CloseGap(n, l, r).id = n.id
         /\ CloseGap(n, l, r).dir = n.dir
         /\ CloseGap(n, l, r).hash = n.hash
         /\ CloseGap(n, l, r).lft = IF n.lft > r THEN n.lft - (r - l + 1) ELSE n.lft
         /\ CloseGap(n, l, r).rgt = IF n.rgt > r THEN n.rgt - (r - l + 1) ELSE n.rgt
<1>1. Lowered(n.lft, l, r) \in Nat /\ Lowered(n.rgt, l, r) \in Nat
  BY DEF Lowered, Row
<1>2. /\ CloseGap(n, l, r) \in Row
      /\ CloseGap(n, l, r).id = n.id
      /\ CloseGap(n, l, r).dir = n.dir
      /\ CloseGap(n, l, r).hash = n.hash
      /\ CloseGap(n, l, r).lft = Lowered(n.lft, l, r)
      /\ CloseGap(n, l, r).rgt = Lowered(n.rgt, l, r)
  BY <1>1 DEF CloseGap, Row
<1> QED
  BY <1>2 DEF Lowered

(* insert_node keeps nested sets nested, whatever position it is given. *)
LEMMA InsertKeepsNesting ==
  ASSUME NEW T \in SUBSET Row, NestedSets(T), UniqueIds(T),
         NEW id \in Nat, \A n \in T : n.id # id,
         NEW dir \in BOOLEAN, NEW l \in Nat, NEW h \in Path
  PROVE  LET U == InsertNode(T, id, dir, l, h)
         IN  U \in SUBSET Row /\ UniqueIds(U) /\ NestedSets(U)
<1> DEFINE U   == InsertNode(T, id, dir, l, h)
           new == [id |-> id, dir |-> dir, lft |-> l + 1, rgt |-> l + 2, hash |-> h]
<1>1. new \in Row
  BY DEF Row
<1>2. ASSUME NEW u \in U
      PROVE  u = new \/ \E n \in T : u = OpenGap(n, l)
  BY DEF InsertNode
<1>3. U \in SUBSET Row
  BY <1>1, <1>2, OpenGapRow
<1>4. UniqueIds(U)
  <2> SUFFICES ASSUME NEW u \in U, NEW v \in U, u.id = v.id
               PROVE  u = v
    BY DEF UniqueIds
  <2>1. CASE u = new /\ v = new
    BY <2>1
  <2>2. ASSUME NEW m \in T, u = OpenGap(m, l), v = new
        PROVE  FALSE
    BY <2>2, OpenGapRow
  <2>3. ASSUME NEW n \in T, v = OpenGap(n, l), u = new
        PROVE  FALSE
    BY <2>3, OpenGapRow
  <2>4. ASSUME NEW m \in T, u = OpenGap(m, l), NEW n \in T, v = OpenGap(n, l)
        PROVE  u = v
    BY <2>4, OpenGapRow DEF UniqueIds
  <2> QED
    BY <1>2, <2>1, <2>2, <2>3, <2>4
<1>5. ASSUME NEW u \in U
      PROVE  u.lft < u.rgt
  <2>1. CASE u = new
    BY <2>1
  <2>2. ASSUME NEW n \in T, u = OpenGap(n, l)
        PROVE  u.lft < u.rgt
    <3>1. n.lft < n.rgt /\ n.lft \in Nat /\ n.rgt \in Nat
      BY DEF NestedSets, Row
    <3> QED
      BY <2>2, <3>1, OpenGapRow
  <2> QED
    BY <1>2, <2>1, <2>2
<1>6. ASSUME NEW u \in U, NEW v \in U, u.id # v.id
      PROVE  Inside(u, v) \/ Inside(v, u) \/ Disjoint(u, v)
  <2>1. CASE u = new /\ v = new
    BY <1>6, <2>1
  <2>2. ASSUME NEW n \in T, OpenGap(n, l) \in {u, v}, new \in {u, v}
        PROVE  Inside(u, v) \/ Inside(v, u) \/ Disjoint(u, v)
    <3>1. n.lft < n.rgt /\ n.lft \in Nat /\ n.rgt \in Nat
      BY DEF NestedSets, Row
    <3>2. Inside(new, OpenGap(n, l)) \/ Disjoint(new, OpenGap(n, l))
      BY <3>1, OpenGapRow DEF Inside, Disjoint
    <3>3. OpenGap(n, l).id # new.id
      BY OpenGapRow
    <3> QED
      BY <1>6, <2>2, <3>2, <3>3 DEF Disjoint
  <2>3. ASSUME NEW m \in T, u = OpenGap(m, l), NEW n \in T, v = OpenGap(n, l)
        PROVE  Inside(u, v) \/ Inside(v, u) \/ Disjoint(u, v)
    <3>1. /\ m.lft \in Nat /\ m.rgt \in Nat /\ n.lft \in Nat /\ n.rgt \in Nat
          /\ m.id # n.id
      BY <1>6, <2>3, OpenGapRow DEF Row
    <3>2. Inside(m, n) \/ Inside(n, m) \/ Disjoint(m, n)
      BY <3>1 DEF NestedSets
    <3>3. /\ u.lft = IF m.lft > l THEN m.lft + 2 ELSE m.lft
          /\ u.rgt = IF m.rgt > l THEN m.rgt + 2 ELSE m.rgt
          /\ v.lft = IF n.lft > l THEN n.lft + 2 ELSE n.lft
          /\ v.rgt = IF n.rgt > l THEN n.rgt + 2 ELSE n.rgt
      BY <2>3, OpenGapRow
    <3> QED
      BY <3>1, <3>2, <3>3 DEF Inside, Disjoint
  <2> QED
    BY <1>2, <2>1, <2>2, <2>3
<1> QED
  BY <1>3, <1>4, <1>5, <1>6 DEF NestedSets

-----------------------------------------------------------------------------
(***************************************************************************)
(* Type correctness.                                                       *)
(***************************************************************************)

(* Ids are unique and drawn in order; only the root row has the root path. *)
TablesOK ==
  /\ nodes \in SUBSET Row
  /\ IsFiniteSet(nodes)
  /\ UniqueIds(nodes)
  /\ \A n \in nodes : n.id < nextId
  /\ \A n \in nodes : n.hash = RootPath => n.id = RootId
  /\ attributes \in SUBSET Attribute
  /\ nextId \in Nat
  /\ RootId < nextId

ObjectsOK ==
  /\ handle \in [Client -> Handle]
  /\ listing \in [Client -> SUBSET Nat]

(* What is still to be inserted is never the root, and a vector that is being *)
(* written has a value left.                                                  *)
FrameOK ==
  /\ pc \in [Client -> Where]
  /\ call \in [Client -> Call]
  /\ todo \in [Client -> Seq(Path)]
  /\ found \in [Client -> Snapshot]
  /\ ppath \in [Client -> Path]
  /\ \A c \in Client :
       /\ pc[c] \in {"parent", "refind", "path", "insert"} => todo[c] # <<>>
       /\ pc[c] \in {"refind", "path", "insert"} => todo[c][1] # RootPath
       /\ \A i \in 2 .. Len(todo[c]) : todo[c][i] # RootPath
       /\ pc[c] = "vector" => call[c].values # <<>>

TypeInv == TablesOK /\ ObjectsOK /\ FrameOK

LEMMA TypeInvImpliesTypeOK == TypeInv => TypeOK
  BY DEF TypeInv, TablesOK, ObjectsOK, FrameOK, TypeOK

LEMMA NoNodeSnapshot == NoNode \in Snapshot /\ NoNode.id = 0
  BY DEF NoNode, Snapshot

LEMMA NoCallCall == NoCall \in Call /\ NoCall.values = <<>>
<1>1. SomeKey \in Key
  BY FastAdvertAssumption DEF SomeKey
<1>2. RootPath \in Path
  BY DEF RootPath, Path
<1>3. <<>> \in Seq(Value)
  OBVIOUS
<1> QED
  BY <1>1, <1>2, <1>3 DEF NoCall, Call, Mode

(* What find_node delivers is a copy of a row, or the empty node. *)
LEMMA FindNodeSnapshot ==
  ASSUME NEW T \in SUBSET Row, NEW p
  PROVE  FindNode(T, p) \subseteq Snapshot
<1>1. ASSUME NEW n \in Row
      PROVE  SnapshotOf(n) \in Snapshot
  BY DEF SnapshotOf, Snapshot, Row
<1> QED
  BY <1>1, NoNodeSnapshot DEF FindNode, RowsAt

LEMMA FindParentSnapshot ==
  ASSUME NEW T \in SUBSET Row, NEW p
  PROVE  /\ FindParent(T, p) \subseteq Snapshot
         /\ \A n \in FindParent(T, p) : n.id # 0 => p # RootPath
  BY FindNodeSnapshot, NoNodeSnapshot DEF FindParent

(* get_path delivers a sequence of names. *)
LEMMA GetPathPath ==
  ASSUME NEW T \in SUBSET Row, IsFiniteSet(T), NEW id,
         \A n \in T : n.hash = RootPath => n.id = RootId
  PROVE  GetPath(T, id) \subseteq Path
<1> DEFINE up == {m \in Ancestors(T, id) : m.id # RootId}
<1>1. up \subseteq T
  BY DEF Ancestors
<1>2. Cardinality(up) \in Nat
  BY <1>1, FS_Subset, FS_CardinalityType
<1>3. ASSUME NEW m \in up
      PROVE  Last(m.hash) \in Name
  <2>1. m.hash \in Seq(Name) /\ m.hash # <<>>
    BY <1>1 DEF Row, Path, RootPath
  <2> QED
    BY <2>1 DEF Last
<1>4. ASSUME NEW f \in [1 .. Cardinality(up) -> up]
      PROVE  [i \in DOMAIN f |-> Last(f[i].hash)] \in Path
  <2>1. [i \in DOMAIN f |-> Last(f[i].hash)] \in [1 .. Cardinality(up) -> Name]
    BY <1>3, Zenon
  <2> HIDE DEF up
  <2>2. [1 .. Cardinality(up) -> Name] \subseteq Seq(Name)
    BY <1>2, SeqDef, Zenon
  <2> QED
    BY <2>1, <2>2 DEF Path
<1> HIDE DEF up
<1> QED
  BY <1>4 DEF GetPath, OrderedByLft, up

(* The row insert_node returns, as it is read by the client. *)
LEMMA InsertedSnapshot ==
  ASSUME NEW T \in SUBSET Row, NEW h
  PROVE  InsertedSnapshots(T, h) \subseteq Snapshot
  BY DEF InsertedSnapshots, Snapshot, RowsAt, Row

(* A call that returns leaves well-formed locals. *)
LEMMA ReturnFrame ==
  ASSUME FrameOK, NEW c \in Client, Return(c)
  PROVE  FrameOK'
<1>1. RootPath \in Path /\ <<>> \in Seq(Path)
  BY DEF RootPath, Path
<1>2. "idle" \in Where /\ pc' = [pc EXCEPT ![c] = "idle"]
  BY DEF Return, Goto, Where
<1>3. /\ pc' \in [Client -> Where] /\ call' \in [Client -> Call] /\ todo' \in [Client -> Seq(Path)]
      /\ found' \in [Client -> Snapshot] /\ ppath' \in [Client -> Path]
  BY <1>1, <1>2, NoCallCall, NoNodeSnapshot DEF FrameOK, Return
<1>4. pc'[c] = "idle" /\ todo'[c] = <<>>
  BY <1>2 DEF FrameOK, Return
<1>5. \A d \in Client \ {c} : pc'[d] = pc[d] /\ todo'[d] = todo[d] /\ call'[d] = call[d]
  BY <1>2 DEF FrameOK, Return
<1> QED
  BY <1>3, <1>4, <1>5 DEF FrameOK

(* The image of a finite table under one of the shifts is finite. *)
LEMMA ClosedFinite ==
  ASSUME NEW T, IsFiniteSet(T), NEW l, NEW r
  PROVE  IsFiniteSet({CloseGap(n, l, r) : n \in T})
<1> DEFINE U == {CloseGap(n, l, r) : n \in T}
           f == [n \in T |-> CloseGap(n, l, r)]
<1>1. f \in Surjection(T, U)
  BY DEF Surjection
<1> QED
  BY <1>1, FS_Surjection

LEMMA OpenedFinite ==
  ASSUME NEW T, IsFiniteSet(T), NEW l
  PROVE  IsFiniteSet({OpenGap(n, l) : n \in T})
<1> DEFINE U == {OpenGap(n, l) : n \in T}
           f == [n \in T |-> OpenGap(n, l)]
<1>1. f \in Surjection(T, U)
  BY DEF Surjection
<1> QED
  BY <1>1, FS_Surjection

(* insert_node and remove_node keep the tables well-formed. *)
LEMMA InsertTables ==
  ASSUME TablesOK, NEW dir \in BOOLEAN, NEW l \in Nat, NEW h \in Path, h # RootPath,
         nodes' = InsertNode(nodes, nextId, dir, l, h), nextId' = nextId + 1,
         attributes' = attributes
  PROVE  TablesOK'
<1> DEFINE new == [id |-> nextId, dir |-> dir, lft |-> l + 1, rgt |-> l + 2, hash |-> h]
<1>1. new \in Row
  BY DEF Row, TablesOK
<1>2. ASSUME NEW u \in nodes'
      PROVE  u = new \/ \E n \in nodes : u = OpenGap(n, l)
  BY DEF InsertNode
<1>3. nodes' \in SUBSET Row
  BY <1>1, <1>2, OpenGapRow DEF TablesOK
<1>4. IsFiniteSet(nodes')
  <2>1. IsFiniteSet({OpenGap(n, l) : n \in nodes})
    BY OpenedFinite DEF TablesOK
  <2>2. nodes' = {OpenGap(n, l) : n \in nodes} \cup {new}
    BY DEF InsertNode
  <2> HIDE DEF new
  <2> QED
    BY <2>1, <2>2, FS_AddElement
<1>5. \A u \in nodes' : u.id < nextId'
  BY <1>2, OpenGapRow DEF TablesOK, Row
<1>6. \A u \in nodes' : u.hash = RootPath => u.id = RootId
  BY <1>2, OpenGapRow DEF TablesOK, Row
<1>7. UniqueIds(nodes')
  <2> SUFFICES ASSUME NEW u \in nodes', NEW v \in nodes', u.id = v.id
               PROVE  u = v
    BY DEF UniqueIds
  <2>1. \A n \in nodes : OpenGap(n, l).id = n.id /\ n.id \in Nat /\ n.id < nextId
    BY OpenGapRow DEF TablesOK, Row
  <2> QED
    BY <1>2, <2>1 DEF TablesOK, UniqueIds
<1> QED
  BY <1>3, <1>4, <1>5, <1>6, <1>7 DEF TablesOK, RootId

LEMMA RemoveTables ==
  ASSUME TablesOK, NEW s \in Snapshot, RemoveRows(s)
  PROVE  TablesOK'
<1> DEFINE l == s.lft
           r == s.rgt
           S == nodes \ Doomed(nodes, l, r)
<1>1. l \in Nat /\ r \in Nat
  BY DEF Snapshot
<1>2. nodes' = {CloseGap(n, l, r) : n \in S}
  BY DEF RemoveRows, RemoveNode
<1>3. S \subseteq nodes
  OBVIOUS
<1> HIDE DEF l, r, S
<1>4. \A u \in nodes' : \E n \in S : u = CloseGap(n, l, r) /\ u.id = n.id /\ u.hash = n.hash /\ u \in Row
  BY <1>1, <1>2, <1>3, CloseGapRow DEF TablesOK
<1>5. IsFiniteSet(nodes')
  BY <1>2, <1>3, FS_Subset, ClosedFinite DEF TablesOK
<1>6. UniqueIds(nodes')
  BY <1>3, <1>4 DEF UniqueIds, TablesOK
<1>7. attributes' \subseteq attributes /\ nextId' = nextId
  BY DEF RemoveRows
<1> QED
  BY <1>3, <1>4, <1>5, <1>6, <1>7 DEF TablesOK

(* Steps that leave the tables, or the objects, or the locals alone. *)
LEMMA SameTables == TablesOK /\ UNCHANGED tables => TablesOK'
  BY DEF TablesOK, tables

LEMMA SameObjects == ObjectsOK /\ UNCHANGED <<handle, listing>> => ObjectsOK'
  BY DEF ObjectsOK

LEMMA SameFrame == FrameOK /\ UNCHANGED <<pc, frame>> => FrameOK'
  BY DEF FrameOK, frame

LEMMA NoHandleHandle == NoHandle \in Handle
  BY NoNodeSnapshot DEF NoHandle, Handle, RootPath, Path

(* The tail of a sequence that has one. *)
LEMMA LongTail ==
  ASSUME NEW S, NEW s \in Seq(S), Len(s) > 1
  PROVE  /\ Tail(s) \in Seq(S) /\ Tail(s) # <<>> /\ Len(Tail(s)) = Len(s) - 1
         /\ \A i \in 1 .. Len(Tail(s)) : Tail(s)[i] = s[i + 1]
<1> DEFINE t == Tail(s)
<1>1. s # <<>> /\ Len(s) \in Nat
  OBVIOUS
<1>2. /\ t \in Seq(S)
      /\ Len(t) = Len(s) - 1
      /\ \A i \in 1 .. Len(t) : t[i] = s[i + 1]
  BY <1>1, HeadTailProperties
<1> HIDE DEF t
<1>3. t # <<>>
  BY <1>1, <1>2
<1> QED
  BY <1>2, <1>3 DEF t

(* The constructors. *)
LEMMA OpenType ==
  ASSUME TypeInv, NEW c \in Client, NEW k \in {"dir", "entry"}, NEW m \in Mode,
         NEW p \in Target, Open(c, k, m, p)
  PROVE  TypeInv'
<1>1. TablesOK'
  BY SameTables DEF TypeInv, Open
<1>2. p \in Path
  BY FastAdvertAssumption
<1>3. PICK n \in FindNode(nodes, p) :
         \/ /\ n.id # 0
            /\ handle' = [handle EXCEPT ![c] = [open |-> TRUE, path |-> p, node |-> n]]
            /\ UNCHANGED <<pc, frame>>
         \/ /\ handle' = [handle EXCEPT ![c] = NoHandle]
            /\ UNCHANGED <<pc, frame>>
         \/ /\ handle' = [handle EXCEPT ![c] = NoHandle]
            /\ call' = [call EXCEPT ![c] = [NoCall EXCEPT !.kind = k, !.mode = m, !.path = p]]
            /\ todo' = [todo EXCEPT ![c] = <<p>>]
            /\ Goto(c, "parent")
            /\ UNCHANGED <<found, ppath>>
  BY DEF Open
<1>4. n \in Snapshot
  BY FindNodeSnapshot DEF TypeInv, TablesOK
<1>5. [open |-> TRUE, path |-> p, node |-> n] \in Handle
  BY <1>2, <1>4 DEF Handle
<1>6. ObjectsOK'
  BY <1>3, <1>5, NoHandleHandle DEF TypeInv, ObjectsOK, Open
<1>7. FrameOK'
  <2>1. CASE UNCHANGED <<pc, frame>>
    BY <2>1, SameFrame DEF TypeInv
  <2>2. CASE /\ call' = [call EXCEPT ![c] = [NoCall EXCEPT !.kind = k, !.mode = m, !.path = p]]
             /\ todo' = [todo EXCEPT ![c] = <<p>>]
             /\ Goto(c, "parent")
             /\ UNCHANGED <<found, ppath>>
    <3>1. [NoCall EXCEPT !.kind = k, !.mode = m, !.path = p] \in Call
      BY <1>2, NoCallCall DEF Call
    <3>2. <<p>> \in Seq(Path) /\ Len(<<p>>) = 1 /\ <<p>> # <<>>
      BY <1>2
    <3> QED
      BY <2>2, <3>1, <3>2 DEF TypeInv, FrameOK, Goto, Where
  <2> QED
    BY <1>3, <2>1, <2>2
<1> QED
  BY <1>1, <1>6, <1>7 DEF TypeInv

LEMMA FindParentNodeType ==
  ASSUME TypeInv, NEW c \in Client, FindParentNode(c)
  PROVE  TypeInv'
<1>1. TablesOK' /\ ObjectsOK'
  BY SameTables, SameObjects DEF TypeInv, FindParentNode
<1> DEFINE p == Head(todo[c])
<1>2. todo[c] \in Seq(Path) /\ todo[c] # <<>> /\ p = todo[c][1] /\ p \in Path
  BY DEF TypeInv, FrameOK, FindParentNode
<1>3. PICK n \in FindParent(nodes, p) :
         \/ /\ n.id # 0
            /\ found' = [found EXCEPT ![c] = n]
            /\ Goto(c, "path")
            /\ UNCHANGED <<call, todo, ppath>>
         \/ Return(c)
         \/ /\ p # RootPath
            /\ todo' = [todo EXCEPT ![c] = <<Front(p)>> \o @]
            /\ UNCHANGED <<pc, call, found, ppath>>
         \/ /\ Goto(c, "dead")
            /\ UNCHANGED frame
  BY DEF FindParentNode
<1>4. n \in Snapshot /\ (n.id # 0 => p # RootPath)
  BY FindParentSnapshot DEF TypeInv, TablesOK
<1>5. CASE /\ n.id # 0
           /\ found' = [found EXCEPT ![c] = n]
           /\ Goto(c, "path")
           /\ UNCHANGED <<call, todo, ppath>>
  BY <1>1, <1>2, <1>4, <1>5 DEF TypeInv, FrameOK, Goto, Where
<1>6. CASE Return(c)
  BY <1>1, <1>6, ReturnFrame DEF TypeInv
<1>7. CASE /\ p # RootPath
           /\ todo' = [todo EXCEPT ![c] = <<Front(p)>> \o @]
           /\ UNCHANGED <<pc, call, found, ppath>>
  <2>1. Front(p) \in Path
    BY <1>2, <1>7, SubSeqProperties DEF Front, Path, RootPath
  <2> DEFINE t == <<Front(p)>> \o todo[c]
  <2>2. /\ t \in Seq(Path) /\ t # <<>> /\ Len(t) = Len(todo[c]) + 1
        /\ \A i \in 2 .. Len(t) : t[i] = todo[c][i - 1]
    BY <1>2, <2>1
  <2>3. \A i \in 2 .. Len(t) : t[i] # RootPath
    BY <1>2, <1>7, <2>2 DEF TypeInv, FrameOK
  <2> HIDE DEF t, p
  <2>4. todo' = [todo EXCEPT ![c] = t] /\ pc[c] = "parent"
    BY <1>7 DEF t, p, FindParentNode
  <2> QED
    BY <1>1, <1>7, <2>2, <2>3, <2>4 DEF TypeInv, FrameOK
<1>8. CASE /\ Goto(c, "dead")
           /\ UNCHANGED frame
  BY <1>1, <1>8 DEF TypeInv, FrameOK, Goto, Where, frame
<1> QED
  BY <1>3, <1>5, <1>6, <1>7, <1>8

LEMMA RefindParentNodeType ==
  ASSUME TypeInv, NEW c \in Client, RefindParentNode(c)
  PROVE  TypeInv'
<1>1. TablesOK' /\ ObjectsOK'
  BY SameTables, SameObjects DEF TypeInv, RefindParentNode
<1>2. PICK n \in FindParent(nodes, Head(todo[c])) : found' = [found EXCEPT ![c] = n]
  BY DEF RefindParentNode
<1>3. n \in Snapshot
  BY FindParentSnapshot DEF TypeInv, TablesOK
<1> DEFINE d == [call[c] EXCEPT !.kind = "dir"]
<1>4. d \in Call /\ call' = [call EXCEPT ![c] = d]
  <2>1. call[c] \in Call
    BY DEF TypeInv, FrameOK
  <2>2. d \in Call
    BY <2>1 DEF Call
  <2> QED
    BY <2>2 DEF RefindParentNode
<1> HIDE DEF d
<1>5. pc[c] = "refind" /\ Goto(c, "path") /\ UNCHANGED <<todo, ppath>>
  BY DEF RefindParentNode
<1> QED
  BY <1>1, <1>2, <1>3, <1>4, <1>5 DEF TypeInv, FrameOK, Goto, Where

LEMMA QueryPathType ==
  ASSUME TypeInv, NEW c \in Client, QueryPath(c)
  PROVE  TypeInv'
<1>1. TablesOK' /\ ObjectsOK'
  BY SameTables, SameObjects DEF TypeInv, QueryPath
<1>2. PICK p \in GetPath(nodes, found[c].id) : ppath' = [ppath EXCEPT ![c] = p]
  BY DEF QueryPath
<1>3. p \in Path
  BY GetPathPath DEF TypeInv, TablesOK
<1> QED
  BY <1>1, <1>2, <1>3 DEF QueryPath, TypeInv, FrameOK, Goto, Where

LEMMA InsertedPath ==
  ASSUME TypeInv, NEW c \in Client, pc[c] = "insert"
  PROVE  /\ todo[c] \in Seq(Path) /\ todo[c] # <<>>
         /\ Append(ppath[c], Last(Head(todo[c]))) \in Path
         /\ Append(ppath[c], Last(Head(todo[c]))) # RootPath
<1>1. todo[c] \in Seq(Path) /\ todo[c] # <<>> /\ ppath[c] \in Path /\ todo[c][1] # RootPath
  BY DEF TypeInv, FrameOK
<1>2. Head(todo[c]) \in Seq(Name) /\ Head(todo[c]) # <<>>
  BY <1>1 DEF Path, RootPath
<1>3. PICK n : n = Last(Head(todo[c]))
  OBVIOUS
<1>4. n \in Name
  BY <1>2, <1>3 DEF Last
<1>5. Append(ppath[c], n) \in Path /\ Append(ppath[c], n) # RootPath
  <2>1. PICK s \in Seq(Name) : s = ppath[c]
    BY <1>1 DEF Path
  <2>2. Append(s, n) \in Seq(Name) /\ Append(s, n) # <<>>
    <3>1. Append(s, n) \in Seq(Name)
      BY <1>4
    <3>2. Len(Append(s, n)) = Len(s) + 1 /\ Len(s) \in Nat
      BY <1>4
    <3> QED
      BY <3>1, <3>2
  <2> QED
    BY <2>1, <2>2 DEF Path, RootPath
<1> QED
  BY <1>1, <1>3, <1>5

LEMMA ExecInsertNodeType ==
  ASSUME TypeInv, NEW c \in Client, ExecInsertNode(c)
  PROVE  TypeInv'
<1> DEFINE h == Append(ppath[c], Last(Head(todo[c])))
           T == InsertNode(nodes, nextId, call[c].kind = "dir", found[c].lft, h)
<1>1. pc[c] = "insert" /\ attributes' = attributes /\ listing' = listing
  BY DEF ExecInsertNode
<1>2. todo[c] \in Seq(Path) /\ todo[c] # <<>> /\ h \in Path /\ h # RootPath
  BY <1>1, InsertedPath
<1>3. found[c].lft \in Nat /\ call[c].path \in Path
  BY DEF TypeInv, FrameOK, Snapshot, Call
<1>4. CASE nodes' = T /\ nextId' = nextId + 1
  <2>1. TablesOK'
    BY <1>1, <1>2, <1>3, <1>4, InsertTables DEF TypeInv
  <2>2. nodes' \in SUBSET Row
    BY <2>1 DEF TablesOK
  <2>3. CASE /\ \E s \in InsertedSnapshots(T, h) :
                   handle' = [handle EXCEPT ![c] =
                               [open |-> TRUE, path |-> call[c].path, node |-> s]]
             /\ Return(c)
    <3>1. PICK s \in InsertedSnapshots(T, h) :
            handle' = [handle EXCEPT ![c] = [open |-> TRUE, path |-> call[c].path, node |-> s]]
      BY <2>3
    <3>2. s \in Snapshot
      BY <1>4, <2>2, InsertedSnapshot, Zenon
    <3>3. [open |-> TRUE, path |-> call[c].path, node |-> s] \in Handle
      BY <1>3, <3>2 DEF Handle
    <3>4. ObjectsOK'
      BY <1>1, <3>1, <3>3 DEF TypeInv, ObjectsOK
    <3> QED
      BY <2>1, <2>3, <3>4, ReturnFrame DEF TypeInv
  <2>4. CASE /\ Len(todo[c]) > 1
             /\ todo' = [todo EXCEPT ![c] = Tail(@)]
             /\ Goto(c, "refind")
             /\ UNCHANGED <<handle, call, found, ppath>>
    <3> DEFINE t == Tail(todo[c])
    <3>1. /\ t \in Seq(Path) /\ t # <<>> /\ Len(t) = Len(todo[c]) - 1
          /\ \A i \in 1 .. Len(t) : t[i] = todo[c][i + 1]
      BY <1>2, <2>4, LongTail
    <3>2. \A i \in 1 .. Len(t) : t[i] # RootPath
      BY <1>2, <3>1 DEF TypeInv, FrameOK
    <3>3. ObjectsOK'
      BY <1>1, <2>4, SameObjects DEF TypeInv
    <3>4. todo' = [todo EXCEPT ![c] = t]
      BY <2>4
    <3> HIDE DEF t
    <3>5. t[1] # RootPath /\ \A i \in 2 .. Len(t) : t[i] # RootPath
      <4>1. Len(t) \in Nat /\ Len(t) # 0
        BY <3>1, EmptySeq
      <4>2. 1 \in 1 .. Len(t) /\ 2 .. Len(t) \subseteq 1 .. Len(t)
        BY <4>1
      <4> QED
        BY <3>2, <4>2
    <3>6. "refind" \in Where /\ pc' = [pc EXCEPT ![c] = "refind"]
      BY <2>4 DEF Goto, Where
    <3>7. FrameOK'
      <4>1. pc' \in [Client -> Where] /\ todo' \in [Client -> Seq(Path)] /\ UNCHANGED <<call, found, ppath>>
        BY <2>4, <3>1, <3>4, <3>6 DEF TypeInv, FrameOK
      <4>2. pc'[c] = "refind" /\ todo'[c] = t
        BY <3>4, <3>6 DEF TypeInv, FrameOK
      <4>3. \A d \in Client \ {c} : pc'[d] = pc[d] /\ todo'[d] = todo[d]
        BY <3>4, <3>6 DEF TypeInv, FrameOK
      <4>4. ASSUME NEW d \in Client
            PROVE  /\ pc'[d] \in {"parent", "refind", "path", "insert"} => todo'[d] # <<>>
                   /\ pc'[d] \in {"refind", "path", "insert"} => todo'[d][1] # RootPath
                   /\ \A i \in 2 .. Len(todo'[d]) : todo'[d][i] # RootPath
                   /\ pc'[d] = "vector" => call'[d].values # <<>>
        <5>1. CASE d = c
          BY <3>1, <3>5, <4>2, <5>1
        <5>2. CASE d # c
          BY <4>1, <4>3, <5>2 DEF TypeInv, FrameOK
        <5> QED
          BY <5>1, <5>2
      <4>5. call' \in [Client -> Call] /\ found' \in [Client -> Snapshot] /\ ppath' \in [Client -> Path]
        BY <4>1 DEF TypeInv, FrameOK
      <4> QED
        BY <4>1, <4>4, <4>5 DEF FrameOK
    <3> QED
      BY <2>1, <3>3, <3>7 DEF TypeInv
  <2> QED
    BY <1>4, <2>3, <2>4 DEF ExecInsertNode
<1>5. CASE Return(c) /\ UNCHANGED <<nodes, nextId, handle>>
  BY <1>1, <1>5, ReturnFrame, SameObjects, SameTables DEF TypeInv, tables
<1> QED
  BY <1>4, <1>5 DEF ExecInsertNode

(* The attribute calls. *)
LEMMA AttributeSteps ==
  ASSUME TypeInv, NEW id \in Nat, NEW k \in Key, NEW v \in Value
  PROVE  /\ SetScalar(attributes, id, k, v) \in SUBSET Attribute
         /\ AddVectorValue(attributes, id, k, v) \in SUBSET Attribute
         /\ DropAttribute(attributes, id, k) \in SUBSET Attribute
<1>1. attributes \in SUBSET Attribute
  BY DEF TypeInv, TablesOK
<1>2. \A a \in Attribute : [a EXCEPT !.value = v] \in Attribute
  BY DEF Attribute
<1>3. \A b \in BOOLEAN : [node_id |-> id, key |-> k, value |-> v, is_vector |-> b] \in Attribute
  BY DEF Attribute
<1> QED
  BY <1>1, <1>2, <1>3 DEF SetScalar, AddVectorValue, DropAttribute, AttrRows

LEMMA HandleNode ==
  ASSUME TypeInv, NEW c \in Client
  PROVE  handle[c].node \in Snapshot /\ handle[c].node.id \in Nat
  BY DEF TypeInv, ObjectsOK, Handle, Snapshot

LEMMA SetAttributeType ==
  ASSUME TypeInv, NEW c \in Client, NEW k \in Key, NEW v \in Value, SetAttribute(c, k, v)
  PROVE  TypeInv'
<1>1. TablesOK'
  BY HandleNode, AttributeSteps DEF SetAttribute, TypeInv, TablesOK
<1> QED
  BY <1>1, SameObjects, SameFrame DEF SetAttribute, TypeInv

LEMMA RemoveAttributeType ==
  ASSUME TypeInv, NEW c \in Client, NEW k \in Key, RemoveAttribute(c, k)
  PROVE  TypeInv'
<1>1. attributes' \subseteq attributes
  BY DEF RemoveAttribute, DropAttribute
<1>2. TablesOK'
  BY <1>1 DEF RemoveAttribute, TypeInv, TablesOK
<1> QED
  BY <1>2, SameObjects, SameFrame DEF RemoveAttribute, TypeInv

LEMMA SetVectorAttributeType ==
  ASSUME TypeInv, NEW c \in Client, NEW k \in Key, NEW v \in Value, NEW w \in Value,
         SetVectorAttribute(c, k, <<v, w>>)
  PROVE  TypeInv'
<1>1. TablesOK' /\ ObjectsOK'
  BY SameTables, SameObjects DEF TypeInv, SetVectorAttribute
<1> DEFINE vs == <<v, w>>
           d  == [NoCall EXCEPT !.key = k, !.values = vs]
<1>2. vs \in Seq(Value) /\ vs # <<>>
  OBVIOUS
<1> HIDE DEF vs
<1>3. d \in Call /\ d.values = vs /\ call' = [call EXCEPT ![c] = d]
  BY <1>2, NoCallCall DEF Call, SetVectorAttribute, vs
<1> HIDE DEF d
<1>4. pc[c] = "idle"
  BY DEF SetVectorAttribute, IsOpen, Idle
<1> QED
  BY <1>1, <1>2, <1>3, <1>4 DEF SetVectorAttribute, TypeInv, FrameOK, Goto, Where

LEMMA ExecVectorValueType ==
  ASSUME TypeInv, NEW c \in Client, ExecVectorValue(c)
  PROVE  TypeInv'
<1> DEFINE vs == call[c].values
<1>1. /\ vs \in Seq(Value) /\ vs # <<>> /\ call[c].key \in Key
  BY DEF TypeInv, FrameOK, Call, ExecVectorValue
<1>2. TablesOK'
  <2>1. Head(vs) \in Value
    BY <1>1
  <2> QED
    BY <1>1, <2>1, HandleNode, AttributeSteps DEF ExecVectorValue, TypeInv, TablesOK
<1>3. ObjectsOK'
  BY SameObjects DEF ExecVectorValue, TypeInv
<1>4. CASE Return(c)
  BY <1>2, <1>3, <1>4, ReturnFrame DEF TypeInv
<1>5. CASE /\ Len(vs) > 1
           /\ call' = [call EXCEPT ![c].values = Tail(@)]
           /\ UNCHANGED <<pc, todo, found, ppath>>
  <2> DEFINE d == [call[c] EXCEPT !.values = Tail(vs)]
  <2>1. Tail(vs) \in Seq(Value) /\ Tail(vs) # <<>>
    BY <1>1, <1>5, LongTail
  <2>2. call[c] \in Call
    BY DEF TypeInv, FrameOK
  <2>3. d \in Call /\ d.values = Tail(vs) /\ call' = [call EXCEPT ![c] = d]
    BY <1>5, <2>1, <2>2 DEF Call
  <2> HIDE DEF d
  <2>4. FrameOK'
    BY <1>5, <2>1, <2>3 DEF TypeInv, FrameOK
  <2> QED
    BY <1>2, <1>3, <2>4 DEF TypeInv
<1> QED
  BY <1>4, <1>5 DEF ExecVectorValue

LEMMA ListType ==
  ASSUME TypeInv, NEW c \in Client, List(c)
  PROVE  TypeInv'
<1>1. TablesOK'
  BY SameTables DEF TypeInv, List
<1>2. ObjectsOK'
  BY DEF TypeInv, ObjectsOK, List
<1> DEFINE n == Depth(nodes, handle[c].node.id)
           d == [NoCall EXCEPT !.depth = n]
<1>3. n \in Nat
  <2> DEFINE up == Ancestors(nodes, handle[c].node.id)
  <2>1. up \subseteq nodes
    BY DEF Ancestors
  <2>2. Cardinality(up) \in Nat /\ (up # {} => Cardinality(up) # 0)
    BY <2>1, FS_Subset, FS_CardinalityType, FS_EmptySet DEF TypeInv, TablesOK
  <2> HIDE DEF up
  <2>3. n = IF up = {} THEN 0 ELSE Cardinality(up) - 1
    BY DEF Depth, up
  <2> QED
    BY <2>2, <2>3
<1> HIDE DEF n
<1>4. d \in Call /\ call' = [call EXCEPT ![c] = d]
  BY <1>3, NoCallCall DEF Call, List, n
<1> HIDE DEF d
<1>5. pc[c] = "idle" /\ Goto(c, "children") /\ UNCHANGED <<todo, found, ppath>>
  BY DEF List, IsOpen, Idle
<1>6. FrameOK'
  BY <1>4, <1>5 DEF TypeInv, FrameOK, Goto, Where
<1> QED
  BY <1>1, <1>2, <1>6 DEF TypeInv

LEMMA SelectChildrenType ==
  ASSUME TypeInv, NEW c \in Client, SelectChildren(c)
  PROVE  TypeInv'
<1>1. TablesOK' /\ FrameOK'
  BY SameTables, ReturnFrame DEF TypeInv, SelectChildren
<1> DEFINE S == {n.id : n \in ChildNodes(nodes, handle[c].node.id, call[c].depth)}
<1>2. S \subseteq Nat
  BY DEF ChildNodes, TypeInv, TablesOK, Row
<1>3. listing' = [listing EXCEPT ![c] = S] /\ handle' = handle
  BY DEF SelectChildren
<1> HIDE DEF S
<1>4. ObjectsOK'
  BY <1>2, <1>3 DEF TypeInv, ObjectsOK
<1> QED
  BY <1>1, <1>4 DEF TypeInv

LEMMA ChangeDirType ==
  ASSUME TypeInv, NEW c \in Client, NEW p \in Target, ChangeDir(c, p)
  PROVE  TypeInv'
<1>1. TablesOK' /\ FrameOK'
  BY SameTables, SameFrame DEF TypeInv, ChangeDir
<1>2. PICK n \in FindNode(nodes, p) : handle' = [handle EXCEPT ![c].node = n]
  BY DEF ChangeDir
<1>3. n \in Snapshot
  BY FindNodeSnapshot DEF TypeInv, TablesOK
<1> DEFINE d == [handle[c] EXCEPT !.node = n]
<1>4. d \in Handle /\ handle' = [handle EXCEPT ![c] = d]
  BY <1>2, <1>3 DEF TypeInv, ObjectsOK, Handle
<1> HIDE DEF d
<1>5. ObjectsOK'
  BY <1>4 DEF TypeInv, ObjectsOK, ChangeDir
<1> QED
  BY <1>1, <1>5 DEF TypeInv

LEMMA RemoveEntryType ==
  ASSUME TypeInv, NEW c \in Client, NEW p \in Target, NEW r \in BOOLEAN, RemoveEntry(c, p, r)
  PROVE  TypeInv'
<1>1. TablesOK' /\ ObjectsOK'
  BY SameTables, SameObjects DEF TypeInv, RemoveEntry
<1>2. PICK n \in FindNode(nodes, p) : found' = [found EXCEPT ![c] = n]
  BY DEF RemoveEntry
<1>3. n \in Snapshot
  BY FindNodeSnapshot DEF TypeInv, TablesOK
<1>4. FrameOK'
  BY <1>2, <1>3 DEF TypeInv, FrameOK, RemoveEntry, IsOpen, Idle, Goto, Where
<1> QED
  BY <1>1, <1>4 DEF TypeInv

LEMMA ExecRemoveNodeType ==
  ASSUME TypeInv, NEW c \in Client, ExecRemoveNode(c)
  PROVE  TypeInv'
<1>1. found[c] \in Snapshot
  BY DEF TypeInv, FrameOK
<1> QED
  BY <1>1, RemoveTables, ReturnFrame, SameObjects DEF TypeInv, ExecRemoveNode

LEMMA RemoveSelfType ==
  ASSUME TypeInv, NEW c \in Client, RemoveSelf(c)
  PROVE  TypeInv'
  BY HandleNode, RemoveTables, SameFrame, SameObjects DEF TypeInv, RemoveSelf

LEMMA DatabaseErrorType ==
  ASSUME TypeInv, NEW c \in Client, DatabaseError(c)
  PROVE  TypeInv'
  BY ReturnFrame, SameTables, SameObjects DEF TypeInv, DatabaseError

LEMMA InitType == Init => TypeInv
<1> SUFFICES ASSUME Init PROVE TypeInv
  OBVIOUS
<1>1. RootRow \in Row /\ RootRow.id = RootId /\ RootRow.hash = RootPath
  BY DEF RootRow, Row, RootId, RootPath, Path
<1>2. TablesOK
  <2>1. IsFiniteSet({RootRow})
    BY FS_Singleton
  <2>2. UniqueIds({RootRow})
    BY DEF UniqueIds
  <2> QED
    BY <1>1, <2>1, <2>2 DEF Init, TablesOK, RootId
<1>3. ObjectsOK
  BY NoHandleHandle DEF Init, ObjectsOK
<1>4. RootPath \in Path /\ <<>> \in Seq(Path)
  BY DEF RootPath, Path
<1>5. FrameOK
  BY <1>4, NoCallCall, NoNodeSnapshot DEF Init, FrameOK, Where
<1> QED
  BY <1>2, <1>3, <1>5 DEF TypeInv

LEMMA NextType == TypeInv /\ [Next]_vars => TypeInv'
<1> SUFFICES ASSUME TypeInv, [Next]_vars PROVE TypeInv'
  OBVIOUS
<1>1. ASSUME NEW c \in Client, NEW k \in {"dir", "entry"}, NEW m \in Mode, NEW p \in Target,
             Open(c, k, m, p)
      PROVE  TypeInv'
  BY <1>1, OpenType
<1>2. ASSUME NEW c \in Client, NEW k \in Key, NEW v \in Value, NEW w \in Value,
             SetAttribute(c, k, v) \/ SetVectorAttribute(c, k, <<v, w>>) \/ RemoveAttribute(c, k)
      PROVE  TypeInv'
  BY <1>2, SetAttributeType, SetVectorAttributeType, RemoveAttributeType
<1>3. ASSUME NEW c \in Client, NEW k \in Key, RemoveAttribute(c, k)
      PROVE  TypeInv'
  BY <1>3, RemoveAttributeType
<1>4. ASSUME NEW c \in Client, NEW p \in Target, NEW r \in BOOLEAN,
             ChangeDir(c, p) \/ RemoveEntry(c, p, r)
      PROVE  TypeInv'
  BY <1>4, ChangeDirType, RemoveEntryType
<1>5. ASSUME NEW c \in Client, List(c) \/ RemoveSelf(c) \/ DatabaseError(c)
      PROVE  TypeInv'
  BY <1>5, ListType, RemoveSelfType, DatabaseErrorType
<1>6. ASSUME NEW c \in Client, Continue(c)
      PROVE  TypeInv'
  BY <1>6, FindParentNodeType, RefindParentNodeType, QueryPathType, ExecInsertNodeType,
     ExecVectorValueType, SelectChildrenType, ExecRemoveNodeType DEF Continue
<1>7. CASE UNCHANGED vars
  <2>1. UNCHANGED tables /\ UNCHANGED <<pc, frame>> /\ UNCHANGED <<handle, listing>>
    BY <1>7 DEF vars, tables, frame
  <2> QED
    BY <2>1, SameTables, SameFrame, SameObjects DEF TypeInv
<1> QED
  BY <1>1, <1>2, <1>3, <1>4, <1>5, <1>6, <1>7 DEF Next

LEMMA TypeInvariant == Spec => []TypeInv
  BY InitType, NextType, PTL DEF Spec

(* Every variable keeps the type its column or member has: in particular the *)
(* misread columns of insert_node, the shifts of the bounds and get_path on  *)
(* a table in any state never leave it.                                      *)
THEOREM TypeCorrect == Spec => []TypeOK
<1> QED
  BY TypeInvariant, TypeInvImpliesTypeOK, PTL

-----------------------------------------------------------------------------
(***************************************************************************)
(* Nesting.                                                                *)
(***************************************************************************)

(* The row found before a removal is still as it was. *)
FreshFound ==
  \A c \in Client :
    pc[c] = "remove" =>
      "remove_entry" \in Ops /\ \E n \in nodes : SnapshotOf(n) = found[c]

NestInv == NestedSets(nodes) /\ FreshFound

(* remove_node given the bounds of a row takes that row and what is inside. *)
LEMMA DoomedSubtree ==
  ASSUME NEW T \in SUBSET Row, NestedSets(T), UniqueIds(T), NEW n \in T
  PROVE  \A m \in T : m \in Doomed(T, n.lft, n.rgt) <=> (m = n \/ Inside(m, n))
<1> SUFFICES ASSUME NEW m \in T
             PROVE  m \in Doomed(T, n.lft, n.rgt) <=> (m = n \/ Inside(m, n))
  OBVIOUS
<1>1. /\ m.lft \in Nat /\ m.rgt \in Nat /\ n.lft \in Nat /\ n.rgt \in Nat
      /\ m.lft < m.rgt /\ n.lft < n.rgt
  BY DEF Row, NestedSets
<1>2. m = n \/ Inside(m, n) \/ Inside(n, m) \/ Disjoint(m, n)
  BY DEF NestedSets, UniqueIds
<1> QED
  BY <1>1, <1>2 DEF Doomed, Inside, Disjoint

(* Such a removal leaves nested sets. *)
LEMMA RemoveKeepsNesting ==
  ASSUME NEW T \in SUBSET Row, NestedSets(T), UniqueIds(T), NEW k \in T
  PROVE  NestedSets(RemoveNode(T, k.lft, k.rgt))
<1> DEFINE l == k.lft
           r == k.rgt
           S == T \ Doomed(T, l, r)
           U == RemoveNode(T, l, r)
<1>1. /\ l \in Nat /\ r \in Nat /\ l < r
      /\ \A n \in T : n.lft \in Nat /\ n.rgt \in Nat /\ n.lft < n.rgt
  BY DEF Row, NestedSets
<1>2. ASSUME NEW n \in S
      PROVE  n \in T /\ (Inside(k, n) \/ Disjoint(n, k))
  BY <1>2, DoomedSubtree DEF NestedSets, UniqueIds, Disjoint
<1>3. ASSUME NEW u \in U
      PROVE  \E n \in S : /\ u.id = n.id
                          /\ u.lft = IF n.lft > r THEN n.lft - (r - l + 1) ELSE n.lft
                          /\ u.rgt = IF n.rgt > r THEN n.rgt - (r - l + 1) ELSE n.rgt
  BY <1>1, CloseGapRow DEF RemoveNode
<1> HIDE DEF S, U, l, r
<1>4. ASSUME NEW u \in U
      PROVE  u.lft < u.rgt
  BY <1>1, <1>2, <1>3 DEF Inside, Disjoint, l, r
<1>5. ASSUME NEW u \in U, NEW v \in U, u.id # v.id
      PROVE  Inside(u, v) \/ Inside(v, u) \/ Disjoint(u, v)
  <2>1. PICK m \in S : /\ u.id = m.id
                       /\ u.lft = IF m.lft > r THEN m.lft - (r - l + 1) ELSE m.lft
                       /\ u.rgt = IF m.rgt > r THEN m.rgt - (r - l + 1) ELSE m.rgt
    BY <1>3
  <2>2. PICK n \in S : /\ v.id = n.id
                       /\ v.lft = IF n.lft > r THEN n.lft - (r - l + 1) ELSE n.lft
                       /\ v.rgt = IF n.rgt > r THEN n.rgt - (r - l + 1) ELSE n.rgt
    BY <1>3
  <2>3. Inside(m, n) \/ Inside(n, m) \/ Disjoint(m, n)
    BY <1>2, <1>5, <2>1, <2>2 DEF NestedSets
  <2>4. /\ Inside(k, m) \/ Disjoint(m, k)
        /\ Inside(k, n) \/ Disjoint(n, k)
        /\ m \in T /\ n \in T
    BY <1>2
  <2> QED
    BY <1>1, <2>1, <2>2, <2>3, <2>4 DEF Inside, Disjoint, l, r
<1> QED
  BY <1>4, <1>5 DEF NestedSets, U, l, r

(* Steps that leave the table alone and start no removal. *)
LEMMA NestFrame ==
  ASSUME NestInv, FrameOK, nodes' = nodes, NEW c \in Client,
         \A d \in Client : pc'[d] = "remove" => pc[d] = "remove" /\ found'[d] = found[d]
  PROVE  NestInv'
  BY DEF NestInv, FreshFound

LEMMA ReturnNest ==
  ASSUME FrameOK, NEW c \in Client, Return(c)
  PROVE  \A d \in Client :
           pc'[d] = "remove" => d # c /\ pc[d] = "remove" /\ found'[d] = found[d]
  BY DEF FrameOK, Return, Goto

(* As long as nobody removes, or one client has the database to itself and *)
(* never removes an object through itself.                                  *)
Careful ==
  /\ "remove_self" \notin Ops
  /\ "remove_entry" \in Ops => \A c, d \in Client : c = d

LEMMA ExecInsertNest ==
  ASSUME Careful, TypeInv, NestInv, NEW c \in Client, ExecInsertNode(c)
  PROVE  NestInv'
<1> DEFINE h == Append(ppath[c], Last(Head(todo[c])))
           l == found[c].lft
           b == call[c].kind = "dir"
<1>1. pc[c] = "insert" /\ h \in Path
  BY InsertedPath DEF ExecInsertNode
<1>2. l \in Nat
  BY DEF TypeInv, FrameOK, Snapshot
<1>6. b \in BOOLEAN
  OBVIOUS
<1>3. NestedSets(nodes')
  <2>1. CASE nodes' = nodes
    BY <2>1 DEF NestInv
  <2>2. CASE nodes' = InsertNode(nodes, nextId, b, l, h)
    <3> HIDE DEF b, l, h
    <3>1. /\ nodes \in SUBSET Row /\ NestedSets(nodes) /\ UniqueIds(nodes)
          /\ nextId \in Nat /\ \A n \in nodes : n.id # nextId
      BY DEF TypeInv, TablesOK, NestInv, Row
    <3> QED
      BY <1>1, <1>2, <1>6, <2>2, <3>1, InsertKeepsNesting
  <2> QED
    BY <2>1, <2>2 DEF ExecInsertNode
<1>4. \A d \in Client : pc'[d] = "remove" => d # c /\ pc[d] = "remove"
  BY <1>1, ReturnNest DEF ExecInsertNode, TypeInv, FrameOK, Goto
<1>5. FreshFound'
  BY <1>4 DEF FreshFound, NestInv, Careful
<1> QED
  BY <1>3, <1>5 DEF NestInv

LEMMA ExecRemoveNest ==
  ASSUME Careful, TypeInv, NestInv, NEW c \in Client, ExecRemoveNode(c)
  PROVE  NestInv'
<1>1. PICK n \in nodes : SnapshotOf(n) = found[c]
  BY DEF ExecRemoveNode, NestInv, FreshFound
<1>2. nodes' = RemoveNode(nodes, n.lft, n.rgt)
  BY <1>1 DEF ExecRemoveNode, RemoveRows, SnapshotOf
<1>3. NestedSets(nodes')
  BY <1>2, RemoveKeepsNesting DEF NestInv, TypeInv, TablesOK
<1>4. FreshFound'
  BY ReturnNest DEF ExecRemoveNode, NestInv, FreshFound, Careful, TypeInv
<1> QED
  BY <1>3, <1>4 DEF NestInv

LEMMA RemoveEntryNest ==
  ASSUME TypeInv, NestInv, NEW c \in Client, NEW p, NEW r, RemoveEntry(c, p, r)
  PROVE  NestInv'
<1>1. PICK n \in FindNode(nodes, p) : n.id # 0 /\ found' = [found EXCEPT ![c] = n]
  BY NoNodeSnapshot DEF RemoveEntry
<1>2. \E m \in nodes : SnapshotOf(m) = n
  BY <1>1, NoNodeSnapshot DEF FindNode, RowsAt
<1>3. nodes' = nodes /\ "remove_entry" \in Ops
  BY DEF RemoveEntry, tables
<1>4. pc' = [pc EXCEPT ![c] = "remove"]
  BY DEF RemoveEntry, Goto
<1> QED
  BY <1>1, <1>2, <1>3, <1>4 DEF NestInv, FreshFound, TypeInv, FrameOK

LEMMA OtherNest ==
  ASSUME TypeInv, NestInv, NEW c \in Client,
         \/ \E k \in {"dir", "entry"}, m \in Mode, p \in Target : Open(c, k, m, p)
         \/ \E k \in Key, v \in Value : SetAttribute(c, k, v)
         \/ \E k \in Key, v, w \in Value : SetVectorAttribute(c, k, <<v, w>>)
         \/ \E k \in Key : RemoveAttribute(c, k)
         \/ List(c)
         \/ \E p \in Target : ChangeDir(c, p)
         \/ FindParentNode(c)
         \/ RefindParentNode(c)
         \/ QueryPath(c)
         \/ ExecVectorValue(c)
         \/ SelectChildren(c)
         \/ DatabaseError(c)
  PROVE  NestInv'
<1>1. nodes' = nodes
  BY DEF Open, SetAttribute, SetVectorAttribute, RemoveAttribute, List, ChangeDir,
     FindParentNode, RefindParentNode, QueryPath, ExecVectorValue, SelectChildren,
     DatabaseError, tables
<1>2. FrameOK
  BY DEF TypeInv
<1> DEFINE Kept == \A d \in Client : pc'[d] = "remove" => pc[d] = "remove" /\ found'[d] = found[d]
<1>3. CASE Return(c)
  BY <1>1, <1>2, <1>3, ReturnNest, NestFrame
<1>4. CASE UNCHANGED <<pc, found>>
  BY <1>1, <1>2, <1>4, NestFrame
<1>5. CASE \E w \in Where \ {"remove"} : Goto(c, w) /\ \A d \in Client : d # c => found'[d] = found[d]
  BY <1>1, <1>2, <1>5, NestFrame DEF Goto, FrameOK
<1>6. Return(c) \/ UNCHANGED <<pc, found>>
        \/ \E w \in Where \ {"remove"} : Goto(c, w) /\ \A d \in Client : d # c => found'[d] = found[d]
  <2>1. ASSUME NEW k, NEW m, NEW p, Open(c, k, m, p)
        PROVE  UNCHANGED <<pc, found>> \/ (Goto(c, "parent") /\ UNCHANGED found)
    BY <2>1 DEF Open, frame
  <2>2. ASSUME NEW k, NEW v, NEW w,
               SetAttribute(c, k, v) \/ RemoveAttribute(c, k) \/ ChangeDir(c, k)
        PROVE  UNCHANGED <<pc, found>>
    BY <2>2 DEF SetAttribute, RemoveAttribute, ChangeDir, frame
  <2>3. ASSUME NEW k, NEW vs, SetVectorAttribute(c, k, vs)
        PROVE  Goto(c, "vector") /\ UNCHANGED found
    BY <2>3 DEF SetVectorAttribute
  <2>4. CASE List(c)
    BY <2>4 DEF List, Where
  <2>5. CASE FindParentNode(c)
    BY <1>2, <2>5 DEF FindParentNode, FrameOK, Where, frame
  <2>6. CASE RefindParentNode(c) \/ QueryPath(c)
    BY <1>2, <2>6 DEF RefindParentNode, QueryPath, FrameOK, Where
  <2>7. CASE ExecVectorValue(c) \/ SelectChildren(c) \/ DatabaseError(c)
    BY <2>7 DEF ExecVectorValue, SelectChildren, DatabaseError
  <2> QED
    BY <2>1, <2>2, <2>3, <2>4, <2>5, <2>6, <2>7 DEF Where
<1> QED
  BY <1>3, <1>4, <1>5, <1>6

LEMMA NextNest == Careful /\ TypeInv /\ NestInv /\ [Next]_vars => NestInv'
<1> SUFFICES ASSUME Careful, TypeInv, NestInv, [Next]_vars PROVE NestInv'
  OBVIOUS
<1>1. ASSUME NEW c \in Client, RemoveSelf(c)
      PROVE  NestInv'
  BY <1>1 DEF RemoveSelf, Careful
<1>2. CASE UNCHANGED vars
  BY <1>2 DEF vars, NestInv, FreshFound
<1> QED
  BY <1>1, <1>2, ExecInsertNest, ExecRemoveNest, RemoveEntryNest, OtherNest DEF Next, Continue

(* The intervals never overlap, however many clients insert with bounds they *)
(* read before others moved the rows; and a single client may also remove.   *)
THEOREM NestingCorrect ==
  ASSUME Careful
  PROVE  Spec => []WellNested
<1>1. Init => NestInv
  BY DEF Init, NestInv, FreshFound, NestedSets, RootRow
<1>2. TypeInv /\ NestInv /\ [Next]_vars => NestInv'
  BY NextNest
<1>3. NestInv => WellNested
  BY DEF NestInv, WellNested
<1> QED
  BY <1>1, <1>2, <1>3, TypeInvariant, PTL DEF Spec

(* The only steps that change the nodes table. *)
LEMMA NodesSteps ==
  [Next]_vars =>
    nodes' = nodes \/ \E c \in Client : ExecInsertNode(c) \/ ExecRemoveNode(c) \/ RemoveSelf(c)
<1> SUFFICES ASSUME Next, ~ \E c \in Client : ExecInsertNode(c) \/ ExecRemoveNode(c) \/ RemoveSelf(c)
             PROVE  nodes' = nodes
  BY DEF vars
<1>1. ASSUME NEW c \in Client, Continue(c)
      PROVE  nodes' = nodes
  BY <1>1 DEF Continue, FindParentNode, RefindParentNode, QueryPath, ExecVectorValue,
              SelectChildren, tables
<1>2. ASSUME NEW c \in Client,
             \/ \E k \in {"dir", "entry"}, m \in Mode, p \in Target : Open(c, k, m, p)
             \/ \E k \in Key, v \in Value : SetAttribute(c, k, v)
             \/ \E k \in Key, v, w \in Value : SetVectorAttribute(c, k, <<v, w>>)
             \/ \E k \in Key : RemoveAttribute(c, k)
      PROVE  nodes' = nodes
  BY <1>2 DEF Open, SetAttribute, SetVectorAttribute, RemoveAttribute, DatabaseError, tables
<1>3. ASSUME NEW c \in Client,
             \/ List(c)
             \/ \E p \in Target : ChangeDir(c, p)
             \/ \E p \in Target, r \in BOOLEAN : RemoveEntry(c, p, r)
      PROVE  nodes' = nodes
  BY <1>3 DEF List, ChangeDir, RemoveEntry, DatabaseError, tables
<1>4. ASSUME NEW c \in Client, DatabaseError(c)
      PROVE  nodes' = nodes
  BY <1>4 DEF DatabaseError, tables
<1> QED
  BY <1>1, <1>2, <1>3, <1>4 DEF Next

LEMMA OpenGapCovers ==
  ASSUME NEW l \in Nat, NEW m \in Row, NEW n \in Row
  PROVE  Covers(m, n) <=> Covers(OpenGap(m, l), OpenGap(n, l))
<1>1. m.lft \in Nat /\ m.rgt \in Nat /\ n.lft \in Nat
  BY DEF Row
<1>2. /\ OpenGap(m, l).lft = IF m.lft > l THEN m.lft + 2 ELSE m.lft
      /\ OpenGap(m, l).rgt = IF m.rgt > l THEN m.rgt + 2 ELSE m.rgt
      /\ OpenGap(n, l).lft = IF n.lft > l THEN n.lft + 2 ELSE n.lft
  BY OpenGapRow
<1> QED
  BY <1>1, <1>2 DEF Covers

(* Inserting never changes which existing row the queries find below which. *)
LEMMA InsertKeepsCovers ==
  ASSUME NEW T \in SUBSET Row, UniqueIds(T), NEW id, \A n \in T : n.id # id,
         NEW dir, NEW l \in Nat, NEW h,
         NEW m \in T, NEW n \in T,
         NEW p \in InsertNode(T, id, dir, l, h), NEW q \in InsertNode(T, id, dir, l, h),
         m.id = p.id, n.id = q.id
  PROVE  Covers(m, n) <=> Covers(p, q)
<1>1. ASSUME NEW u \in InsertNode(T, id, dir, l, h), NEW v \in T, u.id = v.id
      PROVE  u = OpenGap(v, l)
  <2>1. PICK w \in T : u = OpenGap(w, l)
    BY <1>1 DEF InsertNode
  <2>2. w = v
    BY <1>1, <2>1, OpenGapRow DEF UniqueIds
  <2> QED
    BY <2>1, <2>2
<1> QED
  BY <1>1, OpenGapCovers

(* While nobody removes, a row once below another stays below it, and a row *)
(* that is not below another never gets there.                              *)
THEOREM NestingPreserved ==
  ASSUME "remove_entry" \notin Ops, "remove_self" \notin Ops
  PROVE  Spec => NestingKept
<1>1. Careful
  BY DEF Careful
<1>2. Init => NestInv
  BY DEF Init, NestInv, FreshFound, NestedSets, RootRow
<1>3. TypeInv /\ NestInv /\ [Next]_vars => NestInv'
  BY <1>1, NextNest
<1>4. TypeInv /\ NestInv /\ [Next]_vars =>
        [\A m, n \in nodes, p, q \in nodes' :
           m.id = p.id /\ n.id = q.id => (Covers(m, n) <=> Covers(p, q))]_nodes
  <2> SUFFICES ASSUME TypeInv, NestInv, [Next]_vars, nodes' # nodes,
                      NEW m \in nodes, NEW n \in nodes, NEW p \in nodes', NEW q \in nodes',
                      m.id = p.id, n.id = q.id
               PROVE  Covers(m, n) <=> Covers(p, q)
    OBVIOUS
  <2>1. PICK c \in Client : ExecInsertNode(c)
    BY NodesSteps DEF RemoveSelf, ExecRemoveNode, NestInv, FreshFound
  <2> DEFINE h == Append(ppath[c], Last(Head(todo[c])))
             l == found[c].lft
             b == call[c].kind = "dir"
  <2>2. nodes' = InsertNode(nodes, nextId, b, l, h) /\ l \in Nat
    BY <2>1 DEF ExecInsertNode, TypeInv, FrameOK, Snapshot
  <2> HIDE DEF b, l, h
  <2>3. /\ nodes \in SUBSET Row /\ UniqueIds(nodes)
        /\ \A x \in nodes : x.id # nextId
    BY DEF TypeInv, TablesOK, Row
  <2> QED
    BY <2>2, <2>3, InsertKeepsCovers
<1> QED
  BY <1>2, <1>3, <1>4, TypeInvariant, PTL DEF Spec, NestingKept

(* A removal whose bounds are still those of a row of nested sets takes that *)
(* row with what lies inside it and nothing else, and leaves nested sets.    *)
THEOREM FreshRemoval == Spec => FreshRemovalIsExact
<1>1. TypeInv /\ [Next]_vars =>
        [\A c \in Client :
           /\ ExecRemoveNode(c)
           /\ \E n \in nodes : SnapshotOf(n) = found[c]
           /\ NestedSets(nodes)
           => Gone = Subtree(found[c].id) /\ NestedSets(nodes')]_vars
  <2> SUFFICES ASSUME TypeInv, NEW c \in Client, ExecRemoveNode(c), NestedSets(nodes),
                      NEW k \in nodes, SnapshotOf(k) = found[c]
               PROVE  Gone = Subtree(found[c].id) /\ NestedSets(nodes')
    OBVIOUS
  <2>1. nodes \in SUBSET Row /\ UniqueIds(nodes)
    BY DEF TypeInv, TablesOK
  <2>2. nodes' = RemoveNode(nodes, k.lft, k.rgt) /\ found[c].id = k.id
    BY DEF ExecRemoveNode, RemoveRows, SnapshotOf
  <2>3. NestedSets(nodes')
    BY <2>1, <2>2, RemoveKeepsNesting
  <2>4. \A m \in nodes : m \in Doomed(nodes, k.lft, k.rgt) <=> m = k \/ Inside(m, k)
    BY <2>1, DoomedSubtree
  <2>5. ASSUME NEW n \in nodes
        PROVE  n \in Gone <=> n \in Doomed(nodes, k.lft, k.rgt)
    <3>1. k.lft \in Nat /\ k.rgt \in Nat
      BY <2>1 DEF Row
    <3>2. \A x \in nodes : CloseGap(x, k.lft, k.rgt).id = x.id
      BY <2>1, <3>1, CloseGapRow
    <3> QED
      BY <2>1, <2>2, <3>2 DEF Gone, RemoveNode, UniqueIds
  <2>6. Gone \subseteq nodes /\ Subtree(k.id) \subseteq nodes
    BY DEF Gone, Subtree
  <2>7. \A n \in nodes : n \in Subtree(k.id) <=> n = k \/ Inside(n, k)
    BY <2>1 DEF Subtree, UniqueIds
  <2> QED
    BY <2>2, <2>3, <2>4, <2>5, <2>6, <2>7
<1> QED
  BY <1>1, TypeInvariant, PTL DEF Spec, FreshRemovalIsExact

-----------------------------------------------------------------------------
(***************************************************************************)
(* Attributes.                                                             *)
(***************************************************************************)

OneScalar(A) ==
  \A a, b \in A :
    a.node_id = b.node_id /\ a.key = b.key /\ ~a.is_vector /\ ~b.is_vector => a = b

LEMMA OneScalarSubset ==
  ASSUME NEW A, NEW B \in SUBSET A, OneScalar(A)
  PROVE  OneScalar(B)
  BY DEF OneScalar

LEMMA OneScalarSet ==
  ASSUME NEW A \in SUBSET Attribute, OneScalar(A), NEW id, NEW k, NEW v
  PROVE  OneScalar(SetScalar(A, id, k, v)) /\ OneScalar(AddVectorValue(A, id, k, v))
<1> DEFINE old == AttrRows(A, id, k)
           new == [node_id |-> id, key |-> k, value |-> v, is_vector |-> FALSE]
<1>1. OneScalar(AddVectorValue(A, id, k, v))
  BY DEF OneScalar, AddVectorValue
<1>2. CASE old = {}
  <2>1. SetScalar(A, id, k, v) = A \cup {new}
    BY <1>2 DEF SetScalar
  <2>2. \A a \in A : a.node_id # id \/ a.key # k
    BY <1>2 DEF AttrRows
  <2>3. new.node_id = id /\ new.key = k
    OBVIOUS
  <2> HIDE DEF new
  <2> QED
    BY <1>1, <2>1, <2>2, <2>3 DEF OneScalar
<1>3. CASE old # {}
  <2>1. ASSUME NEW x \in SetScalar(A, id, k, v)
        PROVE  \/ x \in A \ old
               \/ \E a \in old : x = [a EXCEPT !.value = v]
    BY <1>3 DEF SetScalar
  <2>2. ASSUME NEW a \in old
        PROVE  /\ a \in A /\ a.node_id = id /\ a.key = k
               /\ [a EXCEPT !.value = v].node_id = id
               /\ [a EXCEPT !.value = v].key = k
               /\ [a EXCEPT !.value = v].is_vector = a.is_vector
    BY DEF AttrRows, Attribute
  <2>3. ASSUME NEW a \in A \ old
        PROVE  a \in A /\ (a.node_id # id \/ a.key # k)
    BY DEF AttrRows
  <2> HIDE DEF old
  <2> SUFFICES ASSUME NEW x \in SetScalar(A, id, k, v), NEW y \in SetScalar(A, id, k, v),
                      x.node_id = y.node_id, x.key = y.key, ~x.is_vector, ~y.is_vector
               PROVE  x = y
    BY <1>1 DEF OneScalar
  <2>4. CASE x \in A \ old /\ y \in A \ old
    BY <2>3, <2>4 DEF OneScalar
  <2>5. ASSUME NEW a \in old, x = [a EXCEPT !.value = v], y \in A \ old
        PROVE  FALSE
    BY <2>2, <2>3, <2>5
  <2>6. ASSUME NEW a \in old, y = [a EXCEPT !.value = v], x \in A \ old
        PROVE  FALSE
    BY <2>2, <2>3, <2>6
  <2>7. ASSUME NEW a \in old, x = [a EXCEPT !.value = v],
               NEW b \in old, y = [b EXCEPT !.value = v]
        PROVE  x = y
    <3>1. a = b
      BY <2>2, <2>7 DEF OneScalar
    <3> QED
      BY <2>7, <3>1
  <2> QED
    BY <2>1, <2>4, <2>5, <2>6, <2>7
<1> QED
  BY <1>1, <1>2, <1>3

(* The only steps that change the attributes table. *)
LEMMA AttributesSteps ==
  [Next]_vars =>
    \/ attributes' \subseteq attributes
    \/ \E c \in Client, k \in Key, v \in Value : SetAttribute(c, k, v)
    \/ \E c \in Client : ExecVectorValue(c)
<1> SUFFICES ASSUME Next, attributes' # attributes,
                    ~ \E c \in Client : ExecVectorValue(c),
                    ~ \E c \in Client, k \in Key, v \in Value : SetAttribute(c, k, v)
             PROVE  attributes' \subseteq attributes
  BY DEF vars
<1>1. PICK c \in Client :
        \/ \E k \in {"dir", "entry"}, m \in Mode, p \in Target : Open(c, k, m, p)
        \/ \E k \in Key, v, w \in Value : SetVectorAttribute(c, k, <<v, w>>)
        \/ \E k \in Key : RemoveAttribute(c, k)
        \/ List(c)
        \/ \E p \in Target : ChangeDir(c, p)
        \/ \E p \in Target, r \in BOOLEAN : RemoveEntry(c, p, r)
        \/ RemoveSelf(c)
        \/ Continue(c)
        \/ DatabaseError(c)
  BY DEF Next
<1>2. /\ ~\E k \in {"dir", "entry"}, m \in Mode, p \in Target : Open(c, k, m, p)
      /\ ~\E k \in Key, v, w \in Value : SetVectorAttribute(c, k, <<v, w>>)
      /\ ~\E p \in Target : ChangeDir(c, p)
      /\ ~\E p \in Target, r \in BOOLEAN : RemoveEntry(c, p, r)
  BY DEF Open, SetVectorAttribute, ChangeDir, RemoveEntry, tables
<1>3. ~List(c) /\ ~DatabaseError(c)
  BY DEF List, DatabaseError, tables
<1>4. Continue(c) => ExecRemoveNode(c)
  BY DEF Continue, FindParentNode, RefindParentNode, QueryPath, ExecInsertNode, SelectChildren, tables
<1>5. (\E k \in Key : RemoveAttribute(c, k)) \/ RemoveSelf(c) \/ ExecRemoveNode(c)
  BY <1>1, <1>2, <1>3, <1>4
<1> QED
  BY <1>5 DEF RemoveAttribute, DropAttribute, RemoveSelf, ExecRemoveNode, RemoveRows

(* A key never has two scalar rows, in whatever order scalar and vector *)
(* calls, removals and errors of any number of clients interleave.      *)
THEOREM ScalarsAreSingle == Spec => []OneScalarPerKey
<1>1. Init => OneScalar(attributes)
  BY DEF Init, OneScalar
<1>2. TypeInv /\ OneScalar(attributes) /\ [Next]_vars => OneScalar(attributes)'
  <2> SUFFICES ASSUME TypeInv, OneScalar(attributes), [Next]_vars
               PROVE  OneScalar(attributes')
    OBVIOUS
  <2>1. attributes \in SUBSET Attribute
    BY DEF TypeInv, TablesOK
  <2> QED
    BY <2>1, AttributesSteps, OneScalarSubset, OneScalarSet DEF SetAttribute, ExecVectorValue
<1>3. OneScalar(attributes) => OneScalarPerKey
  BY DEF OneScalar, OneScalarPerKey
<1> QED
  BY <1>1, <1>2, <1>3, TypeInvariant, PTL DEF Spec

(* Every id that a client holds or an attribute refers to has been drawn. *)
IdsDrawn ==
  /\ \A a \in attributes : a.node_id < nextId
  /\ \A c \in Client : handle[c].node.id < nextId

LEMMA FindNodeDrawn ==
  ASSUME TypeInv, NEW p, NEW n \in FindNode(nodes, p)
  PROVE  n.id < nextId
  BY NoNodeSnapshot DEF TypeInv, TablesOK, FindNode, RowsAt, SnapshotOf, RootId

LEMMA HandlesDrawn ==
  ASSUME TypeInv, IdsDrawn, [Next]_vars
  PROVE  nextId' >= nextId /\ \A c \in Client : handle'[c].node.id < nextId'
<1>1. /\ nextId \in Nat /\ 1 < nextId /\ handle \in [Client -> Handle]
      /\ \A c \in Client : handle[c].node.id \in Nat
  BY HandleNode DEF TypeInv, TablesOK, ObjectsOK, RootId
<1>2. CASE UNCHANGED <<nextId, handle>>
  BY <1>1, <1>2 DEF IdsDrawn
<1>3. ASSUME NEW c \in Client, NEW k, NEW m, NEW p, Open(c, k, m, p)
      PROVE  nextId' >= nextId /\ \A d \in Client : handle'[d].node.id < nextId'
  <2>1. nextId' = nextId
    BY <1>3 DEF Open, tables
  <2>2. PICK x : handle' = [handle EXCEPT ![c] = x] /\ x.node.id < nextId
    <3>1. NoHandle.node.id < nextId
      BY <1>1, NoNodeSnapshot DEF NoHandle
    <3> QED
      BY <1>3, <3>1, FindNodeDrawn DEF Open
  <2> QED
    BY <1>1, <2>1, <2>2 DEF IdsDrawn
<1>4. ASSUME NEW c \in Client, NEW p, ChangeDir(c, p)
      PROVE  nextId' >= nextId /\ \A d \in Client : handle'[d].node.id < nextId'
  <2>1. PICK n \in FindNode(nodes, p) : handle' = [handle EXCEPT ![c].node = n]
    BY <1>4 DEF ChangeDir
  <2>2. nextId' = nextId /\ n.id < nextId
    BY <1>4, FindNodeDrawn DEF ChangeDir, tables
  <2>3. \A d \in Client : handle'[d].node = IF d = c THEN n ELSE handle[d].node
    BY <1>1, <2>1 DEF Handle
  <2> QED
    BY <1>1, <2>2, <2>3 DEF IdsDrawn
<1>5. ASSUME NEW c \in Client, ExecInsertNode(c), ~UNCHANGED <<nextId, handle>>
      PROVE  nextId' >= nextId /\ \A d \in Client : handle'[d].node.id < nextId'
  <2> DEFINE h == Append(ppath[c], Last(Head(todo[c])))
             T == InsertNode(nodes, nextId, call[c].kind = "dir", found[c].lft, h)
  <2>1. nodes' = T /\ nextId' = nextId + 1
    BY <1>5 DEF ExecInsertNode
  <2>2. TablesOK'
    BY <1>5, ExecInsertNodeType DEF TypeInv
  <2>3. \A s \in InsertedSnapshots(T, h) : s.id < nextId'
    BY <2>1, <2>2 DEF TablesOK, InsertedSnapshots, RowsAt
  <2>4. handle' = handle \/ \E s \in InsertedSnapshots(T, h) :
          handle' = [handle EXCEPT ![c] = [open |-> TRUE, path |-> call[c].path, node |-> s]]
    BY <1>5 DEF ExecInsertNode
  <2> HIDE DEF T, h
  <2>5. CASE handle' = handle
    BY <1>1, <2>1, <2>5 DEF IdsDrawn
  <2>6. ASSUME NEW s \in InsertedSnapshots(T, h),
               handle' = [handle EXCEPT ![c] = [open |-> TRUE, path |-> call[c].path, node |-> s]]
        PROVE  \A d \in Client : handle'[d].node.id < nextId'
    BY <1>1, <2>1, <2>3, <2>6 DEF IdsDrawn
  <2> QED
    BY <1>1, <2>1, <2>4, <2>5, <2>6
<1>6. CASE UNCHANGED vars
  BY <1>2, <1>6 DEF vars
<1>7. CASE Next
  <2>1. \/ UNCHANGED <<nextId, handle>>
        \/ \E c \in Client : \/ \E k \in {"dir", "entry"}, m \in Mode, p \in Target : Open(c, k, m, p)
                             \/ \E p \in Target : ChangeDir(c, p)
                             \/ ExecInsertNode(c)
    BY <1>7 DEF Next, Continue, SetAttribute, SetVectorAttribute, RemoveAttribute, List,
       RemoveEntry, FindParentNode, RefindParentNode, QueryPath, ExecVectorValue,
       SelectChildren, ExecRemoveNode, RemoveSelf, RemoveRows, DatabaseError, tables
  <2> QED
    BY <1>2, <1>3, <1>4, <1>5, <2>1
<1> QED
  BY <1>6, <1>7

LEMMA NextIdsDrawn == TypeInv /\ IdsDrawn /\ [Next]_vars => IdsDrawn'
<1> SUFFICES ASSUME TypeInv, IdsDrawn, [Next]_vars PROVE IdsDrawn'
  OBVIOUS
<1>1. /\ nextId \in Nat /\ nextId' \in Nat /\ nextId' >= nextId
      /\ \A a \in attributes : a.node_id \in Nat
      /\ \A c \in Client : handle[c].node.id \in Nat
  BY HandlesDrawn, HandleNode, NextType DEF TypeInv, TablesOK, Attribute
<1>2. ASSUME NEW A \in SUBSET Attribute, NEW id, id < nextId, NEW k, NEW v,
             \A a \in A : a.node_id < nextId
      PROVE  /\ \A a \in SetScalar(A, id, k, v) : a.node_id < nextId
             /\ \A a \in AddVectorValue(A, id, k, v) : a.node_id < nextId
  BY <1>2 DEF SetScalar, AddVectorValue, AttrRows, Attribute
<1>3. \A a \in attributes' : a.node_id < nextId
  <2>1. \A a \in attributes : a.node_id < nextId
    BY DEF IdsDrawn
  <2>2. \A c \in Client : handle[c].node.id < nextId
    BY DEF IdsDrawn
  <2>3. attributes \in SUBSET Attribute
    BY DEF TypeInv, TablesOK
  <2>4. CASE attributes' \subseteq attributes
    BY <2>1, <2>4
  <2>5. ASSUME NEW c \in Client, NEW k, NEW v,
               \/ attributes' = SetScalar(attributes, handle[c].node.id, k, v)
               \/ attributes' = AddVectorValue(attributes, handle[c].node.id, k, v)
        PROVE  \A a \in attributes' : a.node_id < nextId
    <3>1. handle[c].node.id < nextId
      BY <2>2
    <3> QED
      BY <1>2, <2>1, <2>3, <2>5, <3>1
  <2> QED
    BY <2>4, <2>5, AttributesSteps DEF SetAttribute, ExecVectorValue
<1>4. \A a \in attributes' : a.node_id \in Nat
  BY NextType DEF TypeInv, TablesOK, Attribute
<1> QED
  BY <1>1, <1>3, <1>4, HandlesDrawn DEF IdsDrawn

(* No node that appears has attribute rows waiting for it, although clients *)
(* go on writing attributes of nodes that others have removed.              *)
THEOREM FreshNodesAreBare == Spec => NoInheritedAttributes
<1>1. Init => IdsDrawn
  BY NoNodeSnapshot DEF Init, IdsDrawn, NoHandle, RootId
<1>2. TypeInv /\ IdsDrawn /\ [Next]_vars =>
        [\A n \in nodes' : (\A m \in nodes : m.id # n.id) =>
                              \A a \in attributes' : a.node_id # n.id]_vars
  <2> SUFFICES ASSUME TypeInv, IdsDrawn, [Next]_vars, NEW n \in nodes',
                      \A m \in nodes : m.id # n.id, NEW a \in attributes'
               PROVE  a.node_id # n.id
    OBVIOUS
  <2>1. ASSUME NEW c \in Client, ExecRemoveNode(c) \/ RemoveSelf(c)
        PROVE  FALSE
    <3>1. PICK s \in Snapshot : nodes' = RemoveNode(nodes, s.lft, s.rgt)
      BY <2>1, HandleNode DEF ExecRemoveNode, RemoveSelf, RemoveRows, TypeInv, FrameOK
    <3>2. PICK m \in nodes : n = CloseGap(m, s.lft, s.rgt)
      BY <3>1 DEF RemoveNode
    <3> QED
      BY <3>2, CloseGapRow DEF Snapshot, TypeInv, TablesOK
  <2>2. PICK c \in Client : ExecInsertNode(c)
    BY <2>1, NodesSteps
  <2>3. n.id = nextId
    <3>1. PICK l \in Nat : \E d, h : nodes' = InsertNode(nodes, nextId, d, l, h)
      <4>1. found[c].lft \in Nat
        BY DEF TypeInv, FrameOK, Snapshot
      <4>2. nodes' # nodes
        OBVIOUS
      <4> QED
        BY <2>2, <4>1, <4>2 DEF ExecInsertNode
    <3>2. CASE \E m \in nodes : n = OpenGap(m, l)
      BY <3>2, OpenGapRow DEF TypeInv, TablesOK
    <3> QED
      BY <3>1, <3>2 DEF InsertNode
  <2>4. a.node_id < nextId
    BY <2>2 DEF ExecInsertNode, IdsDrawn
  <2>5. a.node_id \in Nat /\ nextId \in Nat
    BY NextType DEF TypeInv, TablesOK, Attribute
  <2> QED
    BY <2>3, <2>4, <2>5
<1> QED
  BY <1>1, <1>2, NextIdsDrawn, TypeInvariant, PTL DEF Spec, NoInheritedAttributes

-----------------------------------------------------------------------------
(***************************************************************************)
(* The recursion of create_parents.                                        *)
(***************************************************************************)

(* create_parents is asked for the root only once the root row is gone. *)
RootWanted ==
  /\ \A n \in nodes : n.id # 0
  /\ \A c \in Client :
       pc[c] = "dead" \/ (todo[c] # <<>> /\ todo[c][1] = RootPath) => RowsAt(nodes, RootPath) = {}

LEMMA NotFound ==
  ASSUME NEW T, \A n \in T : n.id # 0, NEW p, NEW n \in FindNode(T, p), n.id = 0
  PROVE  RowsAt(T, p) = {}
  BY DEF FindNode, RowsAt, SnapshotOf

(* The root row never comes back, and no row gets the id 0. *)
LEMMA RootRowGone ==
  ASSUME TypeInv, \A n \in nodes : n.id # 0, [Next]_vars
  PROVE  /\ \A n \in nodes' : n.id # 0
         /\ RowsAt(nodes, RootPath) = {} => RowsAt(nodes', RootPath) = {}
<1>1. nodes \in SUBSET Row /\ nextId \in Nat /\ nextId # 0
  BY DEF TypeInv, TablesOK, RootId
<1>2. CASE nodes' = nodes
  BY <1>2
<1>3. ASSUME NEW s \in Snapshot, nodes' = RemoveNode(nodes, s.lft, s.rgt)
      PROVE  \A n \in nodes' : \E m \in nodes : n.id = m.id /\ n.hash = m.hash
  <2>1. s.lft \in Nat /\ s.rgt \in Nat
    BY DEF Snapshot
  <2> QED
    BY <1>1, <1>3, <2>1, CloseGapRow DEF RemoveNode
<1>4. ASSUME NEW c \in Client, ExecRemoveNode(c) \/ RemoveSelf(c)
      PROVE  \A n \in nodes' : \E m \in nodes : n.id = m.id /\ n.hash = m.hash
  BY <1>3, <1>4, HandleNode DEF ExecRemoveNode, RemoveSelf, RemoveRows, TypeInv, FrameOK
<1>5. ASSUME NEW c \in Client, ExecInsertNode(c), nodes' # nodes
      PROVE  \A n \in nodes' : \/ n.id # 0 /\ n.hash # RootPath
                               \/ \E m \in nodes : n.id = m.id /\ n.hash = m.hash
  <2> DEFINE h == Append(ppath[c], Last(Head(todo[c])))
             l == found[c].lft
             b == call[c].kind = "dir"
  <2>1. nodes' = InsertNode(nodes, nextId, b, l, h) /\ pc[c] = "insert"
    BY <1>5 DEF ExecInsertNode
  <2>2. h # RootPath /\ l \in Nat
    BY <2>1, InsertedPath DEF TypeInv, FrameOK, Snapshot
  <2> HIDE DEF b, l, h
  <2> QED
    BY <1>1, <2>1, <2>2, OpenGapRow DEF InsertNode
<1> QED
  BY <1>2, <1>4, <1>5, NodesSteps DEF RowsAt

LEMMA NextRootWanted == TypeInv /\ RootWanted /\ [Next]_vars => RootWanted'
<1> SUFFICES ASSUME TypeInv, RootWanted, [Next]_vars PROVE RootWanted'
  OBVIOUS
<1>1. /\ \A n \in nodes' : n.id # 0
      /\ RowsAt(nodes, RootPath) = {} => RowsAt(nodes', RootPath) = {}
  BY RootRowGone DEF RootWanted
<1> DEFINE Wants(d) == pc[d] = "dead" \/ (todo[d] # <<>> /\ todo[d][1] = RootPath)
<1>2. \A d \in Client : Wants(d) => RowsAt(nodes, RootPath) = {}
  BY DEF RootWanted
<1> SUFFICES ASSUME NEW d \in Client, Wants(d)', ~Wants(d)
             PROVE  RowsAt(nodes', RootPath) = {}
  BY <1>1, <1>2 DEF RootWanted
<1>3. /\ pc \in [Client -> Where] /\ todo \in [Client -> Seq(Path)]
      /\ \A n \in nodes : n.id # 0
  BY DEF TypeInv, FrameOK, RootWanted
<1>4. CASE UNCHANGED <<pc, todo>>
  BY <1>4
<1>5. ASSUME NEW c \in Client, Return(c)
      PROVE  FALSE
  BY <1>3, <1>5 DEF Return, Goto
<1>6. ASSUME NEW c \in Client, NEW w, w # "dead", Goto(c, w), UNCHANGED todo
      PROVE  FALSE
  BY <1>3, <1>6 DEF Goto
<1>7. ASSUME NEW c \in Client, NEW k, NEW m, NEW p \in Path, Open(c, k, m, p), ~UNCHANGED <<pc, todo>>
      PROVE  RowsAt(nodes', RootPath) = {}
  <2>1. PICK n \in FindNode(nodes, p) :
          n.id = 0 /\ Goto(c, "parent") /\ todo' = [todo EXCEPT ![c] = <<p>>]
    BY <1>7 DEF Open, frame
  <2>2. p = RootPath
    BY <1>3, <2>1 DEF Goto
  <2> QED
    BY <1>1, <1>3, <2>1, <2>2, NotFound
<1>8. ASSUME NEW c \in Client, FindParentNode(c)
      PROVE  RowsAt(nodes', RootPath) = {}
  <2> DEFINE p == Head(todo[c])
  <2>1. /\ todo[c] # <<>> /\ p = todo[c][1] /\ p \in Path /\ nodes' = nodes
        /\ todo[c] \in Seq(Path)
    BY <1>8 DEF TypeInv, FrameOK, FindParentNode, tables
  <2> HIDE DEF p
  <2>2. PICK n \in FindParent(nodes, p) :
          \/ Goto(c, "path") /\ UNCHANGED todo
          \/ Return(c)
          \/ /\ p # RootPath /\ n.id = 0
             /\ todo' = [todo EXCEPT ![c] = <<Front(p)>> \o @] /\ UNCHANGED pc
          \/ p = RootPath /\ Goto(c, "dead") /\ UNCHANGED todo
    BY <1>8 DEF FindParentNode, frame, p
  <2>3. CASE p = RootPath /\ Goto(c, "dead") /\ UNCHANGED todo
    BY <1>1, <1>2, <2>1, <2>3
  <2>4. CASE /\ p # RootPath /\ n.id = 0
             /\ todo' = [todo EXCEPT ![c] = <<Front(p)>> \o @] /\ UNCHANGED pc
    <3>1. n \in FindNode(nodes, Front(p))
      BY <2>4 DEF FindParent
    <3>2. Front(p) \in Path
      BY <2>1, <2>4, SubSeqProperties DEF Front, Path, RootPath
    <3>3. d = c /\ todo'[c][1] = Front(p)
      BY <1>3, <2>1, <2>4, <3>2
    <3>4. Front(p) = RootPath
      BY <2>4, <3>3
    <3> QED
      BY <1>1, <1>3, <3>1, <3>4, <2>4, NotFound
  <2> QED
    BY <1>5, <1>6, <2>2, <2>3, <2>4
<1>9. ASSUME NEW c \in Client, ExecInsertNode(c)
      PROVE  FALSE
  <2>1. CASE Return(c)
    BY <1>5, <2>1
  <2>2. CASE Len(todo[c]) > 1 /\ todo' = [todo EXCEPT ![c] = Tail(@)] /\ Goto(c, "refind")
    <3> DEFINE t == Tail(todo[c])
    <3>1. t # <<>> /\ Len(t) = Len(todo[c]) - 1 /\ t[1] = todo[c][2]
      BY <1>3, <2>2, LongTail
    <3>2. todo[c][2] # RootPath
      BY <2>2 DEF TypeInv, FrameOK
    <3>3. todo' = [todo EXCEPT ![c] = t]
      BY <2>2
    <3> HIDE DEF t
    <3> QED
      BY <1>3, <2>2, <3>1, <3>2, <3>3 DEF Goto
  <2> QED
    BY <1>9, <2>1, <2>2 DEF ExecInsertNode
<1>10. CASE UNCHANGED vars
  BY <1>4, <1>10 DEF vars
<1>11. ASSUME NEW c \in Client,
              \/ RefindParentNode(c) \/ QueryPath(c) \/ ExecVectorValue(c) \/ SelectChildren(c)
              \/ ExecRemoveNode(c) \/ DatabaseError(c) \/ List(c) \/ RemoveSelf(c)
              \/ \E k \in Key, v \in Value : SetAttribute(c, k, v)
              \/ \E k \in Key, v, w \in Value : SetVectorAttribute(c, k, <<v, w>>)
              \/ \E k \in Key : RemoveAttribute(c, k)
              \/ \E p \in Target : ChangeDir(c, p)
              \/ \E p \in Target, r \in BOOLEAN : RemoveEntry(c, p, r)
       PROVE  FALSE
  <2>1. \/ UNCHANGED <<pc, todo>>
        \/ Return(c)
        \/ \E w \in Where \ {"dead"} : Goto(c, w) /\ UNCHANGED todo
    BY <1>11 DEF RefindParentNode, QueryPath, ExecVectorValue, SelectChildren, ExecRemoveNode,
       DatabaseError, List, RemoveSelf, SetAttribute, SetVectorAttribute, RemoveAttribute,
       ChangeDir, RemoveEntry, frame, Where
  <2> QED
    BY <1>4, <1>5, <1>6, <2>1
<1> QED
  BY <1>7, <1>8, <1>9, <1>10, <1>11, FastAdvertAssumption DEF Next, Continue

(* create_parents recurses without end only if somebody has deleted the root *)
(* row: neither a missing parent nor a stale one sends it there.             *)
THEOREM HangsOnlyWithoutRoot == Spec => []OnlyRootLossHangs
<1>1. Init => RootWanted
  BY DEF Init, RootWanted, RootRow, RootId
<1>2. RootWanted => OnlyRootLossHangs
  BY DEF RootWanted, OnlyRootLossHangs
<1> QED
  BY <1>1, <1>2, NextRootWanted, TypeInvariant, PTL DEF Spec

-----------------------------------------------------------------------------
(***************************************************************************)
(* How often a path below the root is inserted.                            *)
(***************************************************************************)

(* While nobody removes and the paths in use have at most three components, *)
(* which is as far as the copies of rows can be out of date and the parent  *)
(* just inserted be found nevertheless.                                     *)
Growing ==
  /\ "remove_entry" \notin Ops /\ "remove_self" \notin Ops
  /\ \A p \in Target : Len(p) <= 3
  /\ IsFiniteSet(Client)

(* The root row begins at 1, all others later.  No row gets between the root *)
(* and the rows below it.                                                    *)
RootFirst ==
  /\ \E r \in nodes : r.hash = RootPath
  /\ \A r \in nodes : r.id # 0 /\ IF r.id = RootId THEN r.lft = 1 ELSE r.lft >= 2
TopAlone ==
  \A m, n \in nodes : Len(n.hash) = 1 /\ Covers(m, n) => m.id = RootId \/ m = n

(* The paths still to be inserted go down by one component each, the parent *)
(* of the next one has been found or inserted, and the path of the parent   *)
(* is right where the new row is at most two levels below the root.         *)
Descending(t) ==
  /\ \A i \in 1 .. Len(t) : Len(t[i]) = Len(t[1]) + i - 1 /\ Len(t[i]) <= 3
  /\ \A i \in 2 .. Len(t) : Front(t[i]) = t[i - 1]
ParentFound(s, p) ==
  /\ \E r \in nodes : r.id = s.id /\ r.hash = Front(p)
  /\ IF s.id = RootId THEN s.lft = 1 ELSE s.lft >= 2
PathFits(q, p) == IF Len(p) <= 2 THEN q = Front(p) ELSE q # <<>>
FrameSound(c) ==
  /\ Descending(todo[c])
  /\ pc[c] = "refind" => RowsAt(nodes, Front(todo[c][1])) # {}
  /\ pc[c] \in {"path", "insert"} => ParentFound(found[c], todo[c][1])
  /\ pc[c] = "insert" => PathFits(ppath[c], todo[c][1])

(* The clients that may still insert /n were there before it was.           *)
Inserting(n) == {c \in Client : \E i \in 1 .. Len(todo[c]) : todo[c][i] = <<n>>}
RepeatsCounted ==
  \A n \in Name :
    \/ RowsAt(nodes, <<n>>) = {}
    \/ Cardinality(RowsAt(nodes, <<n>>)) + Cardinality(Inserting(n)) <= Cardinality(Client)

GrowInv == RootFirst /\ TopAlone /\ (\A c \in Client : FrameSound(c)) /\ RepeatsCounted

(* A path and its parent. *)
LEMMA PathParent ==
  ASSUME NEW p \in Path, p # RootPath
  PROVE  /\ Len(p) \in Nat \ {0} /\ Front(p) \in Path /\ Len(Front(p)) = Len(p) - 1
         /\ Last(p) \in Name /\ Append(Front(p), Last(p)) = p
<1>1. p \in Seq(Name) /\ p # <<>> /\ Len(p) \in Nat \ {0}
  BY DEF Path, RootPath
<1>2. Last(p) \in Name
  BY <1>1 DEF Last
<1>3. PICK f : f = SubSeq(p, 1, Len(p) - 1)
  OBVIOUS
<1>4. f \in Seq(Name) /\ Len(f) = Len(p) - 1 /\ \A j \in 1 .. Len(p) - 1 : f[j] = p[j]
  <2>1. \A j \in 1 .. Len(p) - 1 : p[j] \in Name
    BY <1>1
  <2>2. f \in Seq(Name)
    BY <1>1, <1>3, <2>1, SubSeqProperties
  <2>3. /\ Len(f) = IF 1 <= Len(p) - 1 THEN Len(p) - 1 - 1 + 1 ELSE 0
        /\ \A j \in 1 .. Len(p) - 1 - 1 + 1 : f[j] = p[1 + j - 1]
    <3>1. 1 \in Int /\ Len(p) - 1 \in Int
      BY <1>1
    <3> QED
      BY <1>3, <2>1, <3>1, SubSeqProperties
  <2>4. \A j \in 1 .. Len(p) - 1 : j \in 1 .. Len(p) - 1 - 1 + 1 /\ 1 + j - 1 = j
    BY <1>1
  <2>5. Len(f) = Len(p) - 1
    <3>1. Len(f) = IF 1 <= Len(p) - 1 THEN Len(p) - 1 - 1 + 1 ELSE 0
      BY <2>3
    <3>2. CASE Len(p) = 1
      BY <3>1, <3>2
    <3>3. CASE Len(p) > 1
      BY <1>1, <3>1, <3>3
    <3>4. \A k \in Nat \ {0} : k = 1 \/ k > 1
      OBVIOUS
    <3>5. Len(p) \in Nat \ {0}
      BY <1>1
    <3>6. Len(p) = 1 \/ Len(p) > 1
      BY <3>4, <3>5, Zenon
    <3> QED
      BY <3>2, <3>3, <3>6
  <2>6. \A j \in 1 .. Len(p) - 1 : f[j] = p[j]
    BY <2>3, <2>4
  <2> QED
    BY <2>2, <2>5, <2>6
<1>5. PICK a : a = Append(f, p[Len(p)])
  OBVIOUS
<1>6. /\ a \in Seq(Name) /\ Len(a) = Len(p) /\ a[Len(p)] = p[Len(p)]
      /\ \A j \in 1 .. Len(p) - 1 : a[j] = p[j]
  BY <1>1, <1>2, <1>4, <1>5 DEF Last
<1>7. \A j \in 1 .. Len(p) : a[j] = p[j]
  BY <1>1, <1>6
<1>8. a = p
  BY <1>1, <1>6, <1>7, SeqEqual
<1> QED
  BY <1>1, <1>2, <1>3, <1>4, <1>5, <1>8 DEF Front, Last, Path

(* find_node delivers the copy of a row at the path if there is one.        *)
LEMMA FoundAt ==
  ASSUME TypeInv, RootFirst, NEW p, NEW s \in FindNode(nodes, p)
  PROVE  /\ s.id = 0 => RowsAt(nodes, p) = {}
         /\ s.id # 0 => \E r \in nodes : r.id = s.id /\ r.hash = p /\ s.lft = r.lft
         /\ s.id # 0 => IF s.id = RootId THEN s.lft = 1 ELSE s.lft >= 2
<1>1. s.id = 0 => RowsAt(nodes, p) = {}
  BY NotFound DEF RootFirst
<1>2. ASSUME s.id # 0
      PROVE  \E r \in nodes : r.id = s.id /\ r.hash = p /\ s.lft = r.lft
  BY <1>2, NoNodeSnapshot DEF FindNode, RowsAt, SnapshotOf
<1> QED
  BY <1>1, <1>2 DEF RootFirst

(* get_path of the root row is empty, of a row below the root its name, of  *)
(* any other row not empty.                                                 *)
LEMMA PathOfRoot ==
  ASSUME TypeInv, RootFirst, NEW q \in GetPath(nodes, RootId)
  PROVE  q = <<>>
<1> DEFINE up == {m \in Ancestors(nodes, RootId) : m.id # RootId}
<1>1. up = {}
  <2> SUFFICES ASSUME NEW m \in nodes, NEW n \in nodes, n.id = RootId, Covers(m, n), m.id # RootId
               PROVE  FALSE
    BY DEF Ancestors
  <2>1. m.lft >= 2 /\ n.lft = 1 /\ m.lft <= n.lft
    BY DEF RootFirst, Covers
  <2>2. m.lft \in Nat
    BY DEF TypeInv, TablesOK, Row
  <2> QED
    BY <2>1, <2>2
<1>2. Cardinality(up) = 0
  BY <1>1, FS_EmptySet
<1> HIDE DEF up
<1>3. PICK f \in [1 .. Cardinality(up) -> up] : q = [i \in DOMAIN f |-> Last(f[i].hash)]
  BY DEF GetPath, OrderedByLft, up
<1>4. DOMAIN f = 1 .. 0
  BY <1>2, <1>3
<1> QED
  BY <1>3, <1>4

LEMMA PathBelowRoot ==
  ASSUME TypeInv, NestedSets(nodes), TopAlone, NEW r \in nodes, Len(r.hash) = 1, r.id # RootId,
         NEW q \in GetPath(nodes, r.id)
  PROVE  q = r.hash
<1> DEFINE up == {m \in Ancestors(nodes, r.id) : m.id # RootId}
<1>0. /\ r.lft \in Nat /\ r.rgt \in Nat /\ r.hash \in Seq(Name) /\ UniqueIds(nodes)
      /\ r.lft < r.rgt
  BY DEF TypeInv, TablesOK, NestedSets, Row, Path
<1>1. up = {r}
  <2>1. r \in up
    BY <1>0 DEF Ancestors, Covers
  <2>2. ASSUME NEW m \in up
        PROVE  m = r
    <3>1. PICK n \in nodes : n.id = r.id /\ Covers(m, n)
      BY DEF Ancestors
    <3>2. n = r
      BY <1>0, <3>1 DEF UniqueIds
    <3> QED
      BY <3>1, <3>2 DEF TopAlone, Ancestors
  <2> QED
    BY <2>1, <2>2
<1>2. Cardinality(up) = 1
  BY <1>1, FS_Singleton
<1> HIDE DEF up
<1>3. PICK f \in [1 .. Cardinality(up) -> up] : q = [i \in DOMAIN f |-> Last(f[i].hash)]
  BY DEF GetPath, OrderedByLft, up
<1>4. DOMAIN f = 1 .. 1 /\ f[1] = r
  <2>1. f \in [1 .. 1 -> {r}]
    BY <1>1, <1>2, <1>3
  <2>2. DOMAIN f = 1 .. 1
    BY <2>1
  <2>3. 1 \in 1 .. 1
    OBVIOUS
  <2>4. f[1] \in {r}
    BY <2>1, <2>3, Zenon
  <2> QED
    BY <2>2, <2>4
<1>5. q = [i \in 1 .. 1 |-> Last(r.hash)]
  BY <1>3, <1>4
<1>6. r.hash[1] \in Name /\ Last(r.hash) = r.hash[1]
  BY <1>0 DEF Last
<1>7. q \in Seq(Name) /\ Len(q) = 1 /\ q[1] = r.hash[1]
  BY <1>5, <1>6
<1>8. \A j \in 1 .. Len(q) : q[j] = r.hash[j]
  BY <1>7
<1> QED
  BY <1>0, <1>7, <1>8, SeqEqual

LEMMA PathOfOthers ==
  ASSUME TypeInv, NestedSets(nodes), NEW r \in nodes, r.id # RootId, NEW q \in GetPath(nodes, r.id)
  PROVE  q # <<>>
<1> DEFINE up == {m \in Ancestors(nodes, r.id) : m.id # RootId}
<1>0. r.lft \in Nat /\ r.rgt \in Nat /\ r.lft < r.rgt /\ IsFiniteSet(nodes)
  BY DEF TypeInv, TablesOK, NestedSets, Row
<1>1. r \in up
  BY <1>0 DEF Ancestors, Covers
<1>2. IsFiniteSet(up)
  <2>1. up \subseteq nodes
    BY DEF Ancestors
  <2> QED
    BY <1>0, <2>1, FS_Subset
<1> HIDE DEF up
<1>3. Cardinality(up) \in Nat \ {0}
  BY <1>1, <1>2, FS_CardinalityType, FS_EmptySet
<1>4. PICK f \in [1 .. Cardinality(up) -> up] : q = [i \in DOMAIN f |-> Last(f[i].hash)]
  BY DEF GetPath, OrderedByLft, up
<1>5. 1 \in DOMAIN f /\ DOMAIN q = DOMAIN f
  BY <1>3, <1>4
<1>6. DOMAIN <<>> = {}
  OBVIOUS
<1> QED
  BY <1>5, <1>6

(* A step of c that keeps the locals of the others, and the rows.           *)
OthersStay(c) ==
  \A d \in Client \ {c} :
    pc'[d] = pc[d] /\ todo'[d] = todo[d] /\ found'[d] = found[d] /\ ppath'[d] = ppath[d]
RowsStay == \A r \in nodes : \E s \in nodes' : s.id = r.id /\ s.hash = r.hash

LEMMA OthersSound ==
  ASSUME GrowInv, NEW c \in Client, OthersStay(c), RowsStay, NEW d \in Client, d # c
  PROVE  FrameSound(d)'
<1>1. FrameSound(d) /\ pc'[d] = pc[d] /\ todo'[d] = todo[d] /\ found'[d] = found[d] /\ ppath'[d] = ppath[d]
  BY DEF GrowInv, OthersStay
<1>2. \A p : RowsAt(nodes, p) # {} => RowsAt(nodes', p) # {}
  BY DEF RowsAt, RowsStay
<1>3. \A s, p : ParentFound(s, p) => ParentFound(s, p)'
  BY DEF ParentFound, RowsStay
<1> QED
  BY <1>1, <1>2, <1>3 DEF FrameSound

(* The rows stay what they are: enough that the client's own locals are     *)
(* sound, and that no path is taken up again which has a row.               *)
LEMMA SameRows ==
  ASSUME Growing, TypeInv, GrowInv, nodes' = nodes, NEW c \in Client, OthersStay(c), FrameSound(c)',
         \A n \in Name : c \in Inserting(n)' => c \in Inserting(n) \/ RowsAt(nodes, <<n>>) = {}
  PROVE  GrowInv'
<1>1. RowsStay
  BY DEF RowsStay
<1>2. \A d \in Client : FrameSound(d)'
  BY <1>1, OthersSound
<1>3. ASSUME NEW n \in Name, RowsAt(nodes', <<n>>) # {}
      PROVE  Cardinality(RowsAt(nodes', <<n>>)) + Cardinality(Inserting(n)') <= Cardinality(Client)
  <2> DEFINE old == Inserting(n)
             new == Inserting(n)'
             k == Cardinality(RowsAt(nodes, <<n>>))
  <2>1. old \subseteq Client /\ IsFiniteSet(old)
    BY FS_Subset DEF Inserting, Growing
  <2>2. new \subseteq old
    <3> SUFFICES ASSUME NEW d \in new PROVE d \in old
      OBVIOUS
    <3>1. d \in Client
      BY DEF Inserting
    <3>2. CASE d = c
      BY <1>3, <3>2
    <3>3. CASE d # c
      BY <3>1, <3>3 DEF Inserting, OthersStay
    <3> QED
      BY <3>2, <3>3
  <2>3. k + Cardinality(old) <= Cardinality(Client)
    BY <1>3 DEF GrowInv, RepeatsCounted
  <2> HIDE DEF old, new
  <2>4. /\ IsFiniteSet(new) /\ Cardinality(new) <= Cardinality(old)
    BY <2>1, <2>2, FS_Subset
  <2>5. Cardinality(new) \in Nat /\ Cardinality(old) \in Nat /\ Cardinality(Client) \in Nat
    BY <2>1, <2>4, FS_CardinalityType DEF Growing
  <2>6. k + Cardinality(new) <= Cardinality(Client)
    <3>1. k \in Nat
      <4>1. RowsAt(nodes, <<n>>) \subseteq nodes /\ IsFiniteSet(nodes)
        BY DEF RowsAt, TypeInv, TablesOK
      <4> QED
        BY <4>1, FS_Subset, FS_CardinalityType
    <3> HIDE DEF k
    <3> QED
      BY <2>3, <2>4, <2>5, <3>1
  <2> QED
    BY <2>6 DEF new
<1> QED
  BY <1>2, <1>3 DEF GrowInv, RootFirst, TopAlone, RepeatsCounted

(* The client leaves create_parents, or has nothing to do with it.          *)
LEMMA CalmSound ==
  ASSUME Growing, TypeInv, GrowInv, nodes' = nodes, NEW c \in Client, OthersStay(c),
         pc'[c] \notin {"refind", "path", "insert"}, todo'[c] \in {todo[c], <<>>}
  PROVE  GrowInv'
<1>1. Len(<<>>) = 0 /\ 1 .. 0 = {} /\ 2 .. 0 = {}
  OBVIOUS
<1>2. Descending(todo'[c])
  BY <1>1 DEF GrowInv, FrameSound, Descending
<1>3. FrameSound(c)'
  BY <1>2 DEF FrameSound
<1>4. \A n \in Name : c \in Inserting(n)' => c \in Inserting(n)
  BY <1>1 DEF Inserting
<1> QED
  BY <1>3, <1>4, SameRows

LEMMA OpenGrow ==
  ASSUME Growing, TypeInv, GrowInv, NEW c \in Client, NEW k, NEW m, NEW p \in Target,
         Open(c, k, m, p)
  PROVE  GrowInv'
<1>1. nodes' = nodes /\ pc[c] = "idle" /\ p \in Path /\ Len(p) <= 3
  BY FastAdvertAssumption DEF Open, tables, Idle, Growing
<1>2. CASE UNCHANGED <<pc, frame>>
  BY <1>1, <1>2, CalmSound DEF frame, OthersStay
<1>3. CASE /\ RowsAt(nodes, p) = {}
           /\ todo' = [todo EXCEPT ![c] = <<p>>]
           /\ Goto(c, "parent")
           /\ UNCHANGED <<found, ppath>>
  <2>1. todo'[c] = <<p>> /\ pc'[c] = "parent" /\ OthersStay(c)
    BY <1>3 DEF TypeInv, FrameOK, Goto, OthersStay
  <2>2. Len(<<p>>) = 1 /\ <<p>>[1] = p /\ Len(p) \in Nat
    BY <1>1 DEF Path
  <2>3. Descending(<<p>>)
    BY <1>1, <2>2 DEF Descending
  <2>4. FrameSound(c)'
    BY <2>1, <2>3 DEF FrameSound
  <2>5. \A n \in Name : c \in Inserting(n)' => RowsAt(nodes, <<n>>) = {}
    BY <1>3, <2>1, <2>2 DEF Inserting
  <2> QED
    BY <1>1, <2>1, <2>4, <2>5, SameRows
<1>4. \/ UNCHANGED <<pc, frame>>
      \/ /\ RowsAt(nodes, p) = {}
         /\ todo' = [todo EXCEPT ![c] = <<p>>]
         /\ Goto(c, "parent")
         /\ UNCHANGED <<found, ppath>>
  <2>1. \A n \in FindNode(nodes, p) : n.id = 0 => RowsAt(nodes, p) = {}
    BY FoundAt DEF GrowInv
  <2> QED
    BY <2>1 DEF Open
<1> QED
  BY <1>2, <1>3, <1>4

LEMMA FindParentGrow ==
  ASSUME Growing, TypeInv, GrowInv, NEW c \in Client, FindParentNode(c)
  PROVE  GrowInv'
<1> DEFINE p == Head(todo[c])
<1>1. /\ nodes' = nodes /\ pc[c] = "parent" /\ p = todo[c][1] /\ p \in Path
      /\ todo[c] \in Seq(Path) /\ todo[c] # <<>>
  BY DEF FindParentNode, tables, TypeInv, FrameOK
<1>2. PICK s \in FindParent(nodes, p) :
         \/ /\ s.id # 0
            /\ found' = [found EXCEPT ![c] = s]
            /\ Goto(c, "path")
            /\ UNCHANGED <<call, todo, ppath>>
         \/ Return(c)
         \/ /\ s.id = 0 /\ p # RootPath
            /\ todo' = [todo EXCEPT ![c] = <<Front(p)>> \o @]
            /\ UNCHANGED <<pc, call, found, ppath>>
         \/ /\ Goto(c, "dead")
            /\ UNCHANGED frame
  BY DEF FindParentNode
<1> HIDE DEF p
<1>3. CASE Return(c)
  BY <1>1, <1>3, CalmSound DEF Return, Goto, OthersStay, TypeInv, FrameOK
<1>4. CASE Goto(c, "dead") /\ UNCHANGED frame
  BY <1>1, <1>4, CalmSound DEF Goto, frame, OthersStay, TypeInv, FrameOK
<1>5. CASE /\ s.id # 0
           /\ found' = [found EXCEPT ![c] = s]
           /\ Goto(c, "path")
           /\ UNCHANGED <<call, todo, ppath>>
  <2>1. s \in FindNode(nodes, Front(p))
    BY <1>5, NoNodeSnapshot DEF FindParent
  <2>2. ParentFound(s, p)
    BY <1>5, <2>1, FoundAt DEF GrowInv, ParentFound
  <2>3. pc'[c] = "path" /\ found'[c] = s /\ todo' = todo /\ OthersStay(c)
    BY <1>5 DEF Goto, OthersStay, TypeInv, FrameOK
  <2>4. FrameSound(c)'
    BY <1>1, <2>2, <2>3 DEF FrameSound, GrowInv, ParentFound
  <2>5. \A n \in Name : c \in Inserting(n)' => c \in Inserting(n)
    BY <2>3 DEF Inserting
  <2> QED
    BY <1>1, <2>3, <2>4, <2>5, SameRows
<1>6. CASE /\ s.id = 0 /\ p # RootPath
           /\ todo' = [todo EXCEPT ![c] = <<Front(p)>> \o @]
           /\ UNCHANGED <<pc, call, found, ppath>>
  <2>1. RowsAt(nodes, Front(p)) = {}
    BY <1>6, FoundAt DEF GrowInv, FindParent
  <2>2. PICK q \in Path : q = Front(p)
    BY <1>1, <1>6, PathParent
  <2>3. Len(q) = Len(p) - 1 /\ Len(q) \in Nat /\ Len(p) \in Nat
    BY <1>1, <1>6, <2>2, PathParent
  <2>4. PICK t : t = <<q>> \o todo[c]
    OBVIOUS
  <2>5. /\ todo'[c] = t /\ pc'[c] = "parent" /\ OthersStay(c)
    BY <1>1, <1>6, <2>2, <2>4 DEF OthersStay, TypeInv, FrameOK
  <2>6. /\ Len(t) = Len(todo[c]) + 1 /\ t[1] = q
        /\ \A i \in 2 .. Len(t) : t[i] = todo[c][i - 1] /\ i - 1 \in 1 .. Len(todo[c])
    BY <1>1, <2>4
  <2>7. Descending(todo[c])
    BY DEF GrowInv, FrameSound
  <2>8. Descending(t)
    <3>1. \A i \in 1 .. Len(todo[c]) :
            Len(todo[c][i]) = Len(p) + i - 1 /\ Len(todo[c][i]) <= 3
      BY <1>1, <2>7 DEF Descending
    <3>2. Len(p) <= 3
      BY <1>1, <3>1
    <3>3. \A i \in 2 .. Len(t) : Len(t[i]) = Len(p) + (i - 1) - 1 /\ Len(t[i]) <= 3
      BY <2>6, <3>1
    <3>4. \A i \in 1 .. Len(t) : i = 1 \/ i \in 2 .. Len(t)
      OBVIOUS
    <3>5. \A i \in 1 .. Len(t) : Len(t[i]) = Len(t[1]) + i - 1 /\ Len(t[i]) <= 3
      <4> SUFFICES ASSUME NEW i \in 1 .. Len(t)
                   PROVE  Len(t[i]) = Len(t[1]) + i - 1 /\ Len(t[i]) <= 3
        OBVIOUS
      <4>1. CASE i = 1
        BY <2>3, <2>6, <3>2, <4>1
      <4>2. CASE i \in 2 .. Len(t)
        BY <2>3, <2>6, <3>3, <4>2
      <4> QED
        BY <3>4, <4>1, <4>2
    <3>6. \A i \in 2 .. Len(t) : Front(t[i]) = t[i - 1]
      <4> SUFFICES ASSUME NEW i \in 2 .. Len(t)
                   PROVE  Front(t[i]) = t[i - 1]
        OBVIOUS
      <4>1. CASE i = 2
        <5>1. t[2] = todo[c][1]
          BY <2>6, <4>1
        <5> QED
          BY <1>1, <2>2, <2>6, <4>1, <5>1
      <4>2. CASE i > 2
        <5>1. i - 1 \in 2 .. Len(todo[c]) /\ i - 1 \in 2 .. Len(t) /\ t[i] = todo[c][i - 1]
          BY <1>1, <2>6, <4>2
        <5>2. Front(todo[c][i - 1]) = todo[c][i - 1 - 1] /\ t[i - 1] = todo[c][i - 1 - 1]
          BY <2>6, <2>7, <5>1 DEF Descending
        <5> QED
          BY <5>1, <5>2
      <4> QED
        BY <4>1, <4>2
    <3> QED
      BY <3>5, <3>6 DEF Descending
  <2>9. FrameSound(c)'
    BY <2>5, <2>8 DEF FrameSound
  <2>10. \A n \in Name : c \in Inserting(n)' => c \in Inserting(n) \/ RowsAt(nodes, <<n>>) = {}
    <3> SUFFICES ASSUME NEW n \in Name, NEW i \in 1 .. Len(t), t[i] = <<n>>
                 PROVE  c \in Inserting(n) \/ RowsAt(nodes, <<n>>) = {}
      BY <2>5 DEF Inserting
    <3>1. CASE i = 1
      BY <2>1, <2>2, <2>6, <3>1
    <3>2. CASE i \in 2 .. Len(t)
      BY <2>6, <3>2 DEF Inserting
    <3> QED
      BY <3>1, <3>2
  <2> QED
    BY <1>1, <2>5, <2>9, <2>10, SameRows
<1> QED
  BY <1>2, <1>3, <1>4, <1>5, <1>6

(* The parent that was looked up or inserted is there, and is found.        *)
LEMMA RefindParentGrow ==
  ASSUME Growing, TypeInv, GrowInv, NEW c \in Client, RefindParentNode(c)
  PROVE  GrowInv'
<1> DEFINE p == Head(todo[c])
<1>1. /\ nodes' = nodes /\ pc[c] = "refind" /\ p = todo[c][1] /\ p # RootPath
  BY DEF RefindParentNode, tables, TypeInv, FrameOK
<1>2. PICK s \in FindParent(nodes, p) : found' = [found EXCEPT ![c] = s]
  BY DEF RefindParentNode
<1>3. pc'[c] = "path" /\ found'[c] = s /\ todo' = todo /\ OthersStay(c)
  BY <1>2 DEF RefindParentNode, Goto, OthersStay, TypeInv, FrameOK
<1> HIDE DEF p
<1>4. s \in FindNode(nodes, Front(p))
  BY <1>1 DEF FindParent
<1>5. RowsAt(nodes, Front(p)) # {}
  BY <1>1 DEF GrowInv, FrameSound
<1>6. ParentFound(s, p)
  BY <1>4, <1>5, FoundAt DEF GrowInv, ParentFound
<1>7. FrameSound(c)'
  BY <1>1, <1>3, <1>6 DEF FrameSound, GrowInv, ParentFound
<1>8. \A n \in Name : c \in Inserting(n)' => c \in Inserting(n)
  BY <1>3 DEF Inserting
<1> QED
  BY <1>1, <1>3, <1>7, <1>8, SameRows

LEMMA QueryPathGrow ==
  ASSUME Growing, TypeInv, NestedSets(nodes), GrowInv, NEW c \in Client, QueryPath(c)
  PROVE  GrowInv'
<1>1. PICK p \in Path : p = todo[c][1] /\ p # RootPath
  BY DEF QueryPath, TypeInv, FrameOK
<1>2. nodes' = nodes /\ pc[c] = "path"
  BY DEF QueryPath, tables
<1>3. PICK q \in GetPath(nodes, found[c].id) : ppath' = [ppath EXCEPT ![c] = q]
  BY DEF QueryPath
<1>4. PICK r \in nodes : r.id = found[c].id /\ r.hash = Front(p)
  BY <1>1, <1>2 DEF GrowInv, FrameSound, ParentFound
<1>5. Front(p) \in Path /\ Len(Front(p)) = Len(p) - 1 /\ Len(p) \in Nat \ {0}
  BY <1>1, PathParent
<1>6. r.id = RootId <=> Len(Front(p)) = 0
  <2>1. PICK z \in nodes : z.hash = RootPath /\ z.id = RootId
    BY DEF GrowInv, RootFirst, TypeInv, TablesOK
  <2>2. Len(Front(p)) = 0 <=> Front(p) = RootPath
    <3>1. PICK f \in Seq(Name) : f = Front(p)
      BY <1>5 DEF Path
    <3>2. Len(f) = 0 <=> f = <<>>
      OBVIOUS
    <3> QED
      BY <3>1, <3>2 DEF RootPath
  <2>3. r.id = RootId => r = z
    BY <2>1 DEF TypeInv, TablesOK, UniqueIds
  <2> QED
    BY <1>4, <2>1, <2>2, <2>3 DEF TypeInv, TablesOK
<1>7. PathFits(q, p)
  <2>1. CASE r.id = RootId
    <3>1. q = <<>>
      BY <1>3, <1>4, <2>1, PathOfRoot DEF GrowInv
    <3>2. Len(p) = 1 /\ Front(p) = <<>>
      BY <1>5, <1>6, <2>1 DEF Path
    <3> QED
      BY <3>1, <3>2 DEF PathFits
  <2>2. CASE r.id # RootId
    <3>1. q # <<>>
      BY <1>3, <1>4, <2>2, PathOfOthers
    <3>2. Len(p) <= 2 => q = Front(p)
      <4>1. Len(p) <= 2 => Len(r.hash) = 1
        BY <1>4, <1>5, <1>6, <2>2
      <4>2. Len(r.hash) = 1 => q = r.hash
        BY <1>3, <1>4, <2>2, PathBelowRoot DEF GrowInv
      <4> QED
        BY <1>4, <4>1, <4>2
    <3> QED
      BY <3>1, <3>2 DEF PathFits
  <2> QED
    BY <2>1, <2>2
<1>8. /\ pc'[c] = "insert" /\ ppath'[c] = q /\ UNCHANGED <<todo, found>> /\ OthersStay(c)
  BY <1>3 DEF QueryPath, Goto, OthersStay, TypeInv, FrameOK
<1>9. FrameSound(c)'
  BY <1>1, <1>2, <1>7, <1>8 DEF FrameSound, GrowInv, ParentFound
<1>10. \A n \in Name : c \in Inserting(n)' => c \in Inserting(n)
  BY <1>8 DEF Inserting
<1> QED
  BY <1>2, <1>8, <1>9, <1>10, SameRows

(* An insertion adds at most one row at a path, and only at its own.        *)
LEMMA RowsAfterInsert ==
  ASSUME NEW T \in SUBSET Row, IsFiniteSet(T), NEW id, NEW dir, NEW l \in Nat, NEW h, NEW p,
         NEW U, U = InsertNode(T, id, dir, l, h)
  PROVE  /\ Cardinality(RowsAt(T, p)) \in Nat /\ Cardinality(RowsAt(U, p)) \in Nat
         /\ Cardinality(RowsAt(U, p)) <= Cardinality(RowsAt(T, p)) + 1
         /\ h # p => /\ Cardinality(RowsAt(U, p)) <= Cardinality(RowsAt(T, p))
                     /\ RowsAt(U, p) # {} => RowsAt(T, p) # {}
<1> DEFINE new == [id |-> id, dir |-> dir, lft |-> l + 1, rgt |-> l + 2, hash |-> h]
           old == RowsAt(T, p)
           img == {OpenGap(n, l) : n \in old}
           f   == [n \in old |-> OpenGap(n, l)]
<1>1. old \subseteq T /\ IsFiniteSet(old)
  BY FS_Subset DEF RowsAt
<1>2. f \in Surjection(old, img)
  BY DEF Surjection
<1>3. RowsAt(U, p) \subseteq img \cup {new}
  BY OpenGapRow DEF InsertNode, RowsAt
<1>4. h # p => RowsAt(U, p) \subseteq img
  BY OpenGapRow DEF InsertNode, RowsAt
<1>5. img # {} => old # {}
  OBVIOUS
<1> HIDE DEF f, old, img, new
<1>6. IsFiniteSet(img) /\ Cardinality(img) <= Cardinality(old)
  BY <1>1, <1>2, FS_Surjection
<1>7. IsFiniteSet(img \cup {new}) /\ Cardinality(img \cup {new}) <= Cardinality(img) + 1
  <2>1. Cardinality(img) \in Nat
    BY <1>6, FS_CardinalityType
  <2>2. /\ IsFiniteSet(img \cup {new})
        /\ Cardinality(img \cup {new}) = IF new \in img THEN Cardinality(img) ELSE Cardinality(img) + 1
    BY <1>6, FS_AddElement
  <2> QED
    BY <2>1, <2>2
<1>8. PICK V : V = RowsAt(U, p)
  OBVIOUS
<1>9. IsFiniteSet(V) /\ Cardinality(V) <= Cardinality(img \cup {new})
  BY <1>3, <1>7, <1>8, FS_Subset
<1>10. h # p => Cardinality(V) <= Cardinality(img)
  BY <1>4, <1>6, <1>8, FS_Subset
<1>11. /\ Cardinality(V) \in Nat /\ Cardinality(img) \in Nat /\ Cardinality(old) \in Nat
       /\ Cardinality(img \cup {new}) \in Nat
  BY <1>1, <1>6, <1>7, <1>9, FS_CardinalityType
<1>12. Cardinality(V) <= Cardinality(old) + 1 /\ (h # p => Cardinality(V) <= Cardinality(old))
  BY <1>6, <1>7, <1>9, <1>10, <1>11
<1>13. h # p => (V # {} => old # {})
  BY <1>4, <1>5, <1>8
<1> QED
  BY <1>8, <1>11, <1>12, <1>13 DEF old

(* A new row that comes directly below the root belongs there: it is the    *)
(* path asked for, and the bound it is given is that of the root.           *)
LEMMA InsertionFits ==
  ASSUME TypeInv, GrowInv, NEW c \in Client, pc[c] = "insert",
         NEW p, p = todo[c][1], NEW h, h = Append(ppath[c], Last(p))
  PROVE  /\ p \in Path /\ h \in Path /\ found[c].lft \in Nat /\ found[c].lft >= 1
         /\ Len(h) = 1 => h = p /\ found[c].lft = 1
         /\ Len(todo[c]) > 1 => h = p
<1>1. p \in Path /\ p # RootPath /\ ppath[c] \in Seq(Name) /\ found[c].lft \in Nat
  BY DEF TypeInv, FrameOK, Path, Snapshot
<1>2. FrameSound(c)
  BY DEF GrowInv
<1>3. PICK r \in nodes : r.id = found[c].id /\ r.hash = Front(p)
  BY <1>2 DEF FrameSound, ParentFound
<1>4. IF found[c].id = RootId THEN found[c].lft = 1 ELSE found[c].lft >= 2
  BY <1>2 DEF FrameSound, ParentFound
<1>5. /\ Front(p) \in Seq(Name) /\ Len(Front(p)) = Len(p) - 1 /\ Len(p) \in Nat \ {0}
      /\ Last(p) \in Name /\ Append(Front(p), Last(p)) = p
  BY <1>1, PathParent DEF Path
<1>6. PathFits(ppath[c], p)
  BY <1>2 DEF FrameSound
<1>7. PICK n \in Name : n = Last(p)
  BY <1>5
<1>8. h \in Seq(Name) /\ Len(h) = Len(ppath[c]) + 1 /\ Len(ppath[c]) \in Nat
  BY <1>1, <1>7
<1>9. Len(p) <= 2 => h = p
  BY <1>5, <1>6 DEF PathFits
<1>10. Len(h) = 1 => Len(p) <= 2
  <2>1. Len(h) = 1 => Len(ppath[c]) = 0
    BY <1>8
  <2>2. \A q \in Seq(Name) : Len(q) = 0 => q = <<>>
    OBVIOUS
  <2>3. ppath[c] = <<>> => Len(p) <= 2
    BY <1>6 DEF PathFits
  <2> QED
    BY <1>1, <2>1, <2>2, <2>3
<1>11. Len(h) = 1 => found[c].lft = 1
  <2> SUFFICES ASSUME Len(h) = 1 PROVE r.id = RootId
    BY <1>3, <1>4
  <2>1. Len(Front(p)) = 0
    <3>1. Len(p) = 1
      BY <1>9, <1>10, Zenon
    <3>2. Len(Front(p)) = Len(p) - 1
      BY <1>5
    <3> QED
      BY <3>1, <3>2
  <2>2. \A q \in Seq(Name) : Len(q) = 0 => q = <<>>
    OBVIOUS
  <2>3. r.hash = RootPath
    BY <1>3, <1>5, <2>1, <2>2 DEF RootPath
  <2> QED
    BY <2>3 DEF TypeInv, TablesOK
<1>12. Len(todo[c]) > 1 => Len(p) <= 2
  <2>1. Descending(todo[c]) /\ todo[c] \in Seq(Path)
    BY <1>2 DEF FrameSound, TypeInv, FrameOK
  <2> SUFFICES ASSUME Len(todo[c]) > 1 PROVE Len(p) <= 2
    OBVIOUS
  <2>2. Len(todo[c]) \in Nat
    BY <2>1
  <2>3. 2 \in 1 .. Len(todo[c])
    BY <2>2
  <2>4. Len(todo[c][2]) = Len(p) + 2 - 1 /\ Len(todo[c][2]) <= 3
    BY <2>1, <2>3 DEF Descending
  <2> QED
    BY <1>5, <2>4
<1> QED
  BY <1>1, <1>4, <1>8, <1>9, <1>10, <1>11, <1>12 DEF Path

(* The rows after an insertion.                                             *)
LEMMA InsertRowsGrow ==
  ASSUME TypeInv, GrowInv, NEW l \in Nat, l >= 1, NEW b \in BOOLEAN, NEW h \in Path,
         Len(h) = 1 => l = 1, nodes' = InsertNode(nodes, nextId, b, l, h)
  PROVE  RowsStay /\ RootFirst' /\ TopAlone' /\ RowsAt(nodes', h) # {}
<1> DEFINE new == [id |-> nextId, dir |-> b, lft |-> l + 1, rgt |-> l + 2, hash |-> h]
<1>1. nodes \in SUBSET Row /\ nextId \in Nat /\ RootId < nextId /\ UniqueIds(nodes)
  BY DEF TypeInv, TablesOK
<1>2. \A u \in nodes' : u = new \/ \E n \in nodes : u = OpenGap(n, l)
  BY DEF InsertNode
<1>3. new \in nodes' /\ \A n \in nodes : OpenGap(n, l) \in nodes'
  BY DEF InsertNode
<1>4. new.id = nextId /\ new.lft = l + 1 /\ new.rgt = l + 2 /\ new.hash = h
  OBVIOUS
<1> HIDE DEF new
<1>5. \A n \in nodes : /\ OpenGap(n, l).id = n.id /\ OpenGap(n, l).hash = n.hash
                       /\ OpenGap(n, l).lft = IF n.lft > l THEN n.lft + 2 ELSE n.lft
                       /\ n.lft \in Nat
  BY <1>1, OpenGapRow DEF Row
<1>6. RowsStay
  BY <1>3, <1>5 DEF RowsStay
<1>7. \A n \in nodes : n.id # 0 /\ IF n.id = RootId THEN n.lft = 1 ELSE n.lft >= 2
  BY DEF GrowInv, RootFirst
<1>8. RootFirst'
  <2>1. \E r \in nodes' : r.hash = RootPath
    BY <1>6 DEF RowsStay, GrowInv, RootFirst
  <2>2. ASSUME NEW u \in nodes'
        PROVE  u.id # 0 /\ IF u.id = RootId THEN u.lft = 1 ELSE u.lft >= 2
    <3>1. CASE u = new
      BY <1>1, <1>4, <3>1 DEF RootId
    <3>2. ASSUME NEW n \in nodes, u = OpenGap(n, l)
          PROVE  u.id # 0 /\ IF u.id = RootId THEN u.lft = 1 ELSE u.lft >= 2
      BY <1>5, <1>7, <3>2
    <3> QED
      BY <1>2, <3>1, <3>2
  <2> QED
    BY <2>1, <2>2 DEF RootFirst
<1>9. TopAlone'
  <2> SUFFICES ASSUME NEW u \in nodes', NEW v \in nodes', Len(v.hash) = 1, Covers(u, v)
               PROVE  u.id = RootId \/ u = v
    BY DEF TopAlone
  <2>1. CASE u = new /\ v = new
    BY <2>1
  <2>2. ASSUME NEW m \in nodes, u = OpenGap(m, l), v = new
        PROVE  u.id = RootId
    <3>1. u.lft <= 2 /\ l = 1
      BY <1>4, <2>2 DEF Covers
    <3>2. u.lft \in Nat /\ (u.lft <= 2 => m.lft <= 1)
      BY <1>5, <2>2, <3>1
    <3>3. IF m.id = RootId THEN m.lft = 1 ELSE m.lft >= 2
      BY <1>7
    <3> QED
      BY <1>5, <2>2, <3>1, <3>2, <3>3
  <2>3. ASSUME NEW n \in nodes, v = OpenGap(n, l), u = new
        PROVE  FALSE
    <3>1. l + 1 <= v.lft /\ v.lft <= l + 2
      BY <1>4, <2>3 DEF Covers
    <3> QED
      BY <1>5, <2>3, <3>1
  <2>4. ASSUME NEW m \in nodes, u = OpenGap(m, l), NEW n \in nodes, v = OpenGap(n, l)
        PROVE  u.id = RootId \/ u = v
    <3>1. Covers(m, n)
      BY <1>1, <2>4, OpenGapCovers
    <3>2. Len(n.hash) = 1
      BY <1>5, <2>4
    <3>3. m.id = RootId \/ m = n
      BY <3>1, <3>2 DEF GrowInv, TopAlone
    <3> QED
      BY <1>5, <2>4, <3>3
  <2> QED
    BY <1>2, <2>1, <2>2, <2>3, <2>4
<1> QED
  BY <1>3, <1>4, <1>6, <1>8, <1>9 DEF RowsAt

(* Whoever inserts a path below the root does not insert it once more.      *)
LEMMA InsertCounted ==
  ASSUME Growing, TypeInv, GrowInv, NEW c \in Client, NEW l \in Nat, NEW b, NEW h,
         nodes' = InsertNode(nodes, nextId, b, l, h), OthersStay(c),
         \A n \in Name : c \in Inserting(n)' => c \in Inserting(n),
         \A n \in Name : h = <<n>> => c \in Inserting(n) /\ c \notin Inserting(n)'
  PROVE  RepeatsCounted'
<1> SUFFICES ASSUME NEW n \in Name, RowsAt(nodes', <<n>>) # {}
             PROVE  Cardinality(RowsAt(nodes', <<n>>)) + Cardinality(Inserting(n)') <= Cardinality(Client)
  BY DEF RepeatsCounted
<1> DEFINE before == RowsAt(nodes, <<n>>)
           after == RowsAt(nodes', <<n>>)
           ins   == Inserting(n)
           ins1  == Inserting(n)'
<1>1. nodes \in SUBSET Row /\ IsFiniteSet(nodes)
  BY DEF TypeInv, TablesOK
<1>2. /\ Cardinality(before) \in Nat /\ Cardinality(after) \in Nat
      /\ Cardinality(after) <= Cardinality(before) + 1
      /\ h # <<n>> => Cardinality(after) <= Cardinality(before) /\ before # {}
  BY <1>1, RowsAfterInsert
<1>3. ins \subseteq Client /\ IsFiniteSet(Client) /\ IsFiniteSet(ins)
  BY FS_Subset DEF Inserting, Growing
<1>4. ins1 \subseteq ins
  <2> SUFFICES ASSUME NEW d \in ins1 PROVE d \in ins
    OBVIOUS
  <2>1. d \in Client
    BY DEF Inserting
  <2>2. CASE d # c
    BY <2>1, <2>2 DEF Inserting, OthersStay
  <2> QED
    BY <2>2
<1>5. h = <<n>> => c \in ins /\ c \notin ins1
  OBVIOUS
<1>6. before = {} \/ Cardinality(before) + Cardinality(ins) <= Cardinality(Client)
  BY DEF GrowInv, RepeatsCounted
<1> HIDE DEF before, after, ins, ins1
<1>7. IsFiniteSet(ins1) /\ Cardinality(ins1) <= Cardinality(ins)
  BY <1>3, <1>4, FS_Subset
<1>8. Cardinality(ins) \in Nat /\ Cardinality(ins1) \in Nat /\ Cardinality(Client) \in Nat
  BY <1>3, <1>7, FS_CardinalityType
<1>9. CASE h # <<n>>
  BY <1>2, <1>6, <1>7, <1>8, <1>9 DEF after, ins1
<1>10. CASE h = <<n>>
  <2>1. ins1 \subseteq ins \ {c} /\ ins1 \subseteq Client \ {c} /\ c \in ins /\ c \in Client
    BY <1>3, <1>4, <1>5, <1>10
  <2>2. /\ IsFiniteSet(ins \ {c}) /\ Cardinality(ins \ {c}) = Cardinality(ins) - 1
    BY <1>3, <2>1, FS_RemoveElement
  <2>3. /\ IsFiniteSet(Client \ {c}) /\ Cardinality(Client \ {c}) = Cardinality(Client) - 1
    BY <1>3, <2>1, FS_RemoveElement
  <2>4. Cardinality(ins1) <= Cardinality(ins \ {c})
    BY <2>1, <2>2, FS_Subset
  <2>5. Cardinality(ins1) <= Cardinality(Client \ {c})
    BY <2>1, <2>3, FS_Subset
  <2>6. before = {} => Cardinality(before) = 0
    BY FS_EmptySet
  <2>7. CASE before = {}
    <3>1. Cardinality(after) <= 1
      BY <1>2, <2>6, <2>7
    <3>2. Cardinality(after) + Cardinality(ins1) <= Cardinality(Client)
      BY <1>2, <1>8, <2>3, <2>5, <3>1
    <3> QED
      BY <3>2 DEF after, ins1
  <2>8. CASE before # {}
    <3>1. Cardinality(after) + Cardinality(ins1) <= Cardinality(Client)
      BY <1>2, <1>6, <1>8, <2>2, <2>4, <2>8
    <3> QED
      BY <3>1 DEF after, ins1
  <2> QED
    BY <2>7, <2>8
<1> QED
  BY <1>9, <1>10

LEMMA ExecInsertGrow ==
  ASSUME Growing, TypeInv, GrowInv, NEW c \in Client, ExecInsertNode(c)
  PROVE  GrowInv'
<1>1. PICK p : p = todo[c][1]
  OBVIOUS
<1>2. PICK h : h = Append(ppath[c], Last(p))
  OBVIOUS
<1>3. /\ pc[c] = "insert" /\ todo[c] \in Seq(Path) /\ todo[c] # <<>> /\ Head(todo[c]) = p
      /\ Len(todo[c]) \in Nat \ {0}
  BY <1>1 DEF ExecInsertNode, TypeInv, FrameOK
<1>4. PICK l : l = found[c].lft
  OBVIOUS
<1>5. /\ p \in Path /\ h \in Path /\ l \in Nat /\ l >= 1
      /\ Len(h) = 1 => h = p /\ l = 1
      /\ Len(todo[c]) > 1 => h = p
  BY <1>1, <1>2, <1>3, <1>4, InsertionFits
<1>6. CASE nodes' = nodes /\ Return(c)
  BY <1>6, CalmSound DEF Return, Goto, OthersStay, TypeInv, FrameOK
<1>7. ASSUME NEW b \in BOOLEAN, nodes' = InsertNode(nodes, nextId, b, l, h),
             \/ Return(c)
             \/ /\ Len(todo[c]) > 1
                /\ todo' = [todo EXCEPT ![c] = Tail(@)]
                /\ Goto(c, "refind")
                /\ UNCHANGED <<found, ppath>>
      PROVE  GrowInv'
  <2>1. PICK t : t = Tail(todo[c])
    OBVIOUS
  <2>2. Len(todo[c]) > 1 => /\ t \in Seq(Path) /\ Len(t) = Len(todo[c]) - 1
                            /\ \A i \in 1 .. Len(t) : t[i] = todo[c][i + 1] /\ i + 1 \in 1 .. Len(todo[c])
    BY <1>3, <2>1, LongTail
  <2>3. OthersStay(c)
    BY <1>7 DEF Return, Goto, OthersStay, TypeInv, FrameOK
  <2>4. RowsStay /\ RootFirst' /\ TopAlone' /\ RowsAt(nodes', h) # {}
    BY <1>5, <1>7, InsertRowsGrow
  <2>5. \/ todo'[c] = <<>> /\ pc'[c] = "idle"
        \/ Len(todo[c]) > 1 /\ todo'[c] = t /\ pc'[c] = "refind"
    BY <1>7, <2>1 DEF Return, Goto, TypeInv, FrameOK
  <2>6. Len(<<>>) = 0 /\ 1 .. 0 = {} /\ 2 .. 0 = {}
    OBVIOUS
  <2>7. Descending(todo[c])
    BY DEF GrowInv, FrameSound
  <2>8. CASE todo'[c] = <<>> /\ pc'[c] = "idle"
    <3>1. FrameSound(c)'
      BY <2>6, <2>8 DEF FrameSound, Descending
    <3>2. \A n \in Name : c \notin Inserting(n)'
      BY <2>6, <2>8 DEF Inserting
    <3>3. \A n \in Name : h = <<n>> => c \in Inserting(n)
      <4> SUFFICES ASSUME NEW n \in Name, h = <<n>> PROVE c \in Inserting(n)
        OBVIOUS
      <4>1. Len(h) = 1
        OBVIOUS
      <4>2. todo[c][1] = <<n>> /\ 1 \in 1 .. Len(todo[c])
        BY <1>1, <1>3, <1>5, <4>1
      <4> QED
        BY <4>2 DEF Inserting
    <3>4. RepeatsCounted'
      BY <1>5, <1>7, <2>3, <3>2, <3>3, InsertCounted
    <3>5. \A d \in Client : FrameSound(d)'
      BY <2>3, <2>4, <3>1, OthersSound
    <3> QED
      BY <2>4, <3>4, <3>5 DEF GrowInv
  <2>9. CASE Len(todo[c]) > 1 /\ todo'[c] = t /\ pc'[c] = "refind"
    <3>1. h = p
      BY <1>5, <2>9
    <3>2. /\ Len(t) \in Nat \ {0}
          /\ \A i \in 1 .. Len(t) : t[i] = todo[c][i + 1] /\ i + 1 \in 2 .. Len(todo[c])
      BY <1>3, <2>2, <2>9
    <3>3. \A i \in 2 .. Len(todo[c]) : /\ Len(todo[c][i]) = Len(p) + i - 1 /\ Len(todo[c][i]) <= 3
                                       /\ Front(todo[c][i]) = todo[c][i - 1]
      BY <1>1, <2>7 DEF Descending
    <3>4. t[1] = todo[c][2] /\ Front(t[1]) = p /\ Len(t[1]) = Len(p) + 1 /\ Len(p) \in Nat
      BY <1>1, <1>5, <3>2, <3>3 DEF Path
    <3>5. Descending(t)
      <4>1. \A i \in 1 .. Len(t) : Len(t[i]) = Len(t[1]) + i - 1 /\ Len(t[i]) <= 3
        <5> SUFFICES ASSUME NEW i \in 1 .. Len(t)
                     PROVE  Len(t[i]) = Len(t[1]) + i - 1 /\ Len(t[i]) <= 3
          OBVIOUS
        <5>1. t[i] = todo[c][i + 1] /\ i + 1 \in 2 .. Len(todo[c])
          BY <3>2
        <5>2. Len(t[i]) = Len(p) + (i + 1) - 1 /\ Len(t[i]) <= 3
          BY <3>3, <5>1
        <5>3. PICK k \in Nat : k = Len(p)
          BY <3>4
        <5>4. i \in Int /\ Len(t[i]) = k + (i + 1) - 1
          BY <5>2, <5>3
        <5>5. Len(t[1]) = k + 1
          BY <3>4, <5>3
        <5> QED
          BY <5>2, <5>4, <5>5
      <4>2. \A i \in 2 .. Len(t) : Front(t[i]) = t[i - 1]
        <5> SUFFICES ASSUME NEW i \in 2 .. Len(t) PROVE Front(t[i]) = t[i - 1]
          OBVIOUS
        <5>1. i \in 1 .. Len(t) /\ i - 1 \in 1 .. Len(t) /\ i + 1 - 1 = i /\ i - 1 + 1 = i
          BY <3>2
        <5>2. t[i] = todo[c][i + 1] /\ i + 1 \in 2 .. Len(todo[c]) /\ t[i - 1] = todo[c][i]
          BY <3>2, <5>1
        <5>3. Front(todo[c][i + 1]) = todo[c][i]
          BY <3>3, <5>1, <5>2
        <5> QED
          BY <5>2, <5>3
      <4> QED
        BY <4>1, <4>2 DEF Descending
    <3>6. FrameSound(c)'
      BY <2>4, <2>9, <3>1, <3>4, <3>5 DEF FrameSound
    <3>7. \A n \in Name : c \in Inserting(n)' => c \in Inserting(n)
      BY <2>9, <2>2 DEF Inserting
    <3>8. \A n \in Name : h = <<n>> => c \in Inserting(n) /\ c \notin Inserting(n)'
      <4> SUFFICES ASSUME NEW n \in Name, h = <<n>>
                   PROVE  c \in Inserting(n) /\ c \notin Inserting(n)'
        OBVIOUS
      <4>1. Len(p) = 1
        BY <3>1
      <4>2. todo[c][1] = <<n>> /\ 1 \in 1 .. Len(todo[c])
        BY <1>1, <1>3, <3>1
      <4>3. ASSUME NEW i \in 1 .. Len(t), t[i] = <<n>>
            PROVE  FALSE
        <5>1. PICK k \in Int : k = Len(t[i]) /\ k = 1
          BY <4>3
        <5>2. k = 1 + (i + 1) - 1
          BY <3>2, <3>3, <4>1, <5>1
        <5>3. i >= 1 /\ i \in Int
          OBVIOUS
        <5>4. \A m \in Int : m >= 1 => 1 # 1 + (m + 1) - 1
          OBVIOUS
        <5> QED
          BY <5>1, <5>2, <5>3, <5>4, Zenon
      <4> QED
        BY <2>9, <4>2, <4>3 DEF Inserting
    <3>9. RepeatsCounted'
      BY <1>5, <1>7, <2>3, <3>7, <3>8, InsertCounted
    <3>10. \A d \in Client : FrameSound(d)'
      BY <2>3, <2>4, <3>6, OthersSound
    <3> QED
      BY <2>4, <3>9, <3>10 DEF GrowInv
  <2> QED
    BY <2>5, <2>8, <2>9
<1>8. \/ nodes' = nodes /\ Return(c)
      \/ /\ nodes' = InsertNode(nodes, nextId, call[c].kind = "dir", l, h)
         /\ \/ Return(c)
            \/ /\ Len(todo[c]) > 1
               /\ todo' = [todo EXCEPT ![c] = Tail(@)]
               /\ Goto(c, "refind")
               /\ UNCHANGED <<found, ppath>>
  BY <1>2, <1>3, <1>4 DEF ExecInsertNode
<1>9. PICK b \in BOOLEAN : b = (call[c].kind = "dir")
  OBVIOUS
<1> QED
  BY <1>6, <1>7, <1>8, <1>9

LEMMA OtherGrow ==
  ASSUME Growing, TypeInv, GrowInv, NEW c \in Client,
         \/ \E k \in Key, v \in Value : SetAttribute(c, k, v)
         \/ \E k \in Key, v, w \in Value : SetVectorAttribute(c, k, <<v, w>>)
         \/ \E k \in Key : RemoveAttribute(c, k)
         \/ List(c)
         \/ \E p \in Target : ChangeDir(c, p)
         \/ ExecVectorValue(c)
         \/ SelectChildren(c)
         \/ DatabaseError(c)
  PROVE  GrowInv'
<1>1. nodes' = nodes
  BY DEF SetAttribute, SetVectorAttribute, RemoveAttribute, List, ChangeDir, ExecVectorValue,
     SelectChildren, DatabaseError, tables
<1>2. CASE Return(c)
  BY <1>1, <1>2, CalmSound DEF Return, Goto, OthersStay, TypeInv, FrameOK
<1>3. CASE /\ pc[c] \notin {"refind", "path", "insert"} /\ UNCHANGED <<todo, found, ppath>>
           /\ pc' = pc \/ \E w \in {"vector", "children"} : Goto(c, w)
  BY <1>1, <1>3, CalmSound DEF Goto, OthersStay, TypeInv, FrameOK
<1>4. \/ Return(c)
      \/ /\ pc[c] \notin {"refind", "path", "insert"} /\ UNCHANGED <<todo, found, ppath>>
         /\ pc' = pc \/ \E w \in {"vector", "children"} : Goto(c, w)
  <2>1. CASE \/ \E k \in Key, v \in Value : SetAttribute(c, k, v)
             \/ \E k \in Key : RemoveAttribute(c, k)
             \/ \E p \in Target : ChangeDir(c, p)
    BY <2>1 DEF SetAttribute, RemoveAttribute, ChangeDir, IsOpen, Idle, frame
  <2>2. CASE List(c) \/ \E k \in Key, v, w \in Value : SetVectorAttribute(c, k, <<v, w>>)
    BY <2>2 DEF List, SetVectorAttribute, IsOpen, Idle
  <2>3. CASE ExecVectorValue(c) \/ SelectChildren(c) \/ DatabaseError(c)
    BY <2>3 DEF ExecVectorValue, SelectChildren, DatabaseError
  <2> QED
    BY <2>1, <2>2, <2>3
<1> QED
  BY <1>2, <1>3, <1>4

LEMMA NextGrow ==
  ASSUME Growing, TypeInv, NestInv, GrowInv, [Next]_vars
  PROVE  GrowInv'
<1>1. CASE UNCHANGED vars
  <2>1. UNCHANGED <<nodes, pc, todo, found, ppath>>
    BY <1>1 DEF vars
  <2> QED
    BY <2>1 DEF GrowInv, RootFirst, TopAlone, FrameSound, ParentFound, RepeatsCounted, Inserting
<1>2. ASSUME NEW c \in Client,
             RemoveSelf(c) \/ ExecRemoveNode(c) \/ \E p \in Target, r \in BOOLEAN : RemoveEntry(c, p, r)
      PROVE  FALSE
  <2>1. ~ \E d \in Client : pc[d] = "remove"
    BY DEF NestInv, FreshFound, Growing
  <2> QED
    BY <1>2, <2>1 DEF RemoveSelf, RemoveEntry, ExecRemoveNode, Growing
<1> QED
  BY <1>1, <1>2, OpenGrow, FindParentGrow, RefindParentGrow, QueryPathGrow, ExecInsertGrow,
     OtherGrow DEF Next, Continue, NestInv

LEMMA InitGrow == Growing /\ Init => GrowInv
<1> SUFFICES ASSUME Growing, Init PROVE GrowInv
  OBVIOUS
<1>1. nodes = {RootRow} /\ RootRow.hash = RootPath /\ RootRow.id = RootId /\ RootRow.lft = 1
  BY DEF Init, RootRow
<1>2. Len(RootPath) = 0 /\ Len(<<>>) = 0 /\ 1 .. 0 = {} /\ 2 .. 0 = {}
  BY DEF RootPath
<1>3. RootFirst /\ TopAlone
  BY <1>1 DEF RootFirst, TopAlone, RootId
<1>4. \A c \in Client : todo[c] = <<>> /\ pc[c] = "idle"
  BY DEF Init
<1>5. \A c \in Client : FrameSound(c)
  BY <1>2, <1>4 DEF FrameSound, Descending
<1>6. \A n \in Name : RowsAt(nodes, <<n>>) = {}
  <2>1. \A n \in Name : <<n>> # RootPath
    <3>1. \A n \in Name : Len(<<n>>) = 1
      OBVIOUS
    <3> QED
      BY <1>2, <3>1
  <2> QED
    BY <1>1, <2>1 DEF RowsAt
<1> QED
  BY <1>3, <1>5, <1>6 DEF GrowInv, RepeatsCounted

(* A path below the root gets at most one row from each client, for any     *)
(* number of clients opening and creating in any order.                     *)
THEOREM RepeatsAreRare ==
  ASSUME Growing
  PROVE  Spec => []RepeatsBounded
<1>1. Careful
  BY DEF Growing, Careful
<1>2. Init => NestInv /\ GrowInv
  BY InitGrow DEF Init, NestInv, FreshFound, NestedSets, RootRow
<1>3. TypeInv /\ NestInv /\ GrowInv /\ [Next]_vars => NestInv' /\ GrowInv'
  BY <1>1, NextNest, NextGrow
<1>4. TypeInv /\ GrowInv => RepeatsBounded
  <2> SUFFICES ASSUME TypeInv, GrowInv, NEW n \in Name
               PROVE  Cardinality(RowsAt(nodes, <<n>>)) <= Cardinality(Client)
    BY DEF RepeatsBounded
  <2>1. /\ RowsAt(nodes, <<n>>) \subseteq nodes /\ IsFiniteSet(nodes)
        /\ Inserting(n) \subseteq Client /\ IsFiniteSet(Client)
    BY DEF RowsAt, TypeInv, TablesOK, Inserting, Growing
  <2>2. /\ Cardinality(RowsAt(nodes, <<n>>)) \in Nat /\ Cardinality(Inserting(n)) \in Nat
        /\ Cardinality(Client) \in Nat
    BY <2>1, FS_Subset, FS_CardinalityType
  <2>3. RowsAt(nodes, <<n>>) = {} => Cardinality(RowsAt(nodes, <<n>>)) = 0
    BY FS_EmptySet
  <2>4. \/ RowsAt(nodes, <<n>>) = {}
        \/ Cardinality(RowsAt(nodes, <<n>>)) + Cardinality(Inserting(n)) <= Cardinality(Client)
    BY DEF GrowInv, RepeatsCounted
  <2> QED
    BY <2>2, <2>3, <2>4
<1> QED
  BY <1>2, <1>3, <1>4, TypeInvariant, PTL DEF Spec

-----------------------------------------------------------------------------
(***************************************************************************)
(* One client at a time: the intervals nest as the paths do.               *)
(***************************************************************************)

(* The first k elements of a sequence.                                      *)
LEMMA TakeOf ==
  ASSUME NEW S, NEW s, NEW k \in Nat, \A i \in 1 .. k : s[i] \in S
  PROVE  /\ SubSeq(s, 1, k) \in Seq(S) /\ Len(SubSeq(s, 1, k)) = k
         /\ \A i \in 1 .. k : SubSeq(s, 1, k)[i] = s[i]
<1>1. PICK f : f = SubSeq(s, 1, k)
  OBVIOUS
<1>2. f \in Seq(S)
  BY <1>1, SubSeqProperties
<1>3. Len(f) = IF 1 <= k THEN k - 1 + 1 ELSE 0
  BY <1>1, SubSeqProperties
<1>4. \A i \in 1 .. k - 1 + 1 : f[i] = s[1 + i - 1]
  BY <1>1, SubSeqProperties
<1>5. \A i \in 1 .. k : i \in 1 .. k - 1 + 1 /\ 1 + i - 1 = i
  OBVIOUS
<1>6. Len(f) = k
  BY <1>3
<1> QED
  BY <1>1, <1>2, <1>4, <1>5, <1>6

(* A path begins with another if it agrees with it as far as that goes.     *)
LEMMA PrefixElements ==
  ASSUME NEW p \in Path, NEW q \in Path
  PROVE  IsPrefix(p, q) <=> Len(p) <= Len(q) /\ \A i \in 1 .. Len(p) : p[i] = q[i]
<1>1. p \in Seq(Name) /\ q \in Seq(Name) /\ Len(p) \in Nat /\ Len(q) \in Nat
  BY DEF Path
<1> SUFFICES ASSUME Len(p) <= Len(q)
             PROVE  SubSeq(p, 1, Len(p)) = SubSeq(q, 1, Len(p)) <=> \A i \in 1 .. Len(p) : p[i] = q[i]
  BY DEF IsPrefix
<1>2. PICK k \in Nat : k = Len(p)
  BY <1>1
<1>3. PICK f : f = SubSeq(p, 1, k)
  OBVIOUS
<1>4. PICK g : g = SubSeq(q, 1, k)
  OBVIOUS
<1>5. f \in Seq(Name) /\ Len(f) = k /\ \A i \in 1 .. k : f[i] = p[i]
  <2>1. \A i \in 1 .. k : p[i] \in Name
    BY <1>1, <1>2
  <2> QED
    BY <1>3, <2>1, TakeOf
<1>6. g \in Seq(Name) /\ Len(g) = k /\ \A i \in 1 .. k : g[i] = q[i]
  <2>1. \A i \in 1 .. k : q[i] \in Name
    BY <1>1, <1>2
  <2> QED
    BY <1>4, <2>1, TakeOf
<1>7. (\A i \in 1 .. k : p[i] = q[i]) => f = g
  BY <1>5, <1>6, SeqEqual
<1>8. f = g => \A i \in 1 .. k : p[i] = q[i]
  BY <1>5, <1>6
<1> QED
  BY <1>2, <1>3, <1>4, <1>7, <1>8

(* "Begins with" orders the paths, and those a path begins with are a chain. *)
LEMMA PrefixOrder ==
  ASSUME NEW p \in Path, NEW q \in Path, NEW r \in Path
  PROVE  /\ IsPrefix(p, p)
         /\ IsPrefix(p, q) => Len(p) <= Len(q)
         /\ IsPrefix(p, q) /\ Len(p) = Len(q) => p = q
         /\ IsPrefix(p, q) /\ IsPrefix(q, r) => IsPrefix(p, r)
         /\ IsPrefix(p, r) /\ IsPrefix(q, r) /\ Len(p) <= Len(q) => IsPrefix(p, q)
<1>1. p \in Seq(Name) /\ q \in Seq(Name) /\ Len(p) \in Nat /\ Len(q) \in Nat /\ Len(r) \in Nat
  BY DEF Path
<1>2. IsPrefix(p, p)
  BY <1>1, PrefixElements
<1>3. IsPrefix(p, q) => Len(p) <= Len(q) /\ \A i \in 1 .. Len(p) : p[i] = q[i]
  BY PrefixElements
<1>4. IsPrefix(q, r) => Len(q) <= Len(r) /\ \A i \in 1 .. Len(q) : q[i] = r[i]
  BY PrefixElements
<1>5. IsPrefix(p, r) => Len(p) <= Len(r) /\ \A i \in 1 .. Len(p) : p[i] = r[i]
  BY PrefixElements
<1>6. IsPrefix(p, q) /\ Len(p) = Len(q) => p = q
  BY <1>1, <1>3, SeqEqual
<1>7. Len(p) <= Len(q) => \A i \in 1 .. Len(p) : i \in 1 .. Len(q)
  BY <1>1
<1>8. ASSUME IsPrefix(p, q), IsPrefix(q, r)
      PROVE  IsPrefix(p, r)
  <2>1. \A i \in 1 .. Len(p) : p[i] = r[i]
    BY <1>3, <1>4, <1>7, <1>8
  <2>2. Len(p) <= Len(r)
    BY <1>1, <1>3, <1>4, <1>8
  <2> QED
    BY <2>1, <2>2, PrefixElements
<1>9. ASSUME IsPrefix(p, r), IsPrefix(q, r), Len(p) <= Len(q)
      PROVE  IsPrefix(p, q)
  <2>1. \A i \in 1 .. Len(p) : p[i] = q[i]
    BY <1>4, <1>5, <1>7, <1>9
  <2> QED
    BY <1>9, <2>1, PrefixElements
<1> QED
  BY <1>2, <1>3, <1>6, <1>8, <1>9

(* The first components of a path are a path it begins with.                *)
LEMMA PrefixTake ==
  ASSUME NEW q \in Path, NEW k \in 0 .. Len(q)
  PROVE  /\ SubSeq(q, 1, k) \in Path /\ Len(SubSeq(q, 1, k)) = k
         /\ IsPrefix(SubSeq(q, 1, k), q)
         /\ \A i \in 1 .. k : SubSeq(q, 1, k)[i] = q[i]
<1>1. q \in Seq(Name) /\ Len(q) \in Nat /\ k \in Nat /\ k <= Len(q)
  BY DEF Path
<1>2. \A i \in 1 .. k : q[i] \in Name
  BY <1>1
<1>3. PICK f : f = SubSeq(q, 1, k)
  OBVIOUS
<1>4. f \in Path /\ Len(f) = k /\ \A i \in 1 .. k : f[i] = q[i]
  BY <1>1, <1>2, <1>3, TakeOf DEF Path
<1>5. IsPrefix(f, q)
  BY <1>1, <1>4, PrefixElements
<1> QED
  BY <1>3, <1>4, <1>5

(* A path begins with itself and with what its parent begins with.          *)
LEMMA PrefixOfChild ==
  ASSUME NEW p \in Path, NEW q \in Path, q # RootPath
  PROVE  IsPrefix(p, q) <=> IsPrefix(p, Front(q)) \/ p = q
<1>1. /\ Len(q) \in Nat \ {0} /\ Len(q) - 1 \in 0 .. Len(q)
      /\ Front(q) = SubSeq(q, 1, Len(q) - 1)
  <2>1. Len(q) \in Nat \ {0}
    BY PathParent
  <2> QED
    BY <2>1 DEF Front
<1>2. PICK f \in Path : f = Front(q)
  BY PathParent
<1>3. Len(f) = Len(q) - 1 /\ IsPrefix(f, q)
  BY <1>1, <1>2, PrefixTake
<1>4. IsPrefix(p, f) => IsPrefix(p, q)
  BY <1>3, PrefixOrder
<1>5. p = q => IsPrefix(p, q)
  BY PrefixOrder
<1>6. ASSUME IsPrefix(p, q), p # q
      PROVE  IsPrefix(p, f)
  <2>1. Len(p) \in Nat /\ Len(p) <= Len(q) /\ Len(p) # Len(q)
    BY <1>6, PrefixOrder DEF Path
  <2>2. Len(p) <= Len(f)
    BY <1>1, <1>3, <2>1
  <2> QED
    BY <1>3, <1>6, <2>2, PrefixOrder
<1> QED
  BY <1>2, <1>4, <1>5, <1>6

LEMMA PrefixOfRoot ==
  ASSUME NEW p \in Path
  PROVE  /\ RootPath \in Path /\ IsPrefix(RootPath, p)
         /\ IsPrefix(p, RootPath) => p = RootPath
         /\ Len(p) = 0 <=> p = RootPath
<1>1. RootPath \in Path /\ Len(RootPath) = 0 /\ 1 .. 0 = {} /\ p \in Seq(Name) /\ Len(p) \in Nat
  BY DEF RootPath, Path
<1>2. Len(p) = 0 <=> p = RootPath
  BY <1>1 DEF RootPath
<1>3. IsPrefix(RootPath, p)
  BY <1>1, PrefixElements
<1>4. IsPrefix(p, RootPath) => Len(p) <= 0
  BY <1>1, PrefixOrder
<1> QED
  BY <1>1, <1>2, <1>3, <1>4

(* The table holds every path once, together with the paths above it, and  *)
(* the intervals nest as the paths do.                                     *)
PathTree(T) ==
  /\ \A m, n \in T : m.hash = n.hash => m = n
  /\ \A m, n \in T : Covers(m, n) <=> IsPrefix(m.hash, n.hash)
  /\ \A n \in T, p \in Path : IsPrefix(p, n.hash) => RowsAt(T, p) # {}

(* The paths in the table. *)
Hashes(T) == {n.hash : n \in T}

(* Everything one client keeps true of the table. *)
TreeTable(T) == T \in SUBSET Row /\ UniqueIds(T) /\ NestedSets(T) /\ PathTree(T)

(* A new row whose bounds come from the row above it.                       *)
LEMMA InsertKeepsTree ==
  ASSUME NEW T, TreeTable(T), NEW r \in T,
         NEW p \in Path, p # RootPath, r.hash = Front(p), RowsAt(T, p) = {}, NEW id, NEW b
  PROVE  /\ PathTree(InsertNode(T, id, b, r.lft, p))
         /\ Hashes(InsertNode(T, id, b, r.lft, p)) = Hashes(T) \cup {p}
<1>0. PICK U : U = InsertNode(T, id, b, r.lft, p)
  OBVIOUS
<1> DEFINE new == [id |-> id, dir |-> b, lft |-> r.lft + 1, rgt |-> r.lft + 2, hash |-> p]
<1> USE DEF TreeTable
<1>1. PICK l \in Nat : l = r.lft
  BY DEF Row
<1>2. \A u \in U : u = new \/ \E n \in T : u = OpenGap(n, l)
  BY <1>0, <1>1 DEF InsertNode
<1>3. new \in U /\ \A n \in T : OpenGap(n, l) \in U
  BY <1>0, <1>1 DEF InsertNode
<1>4. new.lft = l + 1 /\ new.rgt = l + 2 /\ new.hash = p
  BY <1>1
<1> HIDE DEF new
<1>5. \A n \in T : /\ OpenGap(n, l).hash = n.hash
                   /\ OpenGap(n, l).lft = IF n.lft > l THEN n.lft + 2 ELSE n.lft
                   /\ OpenGap(n, l).rgt = IF n.rgt > l THEN n.rgt + 2 ELSE n.rgt
                   /\ n.lft \in Nat /\ n.rgt \in Nat /\ n.hash \in Path /\ n.hash # p
                   /\ n.lft < n.rgt
  <2> SUFFICES ASSUME NEW n \in T
               PROVE  /\ OpenGap(n, l).hash = n.hash
                      /\ OpenGap(n, l).lft = IF n.lft > l THEN n.lft + 2 ELSE n.lft
                      /\ OpenGap(n, l).rgt = IF n.rgt > l THEN n.rgt + 2 ELSE n.rgt
                      /\ n.lft \in Nat /\ n.rgt \in Nat /\ n.hash \in Path /\ n.hash # p
                      /\ n.lft < n.rgt
    OBVIOUS
  <2>1. n \in Row
    OBVIOUS
  <2>2. n.lft \in Nat /\ n.rgt \in Nat /\ n.hash \in Path
    BY <2>1 DEF Row
  <2>3. n.hash # p /\ n.lft < n.rgt
    BY DEF RowsAt, NestedSets
  <2> QED
    BY <1>1, <2>1, <2>2, <2>3, OpenGapRow
<1>6. Hashes(U) = Hashes(T) \cup {p}
  BY <1>2, <1>3, <1>4, <1>5 DEF Hashes
<1>7. \A q \in Path : RowsAt(T, q) # {} \/ q = p => RowsAt(U, q) # {}
  BY <1>3, <1>4, <1>5 DEF RowsAt
<1>8. ASSUME NEW u \in U, NEW v \in U, u.hash = v.hash
      PROVE  u = v
  <2>1. CASE u = new \/ v = new
    BY <1>2, <1>4, <1>5, <1>8, <2>1
  <2>2. ASSUME NEW m \in T, u = OpenGap(m, l), NEW n \in T, v = OpenGap(n, l)
        PROVE  u = v
    BY <1>5, <1>8, <2>2 DEF PathTree
  <2> QED
    BY <1>2, <2>1, <2>2
<1>9. ASSUME NEW u \in U, NEW v \in U
      PROVE  Covers(u, v) <=> IsPrefix(u.hash, v.hash)
  <2>1. CASE u = new /\ v = new
    BY <1>1, <1>4, <2>1, PrefixOrder DEF Covers
  <2>2. ASSUME NEW m \in T, u = OpenGap(m, l), v = new
        PROVE  Covers(u, v) <=> IsPrefix(u.hash, v.hash)
    <3>1. Covers(u, v) <=> u.lft <= l + 1 /\ l + 1 <= u.rgt
      BY <1>4, <2>2 DEF Covers
    <3>2. m.rgt # l
      <4>1. CASE m.id = r.id
        BY <1>1, <1>5, <4>1 DEF UniqueIds
      <4>2. CASE m.id # r.id
        BY <1>1, <1>5, <4>2 DEF NestedSets, Inside, Disjoint
      <4> QED
        BY <4>1, <4>2
    <3>3. Covers(u, v) <=> m.lft <= l /\ l <= m.rgt
      BY <1>1, <1>5, <2>2, <3>1, <3>2
    <3>4. Covers(u, v) <=> Covers(m, r)
      BY <1>1, <3>3 DEF Covers
    <3>5. Covers(m, r) <=> IsPrefix(m.hash, Front(p))
      BY DEF PathTree
    <3>6. IsPrefix(m.hash, p) <=> IsPrefix(m.hash, Front(p))
      BY <1>5, PrefixOfChild
    <3> QED
      BY <1>4, <1>5, <2>2, <3>4, <3>5, <3>6
  <2>3. ASSUME NEW n \in T, v = OpenGap(n, l), u = new
        PROVE  Covers(u, v) <=> IsPrefix(u.hash, v.hash)
    <3>1. ~Covers(u, v)
      BY <1>1, <1>4, <1>5, <2>3 DEF Covers
    <3>2. ~IsPrefix(p, n.hash)
      BY DEF PathTree
    <3> QED
      BY <1>4, <1>5, <2>3, <3>1, <3>2
  <2>4. ASSUME NEW m \in T, u = OpenGap(m, l), NEW n \in T, v = OpenGap(n, l)
        PROVE  Covers(u, v) <=> IsPrefix(u.hash, v.hash)
    <3>1. Covers(m, n) <=> Covers(u, v)
      BY <1>1, <2>4, OpenGapCovers
    <3> QED
      BY <1>5, <2>4, <3>1 DEF PathTree
  <2> QED
    BY <1>2, <2>1, <2>2, <2>3, <2>4
<1>10. ASSUME NEW u \in U, NEW q \in Path, IsPrefix(q, u.hash)
       PROVE  RowsAt(U, q) # {}
  <2>1. CASE u = new
    <3>1. q = p \/ IsPrefix(q, r.hash)
      BY <1>4, <1>10, <2>1, PrefixOfChild
    <3> QED
      BY <1>7, <3>1 DEF PathTree
  <2>2. ASSUME NEW n \in T, u = OpenGap(n, l)
        PROVE  RowsAt(U, q) # {}
    BY <1>5, <1>7, <1>10, <2>2 DEF PathTree
  <2> QED
    BY <1>2, <2>1, <2>2
<1>11. PathTree(U)
  BY <1>8, <1>9, <1>10 DEF PathTree
<1> QED
  BY <1>0, <1>6, <1>11

(* The removal of a row with its own bounds.                                *)
LEMMA RemoveKeepsTree ==
  ASSUME NEW T \in SUBSET Row, UniqueIds(T), NestedSets(T), PathTree(T), NEW r \in T
  PROVE  /\ PathTree(RemoveNode(T, r.lft, r.rgt))
         /\ Hashes(RemoveNode(T, r.lft, r.rgt)) = {q \in Hashes(T) : ~IsPrefix(r.hash, q)}
<1>0. PICK U : U = RemoveNode(T, r.lft, r.rgt)
  OBVIOUS
<1> DEFINE S == {n \in T : ~IsPrefix(r.hash, n.hash)}
<1>1. PICK l \in Nat, g \in Nat : l = r.lft /\ g = r.rgt
  BY DEF Row
<1>2. T \ Doomed(T, l, g) = S
  <2>1. \A n \in T : (l <= n.lft /\ n.lft <= g) <=> IsPrefix(r.hash, n.hash)
    BY <1>1 DEF PathTree, Covers
  <2> QED
    BY <2>1 DEF Doomed
<1>3. U = {CloseGap(n, l, g) : n \in S}
  BY <1>0, <1>1, <1>2 DEF RemoveNode
<1>4. S \subseteq T /\ \A n \in S : ~IsPrefix(r.hash, n.hash)
  OBVIOUS
<1>5. \A n \in T : IsPrefix(r.hash, n.hash) \/ n \in S
  OBVIOUS
<1> HIDE DEF S
<1>6. \A u \in U : \E n \in S : u = CloseGap(n, l, g)
  BY <1>3
<1>7. \A n \in S : CloseGap(n, l, g) \in U
  BY <1>3
<1>8. \A n \in S : /\ CloseGap(n, l, g).hash = n.hash
                   /\ CloseGap(n, l, g).lft = IF n.lft > g THEN n.lft - (g - l + 1) ELSE n.lft
                   /\ CloseGap(n, l, g).rgt = IF n.rgt > g THEN n.rgt - (g - l + 1) ELSE n.rgt
                   /\ n \in T /\ n.lft \in Nat /\ n.rgt \in Nat /\ n.hash \in Path
  BY <1>4, CloseGapRow DEF Row
<1>9. ASSUME NEW n \in S
      PROVE  \/ n.lft < l /\ g < n.rgt
             \/ n.rgt < l
             \/ g < n.lft
  <2>1. n.id # r.id
    BY <1>4, PrefixOrder DEF UniqueIds, Row
  <2>2. Inside(n, r) \/ Inside(r, n) \/ Disjoint(n, r)
    BY <1>4, <2>1 DEF NestedSets
  <2>3. ~Covers(r, n)
    BY <1>4 DEF PathTree
  <2>4. n.lft < n.rgt
    BY <1>4 DEF NestedSets
  <2> QED
    BY <1>1, <1>8, <2>2, <2>3, <2>4 DEF Inside, Disjoint, Covers
<1>10. Hashes(U) = {q \in Hashes(T) : ~IsPrefix(r.hash, q)}
  BY <1>4, <1>5, <1>6, <1>7, <1>8 DEF Hashes
<1>11. ASSUME NEW u \in U, NEW v \in U, u.hash = v.hash
       PROVE  u = v
  BY <1>6, <1>8, <1>11 DEF PathTree
<1>12. ASSUME NEW u \in U, NEW v \in U
       PROVE  Covers(u, v) <=> IsPrefix(u.hash, v.hash)
  <2>1. PICK m \in S : u = CloseGap(m, l, g)
    BY <1>6
  <2>2. PICK n \in S : v = CloseGap(n, l, g)
    BY <1>6
  <2>3. l < g /\ m.lft < m.rgt
    BY <1>1, <1>8 DEF NestedSets
  <2>4. Covers(u, v) <=> Covers(m, n)
    <3>1. /\ u.lft = IF m.lft > g THEN m.lft - (g - l + 1) ELSE m.lft
          /\ u.rgt = IF m.rgt > g THEN m.rgt - (g - l + 1) ELSE m.rgt
          /\ v.lft = IF n.lft > g THEN n.lft - (g - l + 1) ELSE n.lft
          /\ m.lft \in Nat /\ m.rgt \in Nat /\ n.lft \in Nat /\ n.rgt \in Nat /\ n.lft < n.rgt
      BY <1>8, <2>1, <2>2 DEF NestedSets
    <3>2. (m.lft < l /\ g < m.rgt) \/ m.rgt < l \/ g < m.lft
      BY <1>9
    <3>3. (n.lft < l /\ g < n.rgt) \/ n.rgt < l \/ g < n.lft
      BY <1>9
    <3>4. n.lft < l \/ g < n.lft
      BY <1>1, <2>3, <3>1, <3>3
    <3> QED
      BY <1>1, <2>3, <3>1, <3>2, <3>4 DEF Covers
  <2>5. Covers(m, n) <=> IsPrefix(m.hash, n.hash)
    BY <1>8 DEF PathTree
  <2> QED
    BY <1>8, <2>1, <2>2, <2>4, <2>5
<1>13. ASSUME NEW u \in U, NEW q \in Path, IsPrefix(q, u.hash)
       PROVE  RowsAt(U, q) # {}
  <2>1. PICK n \in S : u = CloseGap(n, l, g)
    BY <1>6
  <2>2. PICK m \in T : m.hash = q
    BY <1>8, <1>13, <2>1 DEF PathTree, RowsAt
  <2>3. m \in S
    <3>1. r.hash \in Path /\ n.hash \in Path /\ n.hash = u.hash
      BY <1>8, <2>1 DEF Row
    <3>2. IsPrefix(r.hash, q) => IsPrefix(r.hash, n.hash)
      BY <1>13, <3>1, PrefixOrder
    <3> QED
      BY <1>4, <1>5, <2>2, <3>2
  <2> QED
    BY <1>7, <1>8, <2>2, <2>3 DEF RowsAt
<1>14. PathTree(U)
  BY <1>11, <1>12, <1>13 DEF PathTree
<1> QED
  BY <1>0, <1>10, <1>14

(* The rows above a row, itself included, are one for each length a path    *)
(* above can have.                                                          *)
LEMMA AncestorsOf ==
  ASSUME NEW T \in SUBSET Row, UniqueIds(T), PathTree(T), NEW n \in T
  PROVE  Ancestors(T, n.id) = {m \in T : IsPrefix(m.hash, n.hash)}
  BY DEF Ancestors, UniqueIds, PathTree

LEMMA AncestorsCounted ==
  ASSUME NEW T \in SUBSET Row, UniqueIds(T), PathTree(T), NEW n \in T
  PROVE  /\ IsFiniteSet(Ancestors(T, n.id))
         /\ Cardinality(Ancestors(T, n.id)) = Len(n.hash) + 1
<1> DEFINE A == Ancestors(T, n.id)
<1>1. A = {m \in T : IsPrefix(m.hash, n.hash)}
  BY AncestorsOf
<1>2. n.hash \in Path /\ Len(n.hash) \in Nat
  BY DEF Row, Path
<1>3. PICK k \in Nat : k = Len(n.hash)
  BY <1>2
<1> DEFINE f == [i \in 0 .. k |-> CHOOSE m \in T : m.hash = SubSeq(n.hash, 1, i)]
<1>4. \A i \in 0 .. k : SubSeq(n.hash, 1, i) \in Path /\ Len(SubSeq(n.hash, 1, i)) = i
                        /\ IsPrefix(SubSeq(n.hash, 1, i), n.hash)
  BY <1>2, <1>3, PrefixTake
<1>5. \A i \in 0 .. k : \E m \in T : m.hash = SubSeq(n.hash, 1, i)
  BY <1>4 DEF PathTree, RowsAt
<1>6. \A i \in 0 .. k : f[i] \in T /\ f[i].hash = SubSeq(n.hash, 1, i)
  BY <1>5
<1>7. \A m \in A : m \in T /\ IsPrefix(m.hash, n.hash) /\ m.hash \in Path /\ Len(m.hash) \in 0 .. k
  <2>1. \A m \in T : m.hash \in Path /\ Len(m.hash) \in Nat
    BY DEF Row, Path
  <2> QED
    BY <1>1, <1>2, <1>3, <2>1, PrefixOrder
<1>8. \A m \in T : IsPrefix(m.hash, n.hash) => m \in A
  BY <1>1
<1>9. f \in [0 .. k -> A]
  <2>1. \A i \in 0 .. k : f[i] \in A
    BY <1>4, <1>6, <1>8
  <2>2. f = [i \in 0 .. k |-> f[i]]
    OBVIOUS
  <2> HIDE DEF f, A
  <2> QED
    BY <2>1, <2>2
<1>10. \A m \in A : f[Len(m.hash)] = m
  <2> SUFFICES ASSUME NEW m \in A PROVE f[Len(m.hash)] = m
    OBVIOUS
  <2>1. PICK i \in 0 .. k : i = Len(m.hash)
    BY <1>7
  <2>2. SubSeq(n.hash, 1, i) = m.hash
    <3>1. IsPrefix(SubSeq(n.hash, 1, i), m.hash)
      BY <1>2, <1>4, <1>7, <2>1, PrefixOrder
    <3> QED
      BY <1>4, <1>7, <2>1, <3>1, PrefixOrder
  <2> QED
    BY <1>6, <1>7, <2>1, <2>2 DEF PathTree
<1>11. \A i \in 0 .. k : Len(f[i].hash) = i
  BY <1>4, <1>6
<1> HIDE DEF f, A
<1>12. f \in Bijection(0 .. k, A)
  <2>1. \A i, j \in 0 .. k : f[i] = f[j] => i = j
    BY <1>11
  <2>2. \A m \in A : \E i \in 0 .. k : f[i] = m
    BY <1>7, <1>10
  <2>3. f \in Injection(0 .. k, A)
    BY <1>9, <2>1, Fun_IsInj
  <2>4. f \in Surjection(0 .. k, A)
    BY <1>9, <2>2, Fun_IsSurj
  <2> QED
    BY <2>3, <2>4 DEF Bijection
<1>13. IsFiniteSet(0 .. k) /\ Cardinality(0 .. k) = k + 1
  BY FS_Interval
<1>14. IsFiniteSet(A) /\ Cardinality(A) = k + 1
  BY <1>12, <1>13, FS_Bijection DEF ExistsBijection
<1> QED
  BY <1>3, <1>14 DEF A

(* Numbers from 1 to k that grow with their index are 1, 2, ..., k.         *)
LEMMA GrowingIsIdentity ==
  ASSUME NEW k \in Nat, NEW g \in [1 .. k -> 1 .. k],
         \A i, j \in 1 .. k : i < j => g[i] < g[j]
  PROVE  \A i \in 1 .. k : g[i] = i
<1> SUFFICES ASSUME NEW i \in 1 .. k PROVE g[i] = i
  OBVIOUS
<1>1. g[i] \in 1 .. k
  OBVIOUS
<1>2. \A j, m \in 1 .. k : g[j] = g[m] => j = m
  OBVIOUS
<1>3. i <= g[i]
  <2> DEFINE h == [j \in 1 .. i |-> g[j]]
  <2>1. h \in Injection(1 .. i, 1 .. g[i])
    <3>1. \A j \in 1 .. i : j \in 1 .. k /\ g[j] \in 1 .. g[i]
      <4> SUFFICES ASSUME NEW j \in 1 .. i PROVE j \in 1 .. k /\ g[j] \in 1 .. g[i]
        OBVIOUS
      <4>1. j \in 1 .. k /\ (j = i \/ j < i)
        OBVIOUS
      <4>2. g[j] \in 1 .. k /\ (g[j] = g[i] \/ g[j] < g[i])
        BY <4>1
      <4>3. PICK x \in 1 .. k, y \in 1 .. k : x = g[j] /\ y = g[i]
        BY <1>1, <4>2
      <4>4. x \in 1 .. y
        BY <4>2, <4>3
      <4> QED
        BY <4>1, <4>3, <4>4
    <3>2. h \in [1 .. i -> 1 .. g[i]]
      BY <3>1
    <3>3. \A j, m \in 1 .. i : h[j] = h[m] => j = m
      BY <1>2, <3>1
    <3> HIDE DEF h
    <3> QED
      BY <3>2, <3>3, Fun_IsInj
  <2>2. Cardinality(1 .. i) <= Cardinality(1 .. g[i])
    BY <1>1, <2>1, FS_Injection, FS_Interval
  <2>3. Cardinality(1 .. i) = i /\ Cardinality(1 .. g[i]) = g[i]
    BY <1>1, FS_Interval
  <2> QED
    BY <2>2, <2>3
<1>4. g[i] <= i
  <2> DEFINE h == [j \in i .. k |-> g[j]]
  <2>1. h \in Injection(i .. k, g[i] .. k)
    <3>1. \A j \in i .. k : j \in 1 .. k /\ g[j] \in g[i] .. k
      <4> SUFFICES ASSUME NEW j \in i .. k PROVE j \in 1 .. k /\ g[j] \in g[i] .. k
        OBVIOUS
      <4>1. j \in 1 .. k /\ (j = i \/ i < j)
        OBVIOUS
      <4>2. g[j] \in 1 .. k /\ (g[j] = g[i] \/ g[i] < g[j])
        BY <4>1
      <4>3. PICK x \in 1 .. k, y \in 1 .. k : x = g[j] /\ y = g[i]
        BY <1>1, <4>2
      <4>4. x = y \/ y < x
        BY <4>2, <4>3
      <4>5. x \in y .. k
        BY <4>4
      <4> QED
        BY <4>1, <4>3, <4>5
    <3>2. h \in [i .. k -> g[i] .. k]
      BY <3>1
    <3>3. \A j, m \in i .. k : h[j] = h[m] => j = m
      BY <1>2, <3>1
    <3> HIDE DEF h
    <3> QED
      BY <3>2, <3>3, Fun_IsInj
  <2>2. Cardinality(i .. k) <= Cardinality(g[i] .. k)
    BY <1>1, <2>1, FS_Injection, FS_Interval
  <2>3. Cardinality(i .. k) = k - i + 1 /\ Cardinality(g[i] .. k) = k - g[i] + 1
    BY <1>1, FS_Interval
  <2> QED
    BY <1>1, <2>2, <2>3
<1> QED
  BY <1>1, <1>3, <1>4

(* Where intervals nest as paths do, get_path gives the path of the row.    *)
LEMMA PathOfRow ==
  ASSUME NEW T \in SUBSET Row, IsFiniteSet(T), UniqueIds(T), NestedSets(T), PathTree(T),
         \A m \in T : m.hash = RootPath => m.id = RootId,
         NEW n \in T, NEW q \in GetPath(T, n.id)
  PROVE  q = n.hash
<1> DEFINE A == Ancestors(T, n.id)
           S == {m \in A : m.id # RootId}
<1>1. n.hash \in Path /\ n.hash \in Seq(Name) /\ Len(n.hash) \in Nat
  BY DEF Row, Path
<1>2. PICK k \in Nat : k = Len(n.hash)
  BY <1>1
<1>3. \A m : m \in A <=> m \in T /\ IsPrefix(m.hash, n.hash)
  BY AncestorsOf
<1>4. IsFiniteSet(A) /\ Cardinality(A) = k + 1
  BY <1>2, AncestorsCounted
<1>5. PICK f \in OrderedByLft(S) : q = [i \in DOMAIN f |-> Last(f[i].hash)]
  BY DEF GetPath
<1> HIDE DEF A
<1>6. PICK r \in T : r.hash = RootPath
  BY <1>1, PrefixOfRoot DEF PathTree, RowsAt
<1>7. r \in A /\ r.id = RootId /\ \A m \in T : m.id = RootId => m = r
  BY <1>1, <1>3, <1>6, PrefixOfRoot DEF UniqueIds
<1>8. S = A \ {r}
  BY <1>3, <1>7
<1>9. Cardinality(S) = k
  <2>1. Cardinality(A \ {r}) = Cardinality(A) - 1
    BY <1>4, <1>7, FS_RemoveElement
  <2>2. k + 1 - 1 = k
    OBVIOUS
  <2> QED
    BY <1>4, <1>8, <2>1, <2>2
<1>10. \A m \in S : m \in T /\ IsPrefix(m.hash, n.hash) /\ m.hash # RootPath
  BY <1>3
<1> HIDE DEF S
<1>11. /\ f \in [1 .. k -> S] /\ DOMAIN f = 1 .. k
       /\ \A i, j \in 1 .. k : i < j => f[i] # f[j] /\ f[i].lft <= f[j].lft
  BY <1>5, <1>9 DEF OrderedByLft
<1>12. \A i \in 1 .. k : /\ f[i] \in T /\ IsPrefix(f[i].hash, n.hash)
                         /\ f[i].hash \in Path /\ f[i].hash \in Seq(Name)
                         /\ Len(f[i].hash) \in 1 .. k
                         /\ f[i].lft \in Nat /\ f[i].rgt \in Nat
  <2> SUFFICES ASSUME NEW i \in 1 .. k
               PROVE  /\ f[i] \in T /\ IsPrefix(f[i].hash, n.hash)
                      /\ f[i].hash \in Path /\ f[i].hash \in Seq(Name)
                      /\ Len(f[i].hash) \in 1 .. k
                      /\ f[i].lft \in Nat /\ f[i].rgt \in Nat
    OBVIOUS
  <2>1. PICK m \in S : m = f[i]
    BY <1>11
  <2>2. m \in T /\ IsPrefix(m.hash, n.hash) /\ m.hash # RootPath
    BY <1>10
  <2>3. m.hash \in Path /\ m.hash \in Seq(Name) /\ m.lft \in Nat /\ m.rgt \in Nat /\ Len(m.hash) \in Nat
    BY <2>2 DEF Row, Path
  <2>4. Len(m.hash) <= k /\ Len(m.hash) # 0
    BY <1>1, <1>2, <2>2, <2>3, PrefixOrder, PrefixOfRoot
  <2> QED
    BY <2>1, <2>2, <2>3, <2>4
<1>13. \A i, j \in 1 .. k : i < j => Len(f[i].hash) < Len(f[j].hash)
  <2> SUFFICES ASSUME NEW i \in 1 .. k, NEW j \in 1 .. k, i < j
               PROVE  Len(f[i].hash) < Len(f[j].hash)
    OBVIOUS
  <2>1. PICK m \in T, o \in T : m = f[i] /\ o = f[j]
    BY <1>12
  <2>2. m.lft \in Nat /\ m.rgt \in Nat /\ o.lft \in Nat /\ o.rgt \in Nat /\ m # o /\ m.lft <= o.lft
    BY <1>11, <1>12, <2>1
  <2>3. m.lft < o.lft
    BY <2>2 DEF NestedSets, UniqueIds, Inside, Disjoint
  <2>4. ~Covers(o, m)
    BY <2>2, <2>3 DEF Covers
  <2>5. ~IsPrefix(o.hash, m.hash)
    BY <2>4 DEF PathTree
  <2>6. /\ m.hash \in Path /\ o.hash \in Path /\ IsPrefix(m.hash, n.hash) /\ IsPrefix(o.hash, n.hash)
        /\ Len(m.hash) \in Nat /\ Len(o.hash) \in Nat
    BY <1>12, <2>1
  <2>7. ~(Len(o.hash) <= Len(m.hash))
    BY <1>1, <2>5, <2>6, PrefixOrder
  <2> QED
    BY <2>1, <2>6, <2>7
<1>14. \A i \in 1 .. k : Len(f[i].hash) = i
  <2> DEFINE g == [i \in 1 .. k |-> Len(f[i].hash)]
  <2>1. g \in [1 .. k -> 1 .. k]
    BY <1>12
  <2>2. \A i, j \in 1 .. k : i < j => g[i] < g[j]
    BY <1>13
  <2>3. \A i \in 1 .. k : g[i] = Len(f[i].hash)
    OBVIOUS
  <2> HIDE DEF g
  <2> QED
    BY <2>1, <2>2, <2>3, GrowingIsIdentity
<1>15. \A i \in 1 .. k : Last(f[i].hash) = n.hash[i]
  <2> SUFFICES ASSUME NEW i \in 1 .. k PROVE Last(f[i].hash) = n.hash[i]
    OBVIOUS
  <2>1. Len(f[i].hash) = i
    BY <1>14
  <2>2. \A j \in 1 .. i : f[i].hash[j] = n.hash[j]
    BY <1>1, <1>12, <2>1, PrefixElements
  <2> QED
    BY <2>1, <2>2 DEF Last
<1>16. q \in Seq(Name)
  BY GetPathPath DEF Path
<1>17. DOMAIN q = 1 .. k /\ \A i \in 1 .. k : q[i] = n.hash[i]
  BY <1>5, <1>11, <1>15
<1>18. Len(q) = k
  BY <1>16, <1>17
<1> QED
  BY <1>1, <1>2, <1>16, <1>17, <1>18, SeqEqual

(***************************************************************************)
(* The steps of one client.                                                *)
(***************************************************************************)
Serial ==
  /\ \A c, d \in Client : c = d
  /\ "remove_self" \notin Ops

(* The paths still to be inserted go down by one component each and have no *)
(* row yet; the row of the parent is there, as it was read, and so is what  *)
(* get_path made of it.                                                     *)
Chain(t) ==
  \A i \in 2 .. Len(t) : Front(t[i]) = t[i - 1] /\ Len(t[i]) = Len(t[1]) + i - 1
Absent(t) == \A i \in 1 .. Len(t) : RowsAt(nodes, t[i]) = {}
ParentRow(s, p) == \E r \in nodes : SnapshotOf(r) = s /\ r.hash = Front(p)
Steady(c) ==
  /\ Chain(todo[c]) /\ Absent(todo[c])
  /\ pc[c] = "refind" => RowsAt(nodes, Front(todo[c][1])) # {}
  /\ pc[c] \in {"path", "insert"} => ParentRow(found[c], todo[c][1])
  /\ pc[c] = "insert" => ppath[c] = Front(todo[c][1])
  /\ pc[c] = "remove" => found[c].id # RootId
  /\ pc[c] = "children" => call[c].depth = Depth(nodes, handle[c].node.id)

SerialInv ==
  /\ PathTree(nodes)
  /\ \E r \in nodes : r.hash = RootPath
  /\ \A r \in nodes : r.id # 0
  /\ \A c \in Client : Steady(c)

(* create_parents puts the parent in front, and goes on behind it.          *)
LEMMA ChainLonger ==
  ASSUME NEW t \in Seq(Path), t # <<>>, t[1] # RootPath, Chain(t),
         NEW u, u = <<Front(t[1])>> \o t
  PROVE  /\ Chain(u) /\ Len(u) = Len(t) + 1 /\ u[1] = Front(t[1])
         /\ \A i \in 2 .. Len(u) : u[i] = t[i - 1] /\ i - 1 \in 1 .. Len(t)
<1>1. PICK q \in Path : q = Front(t[1])
  BY PathParent
<1>2. PICK k \in Nat : Len(q) = k /\ Len(t[1]) = k + 1
  <2>1. t[1] \in Path
    OBVIOUS
  <2>2. Len(t[1]) \in Nat /\ Len(q) = Len(t[1]) - 1 /\ Len(q) \in Nat
    BY <1>1, <2>1, PathParent DEF Path
  <2> QED
    BY <2>2
<1>3. u = <<q>> \o t
  BY <1>1
<1>4. /\ Len(u) = Len(t) + 1 /\ u[1] = q
      /\ \A i \in 2 .. Len(u) : u[i] = t[i - 1] /\ i - 1 \in 1 .. Len(t)
  BY <1>3
<1>5. ASSUME NEW i \in 2 .. Len(u)
      PROVE  Front(u[i]) = u[i - 1] /\ Len(u[i]) = Len(u[1]) + i - 1
  <2>1. CASE i = 2
    <3>1. u[i] = t[1] /\ u[i - 1] = q
      BY <1>4, <2>1
    <3> QED
      BY <1>1, <1>2, <1>4, <2>1, <3>1
  <2>2. CASE i # 2
    <3>1. PICK j \in 2 .. Len(t) : j = i - 1 /\ i - 1 \in 2 .. Len(u)
      BY <1>4, <2>2
    <3>2. u[i] = t[j] /\ u[i - 1] = t[j - 1]
      BY <1>4, <3>1
    <3>3. Front(t[j]) = t[j - 1] /\ Len(t[j]) = Len(t[1]) + j - 1
      BY <3>1 DEF Chain
    <3>4. Len(u[i]) = (k + 1) + (i - 1) - 1 /\ Len(u[1]) = k
      BY <1>2, <1>4, <3>1, <3>2, <3>3
    <3>5. (k + 1) + (i - 1) - 1 = k + i - 1
      OBVIOUS
    <3>6. Len(u[i]) = Len(u[1]) + i - 1
      BY <3>4, <3>5
    <3> QED
      BY <3>2, <3>3, <3>6
  <2> QED
    BY <2>1, <2>2
<1> QED
  BY <1>1, <1>4, <1>5 DEF Chain

LEMMA ChainShorter ==
  ASSUME NEW t \in Seq(Path), Len(t) > 1, Chain(t)
  PROVE  /\ Chain(Tail(t)) /\ Front(Tail(t)[1]) = t[1]
         /\ \A i \in 1 .. Len(Tail(t)) : \E j \in 2 .. Len(t) : Tail(t)[i] = t[j] /\ t[j] # t[1]
<1>0. PICK u : u = Tail(t)
  OBVIOUS
<1>1. /\ Len(u) = Len(t) - 1 /\ Len(t) \in Nat /\ u \in Seq(Path)
      /\ \A i \in 1 .. Len(u) : u[i] = t[i + 1] /\ i + 1 \in 2 .. Len(t)
  BY <1>0, LongTail
<1>2. PICK k \in Nat : k = Len(t[1])
  <2>1. t[1] \in Path
    OBVIOUS
  <2> QED
    BY <2>1 DEF Path
<1>3. \A j \in 2 .. Len(t) : Front(t[j]) = t[j - 1] /\ Len(t[j]) = k + j - 1
  BY <1>2 DEF Chain
<1>4. 1 \in 1 .. Len(u) /\ 2 \in 2 .. Len(t) /\ u[1] = t[2] /\ Len(t[2]) = k + 1 /\ Front(t[2]) = t[1]
  BY <1>1, <1>3
<1>5. ASSUME NEW i \in 2 .. Len(u)
      PROVE  Front(u[i]) = u[i - 1] /\ Len(u[i]) = Len(u[1]) + i - 1
  <2>1. /\ u[i] = t[i + 1] /\ i + 1 \in 2 .. Len(t) /\ i - 1 \in 1 .. Len(u)
        /\ u[i - 1] = t[i] /\ (i + 1) - 1 = i
    BY <1>1
  <2>2. Len(u[i]) = k + (i + 1) - 1 /\ Len(u[1]) = k + 1
    BY <1>3, <1>4, <2>1
  <2>3. Front(t[i + 1]) = t[i]
    BY <1>3, <2>1
  <2> QED
    BY <2>1, <2>2, <2>3
<1>6. ASSUME NEW i \in 1 .. Len(u)
      PROVE  \E j \in 2 .. Len(t) : u[i] = t[j] /\ t[j] # t[1]
  <2>1. PICK j \in 2 .. Len(t) : u[i] = t[j]
    BY <1>1
  <2>2. Len(t[j]) = k + j - 1
    BY <1>3
  <2>3. k + j - 1 # k
    OBVIOUS
  <2> QED
    BY <1>2, <2>1, <2>2, <2>3
<1>7. Chain(u)
  BY <1>5 DEF Chain
<1> QED
  BY <1>0, <1>4, <1>6, <1>7

(* A step that leaves the rows alone has only the client's locals to keep.  *)
LEMMA SerialLook ==
  ASSUME Serial, SerialInv, NEW c \in Client, nodes' = nodes, Steady(c)'
  PROVE  SerialInv'
<1>1. \A d \in Client : Steady(d)'
  <2> SUFFICES ASSUME NEW d \in Client PROVE Steady(d)'
    OBVIOUS
  <2>1. d = c
    BY DEF Serial
  <2> QED
    BY <2>1
<1> QED
  BY <1>1 DEF SerialInv

LEMMA EmptyChain == Chain(<<>>) /\ Absent(<<>>) /\ Absent(<<>>)'
<1>1. Len(<<>>) = 0 /\ 1 .. 0 = {} /\ 2 .. 0 = {}
  OBVIOUS
<1> QED
  BY <1>1 DEF Chain, Absent

LEMMA SerialCalm ==
  ASSUME Serial, SerialInv, NEW c \in Client, nodes' = nodes,
         pc'[c] \notin {"refind", "path", "insert", "remove", "children"},
         todo'[c] \in {todo[c], <<>>}
  PROVE  SerialInv'
<1>1. Chain(todo[c]) /\ Absent(todo[c])
  BY DEF SerialInv, Steady
<1>2. Absent(todo[c])'
  <2>1. CASE todo'[c] = <<>>
    BY <2>1, EmptyChain DEF Absent
  <2>2. CASE todo'[c] = todo[c]
    BY <1>1, <2>2 DEF Absent
  <2> QED
    BY <2>1, <2>2
<1>3. Chain(todo[c])'
  BY <1>1, EmptyChain
<1>4. Steady(c)'
  BY <1>1, <1>2, <1>3 DEF Steady
<1> QED
  BY <1>4, SerialLook

(* What a look-up finds where ids start at 1.                               *)
LEMMA FoundRow ==
  ASSUME SerialInv, NEW p, NEW s \in FindNode(nodes, p)
  PROVE  /\ s.id = 0 => RowsAt(nodes, p) = {}
         /\ RowsAt(nodes, p) # {} => \E r \in nodes : SnapshotOf(r) = s /\ r.hash = p
         /\ s.id # 0 => \E r \in nodes : SnapshotOf(r) = s /\ r.hash = p
<1>1. \A r \in nodes : SnapshotOf(r).id # 0
  BY DEF SnapshotOf, SerialInv
<1>2. NoNode.id = 0
  BY NoNodeSnapshot
<1>3. CASE RowsAt(nodes, p) = {}
  BY <1>2, <1>3 DEF FindNode
<1>4. CASE RowsAt(nodes, p) # {}
  BY <1>1, <1>4 DEF FindNode, RowsAt
<1> QED
  BY <1>3, <1>4

LEMMA OpenSerial ==
  ASSUME Serial, TypeInv, SerialInv, NEW c \in Client, NEW k, NEW m, NEW p \in Target,
         Open(c, k, m, p)
  PROVE  SerialInv'
<1>1. nodes' = nodes /\ pc[c] = "idle"
  BY DEF Open, tables, Idle
<1>2. CASE UNCHANGED <<pc, frame>>
  BY <1>1, <1>2, SerialCalm DEF frame
<1>3. CASE /\ RowsAt(nodes, p) = {}
           /\ todo' = [todo EXCEPT ![c] = <<p>>]
           /\ Goto(c, "parent")
  <2>1. todo'[c] = <<p>> /\ pc'[c] = "parent"
    BY <1>3 DEF TypeInv, FrameOK, Goto
  <2>2. Len(<<p>>) = 1 /\ <<p>>[1] = p /\ 2 .. 1 = {}
    OBVIOUS
  <2>3. Chain(<<p>>)
    BY <2>2 DEF Chain
  <2>4. Absent(<<p>>)'
    BY <1>1, <1>3, <2>2 DEF Absent
  <2>5. Steady(c)'
    BY <2>1, <2>3, <2>4 DEF Steady
  <2> QED
    BY <1>1, <2>5, SerialLook
<1>4. \/ UNCHANGED <<pc, frame>>
      \/ /\ RowsAt(nodes, p) = {}
         /\ todo' = [todo EXCEPT ![c] = <<p>>]
         /\ Goto(c, "parent")
  <2>1. \A n \in FindNode(nodes, p) : n.id = 0 => RowsAt(nodes, p) = {}
    BY FoundRow
  <2> QED
    BY <2>1 DEF Open
<1> QED
  BY <1>2, <1>3, <1>4

LEMMA FindParentSerial ==
  ASSUME Serial, TypeInv, SerialInv, NEW c \in Client, FindParentNode(c)
  PROVE  SerialInv'
<1>0. PICK p : p = Head(todo[c])
  OBVIOUS
<1>1. /\ nodes' = nodes /\ pc[c] = "parent" /\ p = todo[c][1] /\ p \in Path
      /\ todo[c] \in Seq(Path) /\ todo[c] # <<>>
  BY <1>0 DEF FindParentNode, tables, TypeInv, FrameOK
<1>2. PICK s \in FindParent(nodes, p) :
         \/ /\ s.id # 0
            /\ found' = [found EXCEPT ![c] = s]
            /\ Goto(c, "path")
            /\ UNCHANGED todo
         \/ Return(c)
         \/ /\ s.id = 0 /\ p # RootPath
            /\ todo' = [todo EXCEPT ![c] = <<Front(p)>> \o @]
            /\ UNCHANGED pc
         \/ /\ Goto(c, "dead")
            /\ UNCHANGED frame
  BY <1>0 DEF FindParentNode
<1>3. CASE Return(c)
  BY <1>1, <1>3, SerialCalm DEF Return, Goto, TypeInv, FrameOK
<1>4. CASE Goto(c, "dead") /\ UNCHANGED frame
  BY <1>1, <1>4, SerialCalm DEF Goto, frame, TypeInv, FrameOK
<1>5. Chain(todo[c]) /\ Absent(todo[c])
  BY DEF SerialInv, Steady
<1>6. CASE /\ s.id # 0
           /\ found' = [found EXCEPT ![c] = s]
           /\ Goto(c, "path")
           /\ UNCHANGED todo
  <2>1. s \in FindNode(nodes, Front(p))
    BY <1>6, NoNodeSnapshot DEF FindParent
  <2>2. ParentRow(s, p)
    BY <1>6, <2>1, FoundRow DEF ParentRow
  <2>3. ParentRow(s, p)'
    BY <1>1, <2>2 DEF ParentRow
  <2>4. pc'[c] = "path" /\ found'[c] = s /\ todo' = todo
    BY <1>6 DEF Goto, TypeInv, FrameOK
  <2>5. Absent(todo[c])'
    BY <1>1, <1>5, <2>4 DEF Absent
  <2>6. Steady(c)'
    BY <1>1, <1>5, <2>3, <2>4, <2>5 DEF Steady, ParentRow
  <2> QED
    BY <1>1, <2>6, SerialLook
<1>7. CASE /\ s.id = 0 /\ p # RootPath
           /\ todo' = [todo EXCEPT ![c] = <<Front(p)>> \o @]
           /\ UNCHANGED pc
  <2>1. RowsAt(nodes, Front(p)) = {}
    BY <1>7, FoundRow DEF FindParent
  <2>2. PICK t : t = <<Front(todo[c][1])>> \o todo[c]
    OBVIOUS
  <2>3. todo'[c] = t /\ pc'[c] = "parent"
    BY <1>1, <1>7, <2>2 DEF TypeInv, FrameOK
  <2>4. /\ Chain(t) /\ Len(t) = Len(todo[c]) + 1 /\ t[1] = Front(p)
        /\ \A i \in 2 .. Len(t) : t[i] = todo[c][i - 1] /\ i - 1 \in 1 .. Len(todo[c])
    BY <1>1, <1>5, <1>7, <2>2, ChainLonger
  <2>5. \A i \in 1 .. Len(t) : i = 1 \/ i \in 2 .. Len(t)
    OBVIOUS
  <2>6. \A i \in 1 .. Len(t) : RowsAt(nodes, t[i]) = {}
    BY <1>5, <2>1, <2>4, <2>5 DEF Absent
  <2>7. Steady(c)'
    BY <1>1, <2>3, <2>4, <2>6 DEF Steady, Absent
  <2> QED
    BY <1>1, <2>7, SerialLook
<1> QED
  BY <1>2, <1>3, <1>4, <1>6, <1>7

LEMMA RefindParentSerial ==
  ASSUME Serial, TypeInv, SerialInv, NEW c \in Client, RefindParentNode(c)
  PROVE  SerialInv'
<1>0. PICK p : p = Head(todo[c])
  OBVIOUS
<1>1. /\ nodes' = nodes /\ pc[c] = "refind" /\ p = todo[c][1] /\ p # RootPath
  BY <1>0 DEF RefindParentNode, tables, TypeInv, FrameOK
<1>2. PICK s \in FindParent(nodes, p) : found' = [found EXCEPT ![c] = s]
  BY <1>0 DEF RefindParentNode
<1>3. pc'[c] = "path" /\ found'[c] = s /\ todo' = todo
  BY <1>2 DEF RefindParentNode, Goto, TypeInv, FrameOK
<1>4. s \in FindNode(nodes, Front(p))
  BY <1>1 DEF FindParent
<1>5. Chain(todo[c]) /\ Absent(todo[c]) /\ RowsAt(nodes, Front(p)) # {}
  BY <1>1 DEF SerialInv, Steady
<1>6. ParentRow(s, p)
  BY <1>4, <1>5, FoundRow DEF ParentRow
<1>7. Steady(c)'
  BY <1>1, <1>3, <1>5, <1>6 DEF Steady, Absent, ParentRow
<1> QED
  BY <1>1, <1>7, SerialLook

LEMMA QueryPathSerial ==
  ASSUME Serial, TypeInv, NestedSets(nodes), SerialInv, NEW c \in Client, QueryPath(c)
  PROVE  SerialInv'
<1>1. PICK p : p = todo[c][1]
  OBVIOUS
<1>2. nodes' = nodes /\ pc[c] = "path" /\ found' = found /\ todo' = todo /\ pc'[c] = "insert"
  BY DEF QueryPath, tables, Goto, TypeInv, FrameOK
<1>3. PICK q \in GetPath(nodes, found[c].id) : ppath'[c] = q
  BY DEF QueryPath, TypeInv, FrameOK
<1>4. Chain(todo[c]) /\ Absent(todo[c]) /\ ParentRow(found[c], p)
  BY <1>1, <1>2 DEF SerialInv, Steady
<1>5. PICK r \in nodes : SnapshotOf(r) = found[c] /\ r.hash = Front(p)
  BY <1>4 DEF ParentRow
<1>6. r.id = found[c].id
  BY <1>5 DEF SnapshotOf
<1>7. q = r.hash
  <2>1. /\ nodes \in SUBSET Row /\ IsFiniteSet(nodes) /\ UniqueIds(nodes) /\ PathTree(nodes)
        /\ \A m \in nodes : m.hash = RootPath => m.id = RootId
    BY DEF TypeInv, TablesOK, SerialInv
  <2> QED
    BY <1>3, <1>6, <2>1, PathOfRow
<1>8. Steady(c)'
  BY <1>1, <1>2, <1>3, <1>4, <1>5, <1>7 DEF Steady, Absent, ParentRow
<1> QED
  BY <1>2, <1>8, SerialLook

(* The new row gets the bounds of its parent and the path that was asked    *)
(* for, which has no row yet.                                               *)
LEMMA SerialInsertion ==
  ASSUME TypeInv, SerialInv, NEW c \in Client, ExecInsertNode(c)
  PROVE  \/ nodes' = nodes /\ Return(c)
         \/ \E p \in Path, r \in nodes :
              /\ p = todo[c][1] /\ p # RootPath /\ r.hash = Front(p) /\ RowsAt(nodes, p) = {}
              /\ \E b : nodes' = InsertNode(nodes, nextId, b, r.lft, p)
              /\ \/ Return(c)
                 \/ /\ Len(todo[c]) > 1
                    /\ todo' = [todo EXCEPT ![c] = Tail(@)]
                    /\ Goto(c, "refind")
<1>1. PICK p : p = Head(todo[c])
  OBVIOUS
<1>2. pc[c] = "insert" /\ todo[c] \in Seq(Path) /\ todo[c] # <<>> /\ p = todo[c][1] /\ p # RootPath
  BY <1>1 DEF ExecInsertNode, TypeInv, FrameOK
<1>3. Len(todo[c]) \in Nat \ {0} /\ 1 \in 1 .. Len(todo[c]) /\ p \in Path
  BY <1>2
<1>4. Absent(todo[c]) /\ ParentRow(found[c], p) /\ ppath[c] = Front(p)
  BY <1>2 DEF SerialInv, Steady
<1>5. PICK r \in nodes : SnapshotOf(r) = found[c] /\ r.hash = Front(p)
  BY <1>4 DEF ParentRow
<1>6. found[c].lft = r.lft
  BY <1>5 DEF SnapshotOf
<1>7. Append(ppath[c], Last(p)) = p
  BY <1>2, <1>3, <1>4, PathParent
<1>8. RowsAt(nodes, p) = {}
  BY <1>2, <1>3, <1>4 DEF Absent
<1>9. \/ nodes' = nodes /\ Return(c)
      \/ /\ nodes' = InsertNode(nodes, nextId, call[c].kind = "dir", r.lft, p)
         /\ \/ Return(c)
            \/ /\ Len(todo[c]) > 1
               /\ todo' = [todo EXCEPT ![c] = Tail(@)]
               /\ Goto(c, "refind")
  BY <1>1, <1>6, <1>7 DEF ExecInsertNode
<1> QED
  BY <1>2, <1>3, <1>5, <1>8, <1>9

LEMMA ExecInsertSerial ==
  ASSUME Serial, TypeInv, NestedSets(nodes), SerialInv, NEW c \in Client, ExecInsertNode(c)
  PROVE  SerialInv'
<1>1. CASE nodes' = nodes /\ Return(c)
  BY <1>1, SerialCalm DEF Return, Goto, TypeInv, FrameOK
<1>2. ASSUME NEW p \in Path, NEW r \in nodes,
             p = todo[c][1], p # RootPath, r.hash = Front(p), RowsAt(nodes, p) = {},
             NEW b, nodes' = InsertNode(nodes, nextId, b, r.lft, p),
             \/ Return(c)
             \/ /\ Len(todo[c]) > 1
                /\ todo' = [todo EXCEPT ![c] = Tail(@)]
                /\ Goto(c, "refind")
      PROVE  SerialInv'
  <2>1. nodes \in SUBSET Row /\ UniqueIds(nodes) /\ PathTree(nodes) /\ nextId \in Nat /\ nextId # 0
    BY DEF TypeInv, TablesOK, SerialInv, RootId
  <2>2. PathTree(nodes') /\ Hashes(nodes') = Hashes(nodes) \cup {p}
    <3>1. p # RootPath /\ r.hash = Front(p) /\ RowsAt(nodes, p) = {}
      BY <1>2
    <3>2. TreeTable(nodes)
      BY <2>1 DEF TreeTable
    <3>3. /\ PathTree(InsertNode(nodes, nextId, b, r.lft, p))
          /\ Hashes(InsertNode(nodes, nextId, b, r.lft, p)) = Hashes(nodes) \cup {p}
      BY <3>1, <3>2, InsertKeepsTree
    <3> QED
      BY <1>2, <3>3
  <2>3. \E m \in nodes' : m.hash = RootPath
    BY <2>2 DEF Hashes, SerialInv
  <2>4. \A m \in nodes' : m.id # 0
    <3>1. PICK l \in Nat : l = r.lft
      BY <2>1 DEF Row
    <3>2. \A m \in nodes' : m.id = nextId \/ \E n \in nodes : m = OpenGap(n, l)
      BY <1>2, <3>1 DEF InsertNode
    <3>3. \A n \in nodes : OpenGap(n, l).id = n.id /\ n.id # 0
      BY <2>1, OpenGapRow DEF SerialInv
    <3> QED
      BY <2>1, <3>2, <3>3
  <2>5. \A q : RowsAt(nodes', q) # {} <=> RowsAt(nodes, q) # {} \/ q = p
    BY <2>2 DEF Hashes, RowsAt
  <2>6. Steady(c)'
    <3>1. CASE Return(c)
      <4>1. todo'[c] = <<>> /\ pc'[c] = "idle"
        BY <3>1 DEF Return, Goto, TypeInv, FrameOK
      <4> QED
        BY <4>1, EmptyChain DEF Steady, Absent
    <3>2. CASE /\ Len(todo[c]) > 1
               /\ todo' = [todo EXCEPT ![c] = Tail(@)]
               /\ Goto(c, "refind")
      <4>1. PICK t \in Seq(Path) : t = todo[c]
        BY DEF TypeInv, FrameOK
      <4>2. PICK u : u = Tail(t)
        OBVIOUS
      <4>3. todo'[c] = u /\ pc'[c] = "refind"
        BY <3>2, <4>1, <4>2 DEF Goto, TypeInv, FrameOK
      <4>4. Chain(t) /\ \A i \in 1 .. Len(t) : RowsAt(nodes, t[i]) = {}
        BY <4>1 DEF SerialInv, Steady, Absent
      <4>5. /\ Chain(u) /\ Front(u[1]) = p
            /\ \A i \in 1 .. Len(u) : \E j \in 2 .. Len(t) : u[i] = t[j] /\ t[j] # p
        <5>1. Len(t) > 1 /\ t[1] = p
          BY <1>2, <3>2, <4>1
        <5>2. Chain(t)
          BY <4>4
        <5>3. /\ Chain(u) /\ Front(u[1]) = t[1]
              /\ \A i \in 1 .. Len(u) : \E j \in 2 .. Len(t) : u[i] = t[j] /\ t[j] # t[1]
          <6>1. /\ Chain(Tail(t)) /\ Front(Tail(t)[1]) = t[1]
                /\ \A i \in 1 .. Len(Tail(t)) :
                     \E j \in 2 .. Len(t) : Tail(t)[i] = t[j] /\ t[j] # t[1]
            BY <5>1, <5>2, ChainShorter
          <6> QED
            BY <4>2, <6>1
        <5> QED
          BY <5>1, <5>3
      <4>6. \A i \in 1 .. Len(u) : RowsAt(nodes', u[i]) = {}
        <5> SUFFICES ASSUME NEW i \in 1 .. Len(u) PROVE RowsAt(nodes', u[i]) = {}
          OBVIOUS
        <5>1. PICK j \in 2 .. Len(t) : u[i] = t[j] /\ t[j] # p
          BY <4>5
        <5>2. j \in 1 .. Len(t)
          OBVIOUS
        <5> QED
          BY <2>5, <4>4, <5>1, <5>2
      <4> QED
        BY <2>5, <4>3, <4>5, <4>6 DEF Steady, Absent
    <3> QED
      BY <1>2, <3>1, <3>2
  <2>7. \A d \in Client : Steady(d)'
    <3> SUFFICES ASSUME NEW d \in Client PROVE Steady(d)'
      OBVIOUS
    <3>1. d = c
      BY DEF Serial
    <3> QED
      BY <2>6, <3>1
  <2> QED
    BY <2>2, <2>3, <2>4, <2>7 DEF SerialInv
<1> QED
  BY <1>1, <1>2, SerialInsertion

LEMMA SerialRemoval ==
  ASSUME TypeInv, NestInv, SerialInv, NEW c \in Client, ExecRemoveNode(c)
  PROVE  \E r \in nodes : r.hash # RootPath /\ nodes' = RemoveNode(nodes, r.lft, r.rgt)
<1>1. pc[c] = "remove" /\ nodes' = RemoveNode(nodes, found[c].lft, found[c].rgt)
  BY DEF ExecRemoveNode, RemoveRows
<1>2. PICK r \in nodes : SnapshotOf(r) = found[c]
  BY <1>1 DEF NestInv, FreshFound
<1>3. r.id = found[c].id /\ r.lft = found[c].lft /\ r.rgt = found[c].rgt
  BY <1>2 DEF SnapshotOf
<1>4. found[c].id # RootId
  BY <1>1 DEF SerialInv, Steady
<1> QED
  BY <1>1, <1>3, <1>4 DEF TypeInv, TablesOK

LEMMA ExecRemoveSerial ==
  ASSUME Serial, TypeInv, NestInv, SerialInv, NEW c \in Client, ExecRemoveNode(c)
  PROVE  SerialInv'
<1>1. PICK r \in nodes : r.hash # RootPath /\ nodes' = RemoveNode(nodes, r.lft, r.rgt)
  BY SerialRemoval
<1>2. nodes \in SUBSET Row /\ UniqueIds(nodes) /\ NestedSets(nodes) /\ PathTree(nodes)
  BY DEF TypeInv, TablesOK, SerialInv, NestInv
<1>3. PathTree(nodes') /\ Hashes(nodes') = {q \in Hashes(nodes) : ~IsPrefix(r.hash, q)}
  BY <1>1, <1>2, RemoveKeepsTree
<1>4. \E m \in nodes' : m.hash = RootPath
  <2>1. r.hash \in Path
    BY <1>2 DEF Row
  <2>2. ~IsPrefix(r.hash, RootPath)
    BY <1>1, <2>1, PrefixOfRoot
  <2>3. RootPath \in Hashes(nodes)
    BY DEF Hashes, SerialInv
  <2> QED
    BY <1>3, <2>2, <2>3 DEF Hashes
<1>5. \A m \in nodes' : m.id # 0
  <2>1. PICK l \in Nat, g \in Nat : l = r.lft /\ g = r.rgt
    BY <1>2 DEF Row
  <2>2. \A m \in nodes' : \E n \in nodes : m = CloseGap(n, l, g)
    BY <1>1, <2>1 DEF RemoveNode
  <2>3. \A n \in nodes : CloseGap(n, l, g).id = n.id /\ n.id # 0
    BY <1>2, CloseGapRow DEF SerialInv
  <2> QED
    BY <2>2, <2>3
<1>6. todo'[c] = <<>> /\ pc'[c] = "idle"
  BY DEF ExecRemoveNode, Return, Goto, TypeInv, FrameOK
<1>7. \A d \in Client : Steady(d)'
  <2> SUFFICES ASSUME NEW d \in Client PROVE Steady(d)'
    OBVIOUS
  <2>1. d = c
    BY DEF Serial
  <2> QED
    BY <1>6, <2>1, EmptyChain DEF Steady, Absent
<1> QED
  BY <1>3, <1>4, <1>5, <1>7 DEF SerialInv

LEMMA OtherSerial ==
  ASSUME Serial, TypeInv, SerialInv, NEW c \in Client,
         \/ \E k \in Key, v \in Value : SetAttribute(c, k, v)
         \/ \E k \in Key, v, w \in Value : SetVectorAttribute(c, k, <<v, w>>)
         \/ \E k \in Key : RemoveAttribute(c, k)
         \/ \E p \in Target : ChangeDir(c, p)
         \/ ExecVectorValue(c)
         \/ SelectChildren(c)
         \/ DatabaseError(c)
  PROVE  SerialInv'
<1>1. nodes' = nodes
  BY DEF SetAttribute, SetVectorAttribute, RemoveAttribute, ChangeDir, ExecVectorValue,
     SelectChildren, DatabaseError, tables
<1>2. CASE Return(c)
  BY <1>1, <1>2, SerialCalm DEF Return, Goto, TypeInv, FrameOK
<1>3. CASE /\ pc[c] \in {"idle", "vector"} /\ UNCHANGED todo
           /\ pc' = pc \/ Goto(c, "vector")
  BY <1>1, <1>3, SerialCalm DEF Goto, TypeInv, FrameOK
<1>4. \/ Return(c)
      \/ /\ pc[c] \in {"idle", "vector"} /\ UNCHANGED todo
         /\ pc' = pc \/ Goto(c, "vector")
  <2>1. CASE \/ \E k \in Key, v \in Value : SetAttribute(c, k, v)
             \/ \E k \in Key : RemoveAttribute(c, k)
             \/ \E p \in Target : ChangeDir(c, p)
    BY <2>1 DEF SetAttribute, RemoveAttribute, ChangeDir, IsOpen, Idle, frame
  <2>2. CASE \E k \in Key, v, w \in Value : SetVectorAttribute(c, k, <<v, w>>)
    BY <2>2 DEF SetVectorAttribute, IsOpen, Idle
  <2>3. CASE ExecVectorValue(c) \/ SelectChildren(c) \/ DatabaseError(c)
    BY <2>3 DEF ExecVectorValue, SelectChildren, DatabaseError
  <2> QED
    BY <2>1, <2>2, <2>3
<1> QED
  BY <1>2, <1>3, <1>4

LEMMA ListSerial ==
  ASSUME Serial, TypeInv, SerialInv, NEW c \in Client, List(c)
  PROVE  SerialInv'
<1>1. PICK n : n = Depth(nodes, handle[c].node.id)
  OBVIOUS
<1>2. /\ nodes' = nodes /\ handle' = handle /\ todo' = todo /\ pc'[c] = "children"
      /\ call' = [call EXCEPT ![c] = [NoCall EXCEPT !.depth = n]]
  BY <1>1 DEF List, tables, Goto, TypeInv, FrameOK
<1>3. call'[c].depth = n
  <2>1. call'[c] = [NoCall EXCEPT !.depth = n]
    BY <1>2 DEF TypeInv, FrameOK
  <2> QED
    BY <2>1 DEF NoCall
<1>4. Depth(nodes', handle'[c].node.id) = n
  BY <1>1, <1>2
<1>5. Chain(todo[c]) /\ Absent(todo[c])
  BY DEF SerialInv, Steady
<1>6. Steady(c)'
  BY <1>2, <1>3, <1>4, <1>5 DEF Steady, Absent
<1> QED
  BY <1>2, <1>6, SerialLook

LEMMA RemoveEntrySerial ==
  ASSUME Serial, TypeInv, SerialInv, NEW c \in Client, NEW p, NEW r, RemoveEntry(c, p, r)
  PROVE  SerialInv'
<1>1. PICK n : n.id # RootId /\ found' = [found EXCEPT ![c] = n]
  BY DEF RemoveEntry
<1>2. nodes' = nodes /\ todo' = todo /\ pc'[c] = "remove" /\ found'[c] = n
  BY <1>1 DEF RemoveEntry, tables, Goto, TypeInv, FrameOK
<1>3. Chain(todo[c]) /\ Absent(todo[c])
  BY DEF SerialInv, Steady
<1>4. Steady(c)'
  BY <1>1, <1>2, <1>3 DEF Steady, Absent
<1> QED
  BY <1>2, <1>4, SerialLook

LEMMA NextSerial ==
  ASSUME Serial, TypeInv, NestInv, SerialInv, [Next]_vars
  PROVE  SerialInv'
<1>1. CASE UNCHANGED vars
  <2>1. UNCHANGED <<nodes, pc, call, handle, todo, found, ppath>>
    BY <1>1 DEF vars
  <2> QED
    BY <2>1 DEF SerialInv, Steady, Absent, ParentRow
<1>2. ASSUME NEW c \in Client, RemoveSelf(c)
      PROVE  FALSE
  BY <1>2 DEF RemoveSelf, Serial
<1>3. NestedSets(nodes)
  BY DEF NestInv
<1> QED
  BY <1>1, <1>2, <1>3, OpenSerial, FindParentSerial, RefindParentSerial, QueryPathSerial,
     ExecInsertSerial, ExecRemoveSerial, ListSerial, RemoveEntrySerial, OtherSerial
     DEF Next, Continue

LEMMA InitSerial == Init => SerialInv
<1> SUFFICES ASSUME Init PROVE SerialInv
  OBVIOUS
<1>1. /\ nodes = {RootRow} /\ RootRow.hash = RootPath /\ RootRow.id = 1
      /\ RootRow.lft = 1 /\ RootRow.rgt = 2
  BY DEF Init, RootRow, RootId
<1>2. RootPath \in Path
  BY DEF RootPath, Path
<1>3. Covers(RootRow, RootRow) /\ IsPrefix(RootPath, RootPath)
  BY <1>1, <1>2, PrefixOrder DEF Covers
<1>4. \A p \in Path : IsPrefix(p, RootPath) => RowsAt(nodes, p) # {}
  BY <1>1, PrefixOfRoot DEF RowsAt
<1>5. PathTree(nodes)
  BY <1>1, <1>3, <1>4 DEF PathTree
<1>6. \A c \in Client : todo[c] = <<>> /\ pc[c] = "idle"
  BY DEF Init
<1> QED
  BY <1>1, <1>5, <1>6, EmptyChain DEF SerialInv, Steady

LEMMA SerialInvariant ==
  ASSUME Serial
  PROVE  Spec => [](TypeInv /\ NestInv /\ SerialInv)
<1>1. Careful
  BY DEF Serial, Careful
<1>2. Init => NestInv /\ SerialInv
  BY InitSerial DEF Init, NestInv, FreshFound, NestedSets, RootRow
<1>3. TypeInv /\ NestInv /\ SerialInv /\ [Next]_vars => NestInv' /\ SerialInv'
  BY <1>1, NextNest, NextSerial
<1> QED
  BY <1>2, <1>3, TypeInvariant, PTL DEF Spec

(* With one client the intervals and the hashes never disagree: whatever it *)
(* creates, with or without missing parents, and removes, every path has    *)
(* one row, and the rows it covers are those of the longer paths.           *)
THEOREM PathsAndIntervalsAgree ==
  ASSUME Serial
  PROVE  Spec => []PathsMatchNesting
<1>1. SerialInv => PathsMatchNesting
  BY DEF SerialInv, PathTree, PathsMatchNesting
<1> QED
  BY <1>1, SerialInvariant, PTL

(* The rows that get_child_nodes counts out are those one component longer. *)
LEMMA ChildRows ==
  ASSUME NEW T \in SUBSET Row, UniqueIds(T), PathTree(T), NEW d \in T
  PROVE  ChildNodes(T, d.id, Depth(T, d.id)) = {n \in T : n.hash # RootPath /\ Front(n.hash) = d.hash}
<1>1. PICK k \in Nat : k = Len(d.hash)
  BY DEF Row, Path
<1>2. Cardinality(Ancestors(T, d.id)) = k + 1
  BY <1>1, AncestorsCounted
<1>3. Depth(T, d.id) = k
  <2>1. d \in Ancestors(T, d.id)
    <3>1. d.hash \in Path
      BY DEF Row
    <3>2. IsPrefix(d.hash, d.hash)
      BY <3>1, PrefixOrder
    <3> QED
      BY <3>2, AncestorsOf
  <2>2. Ancestors(T, d.id) # {} /\ k + 1 - 1 = k
    BY <2>1
  <2> QED
    BY <1>2, <2>2 DEF Depth
<1>4. ASSUME NEW n \in T
      PROVE  /\ (\E m \in T : m.id = d.id /\ Covers(m, n)) /\ Cardinality(Ancestors(T, n.id)) - (k + 1) = 1
             <=> n.hash # RootPath /\ Front(n.hash) = d.hash
  <2>1. n.hash \in Path /\ d.hash \in Path
    BY DEF Row
  <2>2. PICK j \in Nat : j = Len(n.hash)
    BY <2>1 DEF Path
  <2>3. Cardinality(Ancestors(T, n.id)) = j + 1
    BY <2>2, AncestorsCounted
  <2>4. Cardinality(Ancestors(T, n.id)) - (k + 1) = 1 <=> j = k + 1
    BY <2>3
  <2>5. (\E m \in T : m.id = d.id /\ Covers(m, n)) <=> IsPrefix(d.hash, n.hash)
    BY DEF UniqueIds, PathTree
  <2>6. j = 0 <=> n.hash = RootPath
    BY <2>1, <2>2, PrefixOfRoot
  <2>7. ASSUME IsPrefix(d.hash, n.hash), j = k + 1
        PROVE  n.hash # RootPath /\ Front(n.hash) = d.hash
    <3>1. n.hash # RootPath
      BY <2>6, <2>7
    <3>2. d.hash # n.hash
      <4>1. Len(n.hash) = k + 1 /\ Len(d.hash) = k /\ k # k + 1
        BY <1>1, <2>2, <2>7
      <4> QED
        BY <4>1
    <3>3. PICK f \in Path : f = Front(n.hash)
      BY <2>1, <3>1, PathParent
    <3>4. Len(f) = k
      <4>1. Len(f) = j - 1
        BY <2>1, <2>2, <3>1, <3>3, PathParent
      <4> QED
        BY <2>7, <4>1
    <3>5. IsPrefix(d.hash, f)
      BY <2>1, <2>7, <3>1, <3>2, <3>3, PrefixOfChild
    <3> QED
      BY <1>1, <2>1, <3>1, <3>3, <3>4, <3>5, PrefixOrder
  <2>8. ASSUME n.hash # RootPath, Front(n.hash) = d.hash
        PROVE  IsPrefix(d.hash, n.hash) /\ j = k + 1
    <3>1. IsPrefix(d.hash, Front(n.hash))
      BY <2>1, <2>8, PrefixOrder
    <3>2. IsPrefix(d.hash, n.hash)
      BY <2>1, <2>8, <3>1, PrefixOfChild
    <3>3. k = j - 1
      BY <1>1, <2>1, <2>2, <2>8, PathParent
    <3> QED
      BY <3>2, <3>3
  <2> QED
    BY <2>4, <2>5, <2>7, <2>8
<1> QED
  BY <1>3, <1>4 DEF ChildNodes

(* Only between its two queries could a listing miss a row or show a wrong  *)
(* one, and one client alone changes nothing in between.                    *)
THEOREM ListingsAreExact ==
  ASSUME Serial
  PROVE  Spec => ListingIsExact
<1> DEFINE Exact(c) ==
      listing'[c] = {n.id : n \in UNION {Below(d) : d \in {m \in nodes : m.id = handle[c].node.id}}}
<1>1. ASSUME TypeInv, SerialInv, NEW c \in Client, SelectChildren(c)
      PROVE  Exact(c)
  <2>1. PICK i : i = handle[c].node.id
    OBVIOUS
  <2>2. listing'[c] = {n.id : n \in ChildNodes(nodes, i, Depth(nodes, i))}
    BY <1>1, <2>1 DEF SelectChildren, SerialInv, Steady, TypeInv, ObjectsOK
  <2>3. CASE \A m \in nodes : m.id # i
    <3>1. ChildNodes(nodes, i, Depth(nodes, i)) = {}
      BY <2>3 DEF ChildNodes
    <3>2. {m \in nodes : m.id = handle[c].node.id} = {}
      BY <2>1, <2>3
    <3> QED
      BY <2>2, <3>1, <3>2
  <2>4. ASSUME NEW d \in nodes, d.id = i
        PROVE  Exact(c)
    <3>1. nodes \in SUBSET Row /\ UniqueIds(nodes) /\ PathTree(nodes)
      BY <1>1 DEF TypeInv, TablesOK, SerialInv
    <3>2. {m \in nodes : m.id = handle[c].node.id} = {d}
      BY <2>1, <2>4, <3>1 DEF UniqueIds
    <3>3. ChildNodes(nodes, i, Depth(nodes, i)) = Below(d)
      BY <2>4, <3>1, ChildRows DEF Below
    <3>4. UNION {Below(e) : e \in {d}} = Below(d)
      OBVIOUS
    <3> QED
      BY <2>2, <3>2, <3>3, <3>4
  <2> QED
    BY <2>3, <2>4
<1>2. TypeInv /\ SerialInv /\ [Next]_vars => [\A c \in Client : SelectChildren(c) => Exact(c)]_vars
  BY <1>1
<1> QED
  BY <1>2, SerialInvariant, PTL DEF Spec, ListingIsExact

(* What one client does to the table is what a service with a tree of paths *)
(* promises: an insertion creates one path below one that exists, a removal *)
(* drops a path with everything below it, and nothing else shows.           *)
THEOREM TableIsNamespace ==
  ASSUME Serial
  PROVE  Spec => ImplementsNamespace
<1>1. Init => Tree!Init
  BY DEF Init, Tree!Init, RootRow, RootPath
<1>2. ASSUME TypeInv, NestInv, SerialInv, [Next]_vars
      PROVE  [Tree!Next]_(Hashes(nodes))
  <2>1. ASSUME NEW c \in Client, ExecInsertNode(c), nodes' # nodes
        PROVE  Tree!Next
    <3>1. PICK p \in Path, r \in nodes :
             /\ p # RootPath /\ r.hash = Front(p) /\ RowsAt(nodes, p) = {}
             /\ \E b : nodes' = InsertNode(nodes, nextId, b, r.lft, p)
      BY <1>2, <2>1, SerialInsertion
    <3>2. TreeTable(nodes)
      BY <1>2 DEF TreeTable, TypeInv, TablesOK, SerialInv, NestInv
    <3>3. Hashes(nodes') = Hashes(nodes) \cup {p}
      BY <3>1, <3>2, InsertKeepsTree
    <3>4. Front(p) \in Hashes(nodes) /\ p \notin Hashes(nodes)
      BY <3>1 DEF Hashes, RowsAt
    <3>5. Last(p) \in Name /\ Append(Front(p), Last(p)) = p
      BY <3>1, PathParent
    <3>6. Tree!Create(Front(p), Last(p))
      BY <3>3, <3>4, <3>5 DEF Tree!Create, Hashes
    <3> QED
      BY <3>4, <3>5, <3>6 DEF Tree!Next, Hashes
  <2>2. ASSUME NEW c \in Client, ExecRemoveNode(c)
        PROVE  Tree!Next
    <3>1. PICK r \in nodes : r.hash # RootPath /\ nodes' = RemoveNode(nodes, r.lft, r.rgt)
      BY <1>2, <2>2, SerialRemoval
    <3>2. nodes \in SUBSET Row /\ UniqueIds(nodes) /\ NestedSets(nodes) /\ PathTree(nodes)
      BY <1>2 DEF TypeInv, TablesOK, SerialInv, NestInv
    <3>3. Hashes(nodes') = {q \in Hashes(nodes) : ~IsPrefix(r.hash, q)}
      BY <3>1, <3>2, RemoveKeepsTree
    <3>4. Tree!Drop(r.hash)
      BY <3>1, <3>3 DEF Tree!Drop, Hashes, RootPath, Tree!IsPrefix, IsPrefix
    <3> QED
      BY <3>4 DEF Tree!Next
  <2>3. ASSUME NEW c \in Client, RemoveSelf(c)
        PROVE  FALSE
    BY <2>3 DEF RemoveSelf, Serial
  <2>4. nodes' = nodes \/ \E c \in Client : ExecInsertNode(c) \/ ExecRemoveNode(c) \/ RemoveSelf(c)
    BY <1>2, NodesSteps
  <2> QED
    BY <2>1, <2>2, <2>3, <2>4 DEF Hashes
<1>3. Spec => Tree!Init /\ [][Tree!Next]_(Hashes(nodes))
  BY <1>1, <1>2, SerialInvariant, PTL DEF Spec
<1> QED
  BY <1>3, PTL DEF ImplementsNamespace, Tree!Spec, Hashes

-----------------------------------------------------------------------------
(***************************************************************************)
(* Adverts: each of the two adaptors runs alone.  What HbaseAdvertProofs    *)
(* proves of hbase is carried over; that the instance of that module and    *)
(* the one of Adverts mean the same shows when both are expanded.           *)
(***************************************************************************)
HP == INSTANCE HbaseAdvertProofs
        WITH nodes <- rows, call <- hcall, Client <- HClient, Name <- HName, Rank <- HRank,
             Begins <- HBegins, Target <- HTarget, Calls <- HCalls, MaxRows <- HMaxRows

LEMMA ConstantsSame == HP!ConstantsFit
BY HbaseConstantsFit
DEF Hbase!ConstantsFit, Hbase!Path, Hbase!Goal, Hbase!Mode, HP!ConstantsFit, HP!Path, HP!Goal, HP!Mode

LEMMA HbaseInitSame == Hbase!Init = HP!Init
BY DEF Hbase!Init, Hbase!NoCall, Hbase!RootId, Hbase!EmptyId, Hbase!SomeKey,
       HP!Init, HP!NoCall, HP!RootId, HP!EmptyId, HP!SomeKey

LEMMA HelpersSame ==
  /\ \A T, n, up : Hbase!GetNodeId(T, n, up) = HP!GetNodeId(T, n, up)
  /\ \A T, n, up : Hbase!EntryExists(T, n, up) = HP!EntryExists(T, n, up)
  /\ \A T, p : Hbase!Follow(T, p) = HP!Follow(T, p)
  /\ \A T, p : Hbase!UrlExists(T, p) = HP!UrlExists(T, p)
BY DEF Hbase!UrlExists, Hbase!Follow, Hbase!EntryExists, Hbase!GetNodeId, Hbase!FirstOf, Hbase!LastOf,
       Hbase!Before, Hbase!EmptyId, Hbase!RootId, Hbase!NoParent,
       HP!UrlExists, HP!Follow, HP!EntryExists, HP!GetNodeId, HP!FirstOf, HP!LastOf,
       HP!Before, HP!EmptyId, HP!RootId, HP!NoParent

LEMMA HbaseNextSame == Hbase!Next = HP!Next
BY DEF Hbase!Next, Hbase!Open, Hbase!CheckEntry, Hbase!Descend, Hbase!CheckLast, Hbase!CreateEntry,
       Hbase!FollowEntry, Hbase!CountRows, Hbase!WriteNumber, Hbase!WriteParent, Hbase!WriteKind,
       Hbase!ChangeAttribute, Hbase!ClimbDown, Hbase!FindRow, Hbase!WriteAttribute, Hbase!IOError,
       Hbase!Missing, Hbase!Present, Hbase!At, Hbase!Goto, Hbase!Return, Hbase!Component, Hbase!IsLast,
       Hbase!Begin, Hbase!Advance, Hbase!NoCall, Hbase!SomeKey, Hbase!Mode,
       Hbase!UrlExists, Hbase!Follow, Hbase!EntryExists, Hbase!GetNodeId, Hbase!FirstOf, Hbase!LastOf,
       Hbase!Before, Hbase!EmptyId, Hbase!RootId, Hbase!NoParent, Hbase!GetNewNodeId, Hbase!Cardinality,
       Hbase!PutNumber, Hbase!PutParent, Hbase!PutKind, Hbase!RowAt,
       HP!Next, HP!Open, HP!CheckEntry, HP!Descend, HP!CheckLast, HP!CreateEntry,
       HP!FollowEntry, HP!CountRows, HP!WriteNumber, HP!WriteParent, HP!WriteKind,
       HP!ChangeAttribute, HP!ClimbDown, HP!FindRow, HP!WriteAttribute, HP!IOError,
       HP!Missing, HP!Present, HP!At, HP!Goto, HP!Return, HP!Component, HP!IsLast,
       HP!Begin, HP!Advance, HP!NoCall, HP!SomeKey, HP!Mode,
       HP!UrlExists, HP!Follow, HP!EntryExists, HP!GetNodeId, HP!FirstOf, HP!LastOf,
       HP!Before, HP!EmptyId, HP!RootId, HP!NoParent, HP!GetNewNodeId, HP!Cardinality,
       HP!PutNumber, HP!PutParent, HP!PutKind, HP!RowAt

LEMMA HbaseTypeOKSame == Hbase!TypeOK = HP!TypeOK
BY DEF Hbase!TypeOK, Hbase!Row, Hbase!Cell, Hbase!Call, Hbase!Where, Hbase!Goal, Hbase!Mode, Hbase!NoParent,
       HP!TypeOK, HP!Row, HP!Cell, HP!Call, HP!Where, HP!Goal, HP!Mode, HP!NoParent

LEMMA OwnAttributesSame == Hbase!OwnAttributes = HP!OwnAttributes
BY HelpersSame DEF Hbase!OwnAttributes, Hbase!Last, HP!OwnAttributes, HP!Last

LEMMA FoundSame == Hbase!Found = HP!Found /\ Hbase!Found' = HP!Found'
<1>1. Hbase!Places = HP!Places
  BY DEF Hbase!Places, HP!Places
<1>2. Hbase!Found = HP!Found
  BY <1>1, HelpersSame DEF Hbase!Found, HP!Found
<1>3. Hbase!Found' = HP!Found'
  BY <1>1, HelpersSame DEF Hbase!Found, HP!Found
<1> QED
  BY <1>2, <1>3

LEMMA WriteParentSame == \A c : Hbase!WriteParent(c) = HP!WriteParent(c)
BY DEF Hbase!WriteParent, Hbase!At, Hbase!Goto, Hbase!Component, Hbase!IsLast, Hbase!Advance, Hbase!PutParent,
       HP!WriteParent, HP!At, HP!Goto, HP!Component, HP!IsLast, HP!Advance, HP!PutParent

(* Either adaptor runs as if it were alone: what is proved of FastAdvert and *)
(* of HbaseAdvert holds beside the other.                                    *)
THEOREM StoresRunApart == StoreSpec => Spec /\ Hbase!Spec
<1>1. StoreInit => Init /\ Hbase!Init
  BY DEF StoreInit
<1>2. [StoreNext]_<<store, vars, hvars>> => [Next]_vars /\ [Hbase!Next]_(Hbase!vars)
  BY DEF StoreNext, hvars, Hbase!vars
<1> QED
  BY <1>1, <1>2, PTL DEF StoreSpec, Spec, Hbase!Spec

LEMMA StoreSteps == StoreSpec => HP!Spec
<1>1. Hbase!Init => HP!Init
  BY HbaseInitSame
<1>2. [Hbase!Next]_(Hbase!vars) => [HP!Next]_(HP!vars)
  BY HbaseNextSame DEF Hbase!vars, HP!vars
<1> QED
  BY <1>1, <1>2, StoresRunApart, PTL DEF HP!Spec, Hbase!Spec

(* Every column and local of hbase has its type, whichever adaptor runs.   *)
THEOREM HbaseColumnsTyped == StoreSpec => []HbaseTypeOK
<1>1. HP!Spec => []HP!TypeOK
  BY ConstantsSame, HP!HbaseTypeCorrect
<1>2. HP!TypeOK => HbaseTypeOK
  BY HbaseTypeOKSame DEF HbaseTypeOK
<1> QED
  BY <1>1, <1>2, StoreSteps, PTL

(* An attribute set through an object whose path existed is in the row of  *)
(* that path.                                                              *)
THEOREM HbaseAttributesAreOwn == StoreSpec => []OwnAttributes
<1>1. HP!Spec => []HP!OwnAttributes
  BY ConstantsSame, HP!AttributesAreOwn
<1>2. HP!OwnAttributes => OwnAttributes
  BY OwnAttributesSame DEF OwnAttributes
<1> QED
  BY <1>1, <1>2, StoreSteps, PTL

(* What url_exists of hbase finds grows by one path below one that is there *)
(* as long as no two creations have been under way together.               *)
THEOREM HbaseActsAsNamespace == StoreSpec => ActsAsNamespace
<1>1. HP!Spec => [][HP!Next]_(HP!vars) /\ []HP!HbaseInv
  BY ConstantsSame, HP!HbaseInvariant, PTL DEF HP!Spec
<1>2. HP!HbaseInv /\ [HP!Next]_(HP!vars) =>
        [rows' # rows /\ ~raced' =>
           \/ Hbase!Found' = Hbase!Found
           \/ \E p \in Hbase!Found, n \in HName : Hbase!Tree!Create(p, n)]_rows
  <2> SUFFICES ASSUME HP!HbaseInv, [HP!Next]_(HP!vars), rows' # rows, ~raced'
               PROVE  \/ Hbase!Found' = Hbase!Found
                      \/ \E p \in Hbase!Found, n \in HName : Hbase!Tree!Create(p, n)
    OBVIOUS
  <2>1. HP!Found' = HP!Found \/ \E p \in HP!Found, n \in HName : HP!Tree!Create(p, n)
    BY ConstantsSame, HP!GrowsLikeTree
  <2>2. \A p, n : HP!Tree!Create(p, n) => Hbase!Tree!Create(p, n)
    BY FoundSame DEF HP!Tree!Create, Hbase!Tree!Create
  <2> QED
    BY <2>1, <2>2, FoundSame
<1> QED
  BY <1>1, <1>2, StoreSteps, PTL DEF ActsAsNamespace, Hbase!ActsAsNamespace

(* A path of hbase is lost only where a parent is written to a row that has *)
(* one, or that is not the eldest of its name there.                        *)
THEOREM HbaseLosesToRivals == StoreSpec => LostToRivalOnly
<1>1. HP!Spec => [][HP!Next]_(HP!vars) /\ []HP!HbaseInv
  BY ConstantsSame, HP!HbaseInvariant, PTL DEF HP!Spec
<1>2. HP!HbaseInv /\ [HP!Next]_(HP!vars) =>
        [rows' # rows => \A p \in Hbase!Found \ Hbase!Found' : \E c \in HClient :
           LET k == hcall[c] IN
           /\ Hbase!WriteParent(c)
           /\ \E r \in rows :
                /\ r.name = Hbase!Component(k)
                /\ \/ r.id = k.id /\ r.parent # Hbase!NoParent
                   \/ r.id > k.id /\ r.parent = k.parent]_rows
  <2> SUFFICES ASSUME HP!HbaseInv, [HP!Next]_(HP!vars), rows' # rows,
                      NEW p \in Hbase!Found \ Hbase!Found'
               PROVE  \E c \in HClient :
                        LET k == hcall[c] IN
                        /\ Hbase!WriteParent(c)
                        /\ \E r \in rows :
                             /\ r.name = Hbase!Component(k)
                             /\ \/ r.id = k.id /\ r.parent # Hbase!NoParent
                                \/ r.id > k.id /\ r.parent = k.parent
    OBVIOUS
  <2>1. \E c \in HClient : HP!WriteParent(c) /\ HP!Rival(hcall[c])
    BY ConstantsSame, FoundSame, HP!LostToRival DEF HP!HbaseInv
  <2>2. PICK c \in HClient : Hbase!WriteParent(c) /\ HP!Rival(hcall[c])
    BY <2>1, WriteParentSame
  <2> QED
    BY <2>2 DEF HP!Rival, HP!Component, HP!NoParent, Hbase!Component, Hbase!NoParent
<1> QED
  BY <1>1, <1>2, StoreSteps, PTL DEF LostToRivalOnly, Hbase!LostToRivalOnly
=============================================================================
