-------------------------- MODULE HbaseAdvertProofs --------------------------
(***************************************************************************)
(* Theorems about HbaseAdvert, for any clients, names, paths and tables.   *)
(***************************************************************************)
EXTENDS HbaseAdvert, FiniteSetTheorems, SequenceTheorems, WellFoundedInduction, TLAPS

-----------------------------------------------------------------------------
(***************************************************************************)
(* Least and greatest elements.                                            *)
(***************************************************************************)
LEMMA LeastNat ==
  ASSUME NEW S, S \subseteq Nat, S # {}
  PROVE  \E x \in S : \A y \in S : x <= y
<1>1. PICK x \in S : \A y \in S : ~(<<y, x>> \in OpToRel(<, Nat))
  BY WFMin, NatLessThanWellFounded, Zenon
<1>2. \A y \in S : ~(y < x)
  BY <1>1 DEF OpToRel
<1> QED
  BY <1>2

(* Rows are ordered by name and then by id. *)
LEMMA BeforeOrders ==
  ASSUME ConstantsFit
  PROVE  /\ \A r, s \in Row : Before(r, s) \/ Before(s, r)
         /\ \A r, s, q \in Row : Before(r, s) /\ Before(s, q) => Before(r, q)
<1>1. \A r \in Row : r.name \in Name /\ r.id \in Nat /\ Rank[r.name] \in Nat
  BY DEF ConstantsFit, Row
<1>2. \A r, s \in Row : Before(r, s) \/ Before(s, r)
  BY <1>1 DEF ConstantsFit, Before
<1>3. \A r, s, q \in Row : Before(r, s) /\ Before(s, q) => Before(r, q)
  BY <1>1 DEF Before
<1> QED
  BY <1>2, <1>3

LEMMA FirstIn ==
  ASSUME ConstantsFit, NEW S, S \subseteq Row, S # {}
  PROVE  FirstOf(S) \in S /\ \A s \in S : Before(FirstOf(S), s)
<1>1. \A r \in S : r.name \in Name /\ r.id \in Nat /\ Rank[r.name] \in Nat
  BY DEF ConstantsFit, Row
<1>2. PICK x \in {Rank[r.name] : r \in S} : \A y \in {Rank[r.name] : r \in S} : x <= y
  <2>1. {Rank[r.name] : r \in S} \subseteq Nat /\ {Rank[r.name] : r \in S} # {}
    BY <1>1
  <2> QED
    BY <2>1, LeastNat
<1>3. PICK S1 : S1 = {r \in S : Rank[r.name] = x}
  OBVIOUS
<1>4. PICK i \in {r.id : r \in S1} : \A y \in {r.id : r \in S1} : i <= y
  <2>1. {r.id : r \in S1} \subseteq Nat /\ {r.id : r \in S1} # {}
    BY <1>1, <1>2, <1>3
  <2> QED
    BY <2>1, LeastNat
<1>5. PICK f \in S1 : f.id = i
  BY <1>4
<1>6. f \in S /\ Rank[f.name] = x
  BY <1>3, <1>5
<1>7. ASSUME NEW s \in S
      PROVE  Before(f, s)
  <2>1. CASE Rank[s.name] = x
    <3>1. s \in S1
      BY <1>3, <2>1
    <3>2. f.id <= s.id
      BY <1>4, <1>5, <3>1
    <3>3. f.name = s.name
      BY <1>1, <1>6, <2>1 DEF ConstantsFit
    <3> QED
      BY <3>2, <3>3 DEF Before
  <2>2. CASE Rank[s.name] # x
    <3>1. x <= Rank[s.name]
      BY <1>2
    <3> QED
      BY <1>1, <1>6, <2>2, <3>1 DEF Before
  <2> QED
    BY <2>1, <2>2
<1> QED
  BY <1>6, <1>7 DEF FirstOf

(* A smallest set of rows without a last one would lose it with a row. *)
LEMMA LastIn ==
  ASSUME ConstantsFit, NEW S, S \subseteq Row, IsFiniteSet(S), S # {}
  PROVE  LastOf(S) \in S /\ \A s \in S : Before(s, LastOf(S))
<1> DEFINE HasLast(U) == \E l \in U : \A s \in U : Before(s, l)
           Bad == {n \in Nat : \E U \in SUBSET S : U # {} /\ Cardinality(U) = n /\ ~HasLast(U)}
<1>1. \A U \in SUBSET S : IsFiniteSet(U) /\ Cardinality(U) \in Nat
  BY FS_Subset, FS_CardinalityType
<1>2. Bad = {}
  <2> SUFFICES ASSUME Bad # {} PROVE FALSE
    OBVIOUS
  <2>1. PICK n \in Bad : \A m \in Bad : n <= m
    BY LeastNat
  <2>2. PICK U \in SUBSET S : U # {} /\ Cardinality(U) = n /\ ~HasLast(U)
    BY <2>1
  <2>3. PICK r : r \in U
    BY <2>2
  <2>4. PICK V : V = U \ {r}
    OBVIOUS
  <2>5. V \in SUBSET S /\ Cardinality(V) = n - 1 /\ n \in Nat
    BY <1>1, <2>2, <2>3, <2>4, FS_RemoveElement
  <2>6. n - 1 \in Nat /\ ~(n <= n - 1)
    BY <1>1, <2>5
  <2>7. V = {} \/ HasLast(V)
    BY <2>1, <2>5, <2>6
  <2>8. U = V \cup {r} /\ r \in Row /\ V \subseteq Row
    BY <2>3, <2>4
  <2>9. CASE V = {}
    <3>1. Before(r, r)
      BY <2>8, BeforeOrders
    <3> QED
      BY <2>2, <2>8, <2>9, <3>1
  <2>10. CASE HasLast(V)
    <3>1. PICK l \in V : \A s \in V : Before(s, l)
      BY <2>10
    <3>2. l \in Row /\ Before(r, r) /\ (Before(r, l) \/ Before(l, r))
      BY <2>8, <3>1, BeforeOrders
    <3>3. CASE Before(r, l)
      BY <2>2, <2>8, <3>1, <3>3
    <3>4. CASE Before(l, r)
      <4>1. \A s \in U : Before(s, r)
        BY <2>8, <3>1, <3>2, <3>4, BeforeOrders
      <4> QED
        BY <2>2, <2>8, <4>1
    <3> QED
      BY <3>2, <3>3, <3>4
  <2> QED
    BY <2>7, <2>9, <2>10
<1>3. HasLast(S)
  BY <1>1, <1>2
<1> QED
  BY <1>3 DEF LastOf

-----------------------------------------------------------------------------
(***************************************************************************)
(* common_helpers.cpp.                                                     *)
(***************************************************************************)
Table(T) ==
  /\ T \subseteq Row
  /\ IsFiniteSet(T)
  /\ \A r, s \in T : r.name = s.name /\ r.id = s.id => r = s

Below(T, n, up)    == {r \in T : r.name = n /\ r.parent = up}
Eldest(T, n, up, s) == s \in Below(T, n, up) /\ \A q \in Below(T, n, up) : s.id <= q.id

(* An id that get_node_id returns is that of a row, if it is not empty. *)
LEMMA IdOfRow ==
  ASSUME ConstantsFit, NEW T, Table(T), NEW n, NEW up
  PROVE  \/ GetNodeId(T, n, up) = EmptyId
         \/ \E r \in T : GetNodeId(T, n, up) = r.id
<1> DEFINE matching == {r \in T : r.name \in Begins[n]}
           children == {r \in matching : r.parent = up}
           numbered == {r \in matching : r.numbered}
<1>1. children \subseteq T /\ numbered \subseteq T
  OBVIOUS
<1>2. children # {} => FirstOf(children) \in T
  BY <1>1, FirstIn DEF Table
<1>3. numbered # {} => LastOf(numbered) \in T
  <2>1. IsFiniteSet(numbered) /\ numbered \subseteq Row
    BY <1>1, FS_Subset DEF Table
  <2> QED
    BY <1>1, <2>1, LastIn
<1> HIDE DEF children, numbered
<1>4. GetNodeId(T, n, up) = CASE children # {} -> FirstOf(children).id
        [] children = {} /\ numbered # {} -> LastOf(numbered).id
        [] OTHER -> EmptyId
  BY DEF GetNodeId, children, numbered
<1> QED
  BY <1>2, <1>3, <1>4

LEMMA IdTyped ==
  ASSUME ConstantsFit, NEW T, Table(T), NEW n, NEW up
  PROVE  GetNodeId(T, n, up) \in 0 .. MaxRows
BY IdOfRow DEF Table, Row, EmptyId, ConstantsFit

(* A scan for a component that is there finds its row with the least id:    *)
(* that row comes before all of longer names.                               *)
LEMMA EldestFound ==
  ASSUME ConstantsFit, NEW T, Table(T), NEW n \in Name, NEW up, Below(T, n, up) # {}
  PROVE  \E s : Eldest(T, n, up, s) /\ GetNodeId(T, n, up) = s.id
<1> DEFINE children == {r \in {q \in T : q.name \in Begins[n]} : r.parent = up}
<1>1. children \subseteq T /\ Below(T, n, up) \subseteq children
  BY DEF Below, ConstantsFit
<1>2. FirstOf(children) \in children /\ \A s \in children : Before(FirstOf(children), s)
  BY <1>1, FirstIn DEF Table
<1>3. GetNodeId(T, n, up) = FirstOf(children).id
  BY <1>1 DEF GetNodeId
<1>4. PICK f : f = FirstOf(children)
  OBVIOUS
<1>5. f \in T /\ f \in Row /\ f.name \in Begins[n] /\ f.parent = up
  BY <1>2, <1>4 DEF Table
<1>6. ~(Rank[f.name] < Rank[n])
  <2>1. Rank[n] <= Rank[f.name] /\ Rank[n] \in Nat /\ Rank[f.name] \in Nat
    BY <1>5 DEF ConstantsFit, Row
  <2> QED
    BY <2>1
<1>7. \A q \in Below(T, n, up) : f.name = n /\ f.id <= q.id
  BY <1>1, <1>2, <1>4, <1>6 DEF Before, Below
<1>8. Eldest(T, n, up, f)
  BY <1>5, <1>7 DEF Eldest, Below
<1> QED
  BY <1>3, <1>4, <1>8

LEMMA EntryExistsIs ==
  ASSUME ConstantsFit, NEW T, Table(T), NEW n \in Name, NEW up
  PROVE  EntryExists(T, n, up) <=> Below(T, n, up) # {}
<1>1. EntryExists(T, n, up) => Below(T, n, up) # {}
  BY DEF EntryExists, Below
<1>2. ASSUME Below(T, n, up) # {} PROVE EntryExists(T, n, up)
  <2>1. PICK s : Eldest(T, n, up, s) /\ GetNodeId(T, n, up) = s.id
    BY <1>2, EldestFound
  <2> QED
    BY <2>1 DEF EntryExists, Eldest, Below
<1> QED
  BY <1>1, <1>2

-----------------------------------------------------------------------------
(***************************************************************************)
(* The way of a path: where each of its components leads.                  *)
(***************************************************************************)
Child(T, n, up) ==
  IF up # NoParent /\ EntryExists(T, n, up) THEN GetNodeId(T, n, up) ELSE NoParent

Way(T, p) ==
  CHOOSE Down : Down = [i \in 0 .. Len(p) |->
    IF i = 0 THEN RootId
    ELSE LET up == Down[i - 1]
         IN  IF up # NoParent /\ EntryExists(T, p[i], up) THEN GetNodeId(T, p[i], up) ELSE NoParent]

LEMMA FollowIsWay == \A T, p : Follow(T, p) = Way(T, p)[Len(p)]
BY DEF Follow, Way

LEMMA WayIs ==
  ASSUME NEW T, NEW p, Len(p) \in Nat
  PROVE  Way(T, p) = [i \in 0 .. Len(p) |->
           IF i = 0 THEN RootId ELSE Child(T, p[i], Way(T, p)[i - 1])]
<1> DEFINE Leads(f, m) == f = [i \in 0 .. m |-> IF i = 0 THEN RootId ELSE Child(T, p[i], f[i - 1])]
           Bad == {m \in Nat : ~\E f : Leads(f, m)}
<1>1. Bad = {}
  <2> SUFFICES ASSUME Bad # {} PROVE FALSE
    OBVIOUS
  <2>1. PICK m \in Bad : \A n \in Bad : m <= n
    BY LeastNat
  <2>2. m \in Nat /\ ~\E f : Leads(f, m)
    BY <2>1
  <2>3. CASE m = 0
    <3>1. PICK f : f = [i \in 0 .. 0 |-> RootId]
      OBVIOUS
    <3>2. Leads(f, 0)
      BY <3>1
    <3> QED
      BY <2>2, <2>3, <3>2
  <2>4. CASE m # 0
    <3>1. m - 1 \in Nat /\ m - 1 \notin Bad
      <4>1. m - 1 \in Nat /\ ~(m <= m - 1)
        BY <2>2, <2>4
      <4> QED
        BY <2>1, <4>1
    <3>2. PICK g : Leads(g, m - 1)
      BY <3>1
    <3>3. PICK f : f = [i \in 0 .. m |-> IF i = m THEN Child(T, p[m], g[m - 1]) ELSE g[i]]
      OBVIOUS
    <3>4. \A i \in 0 .. m : f[i] = IF i = 0 THEN RootId ELSE Child(T, p[i], f[i - 1])
      BY <2>2, <2>4, <3>2, <3>3
    <3>5. Leads(f, m)
      BY <2>2, <3>3, <3>4
    <3> QED
      BY <2>2, <3>5
  <2> QED
    BY <2>3, <2>4
<1>2. PICK f : Leads(f, Len(p))
  BY <1>1
<1>3. Way(T, p) = CHOOSE Down : Leads(Down, Len(p))
  BY DEF Way, Child
<1>4. Leads(Way(T, p), Len(p))
  BY <1>2, <1>3
<1> QED
  BY <1>4

LEMMA WaySteps ==
  ASSUME NEW T, NEW p \in Path
  PROVE  /\ Way(T, p)[0] = RootId
         /\ \A i \in 1 .. Len(p) : i - 1 \in 0 .. Len(p) /\ Way(T, p)[i] = Child(T, p[i], Way(T, p)[i - 1])
<1>1. Len(p) \in Nat
  BY DEF Path
<1>2. PICK w : w = Way(T, p)
  OBVIOUS
<1>3. w = [i \in 0 .. Len(p) |-> IF i = 0 THEN RootId ELSE Child(T, p[i], w[i - 1])]
  BY <1>1, <1>2, WayIs
<1>4. w[0] = RootId
  BY <1>1, <1>3
<1>5. ASSUME NEW i \in 1 .. Len(p)
      PROVE  i - 1 \in 0 .. Len(p) /\ w[i] = Child(T, p[i], w[i - 1])
  BY <1>1, <1>3
<1> QED
  BY <1>2, <1>4, <1>5

LEMMA ChildOf ==
  ASSUME ConstantsFit, NEW T, Table(T), NEW n \in Name, NEW up
  PROVE  /\ up = NoParent \/ Below(T, n, up) = {} => Child(T, n, up) = NoParent
         /\ up # NoParent /\ Below(T, n, up) # {} =>
              \E s : Eldest(T, n, up, s) /\ Child(T, n, up) = s.id
BY EntryExistsIs, EldestFound DEF Child

LEMMA ChildTyped ==
  ASSUME ConstantsFit, NEW T, Table(T), NEW n, NEW up
  PROVE  Child(T, n, up) \in {NoParent} \cup (0 .. MaxRows)
BY IdTyped DEF Child

LEMMA WayTyped ==
  ASSUME ConstantsFit, NEW T, Table(T), NEW p \in Path, NEW i \in 0 .. Len(p)
  PROVE  Way(T, p)[i] \in {NoParent} \cup (0 .. MaxRows)
<1>1. Len(p) \in Nat /\ (i = 0 \/ i \in 1 .. Len(p))
  BY DEF Path
<1> QED
  BY <1>1, WaySteps, ChildTyped DEF RootId, ConstantsFit

(* A way that gets to its end has not been lost before. *)
LEMMA WayWhole ==
  ASSUME NEW T, NEW p \in Path, Way(T, p)[Len(p)] # NoParent
  PROVE  \A i \in 0 .. Len(p) : Way(T, p)[i] # NoParent
<1> DEFINE Lost == {j \in 0 .. Len(p) : Way(T, p)[Len(p) - j] = NoParent}
<1>1. Len(p) \in Nat
  BY DEF Path
<1>2. Lost = {}
  <2> SUFFICES ASSUME Lost # {} PROVE FALSE
    OBVIOUS
  <2>1. Lost \subseteq Nat
    BY <1>1
  <2>2. PICK j \in Lost : \A k \in Lost : j <= k
    BY <2>1, LeastNat
  <2>3. j \in 0 .. Len(p) /\ Way(T, p)[Len(p) - j] = NoParent
    BY <2>2
  <2>4. j # 0
    BY <1>1, <2>3
  <2>5. PICK i : i \in 1 .. Len(p) /\ i = Len(p) - (j - 1)
    <3>1. Len(p) - (j - 1) \in 1 .. Len(p)
      BY <1>1, <2>3, <2>4
    <3> QED
      BY <3>1
  <2>6. i - 1 = Len(p) - j
    BY <1>1, <2>3, <2>5
  <2>7. Way(T, p)[i] = NoParent
    <3>1. Way(T, p)[i - 1] = NoParent
      BY <2>3, <2>6
    <3>2. Child(T, p[i], NoParent) = NoParent
      BY DEF Child
    <3> QED
      BY <2>5, <3>1, <3>2, WaySteps
  <2>8. j - 1 \in Lost /\ ~(j <= j - 1)
    BY <1>1, <2>3, <2>4, <2>5, <2>7
  <2> QED
    BY <2>2, <2>8
<1>3. ASSUME NEW i \in 0 .. Len(p), Way(T, p)[i] = NoParent
      PROVE  FALSE
  <2>1. Len(p) - i \in 0 .. Len(p) /\ Len(p) - (Len(p) - i) = i
    BY <1>1
  <2>2. Len(p) - i \in Lost
    BY <1>3, <2>1
  <2> QED
    BY <1>2, <2>2
<1> QED
  BY <1>3

(* A table in which the rows that scans find are still found. *)
Extends(T2, T) ==
  \A n \in Name, up \in 0 .. MaxRows :
    Child(T, n, up) # NoParent => Child(T2, n, up) = Child(T, n, up)

LEMMA WayKept ==
  ASSUME ConstantsFit, NEW T, Table(T), NEW T2, Extends(T2, T), NEW p \in Path, Way(T, p)[Len(p)] # NoParent
  PROVE  \A i \in 0 .. Len(p) : Way(T2, p)[i] = Way(T, p)[i]
<1> DEFINE Differ == {i \in 0 .. Len(p) : Way(T2, p)[i] # Way(T, p)[i]}
<1>1. Len(p) \in Nat
  BY DEF Path
<1>2. Differ = {}
  <2> SUFFICES ASSUME Differ # {} PROVE FALSE
    OBVIOUS
  <2>1. Differ \subseteq Nat
    BY <1>1
  <2>2. PICK i \in Differ : \A k \in Differ : i <= k
    BY <2>1, LeastNat
  <2>3. i \in 0 .. Len(p) /\ Way(T2, p)[i] # Way(T, p)[i]
    BY <2>2
  <2>4. i # 0
    BY <2>3, WaySteps
  <2>5. i \in 1 .. Len(p) /\ i - 1 \in 0 .. Len(p) /\ ~(i <= i - 1)
    BY <1>1, <2>3, <2>4
  <2>6. Way(T2, p)[i - 1] = Way(T, p)[i - 1]
    BY <2>2, <2>5
  <2>7. Way(T, p)[i - 1] \in 0 .. MaxRows /\ p[i] \in Name /\ Way(T, p)[i] # NoParent
    BY <2>3, <2>5, WayWhole, WayTyped DEF Path
  <2>8. Way(T, p)[i] = Child(T, p[i], Way(T, p)[i - 1])
    BY <2>5, WaySteps
  <2>9. Way(T2, p)[i] = Child(T2, p[i], Way(T2, p)[i - 1])
    BY <2>5, WaySteps
  <2> QED
    BY <2>3, <2>6, <2>7, <2>8, <2>9 DEF Extends
<1> QED
  BY <1>2

(* A beginning of a path has the beginning of its way. *)
LEMMA WayOfBeginning ==
  ASSUME NEW T, NEW p \in Path, NEW q \in Path, Len(q) <= Len(p), \A i \in 1 .. Len(q) : q[i] = p[i]
  PROVE  \A i \in 0 .. Len(q) : Way(T, q)[i] = Way(T, p)[i]
<1> DEFINE Differ == {i \in 0 .. Len(q) : Way(T, q)[i] # Way(T, p)[i]}
<1>1. Len(p) \in Nat /\ Len(q) \in Nat
  BY DEF Path
<1>2. Differ = {}
  <2> SUFFICES ASSUME Differ # {} PROVE FALSE
    OBVIOUS
  <2>1. Differ \subseteq Nat
    BY <1>1
  <2>2. PICK i \in Differ : \A k \in Differ : i <= k
    BY <2>1, LeastNat
  <2>3. i \in 0 .. Len(q) /\ Way(T, q)[i] # Way(T, p)[i]
    BY <2>2
  <2>4. i # 0
    BY <2>3, WaySteps
  <2>5. i \in 1 .. Len(q) /\ i \in 1 .. Len(p) /\ i - 1 \in 0 .. Len(q) /\ ~(i <= i - 1)
    BY <1>1, <2>3, <2>4
  <2>6. Way(T, q)[i - 1] = Way(T, p)[i - 1] /\ q[i] = p[i]
    BY <2>2, <2>5
  <2>7. Way(T, q)[i] = Child(T, q[i], Way(T, q)[i - 1])
    BY <2>5, WaySteps
  <2>8. Way(T, p)[i] = Child(T, p[i], Way(T, p)[i - 1])
    BY <2>5, WaySteps
  <2> QED
    BY <2>3, <2>6, <2>7, <2>8
<1> QED
  BY <1>2

-----------------------------------------------------------------------------
(***************************************************************************)
(* What the writes make of a table.                                        *)
(***************************************************************************)
LEMMA Insert ==
  ASSUME NEW T, Table(T), NEW x \in Row, RowAt(T, x.name, x.id) = {}
  PROVE  /\ Table(T \cup {x})
         /\ Cardinality(T) \in Nat
         /\ Cardinality(T \cup {x}) = Cardinality(T) + 1
<1>1. x \notin T
  BY DEF RowAt
<1>2. IsFiniteSet(T \cup {x}) /\ Cardinality(T \cup {x}) = Cardinality(T) + 1
  BY <1>1, FS_AddElement DEF Table
<1>3. Cardinality(T) \in Nat
  BY FS_CardinalityType DEF Table
<1> QED
  BY <1>2, <1>3 DEF Table, RowAt

LEMMA Replace ==
  ASSUME NEW T, Table(T), NEW r \in T, NEW x \in Row, x.name = r.name, x.id = r.id
  PROVE  /\ Table((T \ {r}) \cup {x})
         /\ Cardinality(T) \in Nat
         /\ Cardinality((T \ {r}) \cup {x}) = Cardinality(T)
<1>1. PICK U : U = T \ {r}
  OBVIOUS
<1>2. IsFiniteSet(U) /\ Cardinality(U) = Cardinality(T) - 1 /\ Cardinality(T) \in Nat
  BY <1>1, FS_RemoveElement, FS_CardinalityType DEF Table
<1>3. Table(U)
  BY <1>1, <1>2 DEF Table
<1>4. RowAt(U, x.name, x.id) = {}
  BY <1>1 DEF RowAt, Table
<1>5. Table(U \cup {x}) /\ Cardinality(U \cup {x}) = Cardinality(U) + 1
  BY <1>3, <1>4, Insert
<1> QED
  BY <1>1, <1>2, <1>5

NewRow(n, id, numbered) == [name |-> n, id |-> id, numbered |-> numbered, parent |-> NoParent]

LEMMA RowAtIs ==
  ASSUME NEW T, Table(T), NEW n, NEW id
  PROVE  RowAt(T, n, id) = {} \/ \E r \in T : r.name = n /\ r.id = id /\ RowAt(T, n, id) = {r}
BY DEF RowAt, Table

(* x takes the place of the row r, under its key. *)
Swaps(T, U, r, x) == x \in Row /\ x.name = r.name /\ x.id = r.id /\ U = (T \ {r}) \cup {x}

LEMMA NumberPut ==
  ASSUME ConstantsFit, NEW T, Table(T), NEW n \in Name, NEW id \in 0 .. MaxRows
  PROVE  \/ RowAt(T, n, id) = {} /\ PutNumber(T, n, id) = T \cup {NewRow(n, id, TRUE)}
         \/ \E r \in RowAt(T, n, id) : \E x : Swaps(T, PutNumber(T, n, id), r, x) /\ x.parent = r.parent
<1>1. CASE RowAt(T, n, id) = {}
  BY <1>1 DEF PutNumber, NewRow
<1>2. ASSUME NEW r \in T, r.name = n, r.id = id, RowAt(T, n, id) = {r}
      PROVE  \E x : Swaps(T, PutNumber(T, n, id), r, x) /\ x.parent = r.parent
  <2>1. r \in Row
    BY DEF Table
  <2>2. FirstOf({r}) = r
    BY <2>1, FirstIn
  <2>3. PICK x : x = [name |-> n, id |-> id, numbered |-> TRUE, parent |-> r.parent]
    OBVIOUS
  <2>4. x \in Row /\ x.name = n /\ x.id = id /\ x.parent = r.parent
    BY <2>1, <2>3 DEF Row
  <2>5. PutNumber(T, n, id) = (T \ {r}) \cup {x}
    BY <1>2, <2>2, <2>3 DEF PutNumber
  <2> QED
    BY <1>2, <2>4, <2>5 DEF Swaps
<1>3. CASE \E r \in T : r.name = n /\ r.id = id /\ RowAt(T, n, id) = {r}
  BY <1>2, <1>3
<1>4. RowAt(T, n, id) = {} \/ \E r \in T : r.name = n /\ r.id = id /\ RowAt(T, n, id) = {r}
  BY RowAtIs
<1> QED
  BY <1>1, <1>3, <1>4

LEMMA ParentPut ==
  ASSUME NEW T, Table(T), NEW n, NEW id, NEW parent \in 0 .. MaxRows
  PROVE  \/ RowAt(T, n, id) = {} /\ PutParent(T, n, id, parent) = T
         \/ \E r \in RowAt(T, n, id) : \E x : Swaps(T, PutParent(T, n, id, parent), r, x) /\ x.parent = parent
<1>1. CASE RowAt(T, n, id) = {}
  BY <1>1 DEF PutParent, RowAt
<1>2. ASSUME NEW r \in T, r.name = n, r.id = id, RowAt(T, n, id) = {r}
      PROVE  \E x : Swaps(T, PutParent(T, n, id, parent), r, x) /\ x.parent = parent
  <2>1. \A s \in T : s.name = n /\ s.id = id <=> s = r
    BY <1>2 DEF RowAt
  <2>2. PICK x : x = [r EXCEPT !.parent = parent]
    OBVIOUS
  <2>3. x \in Row /\ x.name = r.name /\ x.id = r.id /\ x.parent = parent
    BY <2>2 DEF Table, Row
  <2>4. PutParent(T, n, id, parent) = (T \ {r}) \cup {x}
    BY <2>1, <2>2 DEF PutParent
  <2> QED
    BY <2>3, <2>4 DEF Swaps
<1>3. CASE \E r \in T : r.name = n /\ r.id = id /\ RowAt(T, n, id) = {r}
  BY <1>2, <1>3
<1> QED
  BY <1>1, <1>3, RowAtIs

LEMMA KindPut ==
  ASSUME NEW T, NEW n, NEW id
  PROVE  \/ PutKind(T, n, id) = T
         \/ RowAt(T, n, id) = {} /\ PutKind(T, n, id) = T \cup {NewRow(n, id, FALSE)}
BY DEF PutKind, NewRow

LEMMA NewRowTyped ==
  ASSUME NEW n \in Name, NEW id \in 0 .. MaxRows, NEW b \in BOOLEAN
  PROVE  /\ NewRow(n, id, b) \in Row
         /\ NewRow(n, id, b).name = n /\ NewRow(n, id, b).id = id /\ NewRow(n, id, b).parent = NoParent
BY DEF NewRow, Row

(* A write of any kind leaves a table, with as many rows or more. *)
LEMMA WritesTable ==
  ASSUME ConstantsFit, NEW T, Table(T), NEW n \in Name, NEW id \in 0 .. MaxRows, NEW parent \in 0 .. MaxRows,
         NEW U \in {PutNumber(T, n, id), PutParent(T, n, id, parent), PutKind(T, n, id)}
  PROVE  /\ Table(U)
         /\ Cardinality(T) \in Nat /\ Cardinality(U) \in Nat
         /\ Cardinality(T) <= Cardinality(U)
         /\ RowAt(T, n, id) = {} /\ U = PutNumber(T, n, id) => Cardinality(U) = Cardinality(T) + 1
<1>0. Cardinality(T) \in Nat
  BY FS_CardinalityType DEF Table
<1>1. ASSUME NEW r \in T, NEW x, Swaps(T, U, r, x)
      PROVE  Table(U) /\ Cardinality(U) = Cardinality(T)
  BY <1>1, Replace DEF Swaps
<1>2. ASSUME NEW b \in BOOLEAN, U = T \cup {NewRow(n, id, b)}, RowAt(T, n, id) = {}
      PROVE  Table(U) /\ Cardinality(U) = Cardinality(T) + 1
  BY <1>2, Insert, NewRowTyped
<1>3. \A r \in RowAt(T, n, id) : r \in T
  BY DEF RowAt
<1>4. CASE U = PutNumber(T, n, id)
  <2>1. CASE RowAt(T, n, id) = {}
    <3>1. U = T \cup {NewRow(n, id, TRUE)}
      BY <1>4, <2>1, NumberPut
    <3>2. Table(U) /\ Cardinality(U) = Cardinality(T) + 1
      BY <1>2, <2>1, <3>1
    <3> QED
      BY <1>0, <3>2
  <2>2. CASE RowAt(T, n, id) # {}
    <3>1. PICK r \in RowAt(T, n, id) : \E x : Swaps(T, U, r, x)
      BY <1>4, <2>2, NumberPut
    <3>2. Table(U) /\ Cardinality(U) = Cardinality(T)
      BY <1>1, <1>3, <3>1
    <3> QED
      BY <1>0, <2>2, <3>2
  <2> QED
    BY <2>1, <2>2
<1>5. CASE U # PutNumber(T, n, id) /\ U = PutParent(T, n, id, parent)
  <2>1. CASE U = T
    BY <1>0, <1>5, <2>1
  <2>2. CASE U # T
    <3>1. PICK r \in RowAt(T, n, id) : \E x : Swaps(T, U, r, x)
      BY <1>5, <2>2, ParentPut
    <3>2. Table(U) /\ Cardinality(U) = Cardinality(T)
      BY <1>1, <1>3, <3>1
    <3> QED
      BY <1>0, <1>5, <3>2
  <2> QED
    BY <2>1, <2>2
<1>6. CASE U # PutNumber(T, n, id) /\ U = PutKind(T, n, id)
  <2>1. CASE U = T
    BY <1>0, <1>6, <2>1
  <2>2. CASE U # T
    <3>1. RowAt(T, n, id) = {} /\ U = T \cup {NewRow(n, id, FALSE)}
      BY <1>6, <2>2, KindPut
    <3>2. Table(U) /\ Cardinality(U) = Cardinality(T) + 1
      BY <1>2, <3>1
    <3> QED
      BY <1>0, <1>6, <3>2
  <2> QED
    BY <2>1, <2>2
<1> QED
  BY <1>4, <1>5, <1>6

-----------------------------------------------------------------------------
(***************************************************************************)
(* Types.  While a call is under way, it is at a component of its path.    *)
(***************************************************************************)
CallNow ==
  {k \in Call : k.pc # "idle" => k.path \in Target /\ k.i <= Len(k.path)}

TypeInv ==
  /\ Table(nodes)
  /\ metadata \in SUBSET Cell
  /\ object \in [Client -> Target \cup {<<>>}]
  /\ call \in [Client -> CallNow]
  /\ raced \in BOOLEAN

LEMMA TargetIs ==
  ASSUME ConstantsFit, NEW p \in Target
  PROVE  p \in Path /\ Len(p) \in Nat \ {0}
BY EmptySeq, LenProperties DEF ConstantsFit, Path

LEMMA SomeKeyTyped == ConstantsFit => SomeKey \in Key
BY DEF ConstantsFit, SomeKey

LEMMA NoCallTyped ==
  ASSUME ConstantsFit
  PROVE  NoCall \in CallNow /\ NoCall.pc = "idle" /\ NoCall \in Call
<1>1. NoCall \in Call
  BY SomeKeyTyped DEF NoCall, Call, ConstantsFit, Where, RootId, EmptyId
<1>2. NoCall.pc = "idle"
  BY DEF NoCall
<1> QED
  BY <1>1, <1>2 DEF CallNow

(* The fields of a call, and the component it is at. *)
LEMMA CallFields ==
  ASSUME ConstantsFit, NEW k \in CallNow
  PROVE  /\ k.pc \in Where /\ k.goal \in Goal \cup {"none"} /\ k.isDir \in BOOLEAN
         /\ k.i \in Nat \ {0}
         /\ k.up \in 0 .. MaxRows /\ k.parent \in 0 .. MaxRows /\ k.id \in 0 .. MaxRows
         /\ k.key \in Key /\ k.existed \in BOOLEAN
         /\ k.pc # "idle" =>
              /\ k.path \in Target /\ k.path \in Path
              /\ Len(k.path) \in Nat
              /\ k.i \in 1 .. Len(k.path)
              /\ Component(k) \in Name
              /\ IsLast(k) => Component(k) = Last(k.path)
<1>1. /\ k.pc \in Where /\ k.goal \in Goal \cup {"none"} /\ k.isDir \in BOOLEAN
      /\ k.i \in Nat \ {0}
      /\ k.up \in 0 .. MaxRows /\ k.parent \in 0 .. MaxRows /\ k.id \in 0 .. MaxRows
      /\ k.key \in Key /\ k.existed \in BOOLEAN
  BY DEF CallNow, Call
<1>2. ASSUME k.pc # "idle"
      PROVE  /\ k.path \in Target /\ k.path \in Path
             /\ Len(k.path) \in Nat
             /\ k.i \in 1 .. Len(k.path)
             /\ Component(k) \in Name
             /\ IsLast(k) => Component(k) = Last(k.path)
  <2>1. k.path \in Target /\ k.i <= Len(k.path)
    BY <1>2 DEF CallNow
  <2>2. k.path \in Path /\ Len(k.path) \in Nat \ {0}
    BY <2>1, TargetIs
  <2>3. k.i \in 1 .. Len(k.path)
    BY <1>1, <2>1, <2>2
  <2>4. Component(k) \in Name
    BY <2>2, <2>3 DEF Component, Path
  <2>5. IsLast(k) => Component(k) = Last(k.path)
    BY DEF IsLast, Component, Last
  <2> QED
    BY <2>1, <2>2, <2>3, <2>4, <2>5
<1> QED
  BY <1>1, <1>2

LEMMA BeginIs ==
  ASSUME ConstantsFit, NEW k \in Call, k.path \in Target, NEW l \in Where,
         NEW x, x = Begin(k, l)
  PROVE  /\ x \in CallNow
         /\ x.pc = l /\ x.goal = k.goal /\ x.path = k.path /\ x.existed = k.existed
         /\ x.i = 1 /\ x.up = RootId /\ x.parent = RootId /\ x.id = EmptyId
<1>1. /\ x.pc = l /\ x.goal = k.goal /\ x.path = k.path /\ x.existed = k.existed
      /\ x.i = 1 /\ x.up = RootId /\ x.parent = RootId /\ x.id = EmptyId
  BY DEF Begin, Call
<1>2. x \in Call
  <2>1. RootId \in 0 .. MaxRows /\ EmptyId \in 0 .. MaxRows /\ 1 \in Nat \ {0}
    BY DEF RootId, EmptyId, ConstantsFit
  <2> QED
    BY <2>1 DEF Begin, Call
<1>3. 1 <= Len(k.path)
  BY TargetIs
<1> QED
  BY <1>1, <1>2, <1>3 DEF CallNow

LEMMA AdvanceIs ==
  ASSUME ConstantsFit, NEW k \in CallNow, k.pc # "idle", NEW l \in Where, NEW parent \in 0 .. MaxRows,
         NEW x, x = Advance(k, l, parent)
  PROVE  /\ x \in CallNow
         /\ x.up = k.parent /\ x.parent = parent /\ x.id = k.id
         /\ x.goal = k.goal /\ x.path = k.path /\ x.existed = k.existed
         /\ IsLast(k) => x.pc = l /\ x.i = k.i
         /\ ~IsLast(k) => x.pc = k.pc /\ x.i = k.i + 1
<1>1. /\ x.up = k.parent /\ x.parent = parent /\ x.id = k.id
      /\ x.goal = k.goal /\ x.path = k.path /\ x.existed = k.existed
      /\ IsLast(k) => x.pc = l /\ x.i = k.i
      /\ ~IsLast(k) => x.pc = k.pc /\ x.i = k.i + 1
  BY DEF Advance, CallNow, Call
<1>2. x \in Call
  <2>1. k \in Call /\ k.parent \in 0 .. MaxRows /\ k.i \in Nat \ {0} /\ k.i + 1 \in Nat \ {0}
    BY CallFields DEF CallNow
  <2>2. CASE IsLast(k)
    <3>1. x = [k EXCEPT !.pc = l, !.i = k.i, !.up = k.parent, !.parent = parent]
      BY <2>2 DEF Advance
    <3> QED
      BY <2>1, <3>1 DEF Call
  <2>3. CASE ~IsLast(k)
    <3>1. x = [k EXCEPT !.pc = k.pc, !.i = k.i + 1, !.up = k.parent, !.parent = parent]
      BY <2>3 DEF Advance
    <3>2. k.pc \in Where
      BY CallFields
    <3> QED
      BY <2>1, <3>1, <3>2 DEF Call
  <2> QED
    BY <2>2, <2>3
<1>3. x.i <= Len(x.path)
  BY <1>1, CallFields DEF IsLast
<1> QED
  BY <1>1, <1>2, <1>3, CallFields DEF CallNow

(* A call that goes on at the same component. *)
LEMMA GoesTo ==
  ASSUME NEW k \in CallNow, k.pc # "idle", NEW l \in Where, NEW x, x = [k EXCEPT !.pc = l]
  PROVE  /\ x \in CallNow
         /\ x.pc = l /\ x.goal = k.goal /\ x.path = k.path /\ x.existed = k.existed
         /\ x.i = k.i /\ x.up = k.up /\ x.parent = k.parent /\ x.id = k.id
BY DEF CallNow, Call

-----------------------------------------------------------------------------
(***************************************************************************)
(* What each action makes of the call of its client.                       *)
(***************************************************************************)
Creating == {"create", "follow", "count", "number", "parent", "kind"}
Drawing  == {"number", "parent"}
Asking   == {"climb", "find", "write"}

Goes(c, x) == x \in CallNow /\ call' = [call EXCEPT ![c] = x]

(* A call that neither creates nor changes an attribute, or begins to create. *)
Plain(x) == \/ x.pc \notin Creating \cup Asking
            \/ x.pc = "create" /\ x.id = EmptyId /\ x.parent = RootId

LEMMA CallTyped ==
  ASSUME TypeInv, NEW c \in Client, NEW x, Goes(c, x)
  PROVE  /\ call' \in [Client -> CallNow]
         /\ call'[c] = x
         /\ \A d \in Client \ {c} : call'[d] = call[d]
BY DEF TypeInv, Goes

LEMMA Returns ==
  ASSUME ConstantsFit, TypeInv, NEW c \in Client, Return(c)
  PROVE  Goes(c, NoCall) /\ Plain(NoCall)
BY NoCallTyped DEF Return, Goto, Goes, Plain, Creating, Asking

LEMMA MissingDoes ==
  ASSUME ConstantsFit, TypeInv, NEW c \in Client, call[c].pc # "idle", Missing(c)
  PROVE  /\ \E x : Goes(c, x) /\ Plain(x)
         /\ object' \in [Client -> Target \cup {<<>>}]
<1>1. PICK k : k = call[c]
  OBVIOUS
<1>2. k \in CallNow /\ k \in Call /\ k.path \in Target
  BY <1>1, CallFields DEF TypeInv, CallNow
<1>3. object' \in [Client -> Target \cup {<<>>}]
  BY DEF Missing, TypeInv
<1>4. CASE k.goal = "create"
  <2>1. PICK x : x = Begin(k, "create")
    OBVIOUS
  <2>2. x \in CallNow /\ x.pc = "create" /\ x.id = EmptyId /\ x.parent = RootId
    BY <1>2, <2>1, BeginIs DEF Where
  <2>3. Goes(c, x)
    BY <1>1, <1>4, <2>1, <2>2 DEF Missing, Goto, Goes
  <2> QED
    BY <1>3, <2>2, <2>3 DEF Plain
<1>5. CASE k.goal # "create"
  <2>1. Goes(c, NoCall) /\ Plain(NoCall)
    BY <1>1, <1>5, NoCallTyped DEF Missing, Goto, Goes, Plain, Creating, Asking
  <2> QED
    BY <1>3, <2>1
<1> QED
  BY <1>4, <1>5

LEMMA PresentDoes ==
  ASSUME ConstantsFit, TypeInv, NEW c \in Client, call[c].pc # "idle", Present(c)
  PROVE  /\ \E x : Goes(c, x) /\ Plain(x)
         /\ object' \in [Client -> Target \cup {<<>>}]
<1>1. PICK k : k = call[c]
  OBVIOUS
<1>2. k \in CallNow /\ k \in Call /\ k.path \in Target
  BY <1>1, CallFields DEF TypeInv, CallNow
<1>3. CASE /\ object' = [object EXCEPT ![c] = k.path]
           /\ Return(c)
  BY <1>2, <1>3, Returns DEF TypeInv
<1>4. CASE /\ Goto(c, Begin([k EXCEPT !.goal = "verify"], "check"))
           /\ UNCHANGED object
  <2>1. PICK y : y = [k EXCEPT !.goal = "verify"]
    OBVIOUS
  <2>2. y \in Call /\ y.path \in Target
    BY <1>2, <2>1 DEF Call, Goal, Mode
  <2>3. PICK x : x = Begin(y, "check")
    OBVIOUS
  <2>4. x \in CallNow /\ x.pc = "check"
    BY <2>2, <2>3, BeginIs DEF Where
  <2>5. Goes(c, x) /\ Plain(x)
    BY <1>4, <2>1, <2>3, <2>4 DEF Goto, Goes, Plain, Creating, Asking
  <2> QED
    BY <1>4, <2>5 DEF TypeInv
<1> QED
  BY <1>1, <1>3, <1>4 DEF Present

LEMMA OpenDoes ==
  ASSUME ConstantsFit, TypeInv, NEW c \in Client, NEW isDir \in BOOLEAN, NEW goal \in Mode, NEW p \in Target,
         Open(c, isDir, goal, p)
  PROVE  /\ \E x : Goes(c, x) /\ Plain(x)
         /\ object' \in [Client -> Target \cup {<<>>}]
<1>1. object' \in [Client -> Target \cup {<<>>}]
  BY DEF Open, TypeInv
<1>2. PICK y : y = [NoCall EXCEPT !.goal = goal, !.isDir = isDir, !.path = p]
  OBVIOUS
<1>3. y \in Call /\ y.path \in Target
  BY <1>2, NoCallTyped DEF Call, Goal
<1>4. PICK x : x = Begin(y, "check")
  OBVIOUS
<1>5. x \in CallNow /\ x.pc = "check"
  BY <1>3, <1>4, BeginIs DEF Where
<1>6. Plain(x) /\ Plain(NoCall) /\ NoCall \in CallNow
  BY <1>5, NoCallTyped DEF Plain, Creating, Asking
<1>7. Goto(c, x) \/ Goto(c, NoCall)
  BY <1>2, <1>4 DEF Open
<1>8. Goes(c, x) \/ Goes(c, NoCall)
  BY <1>5, <1>6, <1>7 DEF Goto, Goes
<1> QED
  BY <1>1, <1>6, <1>8

LEMMA CheckEntryDoes ==
  ASSUME ConstantsFit, TypeInv, NEW c \in Client, CheckEntry(c)
  PROVE  /\ \E x : Goes(c, x) /\ Plain(x)
         /\ object' \in [Client -> Target \cup {<<>>}]
<1>1. call[c] \in CallNow /\ call[c].pc # "idle"
  BY DEF CheckEntry, At, TypeInv
<1>2. CASE Goto(c, [call[c] EXCEPT !.pc = "descend"]) /\ UNCHANGED object
  <2>1. PICK x : x = [call[c] EXCEPT !.pc = "descend"]
    OBVIOUS
  <2>2. x \in CallNow /\ x.pc = "descend"
    BY <1>1, <2>1, GoesTo DEF Where
  <2>3. Goes(c, x) /\ Plain(x)
    BY <1>2, <2>1, <2>2 DEF Goto, Goes, Plain, Creating, Asking
  <2> QED
    BY <1>2, <2>3 DEF TypeInv
<1>3. CASE Missing(c)
  BY <1>1, <1>3, MissingDoes
<1> QED
  BY <1>2, <1>3 DEF CheckEntry

LEMMA DescendDoes ==
  ASSUME ConstantsFit, TypeInv, NEW c \in Client, Descend(c)
  PROVE  /\ \E x : Goes(c, x) /\ Plain(x)
         /\ object' \in [Client -> Target \cup {<<>>}]
<1>1. PICK k : k = call[c]
  OBVIOUS
<1>2. k \in CallNow /\ k.pc # "idle"
  BY <1>1 DEF Descend, At, TypeInv
<1>3. PICK y : y = [k EXCEPT !.pc = "check"]
  OBVIOUS
<1>4. y \in CallNow /\ y.pc = "check"
  BY <1>2, <1>3, GoesTo DEF Where
<1>5. PICK x : x = Advance(y, "last", GetNodeId(nodes, Component(k), k.parent))
  OBVIOUS
<1>6. GetNodeId(nodes, Component(k), k.parent) \in 0 .. MaxRows
  BY IdTyped DEF TypeInv
<1>7. x \in CallNow /\ x.pc \in {"check", "last"}
  BY <1>4, <1>5, <1>6, AdvanceIs DEF Where
<1>8. Goes(c, x) /\ Plain(x)
  BY <1>1, <1>3, <1>5, <1>7 DEF Descend, Goto, Goes, Plain, Creating, Asking
<1> QED
  BY <1>8 DEF Descend, TypeInv

LEMMA CheckLastDoes ==
  ASSUME ConstantsFit, TypeInv, NEW c \in Client, CheckLast(c)
  PROVE  /\ \E x : Goes(c, x) /\ Plain(x)
         /\ object' \in [Client -> Target \cup {<<>>}]
<1>1. call[c].pc # "idle"
  BY DEF CheckLast, At
<1> QED
  BY <1>1, PresentDoes, MissingDoes DEF CheckLast

(* The steps of url_exists, and those at which a call ends, change neither *)
(* table.                                                                   *)
Looks(c) ==
  \/ \E d \in BOOLEAN, g \in Mode, p \in Target : Open(c, d, g, p)
  \/ CheckEntry(c)
  \/ Descend(c)
  \/ CheckLast(c)
  \/ IOError(c)

LEMMA LooksDo ==
  ASSUME ConstantsFit, TypeInv, NEW c \in Client, Looks(c)
  PROVE  /\ \E x : Goes(c, x) /\ Plain(x)
         /\ object' \in [Client -> Target \cup {<<>>}]
         /\ UNCHANGED <<nodes, metadata, raced>>
<1>1. ASSUME NEW d \in BOOLEAN, NEW g \in Mode, NEW p \in Target, Open(c, d, g, p)
      PROVE  UNCHANGED <<nodes, metadata, raced>>
  BY <1>1 DEF Open
<1>2. CASE IOError(c)
  BY <1>2, Returns DEF IOError, TypeInv
<1>3. UNCHANGED <<nodes, metadata, raced>>
  BY <1>1, <1>2 DEF Looks, CheckEntry, Descend, CheckLast, IOError
<1> QED
  BY <1>2, <1>3, OpenDoes, CheckEntryDoes, DescendDoes, CheckLastDoes DEF Looks

LEMMA CreateEntryDoes ==
  ASSUME ConstantsFit, TypeInv, NEW c \in Client, CreateEntry(c), NEW k, k = call[c]
  PROVE  \E x : /\ Goes(c, x)
                /\ x.pc \in {"follow", "count"}
                /\ x.parent = k.parent /\ x.id = k.id
                /\ x.pc = "follow" => Below(nodes, Component(x), x.parent) # {}
<1>1. k \in CallNow /\ k.pc # "idle"
  BY DEF CreateEntry, At, TypeInv
<1>2. PICK l : l = IF EntryExists(nodes, Component(k), k.parent) THEN "follow" ELSE "count"
  OBVIOUS
<1>3. PICK x : x = [k EXCEPT !.pc = l]
  OBVIOUS
<1>4. l \in {"follow", "count"} /\ l \in Where
  BY <1>2 DEF Where
<1>5. x \in CallNow /\ x.pc = l /\ x.path = k.path /\ x.i = k.i /\ x.parent = k.parent /\ x.id = k.id
  BY <1>1, <1>3, <1>4, GoesTo
<1>6. Component(x) = Component(k) /\ Component(k) \in Name
  BY <1>1, <1>5, CallFields DEF Component
<1>7. l = "follow" => Below(nodes, Component(k), k.parent) # {}
  BY <1>2, <1>6, EntryExistsIs DEF TypeInv
<1>8. Goes(c, x)
  BY <1>2, <1>3, <1>5 DEF CreateEntry, Goto, Goes
<1> QED
  BY <1>4, <1>5, <1>6, <1>7, <1>8

LEMMA FollowEntryDoes ==
  ASSUME ConstantsFit, TypeInv, NEW c \in Client, FollowEntry(c), NEW k, k = call[c]
  PROVE  \E x : /\ Goes(c, x)
                /\ x.pc \in {"create", "kind"}
                /\ x.parent = GetNodeId(nodes, Component(k), k.parent) /\ x.id = k.id
<1>1. k \in CallNow /\ k.pc = "follow"
  BY DEF FollowEntry, At, TypeInv
<1>2. PICK y : y = [k EXCEPT !.pc = "create"]
  OBVIOUS
<1>3. y \in CallNow /\ y.pc = "create" /\ y.id = k.id
  BY <1>1, <1>2, GoesTo DEF Where
<1>4. PICK x : x = Advance(y, "kind", GetNodeId(nodes, Component(k), k.parent))
  OBVIOUS
<1>5. GetNodeId(nodes, Component(k), k.parent) \in 0 .. MaxRows
  BY IdTyped DEF TypeInv
<1>6. x \in CallNow /\ x.parent = GetNodeId(nodes, Component(k), k.parent) /\ x.id = k.id
      /\ x.pc \in {"create", "kind"}
  BY <1>3, <1>4, <1>5, AdvanceIs DEF Where
<1>7. Goes(c, x)
  BY <1>2, <1>4, <1>6 DEF FollowEntry, Goto, Goes
<1> QED
  BY <1>6, <1>7

LEMMA CountRowsDoes ==
  ASSUME ConstantsFit, TypeInv, NEW c \in Client, CountRows(c), NEW k, k = call[c]
  PROVE  \E x : /\ Goes(c, x)
                /\ x.pc = "number" /\ x.parent = k.parent /\ x.id = Cardinality(nodes) + 1
                /\ Cardinality(nodes) \in Nat
<1>1. k \in CallNow /\ k.pc = "count"
  BY DEF CountRows, At, TypeInv
<1>2. Cardinality(nodes) \in Nat
  BY FS_CardinalityType DEF TypeInv, Table
<1>3. PICK id : id = Cardinality(nodes) + 1
  OBVIOUS
<1>4. id \in 0 .. MaxRows
  BY <1>2, <1>3 DEF CountRows, GetNewNodeId, ConstantsFit
<1>5. PICK x : x = [k EXCEPT !.pc = "number", !.id = id]
  OBVIOUS
<1>6. x \in CallNow /\ x.pc = "number" /\ x.parent = k.parent /\ x.id = id
  <2>1. "number" \in Where
    BY DEF Where
  <2> QED
    BY <1>1, <1>4, <1>5, <2>1 DEF CallNow, Call
<1>7. Goes(c, x)
  BY <1>3, <1>5, <1>6 DEF CountRows, GetNewNodeId, Goto, Goes
<1> QED
  BY <1>2, <1>3, <1>6, <1>7

LEMMA WriteNumberDoes ==
  ASSUME ConstantsFit, TypeInv, NEW c \in Client, WriteNumber(c), NEW k, k = call[c]
  PROVE  \E x : /\ Goes(c, x)
                /\ x.pc = "parent" /\ x.parent = k.parent /\ x.id = k.id /\ Component(x) = Component(k)
<1>1. k \in CallNow /\ k.pc = "number"
  BY DEF WriteNumber, At, TypeInv
<1>2. PICK x : x = [k EXCEPT !.pc = "parent"]
  OBVIOUS
<1>3. x \in CallNow /\ x.pc = "parent" /\ x.path = k.path /\ x.i = k.i /\ x.parent = k.parent /\ x.id = k.id
  BY <1>1, <1>2, GoesTo DEF Where
<1>4. Goes(c, x)
  BY <1>2, <1>3 DEF WriteNumber, Goto, Goes
<1> QED
  BY <1>3, <1>4 DEF Component

LEMMA WriteParentDoes ==
  ASSUME ConstantsFit, TypeInv, NEW c \in Client, WriteParent(c), NEW k, k = call[c]
  PROVE  \E x : /\ Goes(c, x)
                /\ x.pc \in {"create", "kind"} /\ x.parent = k.id /\ x.id = k.id
<1>1. k \in CallNow /\ k.pc = "parent"
  BY DEF WriteParent, At, TypeInv
<1>2. PICK y : y = [k EXCEPT !.pc = "create"]
  OBVIOUS
<1>3. y \in CallNow /\ y.pc = "create" /\ y.id = k.id
  BY <1>1, <1>2, GoesTo DEF Where
<1>4. PICK x : x = Advance(y, "kind", k.id)
  OBVIOUS
<1>5. x \in CallNow /\ x.parent = k.id /\ x.id = k.id /\ x.pc \in {"create", "kind"}
  BY <1>1, <1>3, <1>4, AdvanceIs, CallFields DEF Where
<1>6. Goes(c, x)
  BY <1>2, <1>4, <1>5 DEF WriteParent, Goto, Goes
<1> QED
  BY <1>5, <1>6

(* The step of a client that changes the table "nodes" is one mutateRow at  *)
(* the component and with the id of its call.                               *)
LEMMA WriteIs ==
  ASSUME ConstantsFit, TypeInv, NEW c \in Client, WriteNumber(c) \/ WriteParent(c) \/ WriteKind(c),
         NEW k, k = call[c], NEW n, n = Component(k)
  PROVE  /\ n \in Name /\ k.id \in 0 .. MaxRows /\ k.parent \in 0 .. MaxRows
         /\ \/ k.pc = "number" /\ WriteNumber(c) /\ nodes' = PutNumber(nodes, n, k.id)
            \/ k.pc = "parent" /\ WriteParent(c) /\ nodes' = PutParent(nodes, n, k.id, k.parent)
            \/ k.pc = "kind" /\ WriteKind(c) /\ nodes' = PutKind(nodes, n, k.id)
         /\ Table(nodes')
         /\ Cardinality(nodes) \in Nat /\ Cardinality(nodes') \in Nat
         /\ Cardinality(nodes) <= Cardinality(nodes')
         /\ RowAt(nodes, n, k.id) = {} /\ WriteNumber(c) => Cardinality(nodes') = Cardinality(nodes) + 1
<1>1. k \in CallNow
  BY DEF TypeInv
<1>2. \/ k.pc = "number" /\ WriteNumber(c) /\ nodes' = PutNumber(nodes, n, k.id)
      \/ k.pc = "parent" /\ WriteParent(c) /\ nodes' = PutParent(nodes, n, k.id, k.parent)
      \/ k.pc = "kind" /\ WriteKind(c) /\ nodes' = PutKind(nodes, n, k.id)
  BY DEF WriteNumber, WriteParent, WriteKind, At
<1>3. n \in Name /\ k.id \in 0 .. MaxRows /\ k.parent \in 0 .. MaxRows
  BY <1>1, <1>2, CallFields
<1>4. nodes' \in {PutNumber(nodes, n, k.id), PutParent(nodes, n, k.id, k.parent), PutKind(nodes, n, k.id)}
  BY <1>2
<1>5. Table(nodes)
  BY DEF TypeInv
<1>6. WriteNumber(c) => nodes' = PutNumber(nodes, n, k.id)
  BY DEF WriteNumber
<1>7. PICK U : U = nodes'
  OBVIOUS
<1>8. /\ Table(U)
      /\ Cardinality(nodes) \in Nat /\ Cardinality(U) \in Nat
      /\ Cardinality(nodes) <= Cardinality(U)
      /\ RowAt(nodes, n, k.id) = {} /\ U = PutNumber(nodes, n, k.id) => Cardinality(U) = Cardinality(nodes) + 1
  BY <1>3, <1>4, <1>5, <1>7, WritesTable
<1> QED
  BY <1>2, <1>3, <1>6, <1>7, <1>8

LEMMA WriteKindDoes ==
  ASSUME ConstantsFit, TypeInv, NEW c \in Client, WriteKind(c)
  PROVE  /\ \E x : Goes(c, x) /\ Plain(x)
         /\ object' \in [Client -> Target \cup {<<>>}]
<1>1. call[c].pc # "idle"
  BY DEF WriteKind, At
<1> QED
  BY <1>1, PresentDoes DEF WriteKind

LEMMA ChangeAttributeDoes ==
  ASSUME ConstantsFit, TypeInv, NEW c \in Client, NEW g \in {"set", "remove"}, NEW a \in Key,
         ChangeAttribute(c, g, a), NEW p, p = object[c]
  PROVE  /\ p \in Target
         /\ \E x : /\ Goes(c, x)
                   /\ x.pc = "climb" /\ x.path = p /\ x.i = 1 /\ x.parent = RootId
                   /\ x.existed = UrlExists(nodes, p)
<1>1. p \in Target
  BY DEF ChangeAttribute, ConstantsFit
<1>2. UrlExists(nodes, p) \in BOOLEAN
  BY DEF UrlExists
<1>3. PICK b \in BOOLEAN : b = UrlExists(nodes, p)
  BY <1>2
<1>4. PICK y : y = [NoCall EXCEPT !.goal = g, !.path = p, !.key = a, !.existed = b]
  OBVIOUS
<1>5. y \in Call /\ y.path = p /\ y.existed = b
  BY <1>1, <1>4, NoCallTyped DEF Call, Goal
<1>6. PICK x : x = Begin(y, "climb")
  OBVIOUS
<1>7. x \in CallNow /\ x.pc = "climb" /\ x.path = p /\ x.i = 1 /\ x.parent = RootId /\ x.existed = b
  BY <1>1, <1>5, <1>6, BeginIs DEF Where
<1>8. Goes(c, x)
  BY <1>3, <1>4, <1>6, <1>7 DEF ChangeAttribute, Goto, Goes
<1> QED
  BY <1>1, <1>3, <1>7, <1>8

LEMMA ClimbDownDoes ==
  ASSUME ConstantsFit, TypeInv, NEW c \in Client, ClimbDown(c), NEW k, k = call[c]
  PROVE  \/ Goes(c, NoCall)
         \/ \E x : /\ Goes(c, x)
                   /\ x.path = k.path /\ x.existed = k.existed
                   /\ x.up = k.parent /\ x.parent = GetNodeId(nodes, Component(k), k.parent)
                   /\ IsLast(k) => x.pc = "find" /\ x.i = k.i
                   /\ ~IsLast(k) => x.pc = "climb" /\ x.i = k.i + 1
<1>1. k \in CallNow /\ k.pc = "climb"
  BY DEF ClimbDown, At, TypeInv
<1>2. PICK x : x = Advance(k, "find", GetNodeId(nodes, Component(k), k.parent))
  OBVIOUS
<1>3. GetNodeId(nodes, Component(k), k.parent) \in 0 .. MaxRows
  BY IdTyped DEF TypeInv
<1>4. /\ x \in CallNow
      /\ x.path = k.path /\ x.existed = k.existed
      /\ x.up = k.parent /\ x.parent = GetNodeId(nodes, Component(k), k.parent)
      /\ IsLast(k) => x.pc = "find" /\ x.i = k.i
      /\ ~IsLast(k) => x.pc = "climb" /\ x.i = k.i + 1
  BY <1>1, <1>2, <1>3, AdvanceIs DEF Where
<1>5. Goto(c, NoCall) \/ Goto(c, x)
  BY <1>2 DEF ClimbDown
<1>6. Goes(c, NoCall) \/ Goes(c, x)
  BY <1>4, <1>5, NoCallTyped DEF Goto, Goes
<1> QED
  BY <1>4, <1>6

LEMMA FindRowDoes ==
  ASSUME ConstantsFit, TypeInv, NEW c \in Client, FindRow(c), NEW k, k = call[c]
  PROVE  \E x : /\ Goes(c, x)
                /\ x.pc = "write" /\ x.path = k.path /\ x.i = k.i /\ x.existed = k.existed
                /\ x.id = GetNodeId(nodes, Component(k), k.up)
<1>1. k \in CallNow /\ k.pc = "find"
  BY DEF FindRow, At, TypeInv
<1>2. PICK id : id = GetNodeId(nodes, Component(k), k.up)
  OBVIOUS
<1>3. id \in 0 .. MaxRows
  BY <1>2, IdTyped DEF TypeInv
<1>4. PICK x : x = [k EXCEPT !.pc = "write", !.id = id]
  OBVIOUS
<1>5. x \in CallNow /\ x.pc = "write" /\ x.path = k.path /\ x.i = k.i /\ x.existed = k.existed /\ x.id = id
  <2>1. "write" \in Where
    BY DEF Where
  <2> QED
    BY <1>1, <1>3, <1>4, <2>1 DEF CallNow, Call
<1>6. Goes(c, x)
  BY <1>2, <1>4, <1>5 DEF FindRow, Goto, Goes
<1> QED
  BY <1>2, <1>5, <1>6

LEMMA WriteAttributeDoes ==
  ASSUME ConstantsFit, TypeInv, NEW c \in Client, WriteAttribute(c), NEW k, k = call[c]
  PROVE  /\ Goes(c, NoCall)
         /\ metadata' \in SUBSET Cell
         /\ \A m \in metadata' : m \in metadata \/
              (m.name = Component(k) /\ m.id = k.id /\ m.path = k.path /\ m.existed = k.existed)
<1>1. k \in CallNow /\ k.pc = "write"
  BY DEF WriteAttribute, At, TypeInv
<1>2. PICK cell : cell = [name |-> Component(k), id |-> k.id, key |-> k.key, path |-> k.path,
                          existed |-> k.existed]
  OBVIOUS
<1>3. cell \in Cell
  BY <1>1, <1>2, CallFields DEF Cell
<1>4. metadata' \subseteq metadata \cup {cell}
  BY <1>2 DEF WriteAttribute
<1>5. Goes(c, NoCall)
  BY Returns DEF WriteAttribute
<1> QED
  BY <1>2, <1>3, <1>4, <1>5 DEF TypeInv

-----------------------------------------------------------------------------
LEMMA InitTypeInv == ConstantsFit /\ Init => TypeInv
<1> SUFFICES ASSUME ConstantsFit, Init PROVE TypeInv
  OBVIOUS
<1>1. Table(nodes)
  BY FS_EmptySet DEF Init, Table
<1> QED
  BY <1>1, NoCallTyped DEF Init, TypeInv

LEMMA NextTypeInv ==
  ASSUME ConstantsFit, TypeInv, [Next]_vars
  PROVE  TypeInv'
<1>1. CASE UNCHANGED vars
  BY <1>1 DEF vars, TypeInv
<1>2. ASSUME NEW c \in Client, Looks(c)
      PROVE  TypeInv'
  BY <1>2, LooksDo, CallTyped DEF TypeInv
<1>3. ASSUME NEW c \in Client, CreateEntry(c) \/ FollowEntry(c)
      PROVE  TypeInv'
  <2>1. \E x : Goes(c, x)
    BY <1>3, CreateEntryDoes, FollowEntryDoes
  <2>2. UNCHANGED <<nodes, metadata, object, raced>>
    BY <1>3 DEF CreateEntry, FollowEntry
  <2> QED
    BY <2>1, <2>2, CallTyped DEF TypeInv
<1>4. ASSUME NEW c \in Client, CountRows(c)
      PROVE  TypeInv'
  <2>1. \E x : Goes(c, x)
    BY <1>4, CountRowsDoes
  <2>2. UNCHANGED <<nodes, metadata, object>> /\ raced' \in BOOLEAN
    BY <1>4 DEF CountRows, TypeInv
  <2> QED
    BY <2>1, <2>2, CallTyped DEF TypeInv
<1>5. ASSUME NEW c \in Client, WriteNumber(c) \/ WriteParent(c) \/ WriteKind(c)
      PROVE  TypeInv'
  <2>1. \E x : Goes(c, x)
    BY <1>5, WriteNumberDoes, WriteParentDoes, WriteKindDoes
  <2>2. object' \in [Client -> Target \cup {<<>>}] /\ UNCHANGED <<metadata, raced>>
    BY <1>5, WriteKindDoes DEF WriteNumber, WriteParent, WriteKind, TypeInv
  <2>3. Table(nodes')
    BY <1>5, WriteIs
  <2> QED
    BY <2>1, <2>2, <2>3, CallTyped DEF TypeInv
<1>6. ASSUME NEW c \in Client, NEW g \in {"set", "remove"}, NEW a \in Key, ChangeAttribute(c, g, a)
      PROVE  TypeInv'
  <2>1. \E x : Goes(c, x)
    BY <1>6, ChangeAttributeDoes
  <2>2. UNCHANGED <<nodes, metadata, object, raced>>
    BY <1>6 DEF ChangeAttribute
  <2> QED
    BY <2>1, <2>2, CallTyped DEF TypeInv
<1>7. ASSUME NEW c \in Client, ClimbDown(c) \/ FindRow(c)
      PROVE  TypeInv'
  <2>1. \E x : Goes(c, x)
    BY <1>7, ClimbDownDoes, FindRowDoes
  <2>2. UNCHANGED <<nodes, metadata, object, raced>>
    BY <1>7 DEF ClimbDown, FindRow
  <2> QED
    BY <2>1, <2>2, CallTyped DEF TypeInv
<1>8. ASSUME NEW c \in Client, WriteAttribute(c)
      PROVE  TypeInv'
  <2>1. Goes(c, NoCall) /\ metadata' \in SUBSET Cell
    BY <1>8, WriteAttributeDoes
  <2>2. UNCHANGED <<nodes, object, raced>>
    BY <1>8 DEF WriteAttribute
  <2> QED
    BY <2>1, <2>2, CallTyped DEF TypeInv
<1> QED
  BY <1>1, <1>2, <1>3, <1>4, <1>5, <1>6, <1>7, <1>8 DEF Next, Looks

LEMMA TypeOKHolds == TypeInv => TypeOK
BY DEF TypeInv, TypeOK, Table, CallNow

-----------------------------------------------------------------------------
(***************************************************************************)
(* What the writes make of the ways.                                       *)
(***************************************************************************)
Ids(S) == {r.id : r \in S}

LEMMA ChildSame ==
  ASSUME ConstantsFit, NEW T, Table(T), NEW U, Table(U), NEW n \in Name, NEW up \in 0 .. MaxRows,
         Ids(Below(U, n, up)) = Ids(Below(T, n, up))
  PROVE  Child(U, n, up) = Child(T, n, up)
<1>1. up # NoParent
  BY DEF NoParent
<1>2. Below(U, n, up) = {} <=> Below(T, n, up) = {}
  BY DEF Ids
<1>3. CASE Below(T, n, up) = {}
  BY <1>2, <1>3, ChildOf
<1>4. CASE Below(T, n, up) # {}
  <2>1. PICK s : Eldest(T, n, up, s) /\ Child(T, n, up) = s.id
    BY <1>1, <1>4, ChildOf
  <2>2. PICK t : Eldest(U, n, up, t) /\ Child(U, n, up) = t.id
    BY <1>1, <1>2, <1>4, ChildOf
  <2>3. s.id \in Nat /\ t.id \in Nat
    BY <2>1, <2>2 DEF Eldest, Below, Table, Row
  <2>4. s.id <= t.id
    <3>1. t.id \in Ids(Below(T, n, up))
      BY <2>2 DEF Eldest, Ids
    <3> QED
      BY <2>1, <3>1 DEF Eldest, Ids
  <2>5. t.id <= s.id
    <3>1. s.id \in Ids(Below(U, n, up))
      BY <2>1 DEF Eldest, Ids
    <3> QED
      BY <2>2, <3>1 DEF Eldest, Ids
  <2> QED
    BY <2>1, <2>2, <2>3, <2>4, <2>5
<1> QED
  BY <1>3, <1>4

(* A row that comes about has no parent, and one that is numbered keeps it. *)
LEMMA SwapKeeps ==
  ASSUME NEW T, NEW U, NEW r \in T, NEW x, Swaps(T, U, r, x), x.parent = r.parent, NEW n, NEW up
  PROVE  Ids(Below(U, n, up)) = Ids(Below(T, n, up))
<1>1. Below(U, n, up) = (Below(T, n, up) \ {r}) \cup (IF r \in Below(T, n, up) THEN {x} ELSE {})
  BY DEF Swaps, Below
<1>2. x.id = r.id
  BY DEF Swaps
<1> QED
  BY <1>1, <1>2 DEF Ids

LEMMA NumberExtends ==
  ASSUME ConstantsFit, NEW T, Table(T), NEW id \in 0 .. MaxRows, NEW m \in Name,
         NEW n \in Name, NEW up \in 0 .. MaxRows
  PROVE  Child(PutNumber(T, m, id), n, up) = Child(T, n, up)
<1>1. PICK U : U = PutNumber(T, m, id)
  OBVIOUS
<1>2. Table(U)
  <2>1. 0 \in 0 .. MaxRows
    BY DEF ConstantsFit
  <2> QED
    BY <1>1, <2>1, WritesTable
<1>3. CASE U = T \cup {NewRow(m, id, TRUE)}
  <2>1. Below(U, n, up) = Below(T, n, up)
    <3>1. PICK y : y = NewRow(m, id, TRUE)
      OBVIOUS
    <3>2. y.parent # up
      BY <3>1 DEF NewRow, NoParent
    <3> QED
      BY <1>3, <3>1, <3>2 DEF Below
  <2> QED
    BY <1>1, <1>2, <2>1, ChildSame
<1>4. ASSUME NEW r \in RowAt(T, m, id), NEW x, Swaps(T, U, r, x), x.parent = r.parent
      PROVE  Child(U, n, up) = Child(T, n, up)
  <2>1. Ids(Below(U, n, up)) = Ids(Below(T, n, up))
    <3>1. r \in T
      BY DEF RowAt
    <3> QED
      BY <1>4, <3>1, SwapKeeps
  <2> QED
    BY <1>2, <2>1, ChildSame
<1> QED
  BY <1>1, <1>3, <1>4, NumberPut

LEMMA KindExtends ==
  ASSUME ConstantsFit, NEW T, Table(T), NEW id \in 0 .. MaxRows, NEW m \in Name,
         NEW n \in Name, NEW up \in 0 .. MaxRows
  PROVE  Child(PutKind(T, m, id), n, up) = Child(T, n, up)
<1>1. PICK U : U = PutKind(T, m, id)
  OBVIOUS
<1>2. Table(U)
  <2>1. 0 \in 0 .. MaxRows
    BY DEF ConstantsFit
  <2> QED
    BY <1>1, <2>1, WritesTable
<1>3. CASE U = T \cup {NewRow(m, id, FALSE)}
  <2>1. Below(U, n, up) = Below(T, n, up)
    <3>1. PICK y : y = NewRow(m, id, FALSE)
      OBVIOUS
    <3>2. y.parent # up
      BY <3>1 DEF NewRow, NoParent
    <3> QED
      BY <1>3, <3>1, <3>2 DEF Below
  <2> QED
    BY <1>1, <1>2, <2>1, ChildSame
<1> QED
  BY <1>1, <1>3, KindPut

(* A row gets a parent it has not, below which rows of its name are older.  *)
LEMMA ParentExtends ==
  ASSUME ConstantsFit, NEW T, Table(T), NEW id \in 0 .. MaxRows, NEW m \in Name, NEW parent \in 0 .. MaxRows,
         \A r \in RowAt(T, m, id) : r.parent = NoParent,
         \A q \in Below(T, m, parent) : q.id <= id
  PROVE  Extends(PutParent(T, m, id, parent), T)
<1>1. PICK U : U = PutParent(T, m, id, parent)
  OBVIOUS
<1>2. Table(U)
  BY <1>1, WritesTable
<1>3. CASE U = T
  BY <1>1, <1>3 DEF Extends
<1>4. ASSUME NEW r \in RowAt(T, m, id), NEW x, Swaps(T, U, r, x), x.parent = parent,
             NEW n \in Name, NEW up \in 0 .. MaxRows, Child(T, n, up) # NoParent
      PROVE  Child(U, n, up) = Child(T, n, up)
  <2>1. up # NoParent /\ Below(T, n, up) # {}
    BY <1>4, ChildOf
  <2>2. PICK s : Eldest(T, n, up, s) /\ Child(T, n, up) = s.id
    BY <2>1, ChildOf
  <2>3. r.parent = NoParent /\ x.name = m /\ x.id = id
    BY <1>4 DEF RowAt, Swaps
  <2>4. Below(U, n, up) = Below(T, n, up) \cup (IF n = m /\ up = parent THEN {x} ELSE {})
    BY <1>4, <2>1, <2>3 DEF Swaps, Below
  <2>5. Eldest(U, n, up, s)
    BY <2>2, <2>3, <2>4 DEF Eldest
  <2>6. PICK t : Eldest(U, n, up, t) /\ Child(U, n, up) = t.id
    BY <1>2, <2>1, <2>4, ChildOf
  <2>7. s.id <= t.id /\ t.id <= s.id
    BY <2>5, <2>6 DEF Eldest
  <2>8. s.id \in Nat /\ t.id \in Nat
    BY <1>2, <2>5, <2>6 DEF Eldest, Below, Table, Row
  <2> QED
    BY <2>2, <2>6, <2>7, <2>8
<1> QED
  BY <1>1, <1>3, <1>4, ParentPut DEF Extends

LEMMA FollowKept ==
  ASSUME ConstantsFit, NEW T, Table(T), NEW U, Extends(U, T), NEW p \in Path, Follow(T, p) # NoParent
  PROVE  Follow(U, p) = Follow(T, p)
<1>1. Len(p) \in 0 .. Len(p)
  BY DEF Path
<1> QED
  BY <1>1, FollowIsWay, WayKept

LEMMA PlacesArePaths ==
  ASSUME ConstantsFit, NEW p \in Places
  PROVE  p \in Path /\ \E q \in Target : \E i \in 0 .. Len(q) : p = SubSeq(q, 1, i)
<1>1. PICK q \in Target : \E i \in 0 .. Len(q) : p = SubSeq(q, 1, i)
  BY DEF Places
<1>2. q \in Seq(Name) /\ Len(q) \in Nat
  BY TargetIs DEF Path
<1>3. \A i \in 0 .. Len(q) : SubSeq(q, 1, i) \in Seq(Name)
  BY <1>2, SubSeqProperties
<1> QED
  BY <1>1, <1>3 DEF Path

(* Only a parent that is written where it is not alone loses a path. *)
Rival(k) ==
  \E r \in nodes :
    /\ r.name = Component(k)
    /\ \/ r.id = k.id /\ r.parent # NoParent
       \/ r.id > k.id /\ r.parent = k.parent

LEMMA WriteExtends ==
  ASSUME ConstantsFit, TypeInv, NEW c \in Client, WriteNumber(c) \/ WriteParent(c) \/ WriteKind(c),
         WriteParent(c) => ~Rival(call[c])
  PROVE  Extends(nodes', nodes)
<1>1. PICK k : k = call[c]
  OBVIOUS
<1>2. PICK n : n = Component(k)
  OBVIOUS
<1>3. /\ n \in Name /\ k.id \in 0 .. MaxRows /\ k.parent \in 0 .. MaxRows
      /\ \/ k.pc = "number" /\ WriteNumber(c) /\ nodes' = PutNumber(nodes, n, k.id)
         \/ k.pc = "parent" /\ WriteParent(c) /\ nodes' = PutParent(nodes, n, k.id, k.parent)
         \/ k.pc = "kind" /\ WriteKind(c) /\ nodes' = PutKind(nodes, n, k.id)
  BY <1>1, <1>2, WriteIs
<1>4. Table(nodes)
  BY DEF TypeInv
<1>5. CASE nodes' = PutNumber(nodes, n, k.id)
  BY <1>3, <1>4, <1>5, NumberExtends DEF Extends
<1>6. CASE nodes' = PutKind(nodes, n, k.id)
  BY <1>3, <1>4, <1>6, KindExtends DEF Extends
<1>7. CASE WriteParent(c) /\ nodes' = PutParent(nodes, n, k.id, k.parent)
  <2>1. \A r \in RowAt(nodes, n, k.id) : r.parent = NoParent
    BY <1>1, <1>2, <1>7 DEF Rival, RowAt
  <2>2. \A q \in Below(nodes, n, k.parent) : q.id <= k.id
    <3>1. \A q \in Below(nodes, n, k.parent) : ~(q.id > k.id)
      BY <1>1, <1>2, <1>7 DEF Rival, Below
    <3>2. \A q \in Below(nodes, n, k.parent) : q.id \in Nat
      BY <1>4 DEF Below, Table, Row
    <3> QED
      BY <1>3, <3>1, <3>2
  <2> QED
    BY <1>3, <1>4, <1>7, <2>1, <2>2, ParentExtends
<1> QED
  BY <1>3, <1>5, <1>6, <1>7

LEMMA NodesWritten ==
  ASSUME [Next]_vars, nodes' # nodes
  PROVE  \E c \in Client : WriteNumber(c) \/ WriteParent(c) \/ WriteKind(c)
BY DEF Next, vars, Open, CheckEntry, Descend, CheckLast, CreateEntry, FollowEntry, CountRows,
   ChangeAttribute, ClimbDown, FindRow, WriteAttribute, IOError

LEMMA FoundKept ==
  ASSUME ConstantsFit, TypeInv, Extends(nodes', nodes)
  PROVE  /\ Found \subseteq Found'
         /\ \A p \in Path : UrlExists(nodes, p) => Follow(nodes', p) = Follow(nodes, p)
<1>1. Table(nodes)
  BY DEF TypeInv
<1>2. \A p \in Path : UrlExists(nodes, p) => Follow(nodes', p) = Follow(nodes, p)
  BY <1>1, FollowKept DEF UrlExists
<1>3. ASSUME NEW p \in Found
      PROVE  p \in Found'
  <2>1. p \in Places /\ p \in Path /\ UrlExists(nodes, p)
    BY PlacesArePaths DEF Found
  <2>2. UrlExists(nodes', p)
    BY <1>2, <2>1 DEF UrlExists
  <2> QED
    BY <2>1, <2>2 DEF Found
<1> QED
  BY <1>2, <1>3

LEMMA LostToRival ==
  ASSUME ConstantsFit, TypeInv, [Next]_vars, nodes' # nodes, NEW p \in Found \ Found'
  PROVE  \E c \in Client : WriteParent(c) /\ Rival(call[c])
<1>1. PICK c \in Client : WriteNumber(c) \/ WriteParent(c) \/ WriteKind(c)
  BY NodesWritten
<1>2. ~Extends(nodes', nodes)
  BY FoundKept
<1> QED
  BY <1>1, <1>2, WriteExtends

-----------------------------------------------------------------------------
(***************************************************************************)
(* The ids of rows and calls, while no two creations have met.             *)
(***************************************************************************)
(* The id of every row, and that of its parent, has been counted. *)
RowsCounted ==
  \A r \in nodes : r.id <= Cardinality(nodes) /\ r.parent <= Cardinality(nodes)

(* A row with a parent has its id alone among these, and is not the root. *)
Linked(r) == r.parent # NoParent
LinkedOnce ==
  /\ \A r, s \in nodes : Linked(r) /\ Linked(s) /\ r.id = s.id => r = s
  /\ \A r \in nodes : Linked(r) => r.id # RootId

(* So have the ids that a creation has to do with, but one just drawn. *)
Counted(k) ==
  k.pc \in Creating =>
    /\ k.parent <= Cardinality(nodes)
    /\ k.pc # "number" => k.id <= Cardinality(nodes)
    /\ k.pc = "number" => k.id <= Cardinality(nodes) + 1
    /\ k.pc = "follow" => Below(nodes, Component(k), k.parent) # {}
CallsCounted == \A c \in Client : Counted(call[c])

(* An id that has been drawn for a row that is not linked yet is beyond all *)
(* others, in rows and in the calls of other clients.                       *)
Later(k, id) == k.pc \in Creating => k.pc \notin Drawing /\ k.id < id /\ k.parent < id
Fresh(k, r)  ==
  /\ r.parent < k.id
  /\ \/ r.id < k.id
     \/ k.pc = "parent" /\ r.name = Component(k) /\ r.id = k.id /\ ~Linked(r)
Drawn(c) ==
  call[c].pc \in Drawing =>
    /\ call[c].id # RootId /\ call[c].parent < call[c].id
    /\ \A r \in nodes : Fresh(call[c], r)
    /\ \A d \in Client \ {c} : Later(call[d], call[c].id)
AllDrawn == \A c \in Client : Drawn(c)

Numbered == RowsCounted /\ LinkedOnce /\ CallsCounted /\ AllDrawn

(* A call that changes an attribute of a path that existed is on its way. *)
OnItsWay(T, k) ==
  k.pc \in Asking /\ k.existed =>
    /\ UrlExists(T, k.path)
    /\ k.pc = "climb" => k.parent = Way(T, k.path)[k.i - 1]
    /\ k.pc # "climb" => IsLast(k)
    /\ k.pc = "find" => k.up = Way(T, k.path)[k.i - 1]
    /\ k.pc = "write" => k.id = Way(T, k.path)[k.i]
CallsOnTheirWay == \A c \in Client : OnItsWay(nodes, call[c])

(* The cell is in the row of its path. *)
OwnCells ==
  \A m \in metadata : m.existed =>
    UrlExists(nodes, m.path) /\ m.name = Last(m.path) /\ m.id = Follow(nodes, m.path)

HbaseInv ==
  /\ TypeInv
  /\ ~raced => Numbered /\ CallsOnTheirWay /\ OwnCells

LEMMA CountedTyped ==
  ASSUME ConstantsFit, TypeInv
  PROVE  /\ Cardinality(nodes) \in Nat
         /\ \A r \in nodes : r \in Row /\ r.name \in Name /\ r.id \in Nat /\ r.parent \in Int
         /\ \A r \in nodes : Linked(r) => r.parent \in 0 .. MaxRows
         /\ \A d \in Client : call[d] \in CallNow /\ call[d].id \in Nat /\ call[d].parent \in Nat
<1>1. Cardinality(nodes) \in Nat
  BY FS_CardinalityType DEF TypeInv, Table
<1>2. \A r \in nodes : r \in Row
  BY DEF TypeInv, Table
<1>3. \A r \in Row : r.name \in Name /\ r.id \in Nat /\ r.parent \in Int
         /\ (Linked(r) => r.parent \in 0 .. MaxRows)
  BY DEF Row, Linked, NoParent, ConstantsFit
<1>4. \A d \in Client : call[d] \in CallNow
  BY DEF TypeInv
<1>5. \A d \in Client : call[d].id \in 0 .. MaxRows /\ call[d].parent \in 0 .. MaxRows
  BY <1>4, CallFields
<1>6. 0 .. MaxRows \subseteq Nat
  BY DEF ConstantsFit
<1> QED
  BY <1>1, <1>2, <1>3, <1>4, <1>5, <1>6

(* A step that changes no row, after which the client has drawn no id. *)
LEMMA CallKeepsNumbered ==
  ASSUME ConstantsFit, TypeInv, Numbered, NEW c \in Client, NEW x, Goes(c, x), UNCHANGED nodes,
         x.pc \in Creating =>
           /\ x.pc \notin Drawing /\ Counted(x)
           /\ \A d \in Client \ {c} : call[d].pc \in Drawing => x.id < call[d].id /\ x.parent < call[d].id
  PROVE  Numbered'
<1>1. call'[c] = x /\ \A d \in Client \ {c} : call'[d] = call[d]
  BY CallTyped
<1>2. RowsCounted' /\ LinkedOnce'
  BY DEF Numbered, RowsCounted, LinkedOnce, Linked
<1>3. CallsCounted'
  <2>1. \A d \in Client \ {c} : Counted(call[d])
    BY DEF Numbered, CallsCounted
  <2>2. x.pc \in Creating => Counted(x)
    OBVIOUS
  <2> QED
    BY <1>1, <2>1, <2>2 DEF CallsCounted, Counted
<1>4. ASSUME NEW d \in Client \ {c}, call[d].pc \in Drawing
      PROVE  Drawn(d)'
  <2>1. Drawn(d)
    BY DEF Numbered, AllDrawn
  <2>2. \A r \in nodes : Fresh(call[d], r)
    BY <1>4, <2>1 DEF Drawn
  <2>3. \A e \in Client \ {d} : Later(call'[e], call[d].id)
    <3>1. Later(x, call[d].id)
      BY <1>4 DEF Later
    <3>2. \A e \in Client \ {d} : Later(call[e], call[d].id)
      BY <1>4, <2>1 DEF Drawn
    <3> QED
      BY <1>1, <3>1, <3>2
  <2>4. call'[d] = call[d]
    BY <1>1
  <2> QED
    BY <1>4, <2>1, <2>2, <2>3, <2>4 DEF Drawn, Fresh, Linked
<1>5. \A d \in Client \ {c} : call[d].pc \notin Drawing => Drawn(d)'
  BY <1>1 DEF Drawn
<1>6. Drawn(c)'
  BY <1>1 DEF Drawn, Creating, Drawing
<1> QED
  BY <1>2, <1>3, <1>4, <1>5, <1>6 DEF Numbered, AllDrawn

LEMMA PlainKeepsNumbered ==
  ASSUME ConstantsFit, TypeInv, Numbered, NEW c \in Client, NEW x, Goes(c, x), Plain(x), UNCHANGED nodes
  PROVE  Numbered'
<1>1. ASSUME x.pc \in Creating
      PROVE  /\ x.pc \notin Drawing /\ Counted(x)
             /\ \A d \in Client \ {c} : call[d].pc \in Drawing => x.id < call[d].id /\ x.parent < call[d].id
  <2>1. x.pc = "create" /\ x.id = 0 /\ x.parent = 0
    BY <1>1 DEF Plain, EmptyId, RootId
  <2>2. Counted(x)
    BY <2>1, CountedTyped DEF Counted
  <2>3. \A d \in Client \ {c} : call[d].pc \in Drawing => 0 < call[d].id
    BY CountedTyped DEF Numbered, AllDrawn, Drawn, RootId
  <2> QED
    BY <2>1, <2>2, <2>3 DEF Drawing
<1> QED
  BY <1>1, CallKeepsNumbered

LEMMA CreateEntryNumbered ==
  ASSUME ConstantsFit, TypeInv, Numbered, NEW c \in Client, CreateEntry(c)
  PROVE  Numbered'
<1>1. PICK k : k = call[c]
  OBVIOUS
<1>2. PICK x : /\ Goes(c, x)
               /\ x.pc \in {"follow", "count"}
               /\ x.parent = k.parent /\ x.id = k.id
               /\ x.pc = "follow" => Below(nodes, Component(x), x.parent) # {}
  BY <1>1, CreateEntryDoes
<1>3. k.pc = "create" /\ UNCHANGED nodes
  BY <1>1 DEF CreateEntry, At
<1>4. Counted(x)
  BY <1>1, <1>2, <1>3 DEF Numbered, CallsCounted, Counted, Creating
<1>5. \A d \in Client \ {c} : call[d].pc \in Drawing => x.id < call[d].id /\ x.parent < call[d].id
  BY <1>1, <1>2, <1>3 DEF Numbered, AllDrawn, Drawn, Later, Creating
<1>6. x.pc \notin Drawing
  BY <1>2 DEF Drawing
<1> QED
  BY <1>2, <1>3, <1>4, <1>5, <1>6, CallKeepsNumbered

LEMMA FollowEntryNumbered ==
  ASSUME ConstantsFit, TypeInv, Numbered, NEW c \in Client, FollowEntry(c)
  PROVE  Numbered'
<1>1. PICK k : k = call[c]
  OBVIOUS
<1>2. PICK x : /\ Goes(c, x)
               /\ x.pc \in {"create", "kind"}
               /\ x.parent = GetNodeId(nodes, Component(k), k.parent) /\ x.id = k.id
  BY <1>1, FollowEntryDoes
<1>3. k.pc = "follow" /\ UNCHANGED nodes
  BY <1>1 DEF FollowEntry, At
<1>4. Counted(k)
  BY <1>1 DEF Numbered, CallsCounted
<1>5. Below(nodes, Component(k), k.parent) # {}
  BY <1>3, <1>4 DEF Counted, Creating
<1>6. Component(k) \in Name /\ k.parent \in Nat
  BY <1>1, <1>3, CountedTyped, CallFields
<1>7. PICK s : Eldest(nodes, Component(k), k.parent, s) /\ x.parent = s.id
  BY <1>2, <1>5, <1>6, EldestFound DEF TypeInv
<1>8. s \in nodes /\ Linked(s)
  BY <1>6, <1>7 DEF Eldest, Below, Linked, NoParent
<1>9. Counted(x)
  <2>1. k.id <= Cardinality(nodes)
    BY <1>3, <1>4 DEF Counted, Creating
  <2>2. s.id <= Cardinality(nodes)
    BY <1>8 DEF Numbered, RowsCounted
  <2> QED
    BY <1>2, <1>7, <2>1, <2>2 DEF Counted
<1>10. ASSUME NEW d \in Client \ {c}, call[d].pc \in Drawing
       PROVE  x.id < call[d].id /\ x.parent < call[d].id
  <2>1. Drawn(d)
    BY DEF Numbered, AllDrawn
  <2>2. k.id < call[d].id
    BY <1>1, <1>3, <1>10, <2>1 DEF Drawn, Later, Creating
  <2>3. s.id < call[d].id
    BY <1>8, <1>10, <2>1 DEF Drawn, Fresh
  <2> QED
    BY <1>2, <1>7, <2>2, <2>3
<1>11. x.pc \notin Drawing
  BY <1>2 DEF Drawing
<1> QED
  BY <1>2, <1>3, <1>9, <1>10, <1>11, CallKeepsNumbered

LEMMA CountRowsNumbered ==
  ASSUME ConstantsFit, TypeInv, Numbered, NEW c \in Client, CountRows(c), ~raced'
  PROVE  Numbered'
<1>1. PICK k : k = call[c]
  OBVIOUS
<1>2. PICK x : /\ Goes(c, x)
               /\ x.pc = "number" /\ x.parent = k.parent /\ x.id = Cardinality(nodes) + 1
               /\ Cardinality(nodes) \in Nat
  BY <1>1, CountRowsDoes
<1>3. /\ k.pc = "count" /\ UNCHANGED nodes
      /\ \A d \in Client \ {c} : call[d].pc \notin Drawing
  BY <1>1 DEF CountRows, At, Drawing
<1>4. call'[c] = x /\ \A d \in Client \ {c} : call'[d] = call[d]
  BY <1>2, CallTyped
<1>5. k.parent <= Cardinality(nodes) /\ k.parent \in Nat
  BY <1>1, <1>3, CountedTyped DEF Numbered, CallsCounted, Counted, Creating
<1>6. RowsCounted' /\ LinkedOnce'
  BY <1>3 DEF Numbered, RowsCounted, LinkedOnce, Linked
<1>7. CallsCounted'
  <2>1. \A d \in Client \ {c} : Counted(call[d])
    BY DEF Numbered, CallsCounted
  <2>2. Counted(x)
    BY <1>2, <1>5 DEF Counted
  <2> QED
    BY <1>3, <1>4, <2>1, <2>2 DEF CallsCounted, Counted
<1>8. \A r \in nodes : Fresh(x, r)
  BY <1>2, CountedTyped DEF Numbered, RowsCounted, Fresh
<1>9. ASSUME NEW d \in Client \ {c}
      PROVE  Later(call[d], x.id)
  <2>1. Counted(call[d]) /\ call[d].pc \notin Drawing
    BY <1>3 DEF Numbered, CallsCounted
  <2> QED
    BY <1>2, <2>1, CountedTyped DEF Later, Counted, Drawing
<1>10. Drawn(c)'
  <2>1. x.id # RootId /\ x.parent < x.id
    BY <1>2, <1>5 DEF RootId
  <2> QED
    BY <1>3, <1>4, <1>8, <1>9, <2>1 DEF Drawn, Fresh, Linked
<1>11. \A d \in Client \ {c} : Drawn(d)'
  BY <1>3, <1>4 DEF Drawn
<1> QED
  BY <1>6, <1>7, <1>10, <1>11 DEF Numbered, AllDrawn

LEMMA WriteNumberNumbered ==
  ASSUME ConstantsFit, TypeInv, Numbered, NEW c \in Client, WriteNumber(c)
  PROVE  Numbered'
<1>1. PICK k : k = call[c]
  OBVIOUS
<1>2. PICK n : n = Component(k)
  OBVIOUS
<1>3. PICK x : /\ Goes(c, x)
               /\ x.pc = "parent" /\ x.parent = k.parent /\ x.id = k.id /\ Component(x) = n
  BY <1>1, <1>2, WriteNumberDoes
<1>4. k.pc = "number" /\ n \in Name /\ k.id \in 0 .. MaxRows /\ nodes' = PutNumber(nodes, n, k.id)
  BY <1>1, <1>2, WriteIs DEF WriteNumber, At
<1>5. Drawn(c) /\ Counted(k)
  BY <1>1 DEF Numbered, AllDrawn, CallsCounted
<1>6. /\ k.id # RootId /\ k.parent < k.id
      /\ \A r \in nodes : r.parent < k.id /\ r.id < k.id
      /\ \A d \in Client \ {c} : Later(call[d], k.id)
  BY <1>1, <1>4, <1>5 DEF Drawn, Drawing, Fresh
<1>7. RowAt(nodes, n, k.id) = {}
  BY <1>6, CountedTyped DEF RowAt
<1>8. PICK y : y = NewRow(n, k.id, TRUE)
  OBVIOUS
<1>9. y.name = n /\ y.id = k.id /\ y.parent = NoParent
  BY <1>8 DEF NewRow
<1>10. nodes' = nodes \cup {y}
  BY <1>4, <1>7, <1>8, NumberPut DEF TypeInv
<1>11. Cardinality(nodes) \in Nat /\ Cardinality(nodes') = Cardinality(nodes) + 1
  BY <1>1, <1>2, <1>7, WriteIs
<1>12. call'[c] = x /\ \A d \in Client \ {c} : call'[d] = call[d]
  BY <1>3, CallTyped
<1>13. k.id <= Cardinality(nodes) + 1 /\ k.parent <= Cardinality(nodes) /\ k.parent \in Nat
  BY <1>1, <1>4, <1>5, CountedTyped DEF Counted, Creating
<1>14. RowsCounted'
  <2>1. \A r \in nodes : r.id <= Cardinality(nodes) + 1 /\ r.parent <= Cardinality(nodes) + 1
    BY CountedTyped DEF Numbered, RowsCounted
  <2>2. y.parent <= Cardinality(nodes) + 1
    BY <1>9, <1>11 DEF NoParent
  <2> QED
    BY <1>9, <1>10, <1>11, <1>13, <2>1, <2>2 DEF RowsCounted
<1>15. LinkedOnce'
  <2>1. ~Linked(y)
    BY <1>9 DEF Linked
  <2> QED
    BY <1>10, <2>1 DEF Numbered, LinkedOnce, Linked
<1>16. CallsCounted'
  <2>1. ASSUME NEW d \in Client \ {c}
        PROVE  Counted(call[d])'
    <3>1. Counted(call[d])
      BY DEF Numbered, CallsCounted
    <3>2. Below(nodes, Component(call[d]), call[d].parent) \subseteq
            Below(nodes', Component(call[d]), call[d].parent)
      BY <1>10 DEF Below
    <3>3. call'[d] = call[d] /\ call[d].id \in Nat /\ call[d].parent \in Nat
      BY <1>12, CountedTyped
    <3> QED
      BY <1>11, <3>1, <3>2, <3>3 DEF Counted
  <2>2. Counted(call[c])'
    BY <1>3, <1>11, <1>12, <1>13, <1>4 DEF Counted
  <2> QED
    BY <2>1, <2>2 DEF CallsCounted
<1>17. Drawn(c)'
  <2>1. y.parent < k.id
    BY <1>4, <1>9, CountedTyped DEF NoParent, ConstantsFit
  <2>2. \A r \in nodes' : Fresh(x, r)
    BY <1>3, <1>6, <1>9, <1>10, <2>1 DEF Fresh, Linked
  <2>3. \A d \in Client \ {c} : Later(call'[d], x.id)
    BY <1>3, <1>6, <1>12
  <2> QED
    BY <1>3, <1>6, <1>12, <2>2, <2>3 DEF Drawn, Fresh, Linked
<1>18. \A d \in Client \ {c} : Drawn(d)'
  BY <1>6, <1>12 DEF Drawn, Later, Drawing, Creating
<1> QED
  BY <1>14, <1>15, <1>16, <1>17, <1>18 DEF Numbered, AllDrawn

LEMMA WriteParentNumbered ==
  ASSUME ConstantsFit, TypeInv, Numbered, NEW c \in Client, WriteParent(c)
  PROVE  Numbered'
<1>1. PICK k : k = call[c]
  OBVIOUS
<1>2. PICK n : n = Component(k)
  OBVIOUS
<1>3. PICK x : /\ Goes(c, x)
               /\ x.pc \in {"create", "kind"} /\ x.parent = k.id /\ x.id = k.id
  BY <1>1, WriteParentDoes
<1>4. /\ k.pc = "parent" /\ n \in Name /\ k.id \in 0 .. MaxRows /\ k.parent \in 0 .. MaxRows
      /\ nodes' = PutParent(nodes, n, k.id, k.parent)
  BY <1>1, <1>2, WriteIs DEF WriteParent, At
<1>5. Drawn(c) /\ Counted(k)
  BY <1>1 DEF Numbered, AllDrawn, CallsCounted
<1>6. /\ k.id # RootId
      /\ \A r \in nodes : r.id < k.id \/ (r.id = k.id /\ ~Linked(r))
      /\ \A d \in Client \ {c} : Later(call[d], k.id)
  BY <1>1, <1>4, <1>5 DEF Drawn, Drawing, Fresh
<1>7. /\ Cardinality(nodes) \in Nat /\ Cardinality(nodes') \in Nat
      /\ Cardinality(nodes) <= Cardinality(nodes')
  BY <1>1, <1>2, WriteIs
<1>8. \/ nodes' = nodes
      \/ \E r \in RowAt(nodes, n, k.id) : \E y : Swaps(nodes, nodes', r, y) /\ y.parent = k.parent
  BY <1>4, ParentPut DEF TypeInv
<1>9. call'[c] = x /\ \A d \in Client \ {c} : call'[d] = call[d]
  BY <1>3, CallTyped
<1>10. k.id <= Cardinality(nodes') /\ k.parent <= Cardinality(nodes')
  <2>1. k.id <= Cardinality(nodes) /\ k.parent <= Cardinality(nodes) /\ k.id \in Nat /\ k.parent \in Nat
    BY <1>1, <1>4, <1>5, CountedTyped DEF Counted, Creating
  <2> QED
    BY <1>7, <2>1
<1>11. \A r \in nodes : r.id <= Cardinality(nodes') /\ r.parent <= Cardinality(nodes')
  BY <1>7, CountedTyped DEF Numbered, RowsCounted
<1>12. ASSUME NEW r \in RowAt(nodes, n, k.id), NEW y, Swaps(nodes, nodes', r, y), y.parent = k.parent
       PROVE  /\ ~Linked(r) /\ y.id = k.id /\ r.id = k.id /\ r \in nodes
              /\ nodes' = (nodes \ {r}) \cup {y}
  BY <1>6, <1>12, CountedTyped DEF RowAt, Swaps
<1>13. RowsCounted'
  BY <1>8, <1>10, <1>11, <1>12 DEF RowsCounted
<1>14. LinkedOnce'
  <2>1. CASE nodes' = nodes
    BY <2>1 DEF Numbered, LinkedOnce, Linked
  <2>2. ASSUME NEW r \in RowAt(nodes, n, k.id), NEW y, Swaps(nodes, nodes', r, y), y.parent = k.parent
        PROVE  LinkedOnce'
    <3>1. \A s \in nodes : Linked(s) => s.id # k.id
      BY <1>6, CountedTyped
    <3>2. /\ \A s, t \in nodes : Linked(s) /\ Linked(t) /\ s.id = t.id => s = t
          /\ \A s \in nodes : Linked(s) => s.id # RootId
      BY DEF Numbered, LinkedOnce
    <3> QED
      BY <1>6, <1>12, <2>2, <3>1, <3>2 DEF LinkedOnce, Linked
  <2> QED
    BY <1>8, <2>1, <2>2
<1>15. CallsCounted'
  <2>1. ASSUME NEW d \in Client \ {c}
        PROVE  Counted(call[d])'
    <3>1. Counted(call[d])
      BY DEF Numbered, CallsCounted
    <3>2. call'[d] = call[d] /\ call[d].id \in Nat /\ call[d].parent \in Nat
      BY <1>9, CountedTyped
    <3>3. Below(nodes, Component(call[d]), call[d].parent) \subseteq
            Below(nodes', Component(call[d]), call[d].parent)
      <4>1. \A q \in Below(nodes, Component(call[d]), call[d].parent) : q \in nodes /\ Linked(q)
        BY <3>2 DEF Below, Linked, NoParent
      <4>2. \A q \in nodes : Linked(q) => q \in nodes'
        BY <1>8, <1>12
      <4> QED
        BY <4>1, <4>2 DEF Below
    <3> QED
      BY <1>7, <3>1, <3>2, <3>3 DEF Counted
  <2>2. Counted(call[c])'
    BY <1>3, <1>9, <1>10 DEF Counted
  <2> QED
    BY <2>1, <2>2 DEF CallsCounted
<1>16. \A d \in Client : Drawn(d)'
  <2>1. call'[c].pc \notin Drawing
    BY <1>3, <1>9 DEF Drawing
  <2>2. \A d \in Client \ {c} : call'[d].pc \notin Drawing
    BY <1>6, <1>9 DEF Later, Drawing, Creating
  <2> QED
    BY <2>1, <2>2 DEF Drawn
<1> QED
  BY <1>13, <1>14, <1>15, <1>16 DEF Numbered, AllDrawn

LEMMA WriteKindNumbered ==
  ASSUME ConstantsFit, TypeInv, Numbered, NEW c \in Client, WriteKind(c)
  PROVE  Numbered'
<1>1. PICK k : k = call[c]
  OBVIOUS
<1>2. PICK n : n = Component(k)
  OBVIOUS
<1>3. PICK x : Goes(c, x) /\ Plain(x)
  BY WriteKindDoes
<1>4. k.pc = "kind" /\ n \in Name /\ k.id \in 0 .. MaxRows /\ nodes' = PutKind(nodes, n, k.id)
  BY <1>1, <1>2, WriteIs DEF WriteKind, At
<1>5. CASE nodes' = nodes
  BY <1>3, <1>5, PlainKeepsNumbered
<1>6. CASE nodes' = nodes \cup {NewRow(n, k.id, FALSE)}
  <2>1. PICK y : y = NewRow(n, k.id, FALSE)
    OBVIOUS
  <2>2. y.name = n /\ y.id = k.id /\ y.parent = NoParent
    BY <2>1 DEF NewRow
  <2>3. nodes' = nodes \cup {y}
    BY <1>6, <2>1
  <2>4. /\ Cardinality(nodes) \in Nat /\ Cardinality(nodes') \in Nat
        /\ Cardinality(nodes) <= Cardinality(nodes')
    BY <1>1, <1>2, WriteIs
  <2>5. call'[c] = x /\ \A d \in Client \ {c} : call'[d] = call[d]
    BY <1>3, CallTyped
  <2>6. k.id <= Cardinality(nodes') /\ k.id \in Nat
    BY <1>1, <1>4, <2>4, CountedTyped DEF Numbered, CallsCounted, Counted, Creating
  <2>7. x.pc \in Creating => x.pc = "create" /\ x.id = 0 /\ x.parent = 0
    BY <1>3 DEF Plain, EmptyId, RootId
  <2>8. RowsCounted'
    <3>1. \A r \in nodes : r.id <= Cardinality(nodes') /\ r.parent <= Cardinality(nodes')
      BY <2>4, CountedTyped DEF Numbered, RowsCounted
    <3>2. y.parent <= Cardinality(nodes')
      BY <2>2, <2>4 DEF NoParent
    <3> QED
      BY <2>2, <2>3, <2>6, <3>1, <3>2 DEF RowsCounted
  <2>9. LinkedOnce'
    <3>1. ~Linked(y)
      BY <2>2 DEF Linked
    <3> QED
      BY <2>3, <3>1 DEF Numbered, LinkedOnce, Linked
  <2>10. CallsCounted'
    <3>1. ASSUME NEW d \in Client \ {c}
          PROVE  Counted(call[d])'
      <4>1. Counted(call[d])
        BY DEF Numbered, CallsCounted
      <4>2. Below(nodes, Component(call[d]), call[d].parent) \subseteq
              Below(nodes', Component(call[d]), call[d].parent)
        BY <2>3 DEF Below
      <4>3. call'[d] = call[d] /\ call[d].id \in Nat /\ call[d].parent \in Nat
        BY <2>5, CountedTyped
      <4> QED
        BY <2>4, <4>1, <4>2, <4>3 DEF Counted
    <3>2. Counted(call[c])'
      BY <2>4, <2>5, <2>7 DEF Counted
    <3> QED
      BY <3>1, <3>2 DEF CallsCounted
  <2>11. ASSUME NEW d \in Client \ {c}, call[d].pc \in Drawing
         PROVE  Drawn(d)'
    <3>1. Drawn(d)
      BY DEF Numbered, AllDrawn
    <3>2. /\ call[d].id # RootId /\ call[d].parent < call[d].id
          /\ \A r \in nodes : Fresh(call[d], r)
          /\ \A e \in Client \ {d} : Later(call[e], call[d].id)
      BY <2>11, <3>1 DEF Drawn
    <3>3. k.id < call[d].id /\ call[d].id \in Nat
      BY <1>1, <1>4, <3>2, CountedTyped DEF Later, Creating
    <3>4. Fresh(call[d], y)
      BY <2>2, <3>3 DEF Fresh, NoParent
    <3>5. Later(x, call[d].id)
      BY <2>7, <3>2, <3>3 DEF Later, Drawing, RootId
    <3>6. \A r \in nodes' : Fresh(call[d], r)
      BY <2>3, <3>2, <3>4
    <3>7. \A e \in Client \ {d} : Later(call'[e], call[d].id)
      BY <2>5, <3>2, <3>5
    <3>8. call'[d] = call[d]
      BY <2>5
    <3> QED
      BY <3>2, <3>6, <3>7, <3>8 DEF Drawn, Fresh, Linked
  <2>12. \A d \in Client \ {c} : call[d].pc \notin Drawing => Drawn(d)'
    BY <2>5 DEF Drawn
  <2>13. Drawn(c)'
    BY <2>5, <2>7 DEF Drawn, Creating, Drawing
  <2> QED
    BY <2>8, <2>9, <2>10, <2>11, <2>12, <2>13 DEF Numbered, AllDrawn
<1> QED
  BY <1>4, <1>5, <1>6, KindPut

-----------------------------------------------------------------------------
(***************************************************************************)
(* While no two creations have met, no path is lost, and a change of an    *)
(* attribute goes to the row of its path.                                  *)
(***************************************************************************)
LEMMA NoRival ==
  ASSUME ConstantsFit, TypeInv, Numbered, NEW c \in Client, WriteParent(c)
  PROVE  ~Rival(call[c])
<1>1. PICK k : k = call[c]
  OBVIOUS
<1>2. k.pc = "parent" /\ Drawn(c)
  BY <1>1 DEF WriteParent, At, Numbered, AllDrawn
<1>3. \A r \in nodes : r.id < k.id \/ (r.id = k.id /\ ~Linked(r))
  BY <1>1, <1>2 DEF Drawn, Drawing, Fresh
<1> QED
  BY <1>1, <1>3, CountedTyped DEF Rival, Linked

LEMMA OrderlyExtends ==
  ASSUME ConstantsFit, TypeInv, Numbered, [Next]_vars
  PROVE  Extends(nodes', nodes)
<1>1. CASE nodes' = nodes
  BY <1>1 DEF Extends
<1>2. CASE nodes' # nodes
  <2>1. PICK c \in Client : WriteNumber(c) \/ WriteParent(c) \/ WriteKind(c)
    BY <1>2, NodesWritten
  <2> QED
    BY <2>1, NoRival, WriteExtends
<1> QED
  BY <1>1, <1>2

(* The way of a path that exists, step by step as the helpers go it. *)
LEMMA WayGone ==
  ASSUME ConstantsFit, NEW p \in Path, UrlExists(nodes, p), NEW i \in 1 .. Len(p)
  PROVE  GetNodeId(nodes, p[i], Way(nodes, p)[i - 1]) = Way(nodes, p)[i]
<1>1. Len(p) \in Nat
  BY DEF Path
<1>2. Way(nodes, p)[i] # NoParent
  BY <1>1, FollowIsWay, WayWhole DEF UrlExists
<1>3. Way(nodes, p)[i] = Child(nodes, p[i], Way(nodes, p)[i - 1])
  BY WaySteps
<1> QED
  BY <1>2, <1>3 DEF Child

LEMMA OnItsWayKept ==
  ASSUME ConstantsFit, TypeInv, Extends(nodes', nodes), NEW k \in CallNow, OnItsWay(nodes, k)
  PROVE  OnItsWay(nodes', k)
<1> SUFFICES ASSUME k.pc \in Asking, k.existed PROVE OnItsWay(nodes', k)
  BY DEF OnItsWay
<1>1. k.path \in Path /\ Len(k.path) \in Nat /\ k.i \in 1 .. Len(k.path)
  BY CallFields DEF Asking
<1>2. UrlExists(nodes, k.path)
  BY DEF OnItsWay
<1>3. UrlExists(nodes', k.path)
  BY <1>1, <1>2, FoundKept DEF UrlExists
<1>4. \A i \in 0 .. Len(k.path) : Way(nodes', k.path)[i] = Way(nodes, k.path)[i]
  BY <1>1, <1>2, FollowIsWay, WayKept DEF UrlExists, TypeInv
<1>5. k.i - 1 \in 0 .. Len(k.path) /\ k.i \in 0 .. Len(k.path)
  BY <1>1
<1> QED
  BY <1>3, <1>4, <1>5 DEF OnItsWay

LEMMA CallsKeptOnTheirWay ==
  ASSUME ConstantsFit, TypeInv, Extends(nodes', nodes), CallsOnTheirWay,
         NEW c \in Client, NEW x, Goes(c, x), OnItsWay(nodes', x)
  PROVE  CallsOnTheirWay'
<1>1. call'[c] = x /\ \A d \in Client \ {c} : call'[d] = call[d]
  BY CallTyped
<1>2. \A d \in Client \ {c} : OnItsWay(nodes', call[d])
  BY OnItsWayKept DEF CallsOnTheirWay, TypeInv
<1> QED
  BY <1>1, <1>2 DEF CallsOnTheirWay

LEMMA ElseOnItsWay ==
  ASSUME NEW T, NEW x, x.pc \notin Asking
  PROVE  OnItsWay(T, x)
BY DEF OnItsWay

LEMMA PlainOnItsWay ==
  ASSUME NEW T, NEW x, Plain(x)
  PROVE  OnItsWay(T, x)
BY DEF Plain, OnItsWay, Asking

LEMMA ChangeAttributeOnItsWay ==
  ASSUME ConstantsFit, TypeInv, NEW c \in Client, NEW g \in {"set", "remove"}, NEW a \in Key,
         ChangeAttribute(c, g, a)
  PROVE  \E x : Goes(c, x) /\ OnItsWay(nodes, x) /\ x.pc = "climb"
<1>1. PICK p : p = object[c]
  OBVIOUS
<1>2. PICK x : /\ Goes(c, x)
               /\ x.pc = "climb" /\ x.path = p /\ x.i = 1 /\ x.parent = RootId
               /\ x.existed = UrlExists(nodes, p)
  BY <1>1, ChangeAttributeDoes
<1>3. p \in Path
  BY <1>1, ChangeAttributeDoes, TargetIs
<1>4. Way(nodes, p)[0] = RootId
  BY <1>3, WaySteps
<1>5. x.i - 1 = 0
  BY <1>2
<1>6. OnItsWay(nodes, x)
  BY <1>2, <1>4, <1>5 DEF OnItsWay
<1> QED
  BY <1>2, <1>6

LEMMA ClimbDownOnItsWay ==
  ASSUME ConstantsFit, TypeInv, CallsOnTheirWay, NEW c \in Client, ClimbDown(c)
  PROVE  \E x : Goes(c, x) /\ OnItsWay(nodes, x) /\ x.pc \notin Creating
<1>1. PICK k : k = call[c]
  OBVIOUS
<1>2. k \in CallNow /\ k.pc = "climb" /\ OnItsWay(nodes, k)
  BY <1>1 DEF ClimbDown, At, TypeInv, CallsOnTheirWay
<1>3. k.path \in Path /\ Len(k.path) \in Nat /\ k.i \in 1 .. Len(k.path)
  BY <1>2, CallFields
<1>4. CASE Goes(c, NoCall)
  BY <1>4, NoCallTyped, ElseOnItsWay DEF Asking, Creating
<1>5. ASSUME NEW x, Goes(c, x),
             x.path = k.path, x.existed = k.existed,
             x.up = k.parent, x.parent = GetNodeId(nodes, Component(k), k.parent),
             IsLast(k) => x.pc = "find" /\ x.i = k.i,
             ~IsLast(k) => x.pc = "climb" /\ x.i = k.i + 1
      PROVE  OnItsWay(nodes, x) /\ x.pc \notin Creating
  <2>1. x.pc \notin Creating
    BY <1>5 DEF Creating
  <2>2. ASSUME x.existed
        PROVE  OnItsWay(nodes, x)
    <3>1. UrlExists(nodes, k.path) /\ k.parent = Way(nodes, k.path)[k.i - 1]
      BY <1>2, <1>5, <2>2 DEF OnItsWay, Asking
    <3>2. x.parent = Way(nodes, k.path)[k.i]
      BY <1>3, <1>5, <3>1, WayGone DEF Component
    <3>3. CASE IsLast(k)
      <4>1. x.pc = "find" /\ x.i = k.i /\ IsLast(x)
        BY <1>5, <3>3 DEF IsLast
      <4> QED
        BY <1>5, <3>1, <4>1 DEF OnItsWay
    <3>4. CASE ~IsLast(k)
      <4>1. x.pc = "climb" /\ x.i - 1 = k.i
        BY <1>3, <1>5, <3>4
      <4> QED
        BY <1>5, <3>1, <3>2, <4>1 DEF OnItsWay
    <3> QED
      BY <3>3, <3>4
  <2> QED
    BY <2>1, <2>2 DEF OnItsWay
<1>6. \/ Goes(c, NoCall)
      \/ \E x : /\ Goes(c, x)
                /\ x.path = k.path /\ x.existed = k.existed
                /\ x.up = k.parent /\ x.parent = GetNodeId(nodes, Component(k), k.parent)
                /\ IsLast(k) => x.pc = "find" /\ x.i = k.i
                /\ ~IsLast(k) => x.pc = "climb" /\ x.i = k.i + 1
  BY <1>1, ClimbDownDoes
<1> QED
  BY <1>4, <1>5, <1>6

LEMMA FindRowOnItsWay ==
  ASSUME ConstantsFit, TypeInv, CallsOnTheirWay, NEW c \in Client, FindRow(c)
  PROVE  \E x : Goes(c, x) /\ OnItsWay(nodes, x) /\ x.pc = "write"
<1>1. PICK k : k = call[c]
  OBVIOUS
<1>2. k \in CallNow /\ k.pc = "find" /\ OnItsWay(nodes, k)
  BY <1>1 DEF FindRow, At, TypeInv, CallsOnTheirWay
<1>3. k.path \in Path /\ Len(k.path) \in Nat /\ k.i \in 1 .. Len(k.path)
  BY <1>2, CallFields
<1>4. PICK x : /\ Goes(c, x)
               /\ x.pc = "write" /\ x.path = k.path /\ x.i = k.i /\ x.existed = k.existed
               /\ x.id = GetNodeId(nodes, Component(k), k.up)
  BY <1>1, FindRowDoes
<1>5. ASSUME x.existed
      PROVE  OnItsWay(nodes, x)
  <2>1. UrlExists(nodes, k.path) /\ k.up = Way(nodes, k.path)[k.i - 1] /\ IsLast(k)
    BY <1>2, <1>4, <1>5 DEF OnItsWay, Asking
  <2>2. x.id = Way(nodes, k.path)[k.i]
    BY <1>3, <1>4, <2>1, WayGone DEF Component
  <2> QED
    BY <1>4, <2>1, <2>2 DEF OnItsWay, IsLast
<1>6. OnItsWay(nodes, x)
  BY <1>5 DEF OnItsWay
<1> QED
  BY <1>4, <1>6

LEMMA OwnCellsKept ==
  ASSUME ConstantsFit, TypeInv, Extends(nodes', nodes), OwnCells, UNCHANGED metadata
  PROVE  OwnCells'
<1>1. ASSUME NEW m \in metadata, m.existed
      PROVE  UrlExists(nodes', m.path) /\ m.name = Last(m.path) /\ m.id = Follow(nodes', m.path)
  <2>1. m.path \in Path
    BY TargetIs DEF TypeInv, Cell
  <2>2. UrlExists(nodes, m.path) /\ m.name = Last(m.path) /\ m.id = Follow(nodes, m.path)
    BY <1>1 DEF OwnCells
  <2>3. Follow(nodes', m.path) = Follow(nodes, m.path)
    BY <2>1, <2>2, FoundKept
  <2> QED
    BY <2>2, <2>3 DEF UrlExists
<1> QED
  BY <1>1 DEF OwnCells

LEMMA WriteAttributeOwn ==
  ASSUME ConstantsFit, TypeInv, CallsOnTheirWay, OwnCells, NEW c \in Client, WriteAttribute(c)
  PROVE  OwnCells'
<1>1. PICK k : k = call[c]
  OBVIOUS
<1>2. k \in CallNow /\ k.pc = "write" /\ OnItsWay(nodes, k) /\ UNCHANGED nodes
  BY <1>1 DEF WriteAttribute, At, TypeInv, CallsOnTheirWay
<1>3. ASSUME NEW m \in metadata', m.existed
      PROVE  UrlExists(nodes, m.path) /\ m.name = Last(m.path) /\ m.id = Follow(nodes, m.path)
  <2>1. CASE m \in metadata
    BY <1>3, <2>1 DEF OwnCells
  <2>2. CASE m.name = Component(k) /\ m.id = k.id /\ m.path = k.path /\ m.existed = k.existed
    <3>1. UrlExists(nodes, k.path) /\ IsLast(k) /\ k.id = Way(nodes, k.path)[k.i]
      BY <1>2, <1>3, <2>2 DEF OnItsWay, Asking
    <3>2. Component(k) = Last(k.path)
      BY <1>2, <3>1, CallFields
    <3>3. k.id = Follow(nodes, k.path)
      BY <3>1, FollowIsWay DEF IsLast
    <3> QED
      BY <2>2, <3>1, <3>2, <3>3
  <2> QED
    BY <1>1, <2>1, <2>2, WriteAttributeDoes
<1> QED
  BY <1>2, <1>3 DEF OwnCells, UrlExists

-----------------------------------------------------------------------------
(***************************************************************************)
(* The invariant.                                                          *)
(***************************************************************************)
LEMMA InitHbaseInv == ConstantsFit /\ Init => HbaseInv
<1> SUFFICES ASSUME ConstantsFit, Init PROVE HbaseInv
  OBVIOUS
<1>1. \A c \in Client : call[c].pc = "idle"
  BY DEF Init, NoCall
<1>2. nodes = {} /\ metadata = {}
  BY DEF Init
<1>3. Numbered
  BY <1>1, <1>2 DEF Numbered, RowsCounted, LinkedOnce, CallsCounted, Counted, AllDrawn, Drawn, Creating, Drawing
<1>4. CallsOnTheirWay /\ OwnCells
  BY <1>1, <1>2 DEF CallsOnTheirWay, OnItsWay, Asking, OwnCells
<1> QED
  BY <1>3, <1>4, InitTypeInv DEF HbaseInv

(* The call of a client after a step that changes no row. *)
LEMMA CallKeeps ==
  ASSUME ConstantsFit, TypeInv, Numbered, CallsOnTheirWay, OwnCells, NEW c \in Client, NEW x, Goes(c, x),
         UNCHANGED <<nodes, metadata>>, x.pc \notin Creating, OnItsWay(nodes, x)
  PROVE  Numbered' /\ CallsOnTheirWay' /\ OwnCells'
<1>1. Extends(nodes', nodes)
  BY DEF Extends
<1> QED
  BY <1>1, CallKeepsNumbered, CallsKeptOnTheirWay, OwnCellsKept

LEMMA ChangeKeeps ==
  ASSUME ConstantsFit, TypeInv, Numbered, CallsOnTheirWay, OwnCells, NEW c \in Client,
         Numbered', Extends(nodes', nodes), UNCHANGED metadata,
         NEW x, Goes(c, x), x.pc \notin Asking
  PROVE  Numbered' /\ CallsOnTheirWay' /\ OwnCells'
BY ElseOnItsWay, CallsKeptOnTheirWay, OwnCellsKept

LEMMA LooksKeep ==
  ASSUME ConstantsFit, TypeInv, Numbered, CallsOnTheirWay, OwnCells, NEW c \in Client, Looks(c)
  PROVE  Numbered' /\ CallsOnTheirWay' /\ OwnCells'
<1>1. PICK x : Goes(c, x) /\ Plain(x)
  BY LooksDo
<1>2. UNCHANGED <<nodes, metadata>>
  BY LooksDo
<1>3. x.pc \notin Asking
  BY <1>1 DEF Plain, Asking
<1>4. Extends(nodes', nodes)
  BY <1>2 DEF Extends
<1> QED
  BY <1>1, <1>2, <1>3, <1>4, PlainKeepsNumbered, ChangeKeeps

LEMMA NextOrderly ==
  ASSUME ConstantsFit, TypeInv, Numbered, CallsOnTheirWay, OwnCells, Next, ~raced'
  PROVE  Numbered' /\ CallsOnTheirWay' /\ OwnCells'
<1> DEFINE P == Numbered' /\ CallsOnTheirWay' /\ OwnCells'
<1>1. Extends(nodes', nodes)
  BY OrderlyExtends
<1>2. ASSUME NEW c \in Client, Looks(c)
      PROVE  P
  BY <1>2, LooksKeep
<1>3. ASSUME NEW c \in Client, CreateEntry(c)
      PROVE  P
  <2>1. \E x : Goes(c, x) /\ x.pc \notin Asking
    BY <1>3, CreateEntryDoes DEF Asking
  <2>2. UNCHANGED metadata /\ Numbered'
    BY <1>3, CreateEntryNumbered DEF CreateEntry
  <2> QED
    BY <1>1, <2>1, <2>2, ChangeKeeps
<1>4. ASSUME NEW c \in Client, FollowEntry(c)
      PROVE  P
  <2>1. \E x : Goes(c, x) /\ x.pc \notin Asking
    BY <1>4, FollowEntryDoes DEF Asking
  <2>2. UNCHANGED metadata /\ Numbered'
    BY <1>4, FollowEntryNumbered DEF FollowEntry
  <2> QED
    BY <1>1, <2>1, <2>2, ChangeKeeps
<1>5. ASSUME NEW c \in Client, CountRows(c)
      PROVE  P
  <2>1. \E x : Goes(c, x) /\ x.pc \notin Asking
    BY <1>5, CountRowsDoes DEF Asking
  <2>2. UNCHANGED metadata /\ Numbered'
    BY <1>5, CountRowsNumbered DEF CountRows
  <2> QED
    BY <1>1, <2>1, <2>2, ChangeKeeps
<1>6. ASSUME NEW c \in Client, WriteNumber(c)
      PROVE  P
  <2>1. \E x : Goes(c, x) /\ x.pc \notin Asking
    BY <1>6, WriteNumberDoes DEF Asking
  <2>2. UNCHANGED metadata /\ Numbered'
    BY <1>6, WriteNumberNumbered DEF WriteNumber
  <2> QED
    BY <1>1, <2>1, <2>2, ChangeKeeps
<1>7. ASSUME NEW c \in Client, WriteParent(c)
      PROVE  P
  <2>1. \E x : Goes(c, x) /\ x.pc \notin Asking
    BY <1>7, WriteParentDoes DEF Asking
  <2>2. UNCHANGED metadata /\ Numbered'
    BY <1>7, WriteParentNumbered DEF WriteParent
  <2> QED
    BY <1>1, <2>1, <2>2, ChangeKeeps
<1>8. ASSUME NEW c \in Client, WriteKind(c)
      PROVE  P
  <2>1. \E x : Goes(c, x) /\ x.pc \notin Asking
    BY <1>8, WriteKindDoes DEF Asking, Plain
  <2>2. UNCHANGED metadata /\ Numbered'
    BY <1>8, WriteKindNumbered DEF WriteKind
  <2> QED
    BY <1>1, <2>1, <2>2, ChangeKeeps
<1>9. ASSUME NEW c \in Client, NEW g \in {"set", "remove"}, NEW a \in Key, ChangeAttribute(c, g, a)
      PROVE  P
  <2>1. \E x : Goes(c, x) /\ OnItsWay(nodes, x) /\ x.pc \notin Creating
    BY <1>9, ChangeAttributeOnItsWay DEF Creating
  <2>2. UNCHANGED <<nodes, metadata>>
    BY <1>9 DEF ChangeAttribute
  <2> QED
    BY <2>1, <2>2, CallKeeps
<1>10. ASSUME NEW c \in Client, ClimbDown(c) \/ FindRow(c)
       PROVE  P
  <2>1. \E x : Goes(c, x) /\ OnItsWay(nodes, x) /\ x.pc \notin Creating
    BY <1>10, ClimbDownOnItsWay, FindRowOnItsWay DEF Creating
  <2>2. UNCHANGED <<nodes, metadata>>
    BY <1>10 DEF ClimbDown, FindRow
  <2> QED
    BY <2>1, <2>2, CallKeeps
<1>11. ASSUME NEW c \in Client, WriteAttribute(c)
       PROVE  P
  <2>1. Goes(c, NoCall) /\ NoCall.pc \notin Creating /\ NoCall.pc \notin Asking
    BY <1>11, WriteAttributeDoes, NoCallTyped DEF Creating, Asking
  <2>2. UNCHANGED nodes /\ OwnCells'
    BY <1>11, WriteAttributeOwn DEF WriteAttribute
  <2>3. Numbered'
    BY <2>1, <2>2, CallKeepsNumbered
  <2>4. CallsOnTheirWay'
    BY <1>1, <2>1, ElseOnItsWay, CallsKeptOnTheirWay
  <2> QED
    BY <2>2, <2>3, <2>4
<1> QED
  BY <1>2, <1>3, <1>4, <1>5, <1>6, <1>7, <1>8, <1>9, <1>10, <1>11 DEF Next, Looks

(* What has once met has met for good. *)
LEMMA RacedStays ==
  ASSUME TypeInv, [Next]_vars, ~raced'
  PROVE  ~raced
BY DEF TypeInv, Next, vars, Open, CheckEntry, Descend, CheckLast, CreateEntry, FollowEntry, CountRows,
   WriteNumber, WriteParent, WriteKind, ChangeAttribute, ClimbDown, FindRow, WriteAttribute, IOError

LEMMA NextHbaseInv ==
  ASSUME ConstantsFit, HbaseInv, [Next]_vars
  PROVE  HbaseInv'
<1>1. TypeInv /\ TypeInv'
  BY NextTypeInv DEF HbaseInv
<1>2. ASSUME ~raced'
      PROVE  Numbered' /\ CallsOnTheirWay' /\ OwnCells'
  <2>1. Numbered /\ CallsOnTheirWay /\ OwnCells
    BY <1>1, <1>2, RacedStays DEF HbaseInv
  <2>2. CASE Next
    BY <1>1, <1>2, <2>1, <2>2, NextOrderly
  <2>3. CASE UNCHANGED vars
    BY <2>1, <2>3 DEF vars, Numbered, RowsCounted, LinkedOnce, Linked, CallsCounted, Counted, AllDrawn, Drawn,
       Fresh, Later, CallsOnTheirWay, OnItsWay, OwnCells, UrlExists
  <2> QED
    BY <2>2, <2>3
<1> QED
  BY <1>1, <1>2 DEF HbaseInv

LEMMA OwnAttributesHold == HbaseInv => OwnAttributes
BY DEF HbaseInv, OwnCells, OwnAttributes

-----------------------------------------------------------------------------
(***************************************************************************)
(* What url_exists finds grows like a tree.                                *)
(***************************************************************************)
LEMMA FrontIs ==
  ASSUME NEW q \in Path, Len(q) # 0
  PROVE  /\ Front(q) \in Path /\ Len(Front(q)) = Len(q) - 1
         /\ \A i \in 1 .. Len(Front(q)) : Front(q)[i] = q[i]
         /\ q[Len(q)] \in Name /\ Len(q) \in 1 .. Len(q)
         /\ q = Append(Front(q), q[Len(q)])
<1>1. q \in Seq(Name) /\ Len(q) \in Nat \ {0} /\ Len(q) \in 1 .. Len(q)
  BY LenProperties DEF Path
<1>2. PICK f : f = SubSeq(q, 1, Len(q) - 1)
  OBVIOUS
<1>3. f \in Seq(Name) /\ Len(f) = Len(q) - 1 /\ \A i \in 1 .. Len(q) - 1 : f[i] = q[i]
  <2>1. PICK m \in Nat : m = Len(q) - 1
    BY <1>1
  <2>2. \A i \in 1 .. m : q[i] \in Name
    BY <1>1, <2>1
  <2>3. /\ f \in Seq(Name)
        /\ Len(f) = IF 1 <= m THEN m - 1 + 1 ELSE 0
        /\ \A i \in 1 .. m - 1 + 1 : f[i] = q[1 + i - 1]
    BY <1>2, <2>1, <2>2, SubSeqProperties
  <2>4. Len(f) = m /\ m - 1 + 1 = m
    BY <2>3
  <2>5. \A i \in 1 .. m : 1 + i - 1 = i
    OBVIOUS
  <2> QED
    BY <2>1, <2>3, <2>4, <2>5
<1>4. q[Len(q)] \in Name
  BY <1>1, ElementOfSeq
<1>5. q = Append(f, q[Len(q)])
  <2>1. PICK g : g = Append(f, q[Len(q)])
    OBVIOUS
  <2>2. /\ g \in Seq(Name) /\ Len(g) = Len(f) + 1
        /\ \A i \in 1 .. Len(f) : g[i] = f[i]
        /\ g[Len(f) + 1] = q[Len(q)]
    BY <1>3, <1>4, <2>1, AppendProperties
  <2>3. Len(g) = Len(q) /\ \A i \in 1 .. Len(q) : q[i] = g[i]
    BY <1>1, <1>3, <2>2
  <2>4. q = g
    BY <1>1, <2>2, <2>3, SeqEqual
  <2> QED
    BY <2>1, <2>4
<1> QED
  BY <1>1, <1>2, <1>3, <1>4, <1>5 DEF Front, Path

(* Where the way of a path goes is where that of the path above it goes. *)
LEMMA WayAbove ==
  ASSUME NEW T, NEW q \in Path, Len(q) # 0
  PROVE  /\ Follow(T, Front(q)) = Way(T, q)[Len(q) - 1]
         /\ Follow(T, q) = Child(T, q[Len(q)], Follow(T, Front(q)))
<1>1. PICK f : f = Front(q)
  OBVIOUS
<1>2. f \in Path /\ Len(f) = Len(q) - 1 /\ Len(q) \in 1 .. Len(q) /\ \A i \in 1 .. Len(f) : f[i] = q[i]
  BY <1>1, FrontIs
<1>3. Len(f) <= Len(q) /\ Len(f) \in 0 .. Len(f)
  BY <1>2 DEF Path
<1>4. Way(T, f)[Len(f)] = Way(T, q)[Len(f)]
  BY <1>2, <1>3, WayOfBeginning
<1>5. Way(T, q)[Len(q)] = Child(T, q[Len(q)], Way(T, q)[Len(q) - 1])
  BY <1>2, WaySteps
<1> QED
  BY <1>1, <1>2, <1>4, <1>5, FollowIsWay

(* A path that is found has a row, below what the path above it leads to. *)
LEMMA FoundRow ==
  ASSUME ConstantsFit, NEW T, Table(T), NEW q \in Path, Len(q) # 0, UrlExists(T, q)
  PROVE  /\ UrlExists(T, Front(q))
         /\ \E s \in T : /\ s.id = Follow(T, q) /\ s.name = q[Len(q)]
                         /\ s.parent = Follow(T, Front(q)) /\ Linked(s)
<1>1. PICK up : up = Follow(T, Front(q))
  OBVIOUS
<1>2. q[Len(q)] \in Name /\ Child(T, q[Len(q)], up) # NoParent /\ Follow(T, q) = Child(T, q[Len(q)], up)
  BY <1>1, FrontIs, WayAbove DEF UrlExists
<1>3. PICK n \in Name : n = q[Len(q)]
  BY <1>2
<1>4. up # NoParent /\ Below(T, n, up) # {}
  BY <1>2, <1>3, ChildOf
<1>5. PICK s : Eldest(T, n, up, s) /\ Child(T, n, up) = s.id
  BY <1>4, ChildOf
<1>6. s \in T /\ s.name = n /\ s.parent = up
  BY <1>5 DEF Eldest, Below
<1> QED
  BY <1>1, <1>2, <1>3, <1>4, <1>5, <1>6 DEF UrlExists, Linked

LEMMA EmptyFollow ==
  ASSUME NEW T, NEW q \in Path, Len(q) = 0
  PROVE  Follow(T, q) = RootId /\ q = <<>>
BY WaySteps, FollowIsWay, EmptySeq DEF Path

(* No two paths lead to one row: by the length of one of them. *)
LEMMA FollowInjective ==
  ASSUME ConstantsFit, TypeInv, LinkedOnce, NEW p1 \in Path, NEW p2 \in Path,
         UrlExists(nodes, p1), UrlExists(nodes, p2), Follow(nodes, p1) = Follow(nodes, p2)
  PROVE  p1 = p2
<1> DEFINE Same(p, q) == UrlExists(nodes, p) /\ UrlExists(nodes, q) /\ Follow(nodes, p) = Follow(nodes, q)
           Bad == {d \in Nat : \E p, q \in Path : Same(p, q) /\ p # q /\ Len(p) = d}
<1>1. Table(nodes)
  BY DEF TypeInv
<1>2. ASSUME NEW p \in Path, NEW q \in Path, Same(p, q), Len(p) = 0, Len(q) # 0
      PROVE  FALSE
  <2>1. Follow(nodes, p) = RootId
    BY <1>2, EmptyFollow
  <2>2. PICK s \in nodes : s.id = Follow(nodes, q) /\ Linked(s)
    BY <1>1, <1>2, FoundRow
  <2> QED
    BY <1>2, <2>1, <2>2 DEF LinkedOnce
<1>3. Bad = {}
  <2> SUFFICES ASSUME Bad # {} PROVE FALSE
    OBVIOUS
  <2>1. PICK d \in Bad : \A e \in Bad : d <= e
    BY LeastNat
  <2>2. PICK p \in Path, q \in Path : Same(p, q) /\ p # q /\ Len(p) = d
    BY <2>1
  <2>3. Len(p) # 0 /\ Len(q) # 0
    BY <1>2, <2>2, EmptyFollow
  <2>4. UrlExists(nodes, p) /\ UrlExists(nodes, q) /\ Follow(nodes, p) = Follow(nodes, q)
    BY <2>2
  <2>5. PICK s \in nodes : /\ s.id = Follow(nodes, p) /\ s.name = p[Len(p)]
                           /\ s.parent = Follow(nodes, Front(p)) /\ Linked(s)
    BY <1>1, <2>3, <2>4, FoundRow
  <2>6. PICK t \in nodes : /\ t.id = Follow(nodes, q) /\ t.name = q[Len(q)]
                           /\ t.parent = Follow(nodes, Front(q)) /\ Linked(t)
    BY <1>1, <2>3, <2>4, FoundRow
  <2>7. s = t
    BY <2>4, <2>5, <2>6 DEF LinkedOnce
  <2>8. Same(Front(p), Front(q))
    BY <1>1, <2>3, <2>4, <2>5, <2>6, <2>7, FoundRow
  <2>9. Front(p) # Front(q)
    BY <2>2, <2>3, <2>5, <2>6, <2>7, FrontIs
  <2>10. Front(p) \in Path /\ Front(q) \in Path /\ Len(Front(p)) = d - 1 /\ d \in Nat /\ d # 0
    BY <2>1, <2>2, <2>3, FrontIs
  <2>11. d - 1 \in Bad
    BY <2>8, <2>9, <2>10
  <2> QED
    BY <2>1, <2>10, <2>11
<1>4. Len(p1) \in Nat
  BY DEF Path
<1> QED
  BY <1>3, <1>4

SameChildren(U, T) == \A n \in Name, up \in 0 .. MaxRows : Child(U, n, up) = Child(T, n, up)

(* A child n, with this id, has come about below this parent. *)
OneChild(U, T, n, parent, id) ==
  \A m \in Name, up \in 0 .. MaxRows :
    \/ Child(U, m, up) = Child(T, m, up)
    \/ m = n /\ up = parent /\ Child(U, m, up) = id

LEMMA SameFound ==
  ASSUME ConstantsFit, TypeInv, TypeInv', SameChildren(nodes', nodes)
  PROVE  Found' = Found
<1>1. Extends(nodes', nodes) /\ Extends(nodes, nodes')
  BY DEF SameChildren, Extends
<1>2. Table(nodes')
  BY DEF TypeInv
<1>3. ASSUME NEW p \in Found'
      PROVE  p \in Found
  <2>1. p \in Places /\ UrlExists(nodes', p)
    BY DEF Found
  <2>2. p \in Path
    BY <2>1, PlacesArePaths
  <2>3. UrlExists(nodes, p)
    BY <1>1, <1>2, <2>1, <2>2, FollowKept DEF UrlExists
  <2> QED
    BY <2>1, <2>3 DEF Found
<1> QED
  BY <1>1, <1>3, FoundKept

(* The only write that links a row: its id leads to nothing else yet. *)
LEMMA ParentLinks ==
  ASSUME ConstantsFit, TypeInv, Numbered, NEW c \in Client, WriteParent(c),
         NEW k, k = call[c], NEW n, n = Component(k)
  PROVE  /\ n \in Name /\ k.id \in 0 .. MaxRows /\ k.parent \in 0 .. MaxRows
         /\ OneChild(nodes', nodes, n, k.parent, k.id)
         /\ \A m \in Name : Child(nodes', m, k.id) = NoParent
<1>1. n \in Name /\ k.id \in 0 .. MaxRows /\ k.parent \in 0 .. MaxRows
      /\ nodes' = PutParent(nodes, n, k.id, k.parent) /\ Table(nodes')
  BY WriteIs DEF WriteParent, At
<1>2. Table(nodes)
  BY DEF TypeInv
<1>3. k.pc = "parent" /\ Drawn(c)
  BY DEF WriteParent, At, Numbered, AllDrawn
<1>4. /\ k.parent < k.id
      /\ \A q \in nodes : q.parent < k.id
      /\ \A q \in nodes : q.id < k.id \/ (q.id = k.id /\ ~Linked(q))
  BY <1>3 DEF Drawn, Drawing, Fresh
<1>5. k.id \in Nat /\ k.parent \in Nat /\ k.id # NoParent /\ k.parent # NoParent
  BY <1>1 DEF ConstantsFit, NoParent
<1>6. CASE nodes' = nodes
  <2>1. \A m \in Name : Below(nodes, m, k.id) = {}
    BY <1>4, <1>5 DEF Below
  <2>2. \A m \in Name : Child(nodes, m, k.id) = NoParent
    BY <1>2, <2>1, ChildOf
  <2> QED
    BY <1>1, <1>6, <2>2 DEF OneChild
<1>7. ASSUME NEW r \in RowAt(nodes, n, k.id), NEW y, Swaps(nodes, nodes', r, y), y.parent = k.parent
      PROVE  /\ OneChild(nodes', nodes, n, k.parent, k.id)
             /\ \A m \in Name : Child(nodes', m, k.id) = NoParent
  <2>1. r \in nodes /\ r.name = n /\ r.id = k.id /\ r.parent = NoParent
        /\ y.name = n /\ y.id = k.id /\ nodes' = (nodes \ {r}) \cup {y}
    BY <1>4, <1>5, <1>7 DEF RowAt, Swaps, Linked
  <2>2. \A m \in Name, up \in 0 .. MaxRows :
          Below(nodes', m, up) = Below(nodes, m, up) \cup (IF m = n /\ up = k.parent THEN {y} ELSE {})
    BY <1>7, <2>1 DEF Below, NoParent
  <2>3. ASSUME NEW m \in Name
        PROVE  Child(nodes', m, k.id) = NoParent
    <3>1. Below(nodes, m, k.id) = {}
      BY <1>4, <1>5 DEF Below
    <3>2. k.parent # k.id
      BY <1>4, <1>5
    <3>3. Below(nodes', m, k.id) = {}
      BY <1>1, <2>2, <3>1, <3>2
    <3> QED
      BY <1>1, <3>3, ChildOf
  <2>4. ASSUME NEW m \in Name, NEW up \in 0 .. MaxRows, ~(m = n /\ up = k.parent)
        PROVE  Child(nodes', m, up) = Child(nodes, m, up)
    <3>1. Below(nodes', m, up) = Below(nodes, m, up) \cup (IF m = n /\ up = k.parent THEN {y} ELSE {})
      BY <2>2
    <3>2. Below(nodes', m, up) = Below(nodes, m, up)
      BY <2>4, <3>1
    <3> QED
      BY <1>1, <1>2, <3>2, ChildSame
  <2>5. CASE Child(nodes, n, k.parent) # NoParent
    <3>1. Extends(nodes', nodes)
      BY NoRival, WriteExtends
    <3>2. Child(nodes', n, k.parent) = Child(nodes, n, k.parent)
      BY <1>1, <2>5, <3>1 DEF Extends
    <3> QED
      BY <2>3, <2>4, <3>2 DEF OneChild
  <2>6. CASE Child(nodes, n, k.parent) = NoParent
    <3>1. Below(nodes, n, k.parent) = {}
      <4> SUFFICES ASSUME Below(nodes, n, k.parent) # {} PROVE FALSE
        OBVIOUS
      <4>1. PICK s : Eldest(nodes, n, k.parent, s) /\ Child(nodes, n, k.parent) = s.id
        BY <1>1, <1>2, <1>5, ChildOf
      <4>2. s.id \in Nat
        BY <4>1, CountedTyped DEF Eldest, Below
      <4> QED
        BY <2>6, <4>1, <4>2 DEF NoParent
    <3>2. Below(nodes', n, k.parent) = {y}
      BY <1>1, <2>2, <3>1
    <3>3. PICK s : Eldest(nodes', n, k.parent, s) /\ Child(nodes', n, k.parent) = s.id
      BY <1>1, <1>5, <3>2, ChildOf
    <3>4. s = y
      BY <3>2, <3>3 DEF Eldest
    <3>5. Child(nodes', n, k.parent) = k.id
      BY <2>1, <3>3, <3>4
    <3> QED
      BY <2>3, <2>4, <3>5 DEF OneChild
  <2> QED
    BY <2>5, <2>6
<1>8. \/ nodes' = nodes
      \/ \E r \in RowAt(nodes, n, k.id) : \E y : Swaps(nodes, nodes', r, y) /\ y.parent = k.parent
  BY <1>1, <1>2, ParentPut
<1> QED
  BY <1>1, <1>6, <1>7, <1>8

(* A path that a new child has made findable ends at that child. *)
LEMMA NewlyFound ==
  ASSUME ConstantsFit, NEW T, Table(T), NEW U, Table(U), NEW n, NEW parent, NEW id,
         id # NoParent, OneChild(U, T, n, parent, id), \A m \in Name : Child(U, m, id) = NoParent,
         NEW p \in Path, UrlExists(U, p), ~UrlExists(T, p)
  PROVE  Len(p) # 0 /\ p[Len(p)] = n /\ Follow(T, Front(p)) = parent
<1> DEFINE Off == {i \in 0 .. Len(p) : Way(U, p)[i] # Way(T, p)[i]}
<1>1. Len(p) \in Nat
  BY DEF Path
<1>2. Way(U, p)[Len(p)] # Way(T, p)[Len(p)] /\ Way(U, p)[Len(p)] # NoParent
  BY FollowIsWay DEF UrlExists
<1>3. PICK j \in Off : \A i \in Off : j <= i
  <2>1. Len(p) \in Off /\ Off \subseteq Nat
    BY <1>1, <1>2
  <2> QED
    BY <2>1, LeastNat
<1>4. j \in 1 .. Len(p)
  BY <1>1, <1>3, WaySteps
<1>5. PICK up : up = Way(U, p)[j - 1]
  OBVIOUS
<1>6. Way(T, p)[j - 1] = up
  <2>1. j - 1 \in 0 .. Len(p) /\ j - 1 \notin Off
    BY <1>1, <1>3, <1>4
  <2> QED
    BY <1>5, <2>1
<1>7. up \in 0 .. MaxRows
  <2>1. j - 1 \in 0 .. Len(p)
    BY <1>1, <1>4
  <2> QED
    BY <1>2, <1>5, <2>1, WayTyped, WayWhole
<1>8. PICK m \in Name : m = p[j]
  BY <1>4 DEF Path
<1>9. Way(U, p)[j] = Child(U, m, up) /\ Way(T, p)[j] = Child(T, m, up)
  BY <1>4, <1>5, <1>6, <1>8, WaySteps
<1>10. Way(U, p)[j] # Way(T, p)[j]
  BY <1>3
<1>11. m = n /\ up = parent /\ Way(U, p)[j] = id
  BY <1>7, <1>9, <1>10 DEF OneChild
<1>12. j = Len(p)
  <2> SUFFICES ASSUME j # Len(p) PROVE FALSE
    OBVIOUS
  <2>1. j + 1 \in 1 .. Len(p) /\ j + 1 - 1 = j /\ j + 1 \in 0 .. Len(p)
    BY <1>1, <1>4
  <2>2. p[j + 1] \in Name
    BY <2>1 DEF Path
  <2>3. Way(U, p)[j + 1] = Child(U, p[j + 1], id)
    BY <1>11, <2>1, WaySteps
  <2> QED
    BY <1>2, <2>1, <2>2, <2>3, WayWhole
<1>13. Len(p) # 0
  BY <1>4, <1>12
<1> QED
  BY <1>6, <1>8, <1>11, <1>12, <1>13, WayAbove

(* The path above a place is a place. *)
LEMMA PlaceAbove ==
  ASSUME ConstantsFit, NEW p \in Places, Len(p) # 0
  PROVE  Front(p) \in Places
<1>1. PICK q \in Target : \E i \in 0 .. Len(q) : p = SubSeq(q, 1, i)
  BY PlacesArePaths
<1>2. PICK i \in 0 .. Len(q) : p = SubSeq(q, 1, i)
  BY <1>1
<1>3. q \in Path /\ q \in Seq(Name) /\ Len(q) \in Nat
  BY TargetIs DEF Path
<1>4. ASSUME NEW h \in 0 .. Len(q)
      PROVE  /\ SubSeq(q, 1, h) \in Seq(Name)
             /\ Len(SubSeq(q, 1, h)) = h
             /\ \A e \in 1 .. h : SubSeq(q, 1, h)[e] = q[e]
  <2>1. \A e \in 1 .. h : q[e] \in Name
    BY <1>3
  <2>2. /\ SubSeq(q, 1, h) \in Seq(Name)
        /\ Len(SubSeq(q, 1, h)) = IF 1 <= h THEN h - 1 + 1 ELSE 0
        /\ \A e \in 1 .. h - 1 + 1 : SubSeq(q, 1, h)[e] = q[1 + e - 1]
    BY <1>3, <2>1, SubSeqProperties
  <2>3. h - 1 + 1 = h /\ \A e \in 1 .. h : 1 + e - 1 = e
    BY <1>3
  <2>4. (IF 1 <= h THEN h - 1 + 1 ELSE 0) = h
    BY <1>3
  <2> QED
    BY <2>2, <2>3, <2>4
<1>5. Len(p) = i /\ p \in Path /\ i - 1 \in 0 .. Len(q)
  BY <1>2, <1>3, <1>4 DEF Path
<1>6. PICK r : r = SubSeq(q, 1, i - 1)
  OBVIOUS
<1>7. r \in Seq(Name) /\ Len(r) = i - 1 /\ \A e \in 1 .. i - 1 : r[e] = q[e]
  BY <1>4, <1>5, <1>6
<1>8. PICK f : f = Front(p)
  OBVIOUS
<1>9. f \in Seq(Name) /\ Len(f) = i - 1 /\ \A e \in 1 .. Len(f) : f[e] = p[e]
  BY <1>5, <1>8, FrontIs DEF Path
<1>10. \A e \in 1 .. Len(f) : f[e] = r[e]
  <2>1. \A e \in 1 .. i : p[e] = q[e]
    BY <1>2, <1>4
  <2>2. \A e \in 1 .. i - 1 : e \in 1 .. i
    BY <1>2, <1>3
  <2> QED
    BY <1>7, <1>9, <2>1, <2>2
<1>11. f = r
  BY <1>7, <1>9, <1>10, SeqEqual
<1> QED
  BY <1>5, <1>6, <1>8, <1>11 DEF Places

LEMMA GrowsLikeTree ==
  ASSUME ConstantsFit, HbaseInv, [Next]_vars, nodes' # nodes, ~raced'
  PROVE  Found' = Found \/ \E p \in Found, n \in Name : Tree!Create(p, n)
<1>1. TypeInv /\ TypeInv' /\ Numbered
  BY NextTypeInv, RacedStays DEF HbaseInv
<1>2. Table(nodes) /\ Table(nodes')
  BY <1>1 DEF TypeInv
<1>3. ASSUME NEW c \in Client, WriteNumber(c) \/ WriteKind(c)
      PROVE  Found' = Found
  <2>1. PICK k : k = call[c]
    OBVIOUS
  <2>2. PICK n : n = Component(k)
    OBVIOUS
  <2>3. /\ n \in Name /\ k.id \in 0 .. MaxRows
        /\ nodes' = PutNumber(nodes, n, k.id) \/ nodes' = PutKind(nodes, n, k.id)
    BY <1>1, <1>3, <2>1, <2>2, WriteIs DEF WriteNumber, WriteKind, At
  <2>4. SameChildren(nodes', nodes)
    BY <1>2, <2>3, NumberExtends, KindExtends DEF SameChildren
  <2> QED
    BY <1>1, <2>4, SameFound
<1>4. ASSUME NEW c \in Client, WriteParent(c), Found' # Found
      PROVE  \E p \in Found, n \in Name : Tree!Create(p, n)
  <2>1. PICK k : k = call[c]
    OBVIOUS
  <2>2. PICK n : n = Component(k)
    OBVIOUS
  <2>3. /\ n \in Name /\ k.id \in 0 .. MaxRows /\ k.parent \in 0 .. MaxRows
        /\ OneChild(nodes', nodes, n, k.parent, k.id)
        /\ \A m \in Name : Child(nodes', m, k.id) = NoParent
    BY <1>1, <1>4, <2>1, <2>2, ParentLinks
  <2>4. k.id # NoParent /\ k.parent # NoParent
    BY <2>3 DEF ConstantsFit, NoParent
  <2>5. Found \subseteq Found'
    BY <1>1, OrderlyExtends, FoundKept
  <2>6. ASSUME NEW p \in Found' \ Found
        PROVE  /\ Front(p) \in Found /\ Front(p) \in Path /\ Follow(nodes, Front(p)) = k.parent
               /\ p = Append(Front(p), n)
    <3>1. p \in Places /\ UrlExists(nodes', p) /\ ~UrlExists(nodes, p)
      BY <2>6 DEF Found
    <3>2. p \in Path
      BY <3>1, PlacesArePaths
    <3>3. Len(p) # 0 /\ p[Len(p)] = n /\ Follow(nodes, Front(p)) = k.parent
      BY <1>2, <2>3, <2>4, <3>1, <3>2, NewlyFound
    <3>4. Front(p) \in Places /\ Front(p) \in Path /\ p = Append(Front(p), n)
      BY <3>1, <3>2, <3>3, PlaceAbove, FrontIs
    <3> QED
      BY <2>4, <3>3, <3>4 DEF Found, UrlExists
  <2>7. PICK p \in Found' \ Found : TRUE
    BY <1>4, <2>5
  <2>8. ASSUME NEW q \in Found' \ Found
        PROVE  q = p
    <3>1. UrlExists(nodes, Front(p)) /\ UrlExists(nodes, Front(q))
      BY <2>6, <2>7, <2>8 DEF Found
    <3>2. Front(p) = Front(q)
      BY <1>1, <2>6, <2>7, <2>8, <3>1, FollowInjective DEF Numbered
    <3> QED
      BY <2>6, <2>7, <2>8, <3>2
  <2>9. Found' = Found \cup {p}
    BY <2>5, <2>7, <2>8
  <2>10. p = Append(Front(p), n) /\ Front(p) \in Found
    BY <2>6, <2>7
  <2>11. Tree!Create(Front(p), n)
    BY <2>7, <2>9, <2>10 DEF Tree!Create
  <2> QED
    BY <2>3, <2>10, <2>11
<1> QED
  BY <1>3, <1>4, NodesWritten

-----------------------------------------------------------------------------
(* The invariant: every call keeps its types, and while no two creations   *)
(* have been under way together the ids are fresh in the right order, every *)
(* change of an attribute is on the way of its path, and every cell is in   *)
(* the row of its path. *)
THEOREM HbaseInvariant ==
  ASSUME ConstantsFit
  PROVE  Spec => []HbaseInv
BY InitHbaseInv, NextHbaseInv, PTL DEF Spec

(* Every variable ranges over what the columns and locals can hold, and no  *)
(* two rows have one key.                                                   *)
THEOREM HbaseTypeCorrect ==
  ASSUME ConstantsFit
  PROVE  Spec => []TypeOK
<1>1. HbaseInv => TypeOK
  BY TypeOKHolds DEF HbaseInv
<1> QED
  BY <1>1, HbaseInvariant, PTL

(* An attribute set through an object whose path existed is in the row of   *)
(* that path. *)
THEOREM AttributesAreOwn ==
  ASSUME ConstantsFit
  PROVE  Spec => []OwnAttributes
BY OwnAttributesHold, HbaseInvariant, PTL

(* A path that was found is lost only where a parent is written to a row    *)
(* that has one, or that is not the eldest of its name there. *)
THEOREM OnlyRivalsLosePaths ==
  ASSUME ConstantsFit
  PROVE  Spec => LostToRivalOnly
<1>1. TypeInv /\ [Next]_vars =>
        [nodes' # nodes => \A p \in Found \ Found' : \E c \in Client :
           LET k == call[c] IN
           /\ WriteParent(c)
           /\ \E r \in nodes :
                /\ r.name = Component(k)
                /\ \/ r.id = k.id /\ r.parent # NoParent
                   \/ r.id > k.id /\ r.parent = k.parent]_nodes
  BY LostToRival DEF Rival
<1>2. HbaseInv => TypeInv
  BY DEF HbaseInv
<1> QED
  BY <1>1, <1>2, HbaseInvariant, PTL DEF Spec, LostToRivalOnly

(* What url_exists finds grows like the tree of a service: by one path below *)
(* one that is found.                                                        *)
THEOREM FoundIsNamespace ==
  ASSUME ConstantsFit
  PROVE  Spec => ActsAsNamespace
<1>1. HbaseInv /\ [Next]_vars =>
        [nodes' # nodes /\ ~raced' =>
           Found' = Found \/ \E p \in Found, n \in Name : Tree!Create(p, n)]_nodes
  BY GrowsLikeTree
<1> QED
  BY <1>1, HbaseInvariant, PTL DEF Spec, ActsAsNamespace
=============================================================================
