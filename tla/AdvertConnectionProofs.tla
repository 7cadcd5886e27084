----------------------- MODULE AdvertConnectionProofs -----------------------
(***************************************************************************)
(* Theorems about AdvertConnection, for any numbers of documents, contents,*)
(* subscriptions and commands.                                             *)
(***************************************************************************)
EXTENDS AdvertConnection, FiniteSetTheorems, SequenceTheorems, TLAPS

-----------------------------------------------------------------------------
(***************************************************************************)
(* The inductive invariant, in named parts.                                *)
(***************************************************************************)
Notice  == [id : Id, type : {"updated", "removed"}]
Command == [id : Id, type : {"sub", "unsub"}]

(* Notices that have left the document but not reached read_handler. *)
Notices == ToSet(queue) \cup ToSet(inbox)

(* An id the server has given to a document. *)
Given(i) == i \in Id /\ version[i] # 0

Places == {"idle", "open", "exists", "create", "created", "opened", "check", "get", "got",
           "set", "saving", "written", "unanswered", "remove", "removed"}

ServerTypes ==
  /\ current \in Id \cup {NoId}
  /\ version \in [Id -> 0 .. MaxVersion]
  /\ doomed \subseteq Id
  /\ queue \in Seq(Notice)

ReaderTypes ==
  /\ inbox \in Seq(Notice)
  /\ polled \subseteq {"message", "command"}
  /\ subs \in [Id -> Nat]
  /\ missed \subseteq Id

ConnectionTypes ==
  /\ idMap \in Id \cup {NoId}
  /\ DOMAIN updateMap \subseteq Id
  /\ updateMap \in [DOMAIN updateMap -> BOOLEAN]
  /\ nodeMap \in [id : Id \cup {NoId}, version : 0 .. MaxVersion]
  /\ pair \in Seq(Command)

ThreadTypes ==
  /\ pc \in Places
  /\ mode \in Modes
  /\ object \in {"none", "open", "closed"}

Types == ServerTypes /\ ReaderTypes /\ ConnectionTypes /\ ThreadTypes

(* Documents get the ids 1, 2, 3, ... and whoever holds an id holds one     *)
(* that was given.                                                         *)
IdsInOrder == \E n \in 0 .. MaxId : {i \in Id : version[i] # 0} = 1 .. n

IdsGiven ==
  /\ current # NoId => Given(current)
  /\ idMap # NoId => Given(idMap)
  /\ pc \in {"created", "opened"} => reply = NoId \/ Given(reply)
  /\ pc \in {"saving", "written"} => Given(reply)

(* What a call has made sure of before it got where it is. *)
CallsSound ==
  /\ pc \in {"exists", "create"} => Created < MaxId
  /\ pc = "set" /\ current # NoId => version[current] < MaxVersion
  /\ pc = "saving" /\ current = reply => version[reply] < MaxVersion
  /\ pc = "got" => reply \in 0 .. MaxVersion
  /\ object # "none" => idMap # NoId
  /\ pc \in {"get", "got", "set", "remove", "removed"} => object # "none"

(* What a poll has found is still there when it is read. *)
PollSound ==
  /\ "message" \in polled => inbox # <<>>
  /\ "command" \in polled => pair # <<>>

(* The flag of an open node that is there says so, or a notice is coming,   *)
(* or what is in the cache (in the answer, while one is being used) is the  *)
(* content of the document.                                                *)
CacheSound ==
  Known(idMap) /\ ~updateMap[idMap] /\ current = idMap /\ pc # "get" =>
    \/ IF pc = "got" THEN reply = version[idMap]
                     ELSE nodeMap = [id |-> idMap, version |-> version[idMap]]
    \/ idMap \in missed
    \/ [id |-> idMap, type |-> "updated"] \in Notices

ConnInv == Types /\ IdsInOrder /\ IdsGiven /\ CallsSound /\ PollSound /\ CacheSound

-----------------------------------------------------------------------------
(***************************************************************************)
(* What is in a sequence after it was changed.                             *)
(***************************************************************************)
LEMMA Appended ==
  ASSUME NEW S, NEW s \in Seq(S), NEW x \in S
  PROVE  /\ Append(s, x) \in Seq(S)
         /\ Append(s, x) # <<>>
         /\ ToSet(Append(s, x)) = ToSet(s) \cup {x}
<1> DEFINE t == Append(s, x)
<1>1. t \in Seq(S) /\ Len(t) = Len(s) + 1 /\ Len(s) \in Nat
  OBVIOUS
<1>2. \A n \in 1 .. Len(s) : t[n] = s[n]
  OBVIOUS
<1>3. t[Len(s) + 1] = x
  OBVIOUS
<1>4. DOMAIN t = 1 .. Len(s) + 1 /\ DOMAIN s = 1 .. Len(s)
  BY <1>1
<1> HIDE DEF t
<1>5. ToSet(t) = ToSet(s) \cup {x}
  BY <1>1, <1>2, <1>3, <1>4 DEF ToSet
<1>6. t # <<>>
  BY <1>1
<1> QED
  BY <1>1, <1>5, <1>6 DEF t

LEMMA Joined ==
  ASSUME NEW S, NEW s \in Seq(S), NEW u \in Seq(S)
  PROVE  /\ s \o u \in Seq(S)
         /\ ToSet(s \o u) = ToSet(s) \cup ToSet(u)
         /\ u # <<>> => s \o u # <<>>
<1> DEFINE t == s \o u
<1>1. t \in Seq(S) /\ Len(t) = Len(s) + Len(u) /\ Len(s) \in Nat /\ Len(u) \in Nat
  OBVIOUS
<1>2. \A n \in 1 .. Len(s) : t[n] = s[n]
  OBVIOUS
<1>3. \A n \in 1 .. Len(u) : t[Len(s) + n] = u[n]
  OBVIOUS
<1>4. DOMAIN t = 1 .. Len(s) + Len(u) /\ DOMAIN s = 1 .. Len(s) /\ DOMAIN u = 1 .. Len(u)
  BY <1>1
<1> HIDE DEF t
<1>5. ToSet(t) \subseteq ToSet(s) \cup ToSet(u)
  <2> SUFFICES ASSUME NEW n \in 1 .. Len(s) + Len(u)
               PROVE  t[n] \in ToSet(s) \cup ToSet(u)
    BY <1>4 DEF ToSet
  <2>1. CASE n <= Len(s)
    BY <1>1, <1>2, <1>4, <2>1 DEF ToSet
  <2>2. CASE n > Len(s)
    <3>1. n - Len(s) \in 1 .. Len(u) /\ Len(s) + (n - Len(s)) = n
      BY <1>1, <2>2
    <3> QED
      BY <1>3, <1>4, <3>1 DEF ToSet
  <2> QED
    BY <1>1, <2>1, <2>2
<1>6. ToSet(s) \subseteq ToSet(t)
  BY <1>1, <1>2, <1>4 DEF ToSet
<1>7. ToSet(u) \subseteq ToSet(t)
  <2>1. \A n \in 1 .. Len(u) : Len(s) + n \in 1 .. Len(s) + Len(u)
    BY <1>1
  <2> QED
    BY <1>3, <1>4, <2>1 DEF ToSet
<1>8. u # <<>> => t # <<>>
  <2> SUFFICES ASSUME u # <<>> PROVE t # <<>>
    OBVIOUS
  <2>1. Len(u) # 0
    OBVIOUS
  <2> QED
    BY <1>1, <2>1
<1> QED
  BY <1>1, <1>5, <1>6, <1>7, <1>8 DEF t

LEMMA Taken ==
  ASSUME NEW S, NEW s \in Seq(S), s # <<>>
  PROVE  /\ Head(s) \in S
         /\ Tail(s) \in Seq(S)
         /\ \A x \in ToSet(s) : x # Head(s) => x \in ToSet(Tail(s))
<1> DEFINE t == Tail(s)
<1>1. Len(s) \in Nat \ {0} /\ t \in Seq(S) /\ Len(t) = Len(s) - 1 /\ Head(s) = s[1] /\ Head(s) \in S
  OBVIOUS
<1>2. \A n \in 1 .. Len(t) : t[n] = s[n + 1]
  OBVIOUS
<1>3. DOMAIN s = 1 .. Len(s) /\ DOMAIN t = 1 .. Len(t)
  BY <1>1
<1> HIDE DEF t
<1>4. ASSUME NEW n \in 1 .. Len(s), n # 1
      PROVE  s[n] \in ToSet(t)
  <2>1. n - 1 \in 1 .. Len(t) /\ (n - 1) + 1 = n
    BY <1>1, <1>4
  <2> QED
    BY <1>2, <1>3, <2>1 DEF ToSet
<1>5. \A x \in ToSet(s) : x # Head(s) => x \in ToSet(t)
  BY <1>1, <1>3, <1>4 DEF ToSet
<1> QED
  BY <1>1, <1>5 DEF t

-----------------------------------------------------------------------------
(***************************************************************************)
(* The server's steps.                                                     *)
(***************************************************************************)

(* messageQueue holds one message for the id of an announcement.           *)
LEMMA Announced ==
  ASSUME queue \in Seq(Notice), NEW i \in Id, NEW type \in {"updated", "removed"},
         Announce(i, type)
  PROVE  /\ queue' \in Seq(Notice)
         /\ ToSet(queue') = {x \in ToSet(queue) : x.id # i} \cup {[id |-> i, type |-> type]}
<1>0. PICK m : m = [id |-> i, type |-> type]
  OBVIOUS
<1>1. m \in Notice /\ m.id = i
  BY <1>0 DEF Notice
<1>2. DOMAIN queue = 1 .. Len(queue) /\ Len(queue) \in Nat
  OBVIOUS
<1>3. queue' = IF \E n \in DOMAIN queue : queue[n].id = i
               THEN [n \in DOMAIN queue |-> IF queue[n].id = i THEN m ELSE queue[n]]
               ELSE Append(queue, m)
  BY <1>0 DEF Announce
<1>4. CASE \E n \in DOMAIN queue : queue[n].id = i
  <2>1. queue' = [n \in 1 .. Len(queue) |-> IF queue[n].id = i THEN m ELSE queue[n]]
    BY <1>2, <1>3, <1>4
  <2>2. \A n \in 1 .. Len(queue) : queue[n] \in Notice
    OBVIOUS
  <2>3. queue' \in [1 .. Len(queue) -> Notice]
    BY <1>1, <2>1, <2>2
  <2>4. queue' \in Seq(Notice)
    BY <1>2, <2>3
  <2>5. \A n \in 1 .. Len(queue) : queue'[n] = IF queue[n].id = i THEN m ELSE queue[n]
    BY <2>1
  <2>6. DOMAIN queue' = 1 .. Len(queue)
    BY <2>3
  <2>7. ToSet(queue') = {x \in ToSet(queue) : x.id # i} \cup {m}
    BY <1>2, <1>4, <2>5, <2>6 DEF ToSet
  <2> QED
    BY <1>0, <2>4, <2>7
<1>5. CASE ~\E n \in DOMAIN queue : queue[n].id = i
  <2>1. queue' = Append(queue, m)
    BY <1>3, <1>5
  <2>2. queue' \in Seq(Notice) /\ ToSet(queue') = ToSet(queue) \cup {m}
    BY <1>1, <2>1, Appended
  <2>3. ToSet(queue) = {x \in ToSet(queue) : x.id # i}
    BY <1>5 DEF ToSet
  <2> QED
    BY <1>0, <2>2, <2>3
<1> QED
  BY <1>4, <1>5

(* The number of documents created, and how a new one changes it.          *)
LEMMA CreatedCount ==
  ASSUME NEW n \in 0 .. MaxId, {i \in Id : version[i] # 0} = 1 .. n
  PROVE  Created = n
<1>1. n \in Nat
  BY AdvertConnectionAssumption
<1>2. Cardinality(1 .. n) = n
  <2>1. 1 \in Int /\ n \in Int
    BY <1>1
  <2>2. Cardinality(1 .. n) = IF 1 > n THEN 0 ELSE n - 1 + 1
    BY <2>1, FS_Interval
  <2> QED
    BY <1>1, <2>2
<1> QED
  BY <1>2 DEF Created

LEMMA NewDocument ==
  ASSUME ServerTypes, IdsInOrder, Created < MaxId, PutNew
  PROVE  /\ current' \in Id
         /\ version' \in [Id -> 0 .. MaxVersion]
         /\ version[current'] = 0
         /\ version'[current'] = 1
         /\ \A i \in Id : i # current' => version'[i] = version[i]
         /\ IdsInOrder'
         /\ Created \in Nat /\ Created' = Created + 1
<1>1. PICK n \in 0 .. MaxId : {i \in Id : version[i] # 0} = 1 .. n
  BY DEF IdsInOrder
<1>2. Created = n
  BY <1>1, CreatedCount
<1>3. MaxId \in Nat /\ MaxVersion \in Nat /\ MaxVersion > 1 /\ n \in Nat /\ n < MaxId
  BY <1>2, AdvertConnectionAssumption
<1>4. current' = n + 1 /\ version' = [version EXCEPT ![n + 1] = 1]
  BY <1>2 DEF PutNew
<1>5. n + 1 \in Id /\ n + 1 \in 0 .. MaxId
  BY <1>3 DEF Id
<1>6. version[n + 1] = 0
  BY <1>1, <1>3, <1>5 DEF ServerTypes
<1>7. /\ version' \in [Id -> 0 .. MaxVersion]
      /\ version'[n + 1] = 1
      /\ \A i \in Id : i # n + 1 => version'[i] = version[i]
  BY <1>3, <1>4, <1>5 DEF ServerTypes
<1>8. {i \in Id : version'[i] # 0} = 1 .. n + 1
  <2>1. {i \in Id : version'[i] # 0} = {i \in Id : version[i] # 0} \cup {n + 1}
    BY <1>5, <1>7
  <2>2. (1 .. n) \cup {n + 1} = 1 .. n + 1
    BY <1>3
  <2> QED
    BY <1>1, <2>1, <2>2
<1>9. IdsInOrder'
  BY <1>5, <1>8 DEF IdsInOrder
<1>10. Created' = n + 1
  <2>1. Cardinality(1 .. n + 1) = n + 1
    <3>1. 1 \in Int /\ n + 1 \in Int
      BY <1>3
    <3>2. Cardinality(1 .. n + 1) = IF 1 > n + 1 THEN 0 ELSE (n + 1) - 1 + 1
      BY <3>1, FS_Interval
    <3> QED
      BY <1>3, <3>2
  <2> QED
    BY <1>8, <2>1 DEF Created
<1> QED
  BY <1>2, <1>3, <1>4, <1>5, <1>6, <1>7, <1>9, <1>10

(* Writing a document makes no new one.                                    *)
LEMMA DocumentWritten ==
  ASSUME ServerTypes, IdsInOrder, NEW d, Given(d), version[d] < MaxVersion,
         version' = [version EXCEPT ![d] = @ + 1]
  PROVE  /\ version' \in [Id -> 0 .. MaxVersion]
         /\ version'[d] = version[d] + 1
         /\ \A i \in Id : i # d => version'[i] = version[i]
         /\ \A i \in Id : version'[i] # 0 <=> version[i] # 0
         /\ IdsInOrder' /\ Created' = Created
<1>1. d \in Id /\ version[d] \in Nat /\ version[d] # 0 /\ MaxVersion \in Nat
  BY AdvertConnectionAssumption DEF Given, ServerTypes
<1>2. /\ version' \in [Id -> 0 .. MaxVersion]
      /\ version'[d] = version[d] + 1
      /\ \A i \in Id : i # d => version'[i] = version[i]
  BY <1>1 DEF ServerTypes
<1>3. \A i \in Id : version'[i] # 0 <=> version[i] # 0
  BY <1>1, <1>2
<1>4. {i \in Id : version'[i] # 0} = {i \in Id : version[i] # 0}
  BY <1>3
<1> QED
  BY <1>2, <1>3, <1>4 DEF IdsInOrder, Created

-----------------------------------------------------------------------------
(***************************************************************************)
(* Every step keeps the invariant.                                         *)
(***************************************************************************)
LEMMA InitInv ==
  ASSUME Init
  PROVE  ConnInv
<1>0. MaxId \in Nat \ {0} /\ MaxVersion \in Nat
  BY AdvertConnectionAssumption
<1>1. Types
  <2>1. ServerTypes
    BY <1>0 DEF Init, ServerTypes, NoId
  <2>2. ReaderTypes
    BY DEF Init, ReaderTypes
  <2>3. ConnectionTypes
    BY <1>0 DEF Init, ConnectionTypes, NoId, Null
  <2>4. ThreadTypes
    BY DEF Init, ThreadTypes, Places, Modes
  <2> QED
    BY <2>1, <2>2, <2>3, <2>4 DEF Types
<1>2. IdsInOrder
  <2>1. {i \in Id : version[i] # 0} = {}
    BY DEF Init
  <2>2. 1 .. 0 = {} /\ 0 \in 0 .. MaxId
    BY <1>0
  <2> QED
    BY <2>1, <2>2 DEF IdsInOrder
<1>3. IdsGiven /\ CallsSound /\ PollSound /\ CacheSound
  BY DEF Init, IdsGiven, CallsSound, PollSound, CacheSound, Known
<1> QED
  BY <1>1, <1>2, <1>3 DEF ConnInv

(* A step of the application thread that touches nothing else.             *)
LEMMA ThreadSteps ==
  ASSUME ConnInv, UNCHANGED <<server, reader, connection, missed>>,
         ThreadTypes', IdsGiven', CallsSound', CacheSound'
  PROVE  ConnInv'
<1>1. Types'
  BY DEF ConnInv, Types, server, reader, connection, ServerTypes, ReaderTypes, ConnectionTypes
<1>2. IdsInOrder' /\ PollSound'
  BY DEF ConnInv, server, reader, connection, IdsInOrder, PollSound
<1> QED
  BY <1>1, <1>2 DEF ConnInv

LEMMA ServesKeep ==
  ASSUME ConnInv, ServeExists \/ ServeOpen \/ ServeGet \/ ServeSet
  PROVE  ConnInv'
<1>0. UNCHANGED <<server, reader, connection, missed>> /\ UNCHANGED <<mode, object>>
  BY DEF ServeExists, ServeOpen, ServeGet, ServeSet
<1>1. UNCHANGED <<current, version, idMap, updateMap, nodeMap, missed, Notices, Created>>
  BY <1>0 DEF server, reader, connection, Notices, Created
<1>2. CASE ServeExists
  <2>1. ThreadTypes'
    BY <1>2 DEF ServeExists, Goto, ConnInv, Types, ThreadTypes, Places
  <2>2. IdsGiven'
    BY <1>1, <1>2 DEF ServeExists, Goto, ConnInv, IdsGiven, Given
  <2>3. CallsSound'
    BY <1>1, <1>2 DEF ServeExists, Goto, ConnInv, CallsSound
  <2>4. CacheSound'
    BY <1>1, <1>2 DEF ServeExists, Goto, ConnInv, CacheSound, Known
  <2> QED
    BY <1>0, <2>1, <2>2, <2>3, <2>4, ThreadSteps
<1>3. CASE ServeOpen
  <2>1. ThreadTypes'
    BY <1>3 DEF ServeOpen, Goto, ConnInv, Types, ThreadTypes, Places
  <2>2. IdsGiven'
    BY <1>1, <1>3 DEF ServeOpen, Goto, ConnInv, IdsGiven, Given
  <2>3. CallsSound'
    BY <1>1, <1>3 DEF ServeOpen, Goto, ConnInv, CallsSound
  <2>4. CacheSound'
    BY <1>1, <1>3 DEF ServeOpen, Goto, ConnInv, CacheSound, Known
  <2> QED
    BY <1>0, <2>1, <2>2, <2>3, <2>4, ThreadSteps
<1>4. CASE ServeGet
  <2>1. ThreadTypes'
    BY <1>4 DEF ServeGet, Goto, ConnInv, Types, ThreadTypes, Places
  <2>2. IdsGiven'
    BY <1>1, <1>4 DEF ServeGet, Goto, ConnInv, IdsGiven, Given
  <2>3. CallsSound'
    <3>1. reply' \in 0 .. MaxVersion
      BY <1>4, AdvertConnectionAssumption
         DEF ServeGet, ConnInv, Types, ServerTypes, IdsGiven, Given, CallsSound
    <3> QED
      BY <1>1, <1>4, <3>1 DEF ServeGet, Goto, ConnInv, CallsSound
  <2>4. CacheSound'
    BY <1>1, <1>4 DEF ServeGet, Goto, CacheSound
  <2> QED
    BY <1>0, <2>1, <2>2, <2>3, <2>4, ThreadSteps
<1>5. CASE ServeSet
  <2>1. ThreadTypes'
    BY <1>5 DEF ServeSet, Goto, ConnInv, Types, ThreadTypes, Places
  <2>2. IdsGiven'
    BY <1>1, <1>5 DEF ServeSet, Goto, ConnInv, IdsGiven, Given
  <2>3. CallsSound'
    BY <1>1, <1>5 DEF ServeSet, Goto, ConnInv, CallsSound
  <2>4. CacheSound'
    BY <1>1, <1>5 DEF ServeSet, Goto, ConnInv, CacheSound, Known
  <2> QED
    BY <1>0, <2>1, <2>2, <2>3, <2>4, ThreadSteps
<1> QED
  BY <1>2, <1>3, <1>4, <1>5

(* Calls that send nothing to the reader and leave the maps alone.         *)
LEMMA CallsKeep ==
  ASSUME ConnInv,
         \/ \E m \in Modes, exclusive \in BOOLEAN : Construct(m, exclusive)
         \/ Refuse \/ GetCached \/ GetState \/ Set \/ RemoveDirectory
  PROVE  ConnInv'
<1>0. UNCHANGED <<server, reader, connection, missed, reply>>
  BY DEF Construct, Refuse, GetCached, GetState, Set, RemoveDirectory
<1>1. UNCHANGED <<current, version, idMap, updateMap, nodeMap, missed, Notices, Created>>
  BY <1>0 DEF server, reader, connection, Notices, Created
<1>2. Known(idMap) => idMap # NoId
  BY DEF Known, ConnInv, Types, ConnectionTypes, Id, NoId
<1>3. ASSUME NEW m \in Modes, NEW exclusive \in BOOLEAN, Construct(m, exclusive)
      PROVE  ConnInv'
  <2>1. ThreadTypes'
    BY <1>3 DEF Construct, Goto, ConnInv, Types, ThreadTypes, Places
  <2>2. IdsGiven'
    BY <1>0, <1>1, <1>3 DEF Construct, Goto, ConnInv, IdsGiven, Given
  <2>3. CallsSound'
    BY <1>0, <1>1, <1>3 DEF Construct, Goto, ConnInv, CallsSound
  <2>4. CacheSound'
    BY <1>0, <1>1, <1>3 DEF Construct, CanCall, Goto, ConnInv, CacheSound, Known
  <2> QED
    BY <1>0, <2>1, <2>2, <2>3, <2>4, ThreadSteps
<1>4. CASE Refuse \/ GetCached
  <2>1. ThreadTypes'
    BY <1>4 DEF Refuse, GetCached, ConnInv, Types, ThreadTypes
  <2>2. IdsGiven'
    BY <1>0, <1>1, <1>4 DEF Refuse, GetCached, ConnInv, IdsGiven, Given
  <2>3. CallsSound'
    BY <1>0, <1>1, <1>4 DEF Refuse, GetCached, CanUse, ConnInv, CallsSound
  <2>4. CacheSound'
    BY <1>0, <1>1, <1>4 DEF Refuse, GetCached, ConnInv, CacheSound, Known
  <2> QED
    BY <1>0, <2>1, <2>2, <2>3, <2>4, ThreadSteps
<1>5. CASE GetState
  <2>1. ThreadTypes'
    BY <1>5 DEF GetState, Goto, ConnInv, Types, ThreadTypes, Places
  <2>2. IdsGiven'
    BY <1>0, <1>1, <1>5 DEF GetState, Goto, ConnInv, IdsGiven, Given
  <2>3. CallsSound'
    BY <1>0, <1>1, <1>2, <1>5 DEF GetState, Goto, ConnInv, CallsSound
  <2>4. CacheSound'
    BY <1>0, <1>1, <1>5 DEF GetState, Goto, ConnInv, CacheSound, Known
  <2> QED
    BY <1>0, <2>1, <2>2, <2>3, <2>4, ThreadSteps
<1>6. CASE Set \/ RemoveDirectory
  <2>1. ThreadTypes'
    BY <1>6 DEF Set, RemoveDirectory, Goto, ConnInv, Types, ThreadTypes, Places
  <2>2. IdsGiven'
    BY <1>0, <1>1, <1>6 DEF Set, RemoveDirectory, Goto, ConnInv, IdsGiven, Given
  <2>3. CallsSound'
    BY <1>0, <1>1, <1>2, <1>6 DEF Set, RemoveDirectory, Goto, ConnInv, CallsSound
  <2>4. CacheSound'
    BY <1>0, <1>1, <1>6 DEF Set, RemoveDirectory, CanUse, CanCall, Goto, ConnInv, CacheSound, Known
  <2> QED
    BY <1>0, <2>1, <2>2, <2>3, <2>4, ThreadSteps
<1> QED
  BY <1>3, <1>4, <1>5, <1>6

(* What a new document does: its id is nobody's yet.                       *)
LEMMA NewKeeps ==
  ASSUME ConnInv, PutNew, Created < MaxId, current = NoId,
         UNCHANGED <<doomed, queue, reader, connection, missed>>, ThreadTypes',
         object' = object, pc' = "get" <=> pc = "get",
         pc' # pc => pc = "create" /\ pc' = "created" /\ reply' = current',
         pc' = pc => reply' = reply,
         pc' \in {"exists", "create"} => Created + 1 < MaxId,
         pc # "saving"
  PROVE  ConnInv'
<1>1. /\ current' \in Id
      /\ version' \in [Id -> 0 .. MaxVersion]
      /\ version[current'] = 0
      /\ version'[current'] = 1
      /\ \A i \in Id : i # current' => version'[i] = version[i]
      /\ IdsInOrder'
      /\ Created \in Nat /\ Created' = Created + 1
  BY NewDocument DEF ConnInv, Types
<1>2. Types'
  BY <1>1 DEF ConnInv, Types, ServerTypes, ReaderTypes, ConnectionTypes, reader, connection
<1>3. UNCHANGED <<idMap, updateMap, nodeMap, polled, inbox, pair, missed, Notices>>
  BY DEF reader, connection, Notices
<1>4. \A i \in Id : Given(i) => Given(i)' /\ i # current'
  BY <1>1 DEF Given
<1>5. current' # NoId
  BY <1>1 DEF Id, NoId
<1>6. IdsGiven'
  <2>1. Given(current)'
    BY <1>1 DEF Given
  <2>2. idMap' # NoId => Given(idMap)'
    BY <1>3, <1>4 DEF ConnInv, IdsGiven, Given
  <2>3. pc' \in {"created", "opened"} => reply' = NoId \/ Given(reply)'
    BY <1>4, <2>1 DEF ConnInv, IdsGiven, Given
  <2>4. pc' \in {"saving", "written"} => Given(reply)'
    BY <1>4 DEF ConnInv, IdsGiven, Given
  <2> QED
    BY <2>1, <2>2, <2>3, <2>4 DEF IdsGiven
<1>7. CallsSound'
  <2>1. pc' \in {"exists", "create"} => Created' < MaxId
    BY <1>1
  <2>2. version'[current'] < MaxVersion
    BY <1>1, AdvertConnectionAssumption
  <2>3. pc' = "got" => reply' \in 0 .. MaxVersion
    BY DEF ConnInv, CallsSound
  <2>4. object' # "none" => idMap' # NoId
    BY <1>3 DEF ConnInv, CallsSound
  <2>5. pc' \in {"get", "got", "set", "remove", "removed"} => object' # "none"
    BY DEF ConnInv, CallsSound
  <2>6. pc' # "saving"
    OBVIOUS
  <2> QED
    BY <2>1, <2>2, <2>3, <2>4, <2>5, <2>6 DEF CallsSound
<1>8. PollSound'
  BY <1>3 DEF ConnInv, PollSound
<1>9. CacheSound'
  <2>1. ~(current' = idMap')
    BY <1>1, <1>3, <1>4, <1>5 DEF ConnInv, IdsGiven
  <2> QED
    BY <2>1 DEF CacheSound
<1> QED
  BY <1>1, <1>2, <1>6, <1>7, <1>8, <1>9 DEF ConnInv

LEMMA OthersCreateKeeps ==
  ASSUME ConnInv, OthersCreate
  PROVE  ConnInv'
<1>1. Created < MaxId
  <2>1. PICK n \in 0 .. MaxId : {i \in Id : version[i] # 0} = 1 .. n
    BY DEF ConnInv, IdsInOrder
  <2>2. Created \in Nat
    BY <2>1, CreatedCount, AdvertConnectionAssumption
  <2> QED
    BY <2>2, AdvertConnectionAssumption DEF OthersCreate
<1>2. /\ PutNew /\ current = NoId
      /\ UNCHANGED <<doomed, queue, reader, connection, missed, pc, reply, object, mode>>
  BY DEF OthersCreate, thread
<1>3. ThreadTypes'
  BY <1>2 DEF ConnInv, Types, ThreadTypes
<1>4. pc \in {"exists", "create"} => Created + 1 < MaxId
  BY DEF OthersCreate
<1>5. pc # "saving"
  BY DEF OthersCreate, Free
<1> QED
  BY <1>1, <1>2, <1>3, <1>4, <1>5, NewKeeps

LEMMA ServeCreateKeeps ==
  ASSUME ConnInv, ServeCreate
  PROVE  ConnInv'
<1>0. /\ pc = "create" /\ pc' = "created"
      /\ UNCHANGED <<doomed, queue, reader, connection, missed, mode, object>>
  BY DEF ServeCreate, Goto
<1>1. ThreadTypes'
  BY <1>0 DEF ConnInv, Types, ThreadTypes, Places
<1>2. Created < MaxId
  BY <1>0 DEF ConnInv, CallsSound
<1>3. CASE current = NoId /\ PutNew /\ reply' = current'
  BY <1>0, <1>1, <1>2, <1>3, NewKeeps
<1>4. CASE /\ UNCHANGED <<current, version>>
           /\ \/ current # NoId /\ reply' = current
              \/ reply' = NoId
  <2>1. UNCHANGED <<server, reader, connection, missed>>
    BY <1>0, <1>4 DEF server
  <2>2. UNCHANGED <<current, version, idMap, updateMap, nodeMap, missed, Notices, Created>>
    BY <2>1 DEF server, reader, connection, Notices, Created
  <2>3. IdsGiven'
    BY <1>0, <1>4, <2>2 DEF ConnInv, IdsGiven, Given
  <2>4. CallsSound'
    BY <1>0, <2>2 DEF ConnInv, CallsSound
  <2>5. CacheSound'
    BY <1>0, <2>2 DEF ConnInv, CacheSound, Known
  <2> QED
    BY <1>1, <2>1, <2>3, <2>4, <2>5, ThreadSteps
<1> QED
  BY <1>3, <1>4 DEF ServeCreate

(* An announcement of a write, which may change the document.              *)
LEMMA WriteKeeps ==
  ASSUME ConnInv, NEW d, Given(d), Announce(d, "updated"),
         \/ version[d] < MaxVersion /\ version' = [version EXCEPT ![d] = @ + 1]
         \/ current # d /\ version' = version,
         UNCHANGED <<current, doomed, reader, connection, missed, mode, reply, object>>,
         \/ pc' = pc /\ pc # "saving"
            /\ (pc = "set" /\ d = current => version[d] + 1 < MaxVersion)
         \/ pc = "saving" /\ pc' = "written" /\ d = reply
  PROVE  ConnInv'
<1>1. /\ version' \in [Id -> 0 .. MaxVersion]
      /\ \A i \in Id : i # d => version'[i] = version[i]
      /\ \A i \in Id : version'[i] # 0 <=> version[i] # 0
      /\ IdsInOrder' /\ Created' = Created
      /\ version'[d] = version[d] + 1 \/ (current # d /\ version'[d] = version[d])
  <2>1. ServerTypes /\ IdsInOrder
    BY DEF ConnInv, Types
  <2>2. CASE version[d] < MaxVersion /\ version' = [version EXCEPT ![d] = @ + 1]
    BY <2>1, <2>2, DocumentWritten
  <2>3. CASE current # d /\ version' = version
    BY <2>1, <2>3 DEF ServerTypes, IdsInOrder, Created
  <2> QED
    BY <2>2, <2>3
<1>2. d \in Id /\ "updated" \in {"updated", "removed"} /\ queue \in Seq(Notice)
  BY DEF Given, ConnInv, Types, ServerTypes
<1>3. /\ queue' \in Seq(Notice)
      /\ ToSet(queue') = {x \in ToSet(queue) : x.id # d} \cup {[id |-> d, type |-> "updated"]}
  BY <1>2, Announced
<1>4. UNCHANGED <<current, idMap, updateMap, nodeMap, polled, inbox, pair, missed>>
  BY DEF reader, connection
<1>5. /\ [id |-> d, type |-> "updated"] \in Notices'
      /\ \A x \in Notices : x.id # d => x \in Notices'
  BY <1>3, <1>4 DEF Notices
<1>6. Types'
  <2>1. ServerTypes' /\ ReaderTypes' /\ ConnectionTypes'
    BY <1>1, <1>3 DEF ConnInv, Types, ServerTypes, ReaderTypes, ConnectionTypes, reader, connection
  <2>2. ThreadTypes'
    BY DEF ConnInv, Types, ThreadTypes, Places
  <2> QED
    BY <2>1, <2>2 DEF Types
<1>7. IdsGiven'
  <2>1. \A i : Given(i) => Given(i)'
    BY <1>1 DEF Given
  <2> QED
    BY <1>4, <2>1 DEF ConnInv, IdsGiven
<1>8. CallsSound'
  <2>1. pc' = "set" /\ current' # NoId => version'[current'] < MaxVersion
    <3> SUFFICES ASSUME pc' = "set", current # NoId
                 PROVE  version'[current] < MaxVersion
      BY <1>4
    <3>1. pc = "set" /\ current \in Id
      BY DEF ConnInv, IdsGiven, Given
    <3>2. CASE current = d
      BY <1>1, <3>1, <3>2
    <3>3. CASE current # d
      BY <1>1, <3>1, <3>3 DEF ConnInv, CallsSound
    <3> QED
      BY <3>2, <3>3
  <2> QED
    BY <1>1, <1>4, <2>1 DEF ConnInv, CallsSound
<1>9. PollSound'
  BY <1>4 DEF ConnInv, PollSound
<1>10. CacheSound'
  <2>1. CASE idMap = d
    BY <1>4, <1>5, <2>1 DEF CacheSound
  <2>2. CASE idMap # d
    <3> SUFFICES ASSUME Known(idMap), ~updateMap[idMap], current = idMap, pc # "get"
                 PROVE  CacheSound'
      BY <1>4 DEF CacheSound, Known
    <3>1. idMap \in Id
      BY DEF Known, ConnInv, Types, ConnectionTypes
    <3>2. version'[idMap] = version[idMap] /\ pc' = "got" <=> pc = "got"
      BY <1>1, <2>2, <3>1
    <3>3. CASE [id |-> idMap, type |-> "updated"] \in Notices
      BY <1>4, <1>5, <2>2, <3>3 DEF CacheSound
    <3>4. CASE [id |-> idMap, type |-> "updated"] \notin Notices
      BY <1>1, <1>4, <2>2, <3>1, <3>2, <3>4 DEF ConnInv, CacheSound
    <3> QED
      BY <3>3, <3>4
  <2> QED
    BY <2>1, <2>2
<1> QED
  BY <1>1, <1>6, <1>7, <1>8, <1>9, <1>10 DEF ConnInv

LEMMA WritesKeep ==
  ASSUME ConnInv, OthersUpdate \/ Save
  PROVE  ConnInv'
<1>1. CASE OthersUpdate
  <2>1. Given(current)
    BY <1>1 DEF OthersUpdate, ConnInv, IdsGiven
  <2>2. version[current] \in Nat /\ MaxVersion \in Nat
    BY <2>1, AdvertConnectionAssumption DEF Given, ConnInv, Types, ServerTypes
  <2>3. version[current] < MaxVersion
    BY <1>1, <2>2 DEF OthersUpdate
  <2>4. pc = "set" => version[current] + 1 < MaxVersion
    BY <1>1 DEF OthersUpdate
  <2>5. /\ Announce(current, "updated") /\ version' = [version EXCEPT ![current] = @ + 1]
        /\ UNCHANGED <<current, doomed, reader, connection, missed, mode, reply, object, pc>>
        /\ pc # "saving"
    BY <1>1 DEF OthersUpdate, Free, thread
  <2> QED
    BY <2>1, <2>3, <2>4, <2>5, WriteKeeps
<1>2. CASE Save
  <2>1. Given(reply) /\ (current = reply => version[reply] < MaxVersion)
    BY <1>2 DEF Save, ConnInv, IdsGiven, CallsSound
  <2>2. /\ Announce(reply, "updated")
        /\ version' = IF current = reply THEN [version EXCEPT ![reply] = @ + 1] ELSE version
        /\ UNCHANGED <<current, doomed, reader, connection, missed, mode, reply, object>>
        /\ pc = "saving" /\ pc' = "written"
    BY <1>2 DEF Save, Goto
  <2> QED
    BY <2>1, <2>2, WriteKeeps
<1> QED
  BY <1>1, <1>2

LEMMA OthersRemoveKeeps ==
  ASSUME ConnInv, OthersRemove \/ ServeRemove
  PROVE  ConnInv'
<1>0. /\ UNCHANGED <<current, version, queue, reader, connection, missed, mode, reply, object>>
      /\ pc' = pc \/ (pc = "remove" /\ pc' = "removed")
  <2>1. CASE OthersRemove
    BY <2>1 DEF OthersRemove, thread
  <2>2. CASE ServeRemove
    BY <2>2 DEF ServeRemove, Goto
  <2> QED
    BY <2>1, <2>2
<1>1. UNCHANGED <<idMap, updateMap, nodeMap, polled, inbox, pair, Notices, Created>>
  BY <1>0 DEF reader, connection, Notices, Created
<1>2. Types'
  <2>1. doomed' \subseteq Id
    BY DEF OthersRemove, ServeRemove, ConnInv, Types, ServerTypes
  <2>2. ServerTypes' /\ ReaderTypes' /\ ConnectionTypes'
    BY <1>0, <2>1 DEF ConnInv, Types, ServerTypes, ReaderTypes, ConnectionTypes, reader, connection
  <2>3. ThreadTypes'
    BY <1>0 DEF ConnInv, Types, ThreadTypes, Places
  <2> QED
    BY <2>2, <2>3 DEF Types
<1>3. IdsInOrder' /\ PollSound'
  BY <1>0, <1>1 DEF ConnInv, IdsInOrder, PollSound
<1>4. IdsGiven'
  BY <1>0, <1>1 DEF ConnInv, IdsGiven, Given
<1>5. CallsSound'
  BY <1>0, <1>1 DEF ConnInv, CallsSound
<1>6. CacheSound'
  BY <1>0, <1>1 DEF ConnInv, CacheSound, Known
<1> QED
  BY <1>2, <1>3, <1>4, <1>5, <1>6 DEF ConnInv

(* The document that goes is no longer the one at the url, so a notice of  *)
(* a change to it may go with it.                                          *)
LEMMA TakeAwayKeeps ==
  ASSUME ConnInv, NEW d \in doomed, TakeAway(d)
  PROVE  ConnInv'
<1>0. /\ d \in Id /\ queue \in Seq(Notice) /\ "removed" \in {"updated", "removed"}
      /\ Announce(d, "removed")
      /\ UNCHANGED <<version, reader, connection, thread, missed>>
      /\ current' = IF current = d THEN NoId ELSE current
  BY DEF TakeAway, ConnInv, Types, ServerTypes
<1>1. /\ queue' \in Seq(Notice)
      /\ ToSet(queue') = {x \in ToSet(queue) : x.id # d} \cup {[id |-> d, type |-> "removed"]}
  BY <1>0, Announced
<1>2. UNCHANGED <<idMap, updateMap, nodeMap, polled, inbox, pair, pc, mode, reply, object, Created>>
  BY <1>0 DEF reader, connection, thread, Created
<1>3. \A x \in Notices : x.id # d => x \in Notices'
  BY <1>1, <1>2 DEF Notices
<1>4. Types'
  <2>1. doomed' \subseteq Id /\ current' \in Id \cup {NoId}
    BY <1>0 DEF TakeAway, ConnInv, Types, ServerTypes
  <2> QED
    BY <1>0, <1>1, <1>2, <2>1
       DEF ConnInv, Types, ServerTypes, ReaderTypes, ConnectionTypes, ThreadTypes, reader
<1>5. IdsInOrder' /\ PollSound'
  BY <1>0, <1>2 DEF ConnInv, IdsInOrder, PollSound
<1>6. IdsGiven'
  BY <1>0, <1>2 DEF ConnInv, IdsGiven, Given
<1>7. CallsSound'
  <2>1. pc' = "saving" /\ current' = reply' => version'[reply'] < MaxVersion
    <3>1. pc = "saving" => reply # NoId
      BY DEF ConnInv, IdsGiven, Given, Id, NoId
    <3> QED
      BY <1>0, <1>2, <3>1 DEF ConnInv, CallsSound
  <2> QED
    BY <1>0, <1>2, <2>1 DEF ConnInv, CallsSound
<1>8. CacheSound'
  <2> SUFFICES ASSUME Known(idMap), ~updateMap[idMap], current' = idMap, pc # "get"
               PROVE  CacheSound'
    BY <1>2 DEF CacheSound, Known
  <2>1. idMap # NoId
    BY DEF Known, ConnInv, Types, ConnectionTypes, Id, NoId
  <2>2. idMap # d /\ current = idMap
    BY <1>0, <2>1
  <2> QED
    BY <1>0, <1>2, <1>3, <2>2 DEF ConnInv, CacheSound
<1> QED
  BY <1>4, <1>5, <1>6, <1>7, <1>8 DEF ConnInv

LEMMA FlushKeeps ==
  ASSUME ConnInv, Flush
  PROVE  ConnInv'
<1>0. /\ UNCHANGED <<current, version, doomed, polled, subs, connection, thread, missed>>
      /\ inbox' = inbox \o queue /\ queue' = <<>> /\ queue # <<>>
  BY DEF Flush
<1>1. /\ queue \in Seq(Notice) /\ inbox \in Seq(Notice)
  BY DEF ConnInv, Types, ServerTypes, ReaderTypes
<1>2. /\ inbox' \in Seq(Notice) /\ queue' \in Seq(Notice)
      /\ ToSet(inbox') = ToSet(inbox) \cup ToSet(queue)
      /\ inbox' # <<>>
  BY <1>0, <1>1, Joined
<1>3. UNCHANGED <<idMap, updateMap, nodeMap, pair, pc, mode, reply, object, Created>>
  BY <1>0 DEF connection, thread, Created
<1>4. \A x \in Notices : x \in Notices'
  BY <1>2 DEF Notices
<1>5. Types'
  BY <1>0, <1>2, <1>3 DEF ConnInv, Types, ServerTypes, ReaderTypes, ConnectionTypes, ThreadTypes
<1>6. IdsInOrder' /\ PollSound'
  BY <1>0, <1>2, <1>3 DEF ConnInv, IdsInOrder, PollSound
<1>7. IdsGiven' /\ CallsSound'
  BY <1>0, <1>3 DEF ConnInv, IdsGiven, Given, CallsSound
<1>8. CacheSound'
  BY <1>0, <1>3, <1>4 DEF ConnInv, CacheSound, Known
<1> QED
  BY <1>5, <1>6, <1>7, <1>8 DEF ConnInv

-----------------------------------------------------------------------------
(***************************************************************************)
(* read_handler.                                                           *)
(***************************************************************************)
LEMMA DropKeeps ==
  ASSUME ConnInv, Drop
  PROVE  ConnInv'
<1>0. PICK m : m = Head(inbox)
  OBVIOUS
<1>1. /\ polled = {} /\ inbox # <<>> /\ inbox' = Tail(inbox) /\ missed' = missed \cup {m.id}
      /\ UNCHANGED <<server, polled, subs, connection, thread>>
  BY <1>0 DEF Drop
<1>2. /\ m \in Notice /\ inbox' \in Seq(Notice)
      /\ \A x \in ToSet(inbox) : x # m => x \in ToSet(inbox')
  BY <1>0, <1>1, Taken DEF ConnInv, Types, ReaderTypes
<1>3. UNCHANGED <<current, version, doomed, queue, idMap, updateMap, nodeMap, pair, pc, mode, reply,
                  object, Created>>
  BY <1>1 DEF server, connection, thread, Created
<1>4. \A x \in Notices : x # m => x \in Notices'
  BY <1>2, <1>3 DEF Notices
<1>5. Types'
  <2>1. missed' \subseteq Id
    BY <1>1, <1>2 DEF Notice, ConnInv, Types, ReaderTypes
  <2> QED
    BY <1>1, <1>2, <1>3, <2>1
       DEF ConnInv, Types, ServerTypes, ReaderTypes, ConnectionTypes, ThreadTypes
<1>6. IdsInOrder' /\ PollSound'
  BY <1>1, <1>3 DEF ConnInv, IdsInOrder, PollSound
<1>7. IdsGiven' /\ CallsSound'
  BY <1>3 DEF ConnInv, IdsGiven, Given, CallsSound
<1>8. CacheSound'
  <2>1. CASE m = [id |-> idMap, type |-> "updated"]
    <3>1. idMap' \in missed'
      BY <1>1, <1>3, <2>1
    <3> QED
      BY <3>1 DEF CacheSound
  <2>2. CASE m # [id |-> idMap, type |-> "updated"]
    BY <1>1, <1>3, <1>4, <2>2 DEF ConnInv, CacheSound, Known
  <2> QED
    BY <2>1, <2>2
<1> QED
  BY <1>5, <1>6, <1>7, <1>8 DEF ConnInv

LEMMA PollKeeps ==
  ASSUME ConnInv, Poll
  PROVE  ConnInv'
<1>1. UNCHANGED <<current, version, doomed, queue, inbox, subs, idMap, updateMap, nodeMap, pair, pc,
                  mode, reply, object, missed, Created, Notices>>
  BY DEF Poll, server, connection, thread, Created, Notices
<1>2. Types'
  <2>1. polled' \subseteq {"message", "command"}
    BY DEF Poll
  <2> QED
    BY <1>1, <2>1 DEF ConnInv, Types, ServerTypes, ReaderTypes, ConnectionTypes, ThreadTypes
<1>3. PollSound'
  BY <1>1 DEF Poll, PollSound
<1>4. IdsInOrder' /\ IdsGiven' /\ CallsSound' /\ CacheSound'
  BY <1>1 DEF ConnInv, IdsInOrder, IdsGiven, Given, CallsSound, CacheSound, Known
<1> QED
  BY <1>2, <1>3, <1>4 DEF ConnInv

(* What a message or a command does to the maps.                           *)
LEMMA MapWritten ==
  ASSUME ConnectionTypes, NEW i \in Id
  PROVE  /\ DOMAIN Marked(i) = DOMAIN updateMap \cup {i}
         /\ Marked(i) \in [DOMAIN Marked(i) -> BOOLEAN]
         /\ Marked(i)[i] = TRUE
         /\ \A j \in DOMAIN updateMap : j # i => Marked(i)[j] = updateMap[j]
         /\ DOMAIN Erased(i) = DOMAIN updateMap \ {i}
         /\ Erased(i) \in [DOMAIN Erased(i) -> BOOLEAN]
         /\ \A j \in DOMAIN Erased(i) : Erased(i)[j] = updateMap[j]
<1>1. \A j \in DOMAIN updateMap : updateMap[j] \in BOOLEAN
  BY DEF ConnectionTypes
<1>2. /\ DOMAIN Marked(i) = DOMAIN updateMap \cup {i}
      /\ \A j \in DOMAIN updateMap \cup {i} : Marked(i)[j] = IF j = i THEN TRUE ELSE updateMap[j]
  BY DEF Marked
<1>3. Marked(i) \in [DOMAIN Marked(i) -> BOOLEAN]
  BY <1>1 DEF Marked
<1>4. Erased(i) \in [DOMAIN Erased(i) -> BOOLEAN]
  BY <1>1 DEF Erased
<1>5. /\ DOMAIN Erased(i) = DOMAIN updateMap \ {i}
      /\ \A j \in DOMAIN updateMap \ {i} : Erased(i)[j] = updateMap[j]
  BY DEF Erased
<1> QED
  BY <1>2, <1>3, <1>4, <1>5

LEMMA Subscribed ==
  ASSUME ReaderTypes, NEW i \in Id, Subscribe(i) \/ Unsubscribe(i)
  PROVE  subs' \in [Id -> Nat]
<1>1. \A j \in Id : subs[j] \in Nat
  BY DEF ReaderTypes
<1>2. CASE Subscribe(i)
  BY <1>1, <1>2 DEF Subscribe, ReaderTypes
<1>3. CASE Unsubscribe(i)
  BY <1>1, <1>3 DEF Unsubscribe
<1> QED
  BY <1>2, <1>3

(* An "updated" that is read sets the flag of the node, a "removed" makes  *)
(* it unknown.                                                             *)
LEMMA ReadMessageKeeps ==
  ASSUME ConnInv, ReadMessage
  PROVE  ConnInv'
<1>0. PICK m : m = Head(inbox)
  OBVIOUS
<1>1. /\ "message" \in polled /\ polled' = polled \ {"message"} /\ inbox' = Tail(inbox)
      /\ \/ m.type = "updated" /\ updateMap' = Marked(m.id) /\ UNCHANGED subs
         \/ m.type = "removed" /\ updateMap' = Erased(m.id) /\ Unsubscribe(m.id)
      /\ UNCHANGED <<server, idMap, nodeMap, pair, thread, missed>>
  BY <1>0 DEF ReadMessage
<1>2. inbox # <<>>
  BY <1>1 DEF ConnInv, PollSound
<1>3. /\ m \in Notice /\ m.id \in Id /\ inbox' \in Seq(Notice)
      /\ \A x \in ToSet(inbox) : x # m => x \in ToSet(inbox')
  <2>1. /\ m \in Notice /\ inbox' \in Seq(Notice)
        /\ \A x \in ToSet(inbox) : x # m => x \in ToSet(inbox')
    BY <1>0, <1>1, <1>2, Taken DEF ConnInv, Types, ReaderTypes
  <2> QED
    BY <2>1 DEF Notice
<1>4. UNCHANGED <<current, version, doomed, queue, pc, mode, reply, object, Created>>
  BY <1>1 DEF server, thread, Created
<1>5. \A x \in Notices : x # m => x \in Notices'
  BY <1>3, <1>4 DEF Notices
<1>6. ConnectionTypes /\ ReaderTypes
  BY DEF ConnInv, Types
<1>7. /\ DOMAIN updateMap' \subseteq Id /\ updateMap' \in [DOMAIN updateMap' -> BOOLEAN]
      /\ \A j \in DOMAIN updateMap' : \/ updateMap'[j] = TRUE
                                      \/ j \in DOMAIN updateMap /\ updateMap'[j] = updateMap[j]
      /\ m.id \in DOMAIN updateMap' => updateMap'[m.id] = TRUE
  <2>1. CASE updateMap' = Marked(m.id)
    <3>1. /\ DOMAIN updateMap' = DOMAIN updateMap \cup {m.id}
          /\ updateMap' \in [DOMAIN updateMap' -> BOOLEAN]
          /\ updateMap'[m.id] = TRUE
          /\ \A j \in DOMAIN updateMap : j # m.id => updateMap'[j] = updateMap[j]
      BY <1>3, <1>6, <2>1, MapWritten
    <3> QED
      BY <1>3, <1>6, <3>1 DEF ConnectionTypes
  <2>2. CASE updateMap' = Erased(m.id)
    <3>1. /\ DOMAIN updateMap' = DOMAIN updateMap \ {m.id}
          /\ updateMap' \in [DOMAIN updateMap' -> BOOLEAN]
          /\ \A j \in DOMAIN updateMap' : updateMap'[j] = updateMap[j]
      BY <1>3, <1>6, <2>2, MapWritten
    <3>2. DOMAIN updateMap \subseteq Id
      BY <1>6 DEF ConnectionTypes
    <3> QED
      BY <3>1, <3>2
  <2> QED
    BY <1>1, <2>1, <2>2
<1>8. subs' \in [Id -> Nat]
  BY <1>1, <1>3, <1>6, Subscribed DEF ReaderTypes
<1>9. Types'
  <2>1. polled' \subseteq {"message", "command"}
    BY <1>1, <1>6 DEF ReaderTypes
  <2> QED
    BY <1>1, <1>3, <1>4, <1>7, <1>8, <2>1
       DEF ConnInv, Types, ServerTypes, ReaderTypes, ConnectionTypes, ThreadTypes
<1>10. PollSound'
  BY <1>1 DEF ConnInv, PollSound
<1>11. IdsInOrder' /\ IdsGiven' /\ CallsSound'
  BY <1>1, <1>4 DEF ConnInv, IdsInOrder, IdsGiven, Given, CallsSound
<1>12. CacheSound'
  <2> SUFFICES ASSUME idMap \in DOMAIN updateMap', ~updateMap'[idMap], current = idMap, pc # "get"
               PROVE  CacheSound'
    BY <1>1, <1>4 DEF CacheSound, Known
  <2>1. Known(idMap) /\ ~updateMap[idMap] /\ m.id # idMap
    BY <1>7 DEF Known
  <2>2. m # [id |-> idMap, type |-> "updated"]
    BY <2>1
  <2> QED
    BY <1>1, <1>4, <1>5, <2>1, <2>2 DEF ConnInv, CacheSound
<1> QED
  BY <1>9, <1>10, <1>11, <1>12 DEF ConnInv

LEMMA ReadCommandKeeps ==
  ASSUME ConnInv, ReadCommand
  PROVE  ConnInv'
<1>0. PICK m : m = Head(pair)
  OBVIOUS
<1>1. /\ polled = {"command"} /\ polled' = {} /\ pair' = Tail(pair)
      /\ \/ m.type = "sub"   /\ Subscribe(m.id)   /\ UNCHANGED updateMap
         \/ m.type = "unsub" /\ Unsubscribe(m.id) /\ updateMap' = Erased(m.id)
      /\ UNCHANGED <<server, idMap, nodeMap, inbox, thread, missed>>
  BY <1>0 DEF ReadCommand
<1>2. pair # <<>>
  BY <1>1 DEF ConnInv, PollSound
<1>3. m.id \in Id /\ pair' \in Seq(Command)
  <2>1. m \in Command /\ pair' \in Seq(Command)
    BY <1>0, <1>1, <1>2, Taken DEF ConnInv, Types, ConnectionTypes
  <2> QED
    BY <2>1 DEF Command
<1>4. UNCHANGED <<current, version, doomed, queue, pc, mode, reply, object, Created, Notices>>
  BY <1>1 DEF server, thread, Created, Notices
<1>5. ConnectionTypes /\ ReaderTypes
  BY DEF ConnInv, Types
<1>6. /\ DOMAIN updateMap' \subseteq Id /\ updateMap' \in [DOMAIN updateMap' -> BOOLEAN]
      /\ \A j \in DOMAIN updateMap' : j \in DOMAIN updateMap /\ updateMap'[j] = updateMap[j]
  <2>1. CASE updateMap' = updateMap
    BY <1>5, <2>1 DEF ConnectionTypes
  <2>2. CASE updateMap' = Erased(m.id)
    BY <1>3, <1>5, <2>2, MapWritten DEF ConnectionTypes
  <2> QED
    BY <1>1, <2>1, <2>2
<1>7. subs' \in [Id -> Nat]
  BY <1>1, <1>3, <1>5, Subscribed
<1>8. Types'
  BY <1>1, <1>3, <1>4, <1>6, <1>7
     DEF ConnInv, Types, ServerTypes, ReaderTypes, ConnectionTypes, ThreadTypes
<1>9. PollSound'
  BY <1>1 DEF PollSound
<1>10. IdsInOrder' /\ IdsGiven' /\ CallsSound'
  BY <1>1, <1>4 DEF ConnInv, IdsInOrder, IdsGiven, Given, CallsSound
<1>11. CacheSound'
  BY <1>1, <1>4, <1>6 DEF ConnInv, CacheSound, Known
<1> QED
  BY <1>8, <1>9, <1>10, <1>11 DEF ConnInv

-----------------------------------------------------------------------------
(***************************************************************************)
(* The application thread uses the answers.                                *)
(***************************************************************************)

(* idMap and the mark of an id in an answer are written together.          *)
LEMMA AnswerKeeps ==
  ASSUME ConnInv, Given(reply), idMap' = reply, updateMap' = Marked(reply),
         \/ pair' = Append(pair, [id |-> reply, type |-> "sub"]) /\ missed' = missed \ {reply}
         \/ UNCHANGED <<pair, missed>>,
         UNCHANGED <<server, reader, nodeMap, mode, reply, object>>,
         pc' \in {"idle", "open", "check"}
  PROVE  ConnInv'
<1>0. ConnectionTypes /\ reply \in Id
  BY DEF ConnInv, Types, Given
<1>1. UNCHANGED <<current, version, doomed, queue, inbox, polled, subs, Created, Notices>>
  BY DEF server, reader, Created, Notices
<1>2. /\ DOMAIN updateMap' = DOMAIN updateMap \cup {reply}
      /\ updateMap' \in [DOMAIN updateMap' -> BOOLEAN]
      /\ updateMap'[reply] = TRUE
  BY <1>0, MapWritten
<1>3. pair' \in Seq(Command) /\ (pair' = <<>> => pair = <<>>)
  <2>1. [id |-> reply, type |-> "sub"] \in Command
    BY <1>0 DEF Command
  <2> QED
    BY <1>0, <2>1, Appended DEF ConnectionTypes
<1>4. Types'
  <2>1. ServerTypes' /\ ReaderTypes'
    BY <1>1 DEF ConnInv, Types, ServerTypes, ReaderTypes
  <2>2. ConnectionTypes'
    BY <1>0, <1>2, <1>3 DEF ConnectionTypes
  <2>3. ThreadTypes'
    BY DEF ConnInv, Types, ThreadTypes, Places
  <2> QED
    BY <2>1, <2>2, <2>3 DEF Types
<1>5. IdsInOrder' /\ PollSound'
  BY <1>1, <1>3 DEF ConnInv, IdsInOrder, PollSound
<1>6. IdsGiven' /\ CallsSound'
  <2>1. reply # NoId
    BY <1>0 DEF Id, NoId
  <2> QED
    BY <1>1, <2>1 DEF ConnInv, IdsGiven, Given, CallsSound
<1>7. CacheSound'
  BY <1>2 DEF CacheSound
<1> QED
  BY <1>4, <1>5, <1>6, <1>7 DEF ConnInv

LEMMA AnswersKeep ==
  ASSUME ConnInv, CreateDirectory \/ OpenDirectory \/ Written
  PROVE  ConnInv'
<1>1. CASE Written
  <2>1. Given(reply)
    BY <1>1 DEF Written, ConnInv, IdsGiven
  <2>2. /\ idMap' = reply /\ updateMap' = Marked(reply) /\ pc' = "idle"
        /\ UNCHANGED <<pair, missed>>
        /\ UNCHANGED <<server, reader, nodeMap, mode, reply, object>>
    BY <1>1 DEF Written, Goto
  <2> QED
    BY <2>1, <2>2, AnswerKeeps
<1>2. CASE CreateDirectory \/ OpenDirectory
  <2>1. /\ pc \in {"created", "opened"} /\ pc' \in {"idle", "open", "check"}
        /\ UNCHANGED <<server, reader, nodeMap, mode, reply, object>>
        /\ UseId
    <3>1. CASE CreateDirectory
      BY <3>1 DEF CreateDirectory, Goto
    <3>2. CASE OpenDirectory
      BY <3>2 DEF OpenDirectory, Goto
    <3> QED
      BY <1>2, <3>1, <3>2
  <2>2. CASE reply # NoId
    <3>1. Given(reply)
      BY <2>1, <2>2 DEF ConnInv, IdsGiven
    <3>2. /\ idMap' = reply /\ updateMap' = Marked(reply)
          /\ pair' = Append(pair, [id |-> reply, type |-> "sub"]) /\ missed' = missed \ {reply}
      BY <2>1, <2>2 DEF UseId
    <3> QED
      BY <2>1, <3>1, <3>2, AnswerKeeps
  <2>3. CASE reply = NoId
    <3>1. UNCHANGED <<server, reader, connection, missed, mode, reply, object>>
      BY <2>1, <2>3 DEF UseId, connection
    <3>2. UNCHANGED <<current, version, idMap, updateMap, nodeMap, missed, Notices, Created>>
      BY <3>1 DEF server, reader, connection, Notices, Created
    <3>3. ThreadTypes'
      BY <2>1 DEF ConnInv, Types, ThreadTypes, Places
    <3>4. IdsGiven' /\ CallsSound'
      BY <2>1, <3>2 DEF ConnInv, IdsGiven, Given, CallsSound
    <3>5. CacheSound'
      BY <2>1, <3>1, <3>2 DEF ConnInv, CacheSound, Known
    <3> QED
      BY <3>1, <3>3, <3>4, <3>5, ThreadSteps
  <2> QED
    BY <2>2, <2>3
<1> QED
  BY <1>1, <1>2

LEMMA FetchKeeps ==
  ASSUME ConnInv, Fetch
  PROVE  ConnInv'
<1>1. /\ Known(idMap) /\ updateMap' = Unmarked(idMap) /\ pc' = "get" /\ object # "none"
      /\ UNCHANGED <<server, reader, idMap, nodeMap, pair, mode, reply, object, missed>>
  BY DEF Fetch, CanUse, Goto
<1>2. UNCHANGED <<current, version, doomed, queue, inbox, polled, subs, Created>>
  BY <1>1 DEF server, reader, Created
<1>3. DOMAIN updateMap' = DOMAIN updateMap /\ updateMap' \in [DOMAIN updateMap' -> BOOLEAN]
  BY <1>1 DEF Unmarked, ConnInv, Types, ConnectionTypes
<1>4. Types'
  <2>1. ServerTypes' /\ ReaderTypes'
    BY <1>1, <1>2 DEF ConnInv, Types, ServerTypes, ReaderTypes
  <2>2. ConnectionTypes'
    BY <1>1, <1>3 DEF ConnInv, Types, ConnectionTypes
  <2>3. ThreadTypes'
    BY <1>1 DEF ConnInv, Types, ThreadTypes, Places
  <2> QED
    BY <2>1, <2>2, <2>3 DEF Types
<1>5. IdsInOrder' /\ PollSound'
  BY <1>1, <1>2 DEF ConnInv, IdsInOrder, PollSound
<1>6. IdsGiven' /\ CallsSound'
  BY <1>1, <1>2 DEF ConnInv, IdsGiven, Given, CallsSound
<1>7. CacheSound'
  BY <1>1 DEF CacheSound
<1> QED
  BY <1>4, <1>5, <1>6, <1>7 DEF ConnInv

LEMMA GotKeeps ==
  ASSUME ConnInv, Got
  PROVE  ConnInv'
<1>1. /\ pc = "got" /\ pc' = "idle"
      /\ \/ reply # 0 /\ nodeMap' = [id |-> idMap, version |-> reply] /\ object' = "open"
         \/ reply = 0 /\ object' = "closed" /\ UNCHANGED nodeMap
      /\ UNCHANGED <<server, reader, idMap, updateMap, pair, mode, reply, missed>>
  BY DEF Got, Goto
<1>2. UNCHANGED <<current, version, doomed, queue, inbox, polled, subs, Created, Notices>>
  BY <1>1 DEF server, reader, Created, Notices
<1>3. reply \in 0 .. MaxVersion /\ idMap # NoId
  BY <1>1 DEF ConnInv, CallsSound
<1>4. Types'
  <2>1. ServerTypes' /\ ReaderTypes'
    BY <1>1, <1>2 DEF ConnInv, Types, ServerTypes, ReaderTypes
  <2>2. ConnectionTypes'
    BY <1>1, <1>3 DEF ConnInv, Types, ConnectionTypes
  <2>3. ThreadTypes'
    BY <1>1 DEF ConnInv, Types, ThreadTypes, Places
  <2> QED
    BY <2>1, <2>2, <2>3 DEF Types
<1>5. IdsInOrder' /\ PollSound'
  BY <1>1, <1>2 DEF ConnInv, IdsInOrder, PollSound
<1>6. IdsGiven' /\ CallsSound'
  BY <1>1, <1>2, <1>3 DEF ConnInv, IdsGiven, Given, CallsSound
<1>7. CacheSound'
  <2> SUFFICES ASSUME Known(idMap), ~updateMap[idMap], current = idMap,
                      idMap \notin missed, [id |-> idMap, type |-> "updated"] \notin Notices
               PROVE  nodeMap' = [id |-> idMap, version |-> version[idMap]]
    BY <1>1, <1>2 DEF CacheSound, Known
  <2>1. reply = version[idMap]
    BY <1>1 DEF ConnInv, CacheSound
  <2>2. reply # 0
    BY <1>3, <2>1 DEF ConnInv, IdsGiven, Given
  <2> QED
    BY <1>1, <2>1, <2>2
<1> QED
  BY <1>4, <1>5, <1>6, <1>7 DEF ConnInv

LEMMA UnsubKeeps ==
  ASSUME ConnInv, Removed \/ Close
  PROVE  ConnInv'
<1>1. /\ pair' = Append(pair, [id |-> idMap, type |-> "unsub"]) /\ object' = "closed"
      /\ pc' = "idle" /\ pc \in {"removed", "idle"} /\ object # "none"
      /\ UNCHANGED <<server, reader, idMap, updateMap, nodeMap, mode, reply, missed>>
  <2>1. CASE Removed
    BY <2>1 DEF Removed, Unsub, Goto, ConnInv, CallsSound
  <2>2. CASE Close
    BY <2>2 DEF Close, Unsub, CanUse, CanCall
  <2> QED
    BY <2>1, <2>2
<1>2. UNCHANGED <<current, version, doomed, queue, inbox, polled, subs, Created, Notices>>
  BY <1>1 DEF server, reader, Created, Notices
<1>3. idMap # NoId /\ idMap \in Id
  BY <1>1 DEF ConnInv, CallsSound, Types, ConnectionTypes
<1>4. pair' \in Seq(Command) /\ pair' # <<>>
  <2>1. [id |-> idMap, type |-> "unsub"] \in Command
    BY <1>3 DEF Command
  <2> QED
    BY <1>1, <2>1, Appended DEF ConnInv, Types, ConnectionTypes
<1>5. Types'
  <2>1. ServerTypes' /\ ReaderTypes'
    BY <1>1, <1>2 DEF ConnInv, Types, ServerTypes, ReaderTypes
  <2>2. ConnectionTypes'
    BY <1>1, <1>4 DEF ConnInv, Types, ConnectionTypes
  <2>3. ThreadTypes'
    BY <1>1 DEF ConnInv, Types, ThreadTypes, Places
  <2> QED
    BY <2>1, <2>2, <2>3 DEF Types
<1>6. IdsInOrder' /\ PollSound'
  BY <1>2, <1>4 DEF ConnInv, IdsInOrder, PollSound
<1>7. IdsGiven' /\ CallsSound'
  BY <1>1, <1>2, <1>3 DEF ConnInv, IdsGiven, Given, CallsSound
<1>8. CacheSound'
  BY <1>1, <1>2 DEF ConnInv, CacheSound, Known
<1> QED
  BY <1>5, <1>6, <1>7, <1>8 DEF ConnInv

LEMMA StutterKeeps ==
  ASSUME ConnInv, UNCHANGED vars
  PROVE  ConnInv'
<1>1. /\ UNCHANGED <<current, version, doomed, queue, inbox, polled, subs, idMap, updateMap, nodeMap,
                     pair, pc, mode, reply, object, missed, Created, Notices>>
      /\ UNCHANGED <<server, reader, connection>>
  BY DEF vars, server, reader, connection, thread, Created, Notices
<1>2. ThreadTypes' /\ IdsGiven' /\ CallsSound' /\ CacheSound'
  BY <1>1 DEF ConnInv, Types, ThreadTypes, IdsGiven, Given, CallsSound, CacheSound, Known
<1> QED
  BY <1>1, <1>2, ThreadSteps

LEMMA NextInv ==
  ASSUME ConnInv, [Next]_vars
  PROVE  ConnInv'
<1>1. CASE Server
  BY <1>1, OthersCreateKeeps, WritesKeep, OthersRemoveKeeps, TakeAwayKeeps, FlushKeeps DEF Server
<1>2. CASE Serve
  BY <1>2, ServesKeep, ServeCreateKeeps, WritesKeep, OthersRemoveKeeps DEF Serve
<1>3. CASE ReadHandler
  BY <1>3, DropKeeps, PollKeeps, ReadMessageKeeps, ReadCommandKeeps DEF ReadHandler
<1>4. CASE Continue
  BY <1>4, AnswersKeep, CallsKeep, GotKeeps, UnsubKeeps DEF Continue
<1>5. CASE Call
  BY <1>5, CallsKeep, FetchKeeps, UnsubKeeps DEF Call
<1>6. CASE UNCHANGED vars
  BY <1>6, StutterKeeps
<1> QED
  BY <1>1, <1>2, <1>3, <1>4, <1>5, <1>6 DEF Next

-----------------------------------------------------------------------------
(***************************************************************************)
(* Theorems.                                                               *)
(***************************************************************************)

(* In every reachable state the ids in use were given by the server, what  *)
(* a call has checked still holds, what a poll found is still there, and   *)
(* the cache is current, flagged, or about to be told.                     *)
THEOREM Invariant == Spec => []ConnInv
<1>1. Init => ConnInv
  BY InitInv
<1>2. ConnInv /\ [Next]_vars => ConnInv'
  BY NextInv
<1> QED
  BY <1>1, <1>2, PTL DEF Spec

(* The maps of the connection, the messages and the server's documents     *)
(* keep their types; an object in use has an id the server has given.      *)
THEOREM TypeCorrect == Spec => []TypeOK
<1>1. ConnInv => TypeOK
  <2> SUFFICES ASSUME ConnInv
               PROVE  TypeOK
    OBVIOUS
  <2>1. \A m \in ToSet(queue) \cup ToSet(inbox) : m.id \in Id /\ m.type \in {"updated", "removed"}
    <3>1. ToSet(queue) \subseteq Notice /\ ToSet(inbox) \subseteq Notice
      BY DEF ConnInv, Types, ServerTypes, ReaderTypes, ToSet
    <3> QED
      BY <3>1 DEF Notice
  <2>2. \A m \in ToSet(pair) : m.id \in Id /\ m.type \in {"sub", "unsub"}
    <3>1. ToSet(pair) \subseteq Command
      BY DEF ConnInv, Types, ConnectionTypes, ToSet
    <3> QED
      BY <3>1 DEF Command
  <2>3. ServerTypes /\ ReaderTypes /\ ConnectionTypes /\ ThreadTypes
    BY DEF ConnInv, Types
  <2> QED
    BY <2>1, <2>2, <2>3 DEF TypeOK, ServerTypes, ReaderTypes, ConnectionTypes, ThreadTypes
<1> QED
  BY <1>1, Invariant, PTL

(* get_value delivers old content from the cache only while the notice of  *)
(* the change is on its way, or after the SUB socket has dropped one.      *)
THEOREM UpdatesNoticed == Spec => []NoUpdateForgotten
<1>1. ConnInv => NoUpdateForgotten
  BY DEF ConnInv, CacheSound, NoUpdateForgotten, Stale, Notices
<1> QED
  BY <1>1, Invariant, PTL
=============================================================================
