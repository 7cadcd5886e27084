-------------------------- MODULE AdvertConnection ---------------------------
(***************************************************************************)
(* The client side of the async advert adaptor: a server_connection with   *)
(* its cache (async_advert_adaptor/sql_async_advert/                       *)
(* sql_async_server_connection.cpp) and an advert object that uses it      *)
(* (sql_async_advert_advert.cpp), for one url.                             *)
(*                                                                         *)
(* Three parties interleave: the application thread, the thread that runs  *)
(* read_handler, and the server with everybody else who uses it.  A        *)
(* request is sent, served and its answer used in separate steps.          *)
(*                                                                         *)
(* Assumed of the transport, which is ZeroMQ 2.1: messages are delivered   *)
(* late but in order and none is lost; a SUB socket drops what it has no   *)
(* subscription for when it is polled; equal subscriptions count, and      *)
(* cancelling one that is not there has no effect.                         *)
(***************************************************************************)
EXTENDS Integers, FiniteSets, SequencesExt

CONSTANTS
  MaxId,       \* bound: documents created at the url over time
  MaxVersion,  \* bound: contents a document takes on over time
  MaxSubs,     \* bound: no object is constructed with more subscriptions
  MaxPending   \* bound: no call is made while more commands wait for the reader

ASSUME AdvertConnectionAssumption ==
  MaxId \in Nat \ {0} /\ MaxVersion \in Nat \ {0, 1} /\ MaxSubs \in Nat /\ MaxPending \in Nat

Id    == 1 .. MaxId
NoId  == 0             \* the empty string of an id_map entry never set
Modes == {"open", "create", "both"}

VARIABLES
  (* the server *)
  current,     \* id of the document at the url, NoId if there is none
  version,     \* version[i]: what document i contains, 0 before it exists
  doomed,      \* ids of documents whose removal has been answered, not done
  queue,       \* messageQueue, in the order in which the ids came in
  (* the connection *)
  idMap,       \* _id_map[url]
  updateMap,   \* _update_map: partial function from ids to "needs update"
  nodeMap,     \* _node_map[url]
  pair,        \* commands on their way to read_handler
  inbox,       \* published messages that read_handler has not received
  polled,      \* what the last poll of read_handler found and is still to do
  subs,        \* subs[i]: subscriptions of the SUB socket for i
  (* the application thread *)
  pc, mode,    \* where it is, and how the object is being constructed
  reply,       \* id, or version, in the answer to the last request
  object,      \* "none", or the value of _opened: "open" or "closed"
  (* history *)
  missed       \* ids with a message dropped since they were last opened

server     == <<current, version, doomed, queue>>
reader     == <<inbox, polled, subs>>
connection == <<idMap, updateMap, nodeMap, pair>>
thread     == <<pc, mode, reply, object>>
vars       == <<server, reader, connection, thread, missed>>

Null == [id |-> NoId, version |-> 0]

Init ==
  /\ current = NoId
  /\ version = [i \in Id |-> 0]
  /\ doomed = {}
  /\ queue = <<>>
  /\ idMap = NoId
  /\ updateMap = <<>>
  /\ nodeMap = Null
  /\ pair = <<>>
  /\ inbox = <<>>
  /\ polled = {}
  /\ subs = [i \in Id |-> 0]
  /\ pc = "idle"
  /\ mode = "open"
  /\ reply = 0
  /\ object = "none"
  /\ missed = {}

-----------------------------------------------------------------------------
(***************************************************************************)
(* The server, as this client meets it.  It takes a request when the last  *)
(* one has been answered; removals and the timer go on meanwhile.          *)
(***************************************************************************)
Free == pc \notin {"saving", "unanswered"}

(* messageQueue[i] = type: the place stays, the type is replaced. *)
Announce(i, type) ==
  LET m == [id |-> i, type |-> type]
  IN  queue' = IF \E n \in DOMAIN queue : queue[n].id = i
               THEN [n \in DOMAIN queue |-> IF queue[n].id = i THEN m ELSE queue[n]]
               ELSE Append(queue, m)

Created == Cardinality({i \in Id : version[i] # 0})
PutNew ==
  /\ current' = Created + 1
  /\ version' = [version EXCEPT ![Created + 1] = 1]

(* Others create, write and remove; a request of ours that is on its way    *)
(* is left an id and a version.                                             *)
OthersCreate ==
  /\ Free
  /\ current = NoId
  /\ Created + 1 < MaxId \/ (Created < MaxId /\ pc \notin {"exists", "create"})
  /\ PutNew
  /\ UNCHANGED <<doomed, queue, reader, connection, thread, missed>>

OthersUpdate ==
  /\ Free
  /\ current # NoId
  /\ version[current] + 1 < MaxVersion \/ (version[current] < MaxVersion /\ pc # "set")
  /\ version' = [version EXCEPT ![current] = @ + 1]
  /\ Announce(current, "updated")
  /\ UNCHANGED <<current, doomed, reader, connection, thread, missed>>

OthersRemove ==
  /\ Free
  /\ current # NoId
  /\ doomed' = doomed \cup {current}
  /\ UNCHANGED <<current, version, queue, reader, connection, thread, missed>>

(* The callback of "remove" takes the document away. *)
TakeAway(i) ==
  /\ i \in doomed
  /\ doomed' = doomed \ {i}
  /\ current' = IF current = i THEN NoId ELSE current
  /\ Announce(i, "removed")
  /\ UNCHANGED <<version, reader, connection, thread, missed>>

(* A seeded fault: one message goes out, the others are forgotten. *)
FlushFirst ==
  /\ queue # <<>>
  /\ inbox' = Append(inbox, Head(queue))
  /\ queue' = <<>>
  /\ UNCHANGED <<current, version, doomed, polled, subs, connection, thread, missed>>

(* The timer publishes what is queued. *)
Flush ==
  /\ queue # <<>>
  /\ inbox' = inbox \o queue
  /\ queue' = <<>>
  /\ UNCHANGED <<current, version, doomed, polled, subs, connection, thread, missed>>

-----------------------------------------------------------------------------
(***************************************************************************)
(* read_handler                                                            *)
(***************************************************************************)
Known(i)    == i \in DOMAIN updateMap
Marked(i)   == [j \in DOMAIN updateMap \cup {i} |-> IF j = i THEN TRUE ELSE updateMap[j]]
Unmarked(i) == [updateMap EXCEPT ![i] = FALSE]
Erased(i)   == [j \in DOMAIN updateMap \ {i} |-> updateMap[j]]

Subscribe(i)   == subs' = [subs EXCEPT ![i] = @ + 1]
Unsubscribe(i) == subs' = [j \in Id |-> IF j = i /\ subs[j] > 0 THEN subs[j] - 1 ELSE subs[j]]

(* A message that no subscription matches is dropped by the poll. *)
Drop ==
  LET m == Head(inbox)
  IN
  /\ polled = {} /\ inbox # <<>> /\ subs[m.id] = 0
  /\ inbox' = Tail(inbox)
  /\ missed' = missed \cup {m.id}
  /\ UNCHANGED <<server, polled, subs, connection, thread>>

(* A poll sees a command that was sent, and a message if it has arrived. *)
Poll ==
  /\ polled = {}
  /\ polled' \in SUBSET {"message", "command"} \ {{}}
  /\ "command" \in polled' <=> pair # <<>>
  /\ "message" \in polled' => inbox # <<>> /\ subs[Head(inbox).id] > 0
  /\ UNCHANGED <<server, inbox, subs, connection, thread, missed>>

ReadMessage ==
  LET m == Head(inbox)
  IN
  /\ "message" \in polled
  /\ polled' = polled \ {"message"}
  /\ inbox' = Tail(inbox)
  /\ \/ m.type = "updated" /\ updateMap' = Marked(m.id) /\ UNCHANGED subs
     \/ m.type = "removed" /\ updateMap' = Erased(m.id) /\ Unsubscribe(m.id)
  /\ UNCHANGED <<server, idMap, nodeMap, pair, thread, missed>>

ReadCommand ==
  LET m == Head(pair)
  IN
  /\ polled = {"command"}
  /\ polled' = {}
  /\ pair' = Tail(pair)
  /\ \/ m.type = "sub"   /\ Subscribe(m.id)   /\ UNCHANGED updateMap
     \/ m.type = "unsub" /\ Unsubscribe(m.id) /\ updateMap' = Erased(m.id)
  /\ UNCHANGED <<server, idMap, nodeMap, inbox, thread, missed>>

-----------------------------------------------------------------------------
(***************************************************************************)
(* Constructor: an exclusive object asks exists_directory; an object that  *)
(* is not only opened calls create_directory or create_parents_directory;  *)
(* unless the flags Create and CreateParents are both set open_directory   *)
(* follows; then get_state.                                                *)
(***************************************************************************)
CanCall == pc = "idle" /\ Len(pair) <= MaxPending
Goto(l) == pc' = l

Construct(m, exclusive) ==
  /\ CanCall
  /\ \A i \in Id : subs[i] + Len(pair) <= MaxSubs
  /\ m # "open" => Created < MaxId
  /\ mode' = m
  /\ object' = "none"
  /\ Goto(IF m = "open" THEN "open" ELSE IF exclusive THEN "exists" ELSE "create")
  /\ UNCHANGED <<server, reader, connection, reply, missed>>

(* Somebody may create the node before the request to create it arrives. *)
ServeExists ==
  /\ pc = "exists"
  /\ Goto(IF current = NoId THEN "create" ELSE "idle")
  /\ UNCHANGED <<server, reader, connection, mode, reply, object, missed>>

(* Only createParents does without a parent. *)
ServeCreate ==
  /\ pc = "create"
  /\ \/ current # NoId /\ reply' = current /\ UNCHANGED <<current, version>>
     \/ current = NoId /\ PutNew /\ reply' = current'
     \/ current = NoId /\ mode = "create" /\ reply' = NoId /\ UNCHANGED <<current, version>>
  /\ Goto("created")
  /\ UNCHANGED <<doomed, queue, reader, connection, mode, object, missed>>

ServeOpen ==
  /\ pc = "open"
  /\ reply' = current
  /\ Goto("opened")
  /\ UNCHANGED <<server, reader, connection, mode, object, missed>>

(* A seeded fault: the status of the answer is not looked at. *)
UseIdAlways ==
  /\ idMap' = reply
  /\ updateMap' = Marked(reply)
  /\ pair' = Append(pair, [id |-> reply, type |-> "sub"])
  /\ missed' = missed \ {reply}

(* The answer "ok" marks the id for update and has it subscribed. *)
UseId ==
  \/ /\ reply # NoId
     /\ idMap' = reply
     /\ updateMap' = Marked(reply)
     /\ pair' = Append(pair, [id |-> reply, type |-> "sub"])
     /\ missed' = missed \ {reply}
  \/ /\ reply = NoId
     /\ UNCHANGED <<idMap, updateMap, pair, missed>>

CreateDirectory ==
  /\ pc = "created"
  /\ UseId
  /\ Goto(IF mode = "both" THEN "check" ELSE "open")
  /\ UNCHANGED <<server, reader, nodeMap, mode, reply, object>>

OpenDirectory ==
  /\ pc = "opened"
  /\ UseId
  /\ Goto("check")
  /\ UNCHANGED <<server, reader, nodeMap, mode, reply, object>>

GetState ==
  /\ pc = "check"
  /\ object' = IF Known(idMap) THEN "open" ELSE "none"
  /\ Goto("idle")
  /\ UNCHANGED <<server, reader, connection, mode, reply, missed>>

-----------------------------------------------------------------------------
(***************************************************************************)
(* Calls of an object.  Each starts with get_value or get_state, which     *)
(* sets _opened anew, and throws if that is false.                         *)
(***************************************************************************)
CanUse == CanCall /\ object # "none"

Refuse ==
  /\ CanUse
  /\ ~Known(idMap)
  /\ object' = "closed"
  /\ UNCHANGED <<server, reader, connection, pc, mode, reply, missed>>

(* get_value without and with a request. *)
GetCached ==
  /\ CanUse
  /\ Known(idMap) /\ ~updateMap[idMap]
  /\ object' = "open"
  /\ UNCHANGED <<server, reader, connection, pc, mode, reply, missed>>

Fetch ==
  /\ CanUse
  /\ Known(idMap) /\ updateMap[idMap]
  /\ updateMap' = Unmarked(idMap)
  /\ Goto("get")
  /\ UNCHANGED <<server, reader, idMap, nodeMap, pair, mode, reply, object, missed>>

ServeGet ==
  /\ pc = "get"
  /\ reply' = IF current = idMap THEN version[idMap] ELSE 0
  /\ Goto("got")
  /\ UNCHANGED <<server, reader, connection, mode, object, missed>>

(* A seeded fault: the flag is cleared when the answer has arrived. *)
GotAndCleared ==
  /\ pc = "got"
  /\ nodeMap' = IF reply # 0 THEN [id |-> idMap, version |-> reply] ELSE nodeMap
  /\ updateMap' = IF Known(idMap) THEN Unmarked(idMap) ELSE updateMap
  /\ object' = IF reply = 0 THEN "closed" ELSE "open"
  /\ Goto("idle")
  /\ UNCHANGED <<server, reader, idMap, pair, mode, reply, missed>>

(* The answer "error" makes the call fail and leaves the maps alone. *)
Got ==
  /\ pc = "got"
  /\ Goto("idle")
  /\ \/ reply # 0 /\ nodeMap' = [id |-> idMap, version |-> reply] /\ object' = "open"
     \/ reply = 0 /\ object' = "closed" /\ UNCHANGED nodeMap
  /\ UNCHANGED <<server, reader, idMap, updateMap, pair, mode, reply, missed>>

(* set_attribute and the other writes. *)
Set ==
  /\ CanUse
  /\ Known(idMap)
  /\ current # NoId => version[current] < MaxVersion
  /\ object' = "open"
  /\ Goto("set")
  /\ UNCHANGED <<server, reader, connection, mode, reply, missed>>

(* The node is looked up; if it is missing no answer is ever sent. *)
ServeSet ==
  /\ pc = "set"
  /\ \/ current # NoId /\ Goto("saving") /\ reply' = current
     \/ current = NoId /\ Goto("unanswered") /\ UNCHANGED reply
  /\ UNCHANGED <<server, reader, connection, mode, object, missed>>

(* Saving a document that has gone changes nothing, but is announced. *)
Save ==
  /\ pc = "saving"
  /\ version' = IF current = reply THEN [version EXCEPT ![reply] = @ + 1] ELSE version
  /\ Announce(reply, "updated")
  /\ Goto("written")
  /\ UNCHANGED <<current, doomed, reader, connection, mode, reply, object, missed>>

Written ==
  /\ pc = "written"
  /\ idMap' = reply
  /\ updateMap' = Marked(reply)
  /\ Goto("idle")
  /\ UNCHANGED <<server, reader, nodeMap, pair, mode, reply, object, missed>>

(* sync_remove: the answer is "ok" whether or not there is a node. *)
Unsub == pair' = Append(pair, [id |-> idMap, type |-> "unsub"])

RemoveDirectory ==
  /\ CanUse
  /\ Known(idMap)
  /\ object' = "open"
  /\ Goto("remove")
  /\ UNCHANGED <<server, reader, connection, mode, reply, missed>>

ServeRemove ==
  /\ pc = "remove"
  /\ doomed' = doomed \cup ({current} \ {NoId})
  /\ Goto("removed")
  /\ UNCHANGED <<current, version, queue, reader, connection, mode, reply, object, missed>>

Removed ==
  /\ pc = "removed"
  /\ Unsub
  /\ object' = "closed"
  /\ Goto("idle")
  /\ UNCHANGED <<server, reader, idMap, updateMap, nodeMap, mode, reply, missed>>

(* sync_close *)
Close ==
  /\ CanUse
  /\ Unsub
  /\ object' = "closed"
  /\ UNCHANGED <<server, reader, idMap, updateMap, nodeMap, pc, mode, reply, missed>>

-----------------------------------------------------------------------------
Server ==
  \/ OthersCreate
  \/ OthersUpdate
  \/ OthersRemove
  \/ \E i \in doomed : TakeAway(i)
  \/ Flush

Serve ==
  \/ ServeExists
  \/ ServeCreate
  \/ ServeOpen
  \/ ServeGet
  \/ ServeSet
  \/ Save
  \/ ServeRemove

ReadHandler ==
  \/ Drop
  \/ Poll
  \/ ReadMessage
  \/ ReadCommand

Continue ==
  \/ CreateDirectory
  \/ OpenDirectory
  \/ GetState
  \/ Got
  \/ Written
  \/ Removed

Call ==
  \/ \E m \in Modes, exclusive \in BOOLEAN : Construct(m, exclusive)
  \/ Refuse
  \/ GetCached
  \/ Fetch
  \/ Set
  \/ RemoveDirectory
  \/ Close

Next == Server \/ Serve \/ ReadHandler \/ Continue \/ Call

Spec == Init /\ [][Next]_vars

(* The timer fires, the server answers, both threads run; a message arrives *)
(* in the end, and is found by every poll after that.                       *)
FairSpec ==
  /\ Spec
  /\ WF_vars(Flush)
  /\ WF_vars(Serve)
  /\ WF_vars(Continue)
  /\ WF_vars(ReadHandler)
  /\ SF_vars(Poll /\ "message" \in polled')
  /\ SF_vars(Drop)

-----------------------------------------------------------------------------
(***************************************************************************)
(* Properties.                                                             *)
(***************************************************************************)

(* Every variable ranges over the values the code can give it; an object    *)
(* that is in use has an id.                                                *)
TypeOK ==
  /\ current \in Id \cup {NoId}
  /\ version \in [Id -> 0 .. MaxVersion]
  /\ doomed \subseteq Id
  /\ \A m \in ToSet(queue) \cup ToSet(inbox) : m.id \in Id /\ m.type \in {"updated", "removed"}
  /\ idMap \in Id \cup {NoId}
  /\ DOMAIN updateMap \subseteq Id
  /\ nodeMap.id \in Id \cup {NoId} /\ nodeMap.version \in 0 .. MaxVersion
  /\ \A m \in ToSet(pair) : m.id \in Id /\ m.type \in {"sub", "unsub"}
  /\ polled \subseteq {"message", "command"}
  /\ subs \in [Id -> Nat]
  /\ mode \in Modes
  /\ object \in {"none", "open", "closed"}
  /\ missed \subseteq Id

(* What get_value would deliver without asking the server. *)
Stale ==
  /\ Known(idMap) /\ ~updateMap[idMap]
  /\ pc \notin {"get", "got"}
  /\ current = idMap
  /\ nodeMap # [id |-> idMap, version |-> version[idMap]]

(* get_value answers from the cache with old content only while the notice  *)
(* of the change is on its way, or if it was dropped because the SUB socket *)
(* had no subscription: an "updated" that comes in while the request for    *)
(* the content is under way is not forgotten when the answer arrives.       *)
NoUpdateForgotten ==
  Stale => \/ idMap \in missed
           \/ \E m \in ToSet(queue) \cup ToSet(inbox) : m = [id |-> idMap, type |-> "updated"]

(* "No polling to the server": old content in the cache is found out by the *)
(* messages of the server alone, unless one was dropped.                    *)
StaleIsNoticed == Stale ~> (~Stale \/ idMap \in missed)

(* "make sure directory exists": the constructor finds an object open whose *)
(* node the server has just reported, and which is still there.             *)
OpensWhatExists ==
  [][GetState /\ reply # NoId /\ reply = current => object' = "open"]_vars
=============================================================================
