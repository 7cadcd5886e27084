--------------------------- MODULE MCAdvertServer ----------------------------
(* Small instances of AdvertServer for TLC. *)
EXTENDS AdvertServer

CONSTANTS
  a, b,      \* two path components
  c1, c2     \* two clients

Single == {<<a>>}
Fork   == {<<>>, <<a>>, <<b>>, <<a, b>>}
Ladder == {<<a>>, <<a, b>>, <<a, b, b>>, <<a, b, b, b>>}

(* Two clients that create, look up and write. *)
Peers == [c \in Client |->
            ({"create", "createParents", "open"} \X Fork)
              \cup ({"exists", "get"} \X {<<a>>})
              \cup ({"setAttribute", "removeAttribute"} \X {<<a, b>>})]

(* A client that builds a tree of three levels below a node that stays, and *)
(* tears it down.  Which client a later request comes from makes no         *)
(* difference to what "remove" still has to do, so one is enough.           *)
BuildAndRemove == c1 :> ({"create"} \X Ladder) \cup ({"remove"} \X {<<a, b>>})

(* One client writes to a node that the other removes. *)
WriteAndRemove == c1 :> {"create", "setString"} \X Single @@ c2 :> {"open", "remove"} \X Single

(* Clients with the same commands are interchangeable. *)
Symmetry == Permutations(Client)
=============================================================================
