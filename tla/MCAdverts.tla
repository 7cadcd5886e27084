------------------------------ MODULE MCAdverts ------------------------------
(* A small instance of Adverts for TLC. *)
EXTENDS Adverts, MCFastAdvert

CONSTANTS
  h1, h2,    \* two clients of hbase
  ab         \* a path component that begins with a

(* The entry /a and the entry a below the directory /ab: rows of both may  *)
(* have one key.  One client gets and changes attributes of the one through *)
(* objects that need not exist, the other those of the other.              *)
HbaseClients == {h1, h2}
HbaseNames   == {a, ab}
HbaseRanks   == a :> 1 @@ ab :> 2
HbaseBegins  == a :> {a, ab} @@ ab :> {ab}
HbasePaths   == {<<a>>, <<ab>>, <<ab, a>>}
HbaseCalls   ==
     h1 :> {"create", "verify", "set"} \X {<<ab, a>>}
  @@ h2 :> ({"create", "set", "remove"} \X {<<a>>}) \cup {<<"create", <<ab>>>>, <<"exclusive", <<ab>>>>}

(* After a race nothing is said of attributes, and nothing else depends on *)
(* them: states in which some are kept then need not be looked at.         *)
AttributesMatter == raced => metadata = {}
=============================================================================
