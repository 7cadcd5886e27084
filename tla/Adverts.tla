------------------------------- MODULE Adverts -------------------------------
(***************************************************************************)
(* The two adverts whose clients create nodes in a database by themselves, *)
(* sql_fast_advert and hbase_advert.  An application uses one of them,     *)
(* which the scheme of its url selects.                                    *)
(***************************************************************************)
EXTENDS FastAdvert

CONSTANTS                                   \* of HbaseAdvert
  HClient, HName, HRank, HBegins, HTarget, HCalls, HMaxRows

VARIABLES
  store,                                    \* the adaptor in use
  rows, metadata, object, hcall, raced      \* the variables of HbaseAdvert

hvars == <<rows, metadata, object, hcall, raced>>

Hbase == INSTANCE HbaseAdvert
           WITH nodes <- rows, call <- hcall, Client <- HClient, Name <- HName, Rank <- HRank,
                Begins <- HBegins, Target <- HTarget, Calls <- HCalls, MaxRows <- HMaxRows

ASSUME HbaseConstantsFit == Hbase!ConstantsFit

StoreInit == store \in {"sql", "hbase"} /\ Init /\ Hbase!Init

StoreNext ==
  \/ store = "sql" /\ Next /\ UNCHANGED <<store, hvars>>
  \/ store = "hbase" /\ Hbase!Next /\ UNCHANGED <<store, vars>>

StoreSpec == StoreInit /\ [][StoreNext]_<<store, vars, hvars>>

-----------------------------------------------------------------------------
(* Every variable of the hbase adaptor ranges over what the columns hold. *)
HbaseTypeOK == Hbase!TypeOK

(* What url_exists of hbase finds is a tree that grows below what is there, *)
(* although nodes are written column by column and clients may die, as long *)
(* as no two creations have been under way together.                        *)
ActsAsNamespace == Hbase!ActsAsNamespace

(* A path of hbase that was found is lost only to a rival: a second parent  *)
(* for its row, or an older row with the same name and parent.              *)
LostToRivalOnly == Hbase!LostToRivalOnly

(* An attribute set through an object whose path existed is in the row that *)
(* the path has, although the row is found by a search that may answer with *)
(* a row of another path.                                                   *)
OwnAttributes == Hbase!OwnAttributes
=============================================================================
