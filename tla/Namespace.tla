------------------------------ MODULE Namespace ------------------------------
(***************************************************************************)
(* What an advert service promises about its tree: a set of paths that     *)
(* holds the root and, with every path, the path above it.                 *)
(***************************************************************************)
EXTENDS SequencesExt

CONSTANT Name
VARIABLE entries

Init == entries = {<<>>}

Create(p, n) ==
  /\ Append(p, n) \notin entries
  /\ entries' = entries \cup {Append(p, n)}

Drop(p) ==
  /\ p # <<>>
  /\ entries' = {q \in entries : ~IsPrefix(p, q)}

Next == \E p \in entries : (\E n \in Name : Create(p, n)) \/ Drop(p)

Spec == Init /\ [][Next]_entries
=============================================================================
