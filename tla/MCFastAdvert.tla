---------------------------- MODULE MCFastAdvert -----------------------------
(* Small instances of FastAdvert for TLC. *)
EXTENDS FastAdvert

CONSTANTS a, b     \* two path components

Single == {<<a>>}
Chain == {<<>>, <<a>>, <<a, b>>}
Fork  == {<<>>, <<a>>, <<b>>, <<a, b>>}
Deep  == {<<>>, <<a>>, <<b>>, <<a, b>>, <<a, b, a>>}

(* Clients are interchangeable, and so are values. *)
Symmetry == Permutations(Client) \cup Permutations(Value)
=============================================================================
