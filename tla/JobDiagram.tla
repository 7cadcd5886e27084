----------------------------- MODULE JobDiagram ------------------------------
(***************************************************************************)
(* The state diagram of a SAGA job, as the objects of an adaptor promise   *)
(* it: an object is made New or for a job that there is, leaves New by     *)
(* being run, and never leaves Done, Canceled or Failed.                   *)
(*                                                                         *)
(* "disputed" is an object that has been made to stand for a second job:   *)
(* the diagram says nothing of it.                                         *)
(***************************************************************************)
CONSTANT Object

VARIABLE state

Final == {"Done", "Canceled", "Failed"}
Started == {"Running", "Suspended", "Unknown"} \cup Final

Init == state = [o \in Object |-> "absent"]

\* Where an object may get in one step.
After(s) ==
    CASE s = "absent"                -> {"New"} \cup Started
      [] s = "New"                   -> Started \cup {"disputed"}
      [] s \in Started \ Final       -> Started \cup {"disputed"}
      [] s \in Final                 -> {"disputed"}
      [] s = "disputed"              -> {}

Next ==
    \E o \in Object :
        /\ state'[o] \in After(state[o])
        /\ state' = [state EXCEPT ![o] = state'[o]]

Spec == Init /\ [][Next]_state
=============================================================================
