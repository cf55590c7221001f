--------------------------------- MODULE Schema ---------------------------------
(***************************************************************************)
(* What starting on the database promises, whatever transactions carry it  *)
(* out (ensure_schema, storage.py:207-238): there is no schema or one of   *)
(* some version, and it comes to this code's version in the very step in   *)
(* which a process begins to use it, a server (main.py:95) or a command    *)
(* (main.py:173, 233).  Nothing else changes it, no process uses another   *)
(* version, and none goes back to an earlier.                              *)
(***************************************************************************)
EXTENDS Naturals

CONSTANTS
    Processes,
    SCHEMA_VERSION

VARIABLES
    version,        \* of the schema, 0 where there is none
    users           \* servers that serve, commands that register

vars == <<version, users>>

Init ==
    /\ version \in 0 .. SCHEMA_VERSION
    /\ users = {}

(* A process creates the schema, migrates it or finds it as it should be,
   and uses it from then on. *)
Bring(p) ==
    /\ p \notin users
    /\ version' = SCHEMA_VERSION
    /\ users' = users \cup {p}

(* A process ends; the schema stays. *)
Leave(p) ==
    /\ p \in users
    /\ users' = users \ {p}
    /\ UNCHANGED version

Next == \E p \in Processes : Bring(p) \/ Leave(p)

Spec == Init /\ [][Next]_vars

================================================================================
