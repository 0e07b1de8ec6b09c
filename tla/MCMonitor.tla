----------------------------- MODULE MCMonitor -----------------------------
(* Instances of Monitor with a filter for one note and one for all notes.   *)
EXTENDS Monitor

CONSTANTS n1, all, one

OneOrAll == [f \in Filters |-> IF f = one THEN {n1} ELSE Notes]
=============================================================================
