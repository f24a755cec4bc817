------------------------------ MODULE MCDayFile ------------------------------
(* Instances of DayFile for TLC. *)
EXTENDS DayFile

\* A feed without entities, a tombstone only, a base row, three stops in one
\* entity, a base row and a tombstone around two stops.
Feeds == {<<>>, <<9>>, <<0>>, <<3>>, <<0, 9, 2>>}
=============================================================================
