---------------------------- MODULE MCStatements ----------------------------
(* An instance of Statements for TLC, in units of a slot: a tuple is named  *)
(* by its size.                                                            *)
EXTENDS Statements

Sizes == [t \in Tuples |-> t]

(* UPDATE turns small tuples into large ones and large ones into small. *)
Swapped == [t \in Tuples |-> IF t = 1 THEN 3 ELSE 1]

Lists == {<<1, 1>>, <<3>>}
Wheres == {{1}, Tuples}
=============================================================================
