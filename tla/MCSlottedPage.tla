---------------------------- MODULE MCSlottedPage ----------------------------
(* An instance of SlottedPage for TLC, in units of a slot: a tuple is named *)
(* by its size.                                                            *)
EXTENDS SlottedPage

Sizes == [t \in Tuples |-> t]
=============================================================================
