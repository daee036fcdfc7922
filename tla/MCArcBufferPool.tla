-------------------------- MODULE MCArcBufferPool --------------------------
(* An instance of ArcBufferPool for TLC. *)
EXTENDS ArcBufferPool, TLC

(* Clients delete the first page of every file and no other. *)
FirstPages == {k \in Keys : k[2] = 0}

Symmetry == Permutations(Frames) \cup Permutations(Guards)
=============================================================================
