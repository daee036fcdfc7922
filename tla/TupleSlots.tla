----------------------------- MODULE TupleSlots -----------------------------
(***************************************************************************)
(* What a slotted page promises: numbered slots, each empty or holding a   *)
(* tuple.  A tuple stays, unchanged, in the slot it was given until it is  *)
(* deleted, and is turned away only when the live tuples, the slots and    *)
(* the header leave it no room.                                            *)
(***************************************************************************)
EXTENDS Integers, Sequences, FiniteSetsExt

CONSTANTS Tuples, Size, PageSize, HeaderSize, SlotSize, Empty

VARIABLE rows   \* rows[i]: the tuple in slot i, or Empty

Slots == DOMAIN rows
EmptySlots == {i \in Slots : rows[i] = Empty}

(* The slot the next tuple gets: the lowest empty one, else a new one. *)
NextSlot == IF EmptySlots # {} THEN Min(EmptySlots) ELSE Len(rows) + 1

(* Stored[i]: what the tuples of the first i slots take. *)
Stored ==
  LET sum[i \in 0 .. Len(rows)] ==
        IF i = 0 THEN 0
        ELSE sum[i - 1] + (IF rows[i] = Empty THEN 0 ELSE Size[rows[i]])
  IN sum

Used == HeaderSize + SlotSize * Len(rows) + Stored[Len(rows)]
HasRoom(t) ==
  Used + Size[t] + (IF EmptySlots # {} THEN 0 ELSE SlotSize) <= PageSize

Insert(t) ==
  /\ HasRoom(t)
  /\ rows' = [i \in Slots \cup {NextSlot} |->
                IF i = NextSlot THEN t ELSE rows[i]]

Delete(i) ==
  /\ i \in Slots
  /\ rows' = [rows EXCEPT ![i] = Empty]

Spec ==
  /\ rows = <<>>
  /\ [][(\E t \in Tuples : Insert(t)) \/ (\E i \in Slots : Delete(i))]_rows
=============================================================================
