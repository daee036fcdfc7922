----------------------------- MODULE SlottedPage -----------------------------
(***************************************************************************)
(* The layout of a slotted page: a header, the slot array that grows from  *)
(* it, and tuples that grow down from the end of the page.  The caller     *)
(* holds the page's guard, so each method is one step.                     *)
(***************************************************************************)
EXTENDS Integers, Sequences, FiniteSetsExt

CONSTANTS
  Tuples,      \* the tuples that are stored
  Size,        \* Size[t]: storage_size() of tuple t, never 0
  PageSize,    \* PAGE_SIZE
  HeaderSize,  \* sizeof(Header)
  SlotSize,    \* sizeof(Slot)
  Empty        \* no tuple

ASSUME LayoutAssumption ==
  /\ Size \in [Tuples -> Nat \ {0}]
  /\ PageSize \in Nat /\ HeaderSize \in Nat /\ SlotSize \in Nat
  /\ HeaderSize <= PageSize
  /\ Empty \notin Tuples \cup (Tuples \X Nat)

VARIABLES
  slots,       \* the slot array; its length is slot_count_
  freePointer, \* free_space_pointer_
  deadSpace,   \* dead_space_
  tupleCount,  \* tuple_count_
  bytes        \* the data area: bytes[p] is byte i of tuple t, or nothing

vars == <<slots, freePointer, deadSpace, tupleCount, bytes>>

Positions == 0 .. (PageSize - 1)
Byte == (Tuples \X Nat) \cup {Empty}

TypeOK ==
  /\ slots \in Seq([offset : 0 .. PageSize, length : 0 .. PageSize])
  /\ freePointer \in 0 .. PageSize
  /\ deadSpace \in 0 .. PageSize
  /\ tupleCount \in 0 .. Len(slots)
  /\ bytes \in [Positions -> Byte]

(* init() on the zeroed page new_page hands out. *)
Init ==
  /\ slots = <<>>
  /\ freePointer = PageSize
  /\ deadSpace = 0
  /\ tupleCount = 0
  /\ bytes = [p \in Positions |-> Empty]

-----------------------------------------------------------------------------
Occupied == {i \in DOMAIN slots : slots[i].length # 0}
Reusable == DOMAIN slots \ Occupied

FreeSpaceRemaining == freePointer - (HeaderSize + SlotSize * Len(slots))
UsableSpace == FreeSpaceRemaining + deadSpace

(* Mutants: a new slot is free; no room is ever regained. *)
SlotNotPaid(t) == Size[t]
FitsAsIs(t) == FreeSpaceRemaining >= Size[t] + SlotSize

SpaceNeeded(t) == Size[t] + (IF Reusable = {} THEN SlotSize ELSE 0)

Fits(t) == UsableSpace >= SpaceNeeded(t)

(* compact(): live tuples are packed, in slot order, against the end of    *)
(* the page.  PackedOffset[i] is where slot i's tuple goes.                *)
PackedOffset ==
  LET at[i \in 0 .. Len(slots)] ==
        IF i = 0 THEN PageSize ELSE at[i - 1] - slots[i].length
  IN at

Packed ==
  LET to == PackedOffset
      end == to[Len(slots)]
      owner(p) == CHOOSE i \in Occupied : p \in to[i] .. (to[i - 1] - 1)
      source(p) == slots[owner(p)].offset + (p - to[owner(p)])
  IN [slots |-> [i \in DOMAIN slots |->
                   IF i \in Occupied THEN [slots[i] EXCEPT !.offset = to[i]]
                                     ELSE slots[i]],
      freePointer |-> end,
      deadSpace |-> 0,
      bytes |-> [p \in Positions |->
                   IF p < end THEN bytes[p] ELSE bytes[source(p)]]]

Unpacked ==
  [slots |-> slots, freePointer |-> freePointer, deadSpace |-> deadSpace,
   bytes |-> bytes]

(* Mutants: compact() moves the slots and not the bytes; dead_space_ is    *)
(* not reset.                                                              *)
SlotsMoved(t) ==
  IF FreeSpaceRemaining < SpaceNeeded(t) THEN [Packed EXCEPT !.bytes = bytes]
                                         ELSE Unpacked
DeadSpaceKept(t) ==
  IF FreeSpaceRemaining < SpaceNeeded(t)
  THEN [Packed EXCEPT !.deadSpace = deadSpace] ELSE Unpacked

(* The page insert_tuple allocates from. *)
Prepared(t) == IF FreeSpaceRemaining < SpaceNeeded(t) THEN Packed ELSE Unpacked

ReusedSlot == IF Reusable # {} THEN Min(Reusable) ELSE Len(slots) + 1

Insert(t) ==
  LET page == Prepared(t)
      offset == page.freePointer - Size[t]
  IN /\ Fits(t)
     /\ slots' = [i \in DOMAIN slots \cup {ReusedSlot} |->
                    IF i = ReusedSlot
                    THEN [offset |-> offset, length |-> Size[t]]
                    ELSE page.slots[i]]
     /\ freePointer' = offset
     /\ deadSpace' = page.deadSpace
     /\ tupleCount' = tupleCount + 1
     /\ bytes' = [p \in Positions |->
                    IF p \in offset .. (offset + Size[t] - 1)
                    THEN <<t, p - offset>> ELSE page.bytes[p]]

(* Mutant: a deleted tuple is deleted again. *)
DeleteAgain(i) ==
  /\ slots' = [slots EXCEPT ![i].length = 0]
  /\ deadSpace' = deadSpace + slots[i].length
  /\ tupleCount' = tupleCount - 1
  /\ UNCHANGED <<freePointer, bytes>>

(* delete_tuple does nothing for a slot that is empty already, and throws  *)
(* for one that does not exist.                                            *)
Delete(i) ==
  /\ i \in Occupied
  /\ slots' = [slots EXCEPT ![i].length = 0]
  /\ deadSpace' = deadSpace + slots[i].length
  /\ tupleCount' = tupleCount - 1
  /\ UNCHANGED <<freePointer, bytes>>

Next ==
  \/ \E t \in Tuples : Insert(t)
  \/ \E i \in DOMAIN slots : Delete(i)

Spec == Init /\ [][Next]_vars

-----------------------------------------------------------------------------
Extent(i) == slots[i].offset .. (slots[i].offset + slots[i].length - 1)

(* Live tuples never overlap one another, nor the free area, nor, below    *)
(* it, the slot array and the header: free_space_remaining(), an unsigned  *)
(* subtraction, never wraps around.                                        *)
NoOverlap ==
  /\ FreeSpaceRemaining >= 0
  /\ \A i \in Occupied : Extent(i) \subseteq freePointer .. (PageSize - 1)
  /\ \A i, j \in Occupied : i # j => Extent(i) \cap Extent(j) = {}

(* dead_space_ is exactly what compact() gains: every byte above the free  *)
(* area is a live tuple's or counted dead.                                 *)
SpaceAccounted ==
  /\ PackedOffset[Len(slots)] = freePointer + deadSpace
  /\ tupleCount = Cardinality(Occupied)

(* tuple(): the bytes a slot names, read back as a tuple; Empty if they    *)
(* are not all of one tuple.                                               *)
Read(i) ==
  LET at(k) == bytes[slots[i].offset + k] IN
  IF /\ i \in Occupied
     /\ at(0) # Empty
     /\ slots[i].length = Size[at(0)[1]]
     /\ \A k \in 0 .. (slots[i].length - 1) : at(k) = <<at(0)[1], k>>
  THEN at(0)[1] ELSE Empty

(* Whatever is inserted, deleted and compacted, a RecordId reads the tuple *)
(* it was given for, and a tuple is refused only if it cannot fit.         *)
Rows == INSTANCE TupleSlots WITH rows <- [i \in DOMAIN slots |-> Read(i)]
ImplementsTupleSlots == Rows!Spec
RefusedOnlyIfFull ==
  \A t \in Tuples : Rows!HasRoom(t) <=> Fits(t)
=============================================================================
