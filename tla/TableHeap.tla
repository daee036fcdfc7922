----------------------------- MODULE TableHeap -----------------------------
(***************************************************************************)
(* TableHeap and TableIterator: a table as a chain of slotted pages.  A    *)
(* page is what TupleSlots promises of it (SlottedPage implements that),   *)
(* and reaches the heap through the buffer pool as PageStore promises      *)
(* (BufferPool implements that): its rows are those last written.  The     *)
(* heap takes no latch of its own and is used by one thread, so a method   *)
(* is an operator on the heap's state h; Statements calls them.            *)
(***************************************************************************)
EXTENDS Integers, SequencesExt

CONSTANTS
  Tuples, Size,                      \* the tuples and their storage_size()
  PageSize, HeaderSize, SlotSize,    \* the layout of a page
  Empty,                             \* the content of a slot with no tuple
  MaxPages,                          \* bound on the ids new_page hands out
  NoPage                             \* INVALID_PAGE_ID

ASSUME HeapAssumption ==
  /\ Size \in [Tuples -> Nat \ {0}]
  /\ PageSize \in Nat /\ HeaderSize \in Nat /\ SlotSize \in Nat
  /\ HeaderSize <= PageSize
  /\ \A t \in Tuples : HeaderSize + SlotSize + Size[t] <= PageSize
  /\ MaxPages \in Nat \ {0}
  /\ NoPage \notin 0 .. (MaxPages - 1)
  /\ Empty \notin Tuples

(* Operators of a page with these rows. *)
On(rows) == INSTANCE TupleSlots

PageIds == 0 .. (MaxPages - 1)
Page == [rows : Seq(Tuples \cup {Empty}), next : PageIds \cup {NoPage}]
EmptyPage == [rows |-> <<>>, next |-> NoPage]

(* free_space_remaining() plus dead_space_. *)
Usable(rows) == PageSize - On(rows)!Used

(***************************************************************************)
(*   page         the pages of the table's file, with next_page_id_        *)
(*   first, last  first_page_id_ and last_page_id_                         *)
(*   freeSpace    free_space_map_                                          *)
(*   nextPage     the id the pool's new_page hands out next                *)
(***************************************************************************)
IsHeap(h) ==
  /\ DOMAIN h.page \subseteq PageIds
  /\ \A p \in DOMAIN h.page : h.page[p] \in Page
  /\ h.first \in PageIds /\ h.last \in PageIds
  /\ DOMAIN h.freeSpace \subseteq PageIds
  /\ \A p \in DOMAIN h.freeSpace : h.freeSpace[p] \in 0 .. PageSize
  /\ h.nextPage \in 0 .. MaxPages

(* The constructor that allocates the first page. *)
NewHeap ==
  [page |-> [p \in {0} |-> EmptyPage], first |-> 0, last |-> 0,
   freeSpace |-> [p \in {0} |-> Usable(<<>>)], nextPage |-> 1]

Rows(h, p) == h.page[p].rows
Live(h, p) == {s \in DOMAIN Rows(h, p) : Rows(h, p)[s] # Empty}
Put(map, x, y) == [z \in DOMAIN map \cup {x} |-> IF z = x THEN y ELSE map[z]]

(***************************************************************************)
(* insert_tuple                                                            *)
(***************************************************************************)
(* Mutants: the last page always has room; the last slot is overwritten;   *)
(* the new page is not linked to its predecessor.                          *)
NeverFull(h, t) == FALSE
OverLastSlot(rows, t) ==
  IF rows = <<>> THEN <<t>> ELSE [rows EXCEPT ![Len(rows)] = t]
GrownUnlinked(h) ==
  [h EXCEPT !.page = Put(@, h.nextPage, EmptyPage),
            !.freeSpace = Put(@, h.last, Usable(Rows(h, h.last))),
            !.last = h.nextPage,
            !.nextPage = @ + 1]

(* The code looks for a page with room in free_space_map_ and does not use *)
(* what it finds: it is always the last page that is tried.                *)
Full(h, t) == ~On(Rows(h, h.last))!HasRoom(t)

WithTuple(rows, t) ==
  LET slot == On(rows)!NextSlot IN
  [s \in DOMAIN rows \cup {slot} |-> IF s = slot THEN t ELSE rows[s]]

Stored(h, t) ==
  LET rows == WithTuple(Rows(h, h.last), t) IN
  [h EXCEPT !.page[h.last].rows = rows,
            !.freeSpace = Put(@, h.last, Usable(rows))]

(* A new page at the end of the chain. *)
Grown(h) ==
  [h EXCEPT !.page = Put([@ EXCEPT ![h.last].next = h.nextPage],
                         h.nextPage, EmptyPage),
            !.freeSpace = Put(@, h.last, Usable(Rows(h, h.last))),
            !.last = h.nextPage,
            !.nextPage = @ + 1]

Inserted(h, t) == IF Full(h, t) THEN Stored(Grown(h), t) ELSE Stored(h, t)

(* TURTLE_ENSURE(tuple_count() != 0, ...) ends the process. *)
InsertTerminates(h, t) == Full(h, t) /\ Live(h, h.last) = {}

(* new_page is called and hands out a page. *)
CanInsert(h, t) ==
  /\ ~InsertTerminates(h, t)
  /\ Full(h, t) => h.nextPage < MaxPages

(***************************************************************************)
(* mark_delete                                                             *)
(***************************************************************************)
(* Mutant: free_space_map_ is not told. *)
DeletedQuietly(h, rid) == [h EXCEPT !.page[rid.page].rows[rid.slot] = Empty]

Deleted(h, rid) ==
  LET rows == [Rows(h, rid.page) EXCEPT ![rid.slot] = Empty] IN
  [h EXCEPT !.page[rid.page].rows = rows,
            !.freeSpace = Put(@, rid.page, Usable(rows))]

(***************************************************************************)
(* TableIterator: the record id of a live tuple and a copy of that tuple,  *)
(* or the end.                                                             *)
(***************************************************************************)
End == [page |-> NoPage, slot |-> 1]

(* The pages from p on, following next_page_id_. *)
Chain(h, p) ==
  LET at[i \in 1 .. MaxPages] ==
        IF i = 1 THEN p
        ELSE IF at[i - 1] = NoPage THEN NoPage ELSE h.page[at[i - 1]].next
  IN SubSeq(at, 1, Cardinality({i \in 1 .. MaxPages : at[i] # NoPage}))

ReadAt(h, rid) == Rows(h, rid.page)[rid.slot]
RowAt(h, rid) == [rid |-> rid, tuple |-> ReadAt(h, rid)]

(* At the end the iterator holds no tuple. *)
AtEnd == [rid |-> End, tuple |-> Empty]

(* advance_to_valid: the first live tuple of page p at or after the slot,  *)
(* or else of the first page after p that has one.                         *)
FirstLive(h, p, slot) ==
  LET chain == Chain(h, p)
      live(i) == {s \in Live(h, chain[i]) : i = 1 => s >= slot}
      found == {i \in DOMAIN chain : live(i) # {}}
      i == Min(found)
  IN IF found = {} THEN AtEnd
     ELSE RowAt(h, [page |-> chain[i], slot |-> Min(live(i))])

Begin(h) == FirstLive(h, h.first, 1)
Advanced(h, iter) ==
  IF iter = AtEnd THEN AtEnd
  ELSE FirstLive(h, iter.rid.page, iter.rid.slot + 1)

-----------------------------------------------------------------------------
(* The live tuples of the table, by their record ids. *)
LiveRids(h) ==
  UNION {{[page |-> p, slot |-> s] : s \in Live(h, p)} :
           p \in ToSet(Chain(h, h.first))}
Contents(h) == [rid \in LiveRids(h) |-> ReadAt(h, rid)]

(* The chain leads from the first page to the last, through every page of  *)
(* the table once.                                                         *)
WholeChain(h) ==
  LET chain == Chain(h, h.first) IN
  /\ IsInjective(chain)
  /\ ToSet(chain) = DOMAIN h.page
  /\ Last(chain) = h.last
  /\ h.page[h.last].next = NoPage

(* free_space_map_ tells the usable space of every page it knows. *)
TrueFreeSpace(h) ==
  \A p \in DOMAIN h.freeSpace : h.freeSpace[p] = Usable(Rows(h, p))
=============================================================================
