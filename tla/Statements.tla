----------------------------- MODULE Statements -----------------------------
(***************************************************************************)
(* INSERT, DELETE and UPDATE on one table, as main.cpp builds them:        *)
(*                                                                         *)
(*     Values -> Insert                                                    *)
(*     SeqScan -> Filter -> Delete                                         *)
(*     SeqScan -> Filter -> Update                                         *)
(*                                                                         *)
(* An operator pulls batches of rows from its child.  The scan stands in   *)
(* the table while Delete changes it, and rows wait in the operators       *)
(* between.  Any call on the table may be refused by the buffer pool (all  *)
(* frames pinned); reads of the scan are not refused in this model.        *)
(***************************************************************************)
EXTENDS TableHeap, FiniteSets

CONSTANTS
  BatchSize,   \* batch_size of every next()
  NewTuple,    \* NewTuple[t]: t after the SET clause of an UPDATE
  ValueLists,  \* the lists of tuples that clients insert
  Predicates   \* the WHERE clauses: sets of tuples

ASSUME StatementAssumption ==
  /\ BatchSize \in Nat \ {0}
  /\ NewTuple \in [Tuples -> Tuples]
  /\ ValueLists \subseteq Seq(Tuples)
  /\ Predicates \subseteq SUBSET Tuples

VARIABLES
  heap,   \* the table
  stmt,   \* the statement that runs
  ghost   \* not in the code: what the statement found and did

vars == <<heap, stmt, ghost>>

Kinds == {"insert", "delete", "update"}
States == {"done", "pull", "scan", "apply", "terminated"}

Row == [rid : [page : PageIds \cup {NoPage}, slot : Nat \ {0}],
        tuple : Tuples \cup {Empty}]

(*   where   the filter's predicate                                        *)
(*   iter    the scan's iterator                                           *)
(*   child   rows of the filter's child batch it has not looked at         *)
(*   out     rows handed to the executor and not worked off                *)
(*   count   total_rows_inserted_, total_rows_deleted_, updated_count      *)
Idle == [kind |-> "insert", pc |-> "done", where |-> {}, iter |-> AtEnd,
         child |-> <<>>, out |-> <<>>, count |-> 0]

(*   start    the table when the statement began                           *)
(*   seen     the record ids the executor has worked off, in order         *)
(*   removed  those it deleted                                             *)
(*   added    the tuples it stored                                         *)
Untouched(h) ==
  [start |-> Contents(h), seen |-> <<>>, removed |-> {}, added |-> <<>>]

TypeOK ==
  /\ IsHeap(heap)
  /\ stmt.kind \in Kinds /\ stmt.pc \in States
  /\ stmt.where \in SUBSET Tuples
  /\ stmt.iter \in Row
  /\ stmt.child \in Seq(Row) /\ stmt.out \in Seq(Row)
  /\ stmt.count \in Nat

Init ==
  /\ heap = NewHeap
  /\ stmt = Idle
  /\ ghost = Untouched(NewHeap)

-----------------------------------------------------------------------------
(* init() of the executors.  INSERT has no scan and no filter: its rows     *)
(* are the list of Values, in batches, and all of them pass.               *)
Start(s) ==
  /\ stmt.pc = "done"
  /\ stmt' = s
  /\ UNCHANGED <<heap, ghost>>

StartInsert(list) ==
  Start([Idle EXCEPT
           !.pc = "pull", !.where = Tuples,
           !.child = [i \in DOMAIN list |-> [rid |-> End, tuple |-> list[i]]]])

StartScan(kind, where) ==
  Start([Idle EXCEPT !.kind = kind, !.pc = "pull", !.where = where,
                     !.iter = Begin(heap)])

(* Mutants: an UPDATE applies every batch before it pulls the next; the    *)
(* iterator does not move.                                                 *)
OneBatch == Len(stmt.out) < BatchSize
StuckIterator == stmt.iter

(* Filter stops at batch_size rows; Update goes on pulling until its child *)
(* is exhausted.                                                           *)
WantsMore == stmt.kind = "update" \/ Len(stmt.out) < BatchSize

Exhausted == stmt.child = <<>> /\ stmt.iter = AtEnd

(* One turn of SeqScanExecutor::next's loop: the row the iterator holds,    *)
(* and ++ of the iterator.  The call ends with the batch or the table.     *)
NextIterator == Advanced(heap, stmt.iter)

ScanRow ==
  /\ \/ stmt.pc = "pull" /\ WantsMore /\ stmt.child = <<>>
     \/ stmt.pc = "scan"
  /\ stmt.iter # AtEnd
  /\ stmt' = [stmt EXCEPT
                !.child = Append(@, stmt.iter),
                !.iter = NextIterator,
                !.pc = IF Len(stmt.child) + 1 < BatchSize /\ NextIterator # AtEnd
                       THEN "scan" ELSE "pull"]
  /\ UNCHANGED <<heap, ghost>>

(* One turn of FilterExecutor::next's loop over a child batch. *)
FilterRow ==
  /\ stmt.pc = "pull" /\ WantsMore
  /\ stmt.child # <<>>
  /\ LET row == Head(stmt.child) IN
     stmt' = [stmt EXCEPT !.child = Tail(@),
                          !.out = IF row.tuple \in stmt.where
                                  THEN Append(@, row) ELSE @]
  /\ UNCHANGED <<heap, ghost>>

(* next() of the child returns true: there are rows to work off ... *)
Pulled ==
  /\ stmt.pc = "pull" /\ stmt.out # <<>>
  /\ ~WantsMore \/ Exhausted
  /\ stmt' = [stmt EXCEPT !.pc = "apply"]
  /\ UNCHANGED <<heap, ghost>>

(* ... or false: the executor emits its count, and the statement is over. *)
Over == stmt.pc = "pull" /\ stmt.out = <<>> /\ Exhausted

Finish ==
  /\ Over
  /\ stmt' = Idle
  /\ ghost' = Untouched(heap)
  /\ UNCHANGED heap

(* The executor is done with the first row of its batch. *)
Applied(counted) ==
  stmt' = [stmt EXCEPT !.out = Tail(@),
                       !.pc = IF Len(stmt.out) = 1 THEN "pull" ELSE "apply",
                       !.count = IF counted THEN @ + 1 ELSE @]

Note(rid, removed, added) ==
  ghost' = [ghost EXCEPT !.seen = Append(@, rid),
                         !.removed = @ \cup removed,
                         !.added = @ \o added]

Applying(kind) == stmt.pc = "apply" /\ stmt.kind = kind

(* InsertExecutor counts a row whether or not insert_tuple took it: the    *)
(* pool may have no frame for the page, or for a new one.                  *)
InsertRow ==
  LET row == Head(stmt.out) IN
  /\ Applying("insert")
  /\ \/ /\ CanInsert(heap, row.tuple)
        /\ heap' = Inserted(heap, row.tuple)
        /\ Note(row.rid, {}, <<row.tuple>>)
     \/ /\ UNCHANGED heap
        /\ Note(row.rid, {}, <<>>)
  /\ Applied(TRUE)

(* So does DeleteExecutor. *)
DeleteRow ==
  LET row == Head(stmt.out) IN
  /\ Applying("delete")
  /\ \/ /\ heap' = Deleted(heap, row.rid)
        /\ Note(row.rid, {row.rid}, <<>>)
     \/ /\ UNCHANGED heap
        /\ Note(row.rid, {}, <<>>)
  /\ Applied(TRUE)

(* UpdateExecutor deletes the old row and, if that worked, inserts the new *)
(* one, which may be refused: then the row is gone.                        *)
UpdateRow ==
  LET row == Head(stmt.out)
      new == NewTuple[row.tuple]
      without == Deleted(heap, row.rid)
  IN
  /\ Applying("update")
  /\ \/ /\ CanInsert(without, new)
        /\ heap' = Inserted(without, new)
        /\ Note(row.rid, {row.rid}, <<new>>)
        /\ Applied(TRUE)
     \/ /\ heap' = without
        /\ Note(row.rid, {row.rid}, <<>>)
        /\ Applied(FALSE)
     \/ /\ UNCHANGED heap
        /\ Note(row.rid, {}, <<>>)
        /\ Applied(FALSE)

(* TURTLE_ENSURE in insert_tuple ends the process. *)
Terminate ==
  LET row == Head(stmt.out)
      without == Deleted(heap, row.rid)
  IN
  /\ \/ /\ Applying("insert") /\ InsertTerminates(heap, row.tuple)
        /\ UNCHANGED <<heap, ghost>>
     \/ /\ Applying("update")
        /\ InsertTerminates(without, NewTuple[row.tuple])
        /\ heap' = without
        /\ Note(row.rid, {row.rid}, <<>>)
  /\ stmt' = [stmt EXCEPT !.pc = "terminated"]

Step ==
  \/ ScanRow \/ FilterRow \/ Pulled \/ Finish
  \/ InsertRow \/ DeleteRow \/ UpdateRow
  \/ Terminate

Next ==
  \/ \E list \in ValueLists : StartInsert(list)
  \/ \E kind \in {"delete", "update"}, where \in Predicates :
       StartScan(kind, where)
  \/ Step

Spec == Init /\ [][Next]_vars

(* The thread that executes a statement goes on. *)
FairSpec == Spec /\ WF_vars(Step)

-----------------------------------------------------------------------------
(* Growing the table never loses a page: inserts and scans go on from the  *)
(* same chain, whatever insert_tuple, mark_delete and new_page did.        *)
ChainIsWhole == WholeChain(heap)

(* free_space_map_, which each change of a page must bring up to date. *)
FreeSpaceMapIsTrue == TrueFreeSpace(heap)

(* Through every growth, slot reuse and refused call, a scan of the table  *)
(* finds exactly the rows it held before the statement, each where it was, *)
(* less those the statement removed, and what it added.                    *)
TableHoldsWhatWasStored ==
  LET now == Contents(heap)
      kept == DOMAIN ghost.start \ ghost.removed
      of(map, rids, t) == Cardinality({r \in rids : map[r] = t})
  IN /\ \A r \in kept : r \in DOMAIN now /\ now[r] = ghost.start[r]
     /\ \A t \in Tuples :
          of(now, DOMAIN now, t)
            = of(ghost.start, kept, t)
              + of(ghost.added, DOMAIN ghost.added, t)

(* A DELETE or UPDATE works off each row that its WHERE clause selects,    *)
(* once, and no other, although it changes the table it scans: an UPDATE   *)
(* does not meet the rows it has written.                                  *)
EachMatchOnce ==
  stmt.kind \in {"delete", "update"} =>
    LET matches == {r \in DOMAIN ghost.start : ghost.start[r] \in stmt.where}
    IN /\ IsInjective(ghost.seen)
       /\ ToSet(ghost.seen) \subseteq matches
       /\ Over => ToSet(ghost.seen) = matches

(* "Tuple too large to fit in a single page" (table_heap.cpp:112): the     *)
(* process is ended only for such a tuple.  No tuple of the model is: it   *)
(* never ends.                                                             *)
EndsOnlyIfTooLarge == stmt.pc # "terminated"

(* Every statement ends: a scan of a table that is being changed does not  *)
(* go on for ever.                                                         *)
EveryStatementEnds == [](stmt.pc \in {"pull", "scan", "apply"} =>
                           <>(stmt.pc \in {"done", "terminated"}))
=============================================================================
