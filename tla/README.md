# A TLA+ verification of TurtleDB

TurtleDB is a small relational storage engine in C++: a buffer pool over files,
slotted pages, heap tables, a catalog, typed values with SQL's NULL, and
batch-at-a-time executors.  This directory holds TLA+ modules that model it, TLC
configurations that check them on small instances, and proofs for all instances:
of the buffer pool and its refinements, of ARC, of the slotted page, of tables
under INSERT, DELETE and UPDATE, of the catalog with its files, and of values
under chains of operations.  Paths below are relative to the repository.

    tlc -workers 2 -config pool.cfg MCBufferPool       # any run of the table below
    tlapm BufferPoolProofs.tla                         # any module of section 4

## 1. The system

    executors ──> catalog ──> table heap / iterator
                                   │  read_page, write_page, new_page
                                   v
              page guards ──> buffer pool manager ──> ARC replacer
              (rw_latch_)          │  (bpm_latch_)
                                   v
                              disk manager ──> files

| component | state | operations | what makes it correct |
|---|---|---|---|
| Buffer pool manager (`src/buffer/buffer_pool_manager.cpp`) | page table, free list, the frames (`Page`: ids, pin count, dirty flag, bytes), `next_page_id_` | `fetch_page`, `new_page`, `unpin_page`, `flush_page`, `flush_all_pages`, `delete_page`, `read_page`/`write_page` | the cache is invisible: no write is lost or undone, a pointer to a pinned page stays good, exhaustion means that every frame is pinned |
| Page guards (`src/storage/page/*_guard.cpp`) | the page and whether the latch is held | constructor (latch), data access, `drop` (unlatch, then unpin) | one writer or many readers of a page; no leaked pin or latch |
| ARC replacer (`src/buffer/arc_replacer.cpp`) | four lists, two maps, a target and a count of evictable frames | `evict`, `record_access`, `set_evictable`, `remove` | lists and maps agree, metadata is bounded, only unpinned frames are victims, LRU within a list |
| Disk manager (`src/storage/disk/disk_manager.cpp`) | registry of open streams | `create_file`, `open_file`, `read_page`, `write_page` | a page read back is the page written; failures throw |
| Slotted page (`slotted_page.cpp/.hpp`) | header, slot array, tuple bytes | `insert_tuple`, `delete_tuple`, `tuple`, `compact` | record ids are stable; tuples never overlap; space is neither lost nor invented |
| Table heap, iterator (`src/storage/table/`) | first and last page, `free_space_map_`; the pages' chain | `insert_tuple`, `mark_delete`, `get_tuple`, `begin`, `++` | every row stored is found by a scan, once |
| Executors (`src/execution/executors/`) | cursors, batches, counts | `init`, `next(batch)` | each matching row is worked off once; statements end; reported counts are true |
| Tuple codec (`src/storage/table/tuple.cpp`) | the bytes of a row with a null bitmap | constructor, `value` | a column read back is the column written |
| Catalog (`src/catalog/catalog.cpp`) | tables, databases, files on disk | `create_table`, `create_database`, `load`, `flush` | what was flushed is what is loaded, also after a crash |
| Values, expressions (`src/datatype/`, `execution/expressions/`) | none: a value is a type, a null flag and a union | arithmetic, comparison, logic, min and max, casts, copy, storage | the result meant (exact on integers, rounded beside a DECIMAL), NULL, or an exception; the type that was declared |
| Aggregation (`execution/aggregation/`) | hash table of groups with an accumulator for each function | `insert_combine`, `update`, `finalize` | each row in one group, the functions over that group's values |
| LRU replacer, transactions, index, parser, API | unused or placeholders | | |

What is hard here:

* **Concurrency.** The pool serialises its own operations with `bpm_latch_`, the
  guards latch frames with another lock and outside the first.  Between a pin
  and its latch, and between unlatching and unpinning, any other thread may
  fetch, evict, flush or delete.  `unpin_page` finds the frame again by the page
  id it reads in the frame.
* **Failure half-way.** `DiskManager` throws; `fetch_page` and `new_page` have
  by then unmapped a page, taken a frame or mapped one, and undo nothing.
  `insert_tuple` and `mark_delete` return `false` when the pool has no frame,
  and some callers do not look.
* **Redundant state.** Page table against frames, four lists against two maps,
  `curr_size_`, `tuple_count_`, `dead_space_`, `free_space_map_`: copies kept in
  step by hand over long sequences of calls.
* **Change under a scan.** DELETE changes the table that its own child is
  standing in; UPDATE would meet its own rows if it did not drain its child first.
* **Restart.** `next_page_id_` and the file ids start again in each process, the
  registry of tables is not saved, and the catalog is rewritten in place by a
  destructor: a crash leaves files that end anywhere, which the next process
  loads as far as they go and then writes back.
* **Values.** NULL is the least integer of a type *and* a flag; four widths, a
  double and a text meet in every operation; a result may leave the range, land
  on the sentinel, or overflow the type C++ computes it in, and a BIGINT is
  rounded wherever it meets a double.
* **Batches.** Each executor keeps a cursor into a batch that its child filled,
  and a child may fill it with fewer rows than it was asked for.

`PROJECT.json` lists each hazard at its line with the properties that would
notice it going wrong, or the reason why none does yet.

## 2. The modules

| module | models | notes |
|---|---|---|
| `PageStore` | what the pool promises | abstract: pages with a current content, latches, and what has reached the disk |
| `BufferFrames` | `BufferPoolManager`, the guards and `Page`, with the victim left open | one operator per handler; the frame that a handler gets is its parameter |
| `BufferPool` | the pool with a replacer that may offer *any* evictable frame | implements `PageStore`; the proofs are about this module |
| `ArcReplacer` | ARC as operators on a record | shared by the next two |
| `ArcDriver` | the replacer driven by every sequence of calls the pool can make | small state, so room for full ghost lists |
| `ArcBufferPool` | the pool with the ARC of the code | implements `BufferPool` |
| `TupleSlots` | what a slotted page promises | numbered slots |
| `SlottedPage` | the page byte by byte, with compaction | implements `TupleSlots` |
| `TableHeap` | the heap and its iterator as operators on a chain of pages | each page is what `TupleSlots` promises |
| `Statements` | INSERT, DELETE and UPDATE as trees of executors on one table | composes with `TableHeap` |
| `Values`, `NumericTypes`, `IntegerFamily`, `DataTypes` | `Value`, the templates of `IntegerParentType`, the eight types | pure operators; each returns the *set* of its outcomes |
| `ValueFactory` | the casts of `ValueFactory` | |
| `Expressions` | arithmetic, comparison and logic nodes | |
| `Evaluator` | a tree evaluated from its leftmost leaf up, next to what it denotes | the reference definition of values |
| `Rows` | `Tuple`, expression trees over a row | |
| `Aggregates` | the six registered functions, the hash table | |
| `QueryExecutors` | Filter, Projection, Sort, Limit, Aggregation | one action per `init` and per `next`, or turn of its loop |
| `QueryProperties` | what a query promises, without batches | |
| `DemoQueries` | the plans that `main.cpp` builds | |
| `DiskManager` | files, their ids and streams, pages | shared by the catalog |
| `Catalog` | the catalog over several lives of the process, with crashes | composes with `DiskManager` |
| `MC*` | instances for TLC | |
| `BufferPoolProofs` | theorems about `BufferPool` | under any faults, then what holds when the disk answers |
| `ArcReplacerProofs` | lemmas about ARC's operators, theorems about `ArcDriver` | |
| `ArcBufferPoolProofs` | theorems about `ArcBufferPool` | |
| `SlottedPageProofs` | theorems about `SlottedPage` | |
| `StatementsProofs` | theorems about `Statements` and `TableHeap` | |
| `CatalogProofs` | theorems about `Catalog` and `DiskManager` | |
| `EvaluatorProofs` | theorems about `Evaluator`, with lemmas about every operation of every type | |
| `QueryProofs` | theorems about `QueryExecutors`, with lemmas about rows, trees and batches | |

The layers meet at abstract specifications: `ArcBufferPool` ⇒ `BufferPool` ⇒
`PageStore`, `SlottedPage` ⇒ `TupleSlots`, and `TableHeap` is written over the two
abstract ones.  A table is checked without the pool under it, because the pool
has been checked to be invisible; queries run over the rows of a table in order,
because a scan has been checked to find each of them once.

### The pool: state and steps

`BufferFrames` keeps the code's state under its own names: `pageTable` is
`page_table_`, `freeFrames` is `free_frames_` (frames are interchangeable, so a
set), `frameKey`, `pinCount`, `dirty` and `frameData` are the fields of `Page`.
A page id belongs to `(file, page)`, and one counter hands out the ids of all
files, as in the code.  Every handler holds `bpm_latch_` throughout and is one
action.  A guard goes through

    idle → waiting (pinned) → held (latched) → [writing → held] → unlatched → idle

and the steps between belong to no common lock.  While a client rewrites a page
its bytes are `Torn`, and a flush may take them to disk in that state
(`flush_page` does not latch the page).

`Faults` says which disk calls may throw.  A throwing `read_page`, a throwing
write-back of the victim, and a throwing reservation of a new page each leave
what the code leaves: a frame on no list, a mapped page whose frame the replacer
has forgotten, or a mapped page with a pin that nobody holds.

`delete_page` is called only by the tests; clients of the model delete the
pages in `Deletable` (in the runs: the first), which gives deletion against
concurrent use without having every page come and go.

### ARC

A record holds the four lists (front = most recent), the two maps and
`mru_target_size_` and `curr_size_`.  `ArcDriver` calls it as the pool does (hit,
fill of a free frame, replacement of a victim, last unpin, deletion) and carries
one ghost variable, the true order of accesses.  `ghost_map_` is keyed by page
id alone in the code; ids are unique over the files of one process, so the model
does the same.

### Pages and tables

`SlottedPage` keeps the header fields, the slot array and every byte of the tuple
area; a byte is `<<tuple, position in the tuple>>`, so a copied, torn or
overwritten tuple is seen when it is read.  Sizes are in units of a slot entry.

A heap in `TableHeap` is a record of its pages and of `first_page_id_`,
`last_page_id_`, `free_space_map_` and the id that `new_page` gives next.  The
methods of the table are run by one thread and are operators.  `insert_tuple`
looks for a candidate in `free_space_map_` and then always tries the last page;
the model has only the second part, as the first has no effect.

`Statements` has one action per turn of an executor loop: a scan adds the row its
iterator stands on to the batch and moves on (`ScanRow`; between two turns of one
call the statement is in `"scan"`), the filter looks at a row, a batch is handed up,
a row is inserted, deleted or updated, the count is emitted.  The iterator stands
one row ahead and holds a *copy* of it; `FirstLive` is `advance_to_valid`, over the
pages that `Chain` reaches.  DELETE applies each batch before it pulls the next; UPDATE pulls
all of them first.  Every table call may be refused, as by a pool whose frames
are all pinned.  The variable `ghost` records what the statement began with and
did; no action reads it.

### Values and expressions

A value is `[type, null, raw]`; `raw = <<>>` is a union nobody has written, so what
reads it gets any bits.  Widths are parameters (`Half`, 2^(w-1) for w bits), and every operator that
narrows does so by `Wrap`.  A result has several outcomes where C++ leaves it
open: `x + y` in the type it is computed in may overflow *before* the code looks
whether it did, which the compiler may use.  The asserts are left out, as under
`NDEBUG` (`CMakeLists.txt` sets no build type): in a build that keeps them, a failed
one ends the process, so that its runs are prefixes of those modelled.  DECIMAL is
a double.  `DoubleNumbers` are the numbers a double holds, in halves, and `Nearest` rounds
a number to one of them; a significand (`Mantissa`) holds every INTEGER with its halves
and is narrower than a BIGINT (`DoubleAssumption`), as 53 bits are than 64.  So the places where
the code has a `static_cast<double>` or lets C++ convert (`bigint_type.cpp:22,48,378`,
`decimal_type.cpp:24,48`) round a BIGINT (`ToDouble`), and so does each result (`Doubles`).
An operation whose exact result has a finer fraction than a half, or is beyond the largest
double modelled (`DecimalTop`), has no outcome and no step.
Each type's table of NULL results is written out, because they differ.

`Evaluator` builds a tree node by node.  Beside the code's value (`acc`) it keeps
the type that `infer_return_type` declared and the `meaning`: the number, NULL or
the truth in three-valued logic, computed from the literals and never from `acc`.  On integers
the number is the exact one.  Beside a DECIMAL it is what arithmetic on doubles means: each
operand is rounded once, then the exact result is.  A BIGINT that was never beside a DECIMAL
stays exact.

### Queries

`QueryExecutors` runs a plan from the scan upwards: each node consumes the list
of batches that the node below delivered and produces its own.  The code nests
the calls instead, but nodes share nothing but the batches.  Cursors are
kept as the code keeps them (`child_tuples_`, `child_offset_`, `emitted_count_`);
`sorted_entries_` and the groups lose the entries that were handed out, in the place of an
index.  `std::sort` is any permutation in which no entry goes before an earlier
one under the code's comparator, and `unordered_map` iterates in any order.  Columns
are one byte wide, so the offsets of `Tuple::value` are counts, which shows what a NULL
column does to the columns after it.  An expression tree is the sequence of its nodes,
children first, and `Evaluate` a function over its places; `WellTyped` is what the
nodes' constructors check.  What a node does with two one-byte values is tabulated once
(`PerformArithmetic`, `PerformComparison`, `PerformLogic`).

### Catalog and disk

A file is a sequence of pages or of fields.  `load` and `save_database_metadata`
are modelled field by field: what a reader finds when the file ends before a
field, in it, or after it (`read_string`, a number left unassigned).  A crash while
`flush` runs leaves any prefix of what was given to each open stream.  A stream
of `DiskManager` is `failed` or not; `read_page` and `write_page` do with that what
`seekg`, `clear` and `write` do.  The names of databases and tables are model values.
Ghost variables record what the last completed flush wrote and what was ever
created.

## 3. The runs

| run | question | instance | expected |
|---|---|---|---|
| `pool` | does the pool, over a disk that answers, implement the page store; is no write lost; does it drain | 2 frames, 3 pages, 2 guards, no faults | pass |
| `pool_faults` | what survives disk calls that throw | the same, all faults | pass |
| `pool_arc` | does ARC in the pool implement the open replacer, and is its `std::terminate` unreachable | 2 frames, 3 pages, 2 guards, all faults, one page image | pass |
| `arc` | are ARC's structures consistent and bounded, is the victim the oldest on the list whose turn it is | 2 frames, 5 pages | pass |
| `slotted_page` | do the layout and the compaction keep numbered slots | tuples of size 1, 2, 3 on a page of 9 with a header of 2 | pass |
| `statements` | does a table hold the rows it should through INSERT, DELETE and UPDATE, and do they end | 3 pages of two small rows or one large row, batches of 2 | pass |
| `values` | is every chain of operations what it means, NULL or refused, of the declared type, and do the comparisons agree | widths 3, 4, 8 and 10, a significand of 8 bits, edge values as literals | pass |
| `queries` | do filter, projection, sort, limit and aggregation deliver the right rows, and do columns read back | 11 plans, all tables of up to 3 rows out of 7, some of 4; batches of 2 | pass |
| `catalog` | does what was saved survive, is nothing invented from a torn file, do tables stay apart | up to 3 lives, 2 databases, 2 tables, one torn flush | pass |
| `pool_stale_frame` | "its bytes must have persisted through the write-back" (`buffer_pool_manager_gtest.cpp:133`) | reads may throw | violated |
| `table_ensure` | "Tuple too large to fit in a single page" (`table_heap.cpp:111-112`) | as `statements` | violated |
| `sort_order` | "Order by weight_height DESC" (`main.cpp:333`), "Ascending order by type" (`bound_order_by.hpp:15`) | as `queries` | violated |

Why the bounds are enough for what they are meant to show:

* **Pool.** Two frames and three pages make every fetch of the third page an
  eviction and every return to an earlier one a refetch; two guards give reader
  against writer, writer against writer, and a pool with all frames pinned.  The
  value that clients write differs from the zero image, from a torn one and from
  a page that does not exist, which is what the properties tell apart.
  `pool_arc` needs no images at all, as the replacer does not see them: `Torn`
  and `Values` collapse to `Zero`.  Frames and guards are symmetric where only
  safety is checked; `pool` checks liveness and uses no symmetry.
* **ARC.** Capacity 2 bounds the metadata at 4 entries; a fifth page is the first
  that can break the bound, so the trimming of both ghost lists happens.
* **Slotted page.** Seven units for tuples and slots: up to three live tuples,
  holes on either side of a live tuple, reuse of a slot by a larger and by a smaller
  tuple, and inserts that fit only after compaction.
* **Statements.** A page takes two rows of size 1 or one of size 3.  UPDATE turns
  small rows into large ones and back, so it grows the table while it runs,
  reuses slots, and meets the page that has slots but no tuples.  With up to
  three pages, scans cross pages inside a batch and end on a batch boundary.
  `CHECK_DEADLOCK FALSE` is set because a terminated process stops.
* **Values.** The widths keep the order of the real ones and
  the one relation the code relies on: a product of the two narrow types fits
  the type it is computed in (`WidthAssumption`).  INTEGER and BIGINT products do
  not, as in C++.  The literals are the sentinel, both limits, zero and neighbours
  for each type, so ranges, sentinels and overflow are met within two steps; a
  chain goes on for as long as it finds new values, up to doubles of `DecimalTop` (`MaxText` bounds only the
  letters that copying a text over and over adds).  A BIGINT has one bit more than the
  significand, so 257 is no double and rounds to 256, the largest BIGINT rounds up past itself, and a sum
  of two doubles can need rounding; ties go to the even significand, as in IEEE 754.  The longest chain that is needed is
  short: the state holds one value, one type and one meaning.
* **Queries.** Four rows in batches of two give a full batch, a short one, an
  empty one, a batch that is cut by a filter in its middle and a rest that is handed on.
  The rows hold a NULL in each of the columns that are keys or arguments, and a sum
  that overflows TINYINT.  Done queries stop, hence `CHECK_DEADLOCK FALSE`.
* **Catalog.** Two databases with two namespaces, over three lives: one that
  writes, one that is cut short, one that loads what is left.  Tables are looked at over
  two lives (their pages are what a restart meets again), and both together over one.
  `MaxFiles = 4` file ids and `MaxPages = 2` pages bound one process; `MaxTears`
  the flushes that are cut short.  Names are symmetric, no liveness is checked.
  A process that has used up its lives stops, hence `CHECK_DEADLOCK FALSE`.

**Fairness.** `BufferPool!FairSpec` is weakly fair for each guard's own steps
(latching when the latch stays free, ending a rewrite, unlatching, unpinning): a
thread that holds a guard runs on, since no step of it waits for anything but the
latch, and guards are destroyed at the end of their scope.  Nothing makes a
client ask for a page, write, flush or delete.  The latch is weakly fair only:
`std::shared_mutex` promises no more, so `DrainsWhenClientsStop` speaks of
clients that eventually stop asking.  `Statements!FairSpec` is weakly fair for
the one thread that executes the statement.

Every property is also run against a mutated model, and must fail there: the
mutants stand next to the definitions they replace and each is a slip that a
programmer could make in that code (an unpin that forgets the dirty flag, an
untrimmed ghost list, slots moved without their bytes, a page not linked).

## 4. What is proved

The theorems are for all values of the constants: any number of frames, guards,
files, pages and page images, any layout of a page, any sets of tuples and sizes,
any batch size, any lists to insert and any WHERE and SET clause, any databases,
namespaces and tables over any number of lives of the process, any widths of the integer
types, any literals and any chain of operations on them, any tables, plans, expression trees
and batch sizes.

| theorem | states | module |
|---|---|---|
| `PoolInvariant` | `IInv` of the pool, its inductive invariant | `BufferPoolProofs` |
| `PoolTypeCorrect` | `TypeOK` | |
| `PageTableMatchesFrames` | the page table and the frames agree | |
| `NoGuardDangles` | a guard's frame holds the guard's page as long as the guard exists | |
| `WritersExclude` | one writer, or readers, per *page*, although frames are what is latched | |
| `EveryGuardIsPinned` | at least one pin per guard | |
| `FlagsFollowPins` | the replacer may offer exactly its unpinned frames | |
| `ReadersAreStable` | (an action property) nothing changes under a latched reader | |
| `NoWriteIsForgotten` (*) | cached bytes that differ from the disk are in a dirty frame or under a writer | |
| `PoolImplementsPageStore` (*) | `ImplementsPageStore`: the cache is invisible | |
| `WriteBackIsFaithful` (*) | `WriteBackPersists` | |
| `NullOnlyWhenPinned` (*) | `NullMeansAllPinned` | |
| `ReplacerInvariant` | `IInv` of ARC under the calls a pool can make | `ArcReplacerProofs` |
| `ReplacerIsTyped`, `ListsAndMapsStayTogether`, `EvictNeverGivesUpEarly`, `MetadataStaysBounded`, `OldestGoesFirst` | the five properties of the run `arc` | |
| `PoolAndReplacerInvariant` | the joint invariant of the pool and the ARC in it | `ArcBufferPoolProofs` |
| `PoolWithArcIsAPool` | `ImplementsBufferPool`: what is proved of the pool holds with ARC | |
| `EvictAgreesWithPool`, `RemoveIsAlwaysLegal` | `VictimAgrees`, `RemoveNeverTerminates` | |
| `LayoutHolds` | `IInv` of a slotted page | `SlottedPageProofs` |
| `PageIsTyped`, `TuplesStayApart`, `DeadBytesAreCounted`, `RefusalIsJustified` | the four invariants of the run `slotted_page` | |
| `PageImplementsTupleSlots` | `ImplementsTupleSlots`: bytes, compaction and reuse are numbered slots | |
| `HeapAndStatementInvariant` | `IInv` of a table and the statement on it | `StatementsProofs` |
| `StatementsAreTyped`, `TableChainIsWhole`, `FreeSpaceIsTold`, `NoRowIsLost`, `EveryMatchWorkedOffOnce` | the five invariants of the run `statements` | |
| `CatalogInvariant` | `IInv` of the catalog, its files and their streams | `CatalogProofs` |
| `FlushedIsLoaded` | `SavedSurvives`: what a completed flush wrote is what every later start loads | |
| `TornFilesInventNothing` | `NothingInvented`: no cut-short file loads as a whole name nobody created | |
| `TableFilesAreApart` | `TablesAreApart`: no call on one table's file meets the bytes of another | |
| `EvaluatorInvariant` | `IInv` of a value under any chain of operations | `EvaluatorProofs` |
| `ChainsYieldTheirMeaning` | `ValueIsItsMeaning`: the exact result of integers, the rounded one beside a DECIMAL, NULL or an exception | |
| `ChainsAreTyped` | `DeclaredTypeHolds` | |
| `ComparisonsOrder` | `ComparisonsAreAnOrder`: the six comparisons of any two comparable values agree, and `<` is transitive on numbers of all types | |
| `QueryInvariant` | `QueryInv` of a plan that runs, its inductive invariant | `QueryProofs` |
| `StreamsReturnRelations` | `StreamIsTheRelation`: however the rows fall into batches, Filter, Projection, Sort and Limit return what they stand for | |
| `NullsStandOnTheirSide` | `NullsWhereOrdered`: of rows alike on the earlier keys, the NULLs of the next stand on the side asked for | |
| `ColumnsReadBackAlways` | `ColumnsReadBack`: `Tuple::value` returns what the constructor was given, up to the first NULL | |

(*) with a disk that does not fail: `ASSUME Faults = {}`, which is a value of the
constant and the one the run `pool` checks.  With faults they need not hold:
`pool_stale_frame` shows it for the second to last.  All other theorems take any faults.

The assumptions are the named ones of the modules, which TLC evaluates in each run:
`FrameAssumption` (`Guards` is finite, `MaxPages` a number, the model values are not
among what they are distinguished from), `PoolAssumption` (finitely many frames, as
ARC's capacity counts them), `ArcAssumption`, `LayoutAssumption` and
`HeapAssumption` (sizes are numbers, a header fits a page, every tuple fits a page of
its own), `StatementAssumption` (batches of at least one row; clauses are over
the tuples) and `CatalogAssumption` (the bounds are numbers, a workload's databases and
tables are among those named, and there is the namespace `public`, which `create_database`
makes), `WidthAssumption` (the widths grow from `int8_t` to `int64_t`, and two narrow ones fit an
`int`), `DoubleAssumption` (a double holds every INTEGER and half of one, not every BIGINT, the
power of two beside the limits of BIGINT, and halves only within its significand; no double is nearer
to a number than the one it is rounded to), `LettersAssumption` (letters are numbers), `DateAssumption` (a date's code is that
of a timestamp), `LiteralAssumption` (literals are what constructors make), `ByteAssumption`
(`bool` is kept in a byte as `int8_t` is, and a byte holds more than 0 and -1) and
`QueryAssumption` (batches of at least one row, trees as constructors build them, plans in which
each node has the schema of the rows below it, tables whose rows fit the schema of the
scan).  The code fixes these numbers in `config.hpp` and by the layout of its
structs; that a tuple fits a page is what `insert_tuple` is called with, and the
process ends where it is not so.

*The pool.* None of the properties is inductive alone.  That a guard does not
dangle needs that a frame which is claimed has no guard; that needs a pin for each
guard, that the replacer's flags follow the pins, and that free frames have none
(`PinsCoverGuards`, `EvictableIffUnpinned`, `FreeFramesAreEmpty`).  That a page
is in one frame needs that the frames a replacer tracks are mapped
(`AliveFramesAreMapped`), for otherwise evicting a frame could unmap another's
page; and that a new page is not cached already needs `NextIdIsFresh`.
`OneWriterPerFrame` is what latches give; with `TableMatchesFrames` and
`GuardKeepsItsPage` it becomes exclusion per page.  `IInv` is the conjunction, and
`NextIInv` shows it preserved with a lemma per handler, those shared by
`fetch_page` and `new_page` being `ClaimedFrame` and `InstallStep`.
Without faults one more conjunct holds: every frame with an identity is mapped
(`AllFramesAreMapped`).  This is what a throwing read breaks.  It gives `NoLostWrite`, and
with it the refinement: the content of a page is its frame's if it has one, the
disk's if not, so loading and evicting are stutters of `PageStore`.

*ARC.* The invariant says that the lists partition the maps, each frame and page being on one
list once, that `curr_size_` is the number of evictable frames, and that the four lists
keep the two bounds of the ARC paper.  It must be of the record, not of its driver, since
the pool's proof uses it too: each operator has a lemma that it preserves it
(`ArcReplacerProofs`), and each of the two modules adds what its own steps need.  Which list the
victim comes from is the target against the frames on MRU, and needs that list and map count the
same frames; that the victim is the oldest
there needs that the order of each list is that of the accesses, which
`Kept`, the sublist of the elements in a set, preserves.  The pool's part is that the frames ARC
tracks, with their flags, are those the pool tracks; then `evict` finds a victim exactly
when the pool has one, and `remove` is called only on an unpinned frame.

*The slotted page.* `Layout` says that every live slot carries the bytes of one tuple above
the free pointer, that extents are apart, and that what the packed tuples would leave is
`freePointer + deadSpace`.  The last is an equation between running sums
(`OffsetsMove`): a deletion moves a length from the sum to `deadSpace`, compaction moves
both into the free area.  With it a tuple that `insert_tuple` accepts fits
after compaction, and the compacted extents stay apart because offsets fall.

*Tables and statements.* Half of the invariant is of the heap (`Heap`): pages are the chain
`0, 1, ...`, in the order in which they were allocated, none holds more than fits, and
`free_space_map_` is right.  The other half, `StatementInv`, follows the rows.  `Underway` says
that each row selected by the WHERE clause is worked off, in the executor's batch, in the filter's
batch or ahead of the iterator, in exactly one of these places (the sets are disjoint, which is stronger
than `EachMatchOnce` and what makes it inductive); `ScanIsTrue`, that while a scan has rows ahead the
table lost rows at most, and not the one the iterator stands on; and for UPDATE, that its child is
exhausted before the first row is written, so that no new row can be met.  `Balanced` is
`TableHoldsWhatWasStored`, kept by counting one row less and one more.

*The catalog.* The three properties speak of different things and need one invariant.
`FilesInv`: each file holds the pages of one table, or the fields of one record with the last one
possibly in part (`GoodFile`), and each open stream is on the file whose id it has.  Names and paths
outlive a process where ids do not, so this is what keeps tables apart across a restart.
`DatabasesInv`: each database in memory, however its file was cut, has a path that identifies it even
when torn (`MetaOf`), so that two never write one file, and a count that is the number of its namespaces,
which `create_namespace` keeps and on which the format of the file rests.  `FlushInv` follows `flush`: the
databases done so far are those listed in the catalog's fields, and their metadata files are complete
but for the one being written.  At its end this is `Persisted`, a fact about the disk alone; a
crash leaves it, every step on another file leaves it, and `load` turns it back into
`SavedSurvives`: each name is found at its first entry (`FromEntry`), and what the loop over its
namespaces collects is the set of those read (`WithNamespaces`, by induction on the turns).

*Values.* That a chain means what it should is not inductive alone, since the next operation looks at
more than the meaning of its left operand.  `IInv` (`Sound`) adds that the result is something a constructor
makes (`IsValue`: it is within the range of its type, and a union that was not written is NULL); that
numbers stay numbers, truths truths, and what is not NULL has the declared type (`OfKind`);
that the meaning is of a kind that fits (`MeantFor`); and where exactly NULL may stand for a number: at the
sentinel of an integer type (`Right`).  A NULL may have another type than declared, as the
tables of NULL results differ, so a sum that fell on the sentinel of one type can continue under another.
The proof has a lemma for each operation of each group of types: what an integer operation returns is the exact
result or an exception, through the width it is computed in, an overflow of which the code's checks
must catch whatever the compiler made of it (`IntegerArithIs`).  Of the widths it uses
only that each type has at least twice the numbers of the one before, and that a
product of narrow ones fits an `int` (`WidthAssumption`, `LimitsAre`, `WidthsGrow`).  Of rounding it
uses that it returns a nearest double, whichever of two that are equally near: hence a double is not
changed, zero is rounded to only from zero (the test for division by it is made before the operand is rounded),
and the order of two numbers is never turned round (`DoubleIsNearest`, `RoundingKeepsZero`,
`RoundingKeepsOrder`).  For the comparisons each pair of types compares some two integers (`ComparesAs`),
which for two numbers are what each looks like beside the other (`Seen`), and for texts
`std::string`'s order is total because two texts differ at a first place or one begins the other.
That `<` is transitive across the types is more than that it agrees pair by pair: the same BIGINT is
looked at exactly beside one operand and rounded beside another.  It holds because rounding keeps order
(`SeenInOrder`, `BeforeIsTransitive`).  `==` is not transitive, and the theorem does not say so: the
BIGINTs 2^53 and 2^53 + 1 differ, and both equal the DECIMAL 2^53.

*Queries.* The properties speak of a node that is done; the invariant says what a running one has
made so far.  `Works` has a conjunct per executor, each of the form: there is a part of the child's
relation that has been seen, what is left of it is the batches not pulled and the rest of the
buffer (`Reading`), and what was delivered is what the executor makes of the part seen.  For a
filter this is `FilterStream`: the delivered rows and the ones in `tuple_batch` are the rows kept
of those seen.  Two facts about sizes are needed with it.  A batch that is filled by the rest of
the buffer, which the loop takes without a look at `batch_size`, still has room (`FillingHasRoom`):
the rest is shorter than a batch, and where there is one `tuple_batch` is empty (`Buffers`).
And every batch but the last is full (`FullTo`), which is what `LimitExecutor` rests on when it takes
`fetch_size` rows of a batch without asking how many there are: a short batch is the last, so with enough
rows below it takes no row that is not there (`LimitGoesOn`).  It is for this conjunct that the invariant
follows a plan from node to node (`NextNodeKeeps`): what a node that is done delivered is what
the next one may be given.  Filters, projections and flattening distribute over concatenation
(`KeptConcat`, `ProjectConcat`, `FlatConcat`), which is why batches do not matter.  For `ORDER BY` the
entries are a permutation in which no entry goes before an earlier one by the code's comparator.
`SkipsKey` compares a key with itself, so of two keys the comparator decides exactly those of which one
is NULL (`NullsDecide`).  `NullsWhereOrdered` asks no more than ORDER BY does, about rows that are alike
on the earlier keys; a comparator that ordered values as well would keep it.  A tree yields a value of the type it
declares or throws (`EvaluateTyped`, by induction on its places), so that the columns of projected rows fit
their schema; before the first NULL nothing has moved up in a tuple (`WrittenInPlace`).

*Induction over data.* Facts about what a recursive function computes (running sums, `Chain`,
`Kept`, the loop over a metadata file, the values of a tree, flattened batches) are proved by induction in set form:
`UpToInduction` takes the *set* of the numbers for which the claim holds instead of a predicate, and
follows from the least number of a set of naturals (`NatMinimum`).  The modules that need the two lemmas
begin with them.

*Only model-checked:* liveness (`DrainsWhenClientsStop`, `EveryStatementEnds`), which
needs ENABLED; and `GroupsAreRight`, whose sums are over sets of rows where the code's are over rows
in order: their equality is induction over data for six functions at once.  Of an aggregation it is proved
that its groups are a sequence (`GroupsAreListed`) and its batches no longer than asked for.

## 5. What the checks found

With a run:

1. **A leaked frame's page comes back from the dead**
   (`buffer_pool_manager.cpp:206`, run `pool_stale_frame`).  When `read_page` throws,
   `fetch_page` has taken a frame and never puts it back.  The frame keeps the
   old page's identity and its dirty flag, outside the page table.  That page is
   read into another frame, changed and written; a later `flush_all_pages`, which
   walks over frames and not over the table, writes the leaked frame's old bytes
   over it.
2. **A page of deleted slots ends the process** (`table_heap.cpp:111`,
   run `table_ensure`).  The test for "no tuple fits at all" is that the page
   holds no tuple; a page whose small tuples were all deleted passes it and still
   has no room beside its slots.
3. **ORDER BY orders only NULLs** (`sort_executor.hpp:61`, run `sort_order`).  The
   comparator's test for "equal, go on to the next key" compares `val_a` with
   itself, so it always goes on; two rows without NULL keys are equal to it.

Seen on the way, in the modelled behaviour but without a run of their own:

* The same leak makes the pool report "All pages pinned" with no pin in
  existence after as many failures as frames (`buffer_pool_manager.cpp:189`;
  `NullMeansAllPinned` holds in `pool`, where the disk answers).
* INSERT and DELETE count rows that the table refused (`insert_executor.cpp:68`,
  `delete_executor.cpp:67`); UPDATE looks at the results.
* `COUNT(*)` over no rows is 1: the group that should give the default result is
  made by combining one row of empty values (`aggregation_executor.cpp:42-48`).
  SUM, MIN, MAX and AVG over no value ask for the NULL of type INVALID, which throws.
  A partial SUM that lands on the sentinel is NULL for good.
* A column behind a NULL one is read from the wrong place: the constructor
  stores nothing for the NULL, `value` counts it (`tuple.cpp:117`; the disabled test at
  `tuple_gtest.cpp:142` knows).  `ColumnsReadBack` therefore ends at the first NULL.  The result of an
  aggregation is such a tuple too (`aggregation_executor.cpp:86`): of a group with a NULL in its key the
  functions are read from the wrong place, so `GroupsAreRight` speaks of the columns up to the NULL.
* LIMIT reads `fetch_size` rows of a child batch that may be shorter, and
  drops the rest of one that is longer.  With fewer rows below it than the limit it reads behind
  the batch; `StreamIsTheRelation` is about a limit with enough.
* A group key with a NULL equals nothing, itself included: such a row is a
  group of its own.
* The empty text is stored as NULL; `VarcharType::copy` reads four bytes past the
  text (`value_gtest.cpp` has this disabled); INTEGER is the one number that does not cast to VARCHAR.
* Of `ValueFactory`'s casts only the one to TIMESTAMP can succeed, since no other
  type overrides `is_coercable_from`.  The NULL text becomes a timestamp that is
  not NULL.  TIMESTAMP compares `>` as a signed number, and `!=` does not ask
  whether its left side is NULL.  `ComparisonsAreAnOrder` leaves such codes out.
* A BIGINT above 2^53 is rounded beside a DECIMAL (`bigint_type.cpp:22`): 2^53 + 1 equals the DECIMAL 2^53,
  two different BIGINTs may equal one DECIMAL, and the largest BIGINT cast to DECIMAL cannot be cast back.
  `ValueIsItsMeaning` takes the rounded number as what is meant.
* A catalog file that ends before its count makes every later constructor
  throw; one that is empty loads as an empty catalog, which the next flush makes
  permanent.  An entry that lost its metadata path makes the next clean shutdown
  terminate the process.  A table that is created again after a restart zeroes its
  first page in the file the last process left.
* `main.cpp:196` says OR where the code builds And; the header printed by
  `run_aggregation` says AVG(age) where the plan averages the amount.

## 6. What is not modelled, and the plan

Not modelled because there is nothing to check: the LRU replacer (no caller), the
plan nodes and bound trees (immutable), transactions, index, parser, record
manager and API (placeholders), logging, printing.

Modelled in part:

* The table heap without opening an existing file, and with an iterator whose reads
  are not refused.  Nothing in the repository opens a table from an earlier run.
* Executors in the trees that callers build: no tree is started a second
  time, nothing inserts from a scan, and `evaluate_join` has no join above it.
* Values of VARCHAR as group and sort keys, which point into a batch that is gone by
  the time they are compared, and rows wider than one byte a column.
* DECIMAL with finer fractions than halves, and infinities.  Times of day
  and zones of a TIMESTAMP (the code is month above year, as in the source).
* Aggregation without `merge` and the regression functions, which have no caller.

The plan, most important first.  Steps 1 to 6 are done:

1. `PageStore`, `BufferFrames`, `BufferPool`, `ArcReplacer`, `ArcDriver`,
   `ArcBufferPool`; the invariants of the pool proved.
2. `TupleSlots`, `SlottedPage`.
3. `TableHeap`, `Statements` for the trees that callers build today.
4. `DiskManager` and `Catalog`: registration, `load`, `flush` in place, a crash
   between any two writes, counters that start again, failed streams.
5. `Values` to `Evaluator`: arithmetic at the width of each type, comparison and
   three-valued logic against their meaning.
6. `Rows`, `Aggregates`, `QueryExecutors`: the tuple codec with NULL columns, the
   read side of the executors against whole relations.
7. The iterator with refused reads; opening an existing table.
8. Proofs.  Done: `BufferPool` implements `PageStore` without faults; `ArcBufferPool`
   implements `BufferPool`; ARC for every capacity; `SlottedPage` implements
   `TupleSlots`; tables and statements; the catalog with its files; values for every width; the batches
   of the executors.  Left: the groups of an aggregation.
