---------------------------- MODULE BufferFrames ----------------------------
(***************************************************************************)
(* The state and the handlers of BufferPoolManager and of the page guards, *)
(* leaving out which frame the replacer offers as a victim: a handler that *)
(* needs a frame takes it as the parameter f.  BufferPool adds a replacer  *)
(* that may offer any evictable frame; ArcBufferPool adds ARC.             *)
(*                                                                         *)
(* Everything BufferPoolManager does, it does under bpm_latch_, so each of *)
(* its handlers is one action.  A guard takes and releases the page's      *)
(* rw_latch_ outside bpm_latch_, so those are actions of their own.        *)
(***************************************************************************)
EXTENDS Integers, FiniteSets

CONSTANTS
  Frames,    \* the pool's frames (pool_size_ of them)
  Files,     \* the file ids DiskManager has registered
  MaxPages,  \* bound: page ids 0 .. MaxPages-1 are handed out by new_page
  Deletable, \* the pages clients may ask delete_page to drop
  Guards,    \* page guards, each used by one thread; a thread that holds
             \* two guards at a time is two elements
  Values,    \* complete page images that clients write
  Zero,      \* the all-zero page image
  Torn,      \* the bytes of a page while a client is rewriting them
  Absent,    \* a page beyond the end of its file
  NoFrame,   \* no frame
  NoKey,     \* INVALID_PAGE_ID in a Page: the frame holds no page
  Faults     \* the disk calls that may throw: "read", "write", "reserve"

PageIds == 0 .. (MaxPages - 1)
Keys    == Files \X PageIds
Images  == Values \cup {Zero, Torn}

ASSUME FrameAssumption ==
  /\ IsFiniteSet(Guards)
  /\ MaxPages \in Nat
  /\ Deletable \subseteq Keys
  /\ NoFrame \notin Frames
  /\ NoKey \notin Keys
  /\ Absent \notin Images
  /\ Faults \subseteq {"read", "write", "reserve"}

VARIABLES
  pageTable,   \* page_table_: the frame that caches a page
  freeFrames,  \* free_frames_: frames are interchangeable, so a set
  frameKey,    \* Page::file_id_ and Page::page_id_
  pinCount,    \* Page::pin_count_
  dirty,       \* Page::is_dirty_
  frameData,   \* Page::data_
  nextPageId,  \* next_page_id_, one counter for all files
  disk,        \* what the files hold
  guard        \* the guards and how far each has come

poolVars  == <<pageTable, freeFrames, frameKey, pinCount, dirty, frameData,
               nextPageId>>
frameVars == <<poolVars, disk, guard>>

(***************************************************************************)
(* A guard is idle, or has pinned a frame and waits for its rw_latch_, or  *)
(* holds the latch, or is rewriting the page's bytes, or has released the  *)
(* latch and has not unpinned yet (drop() does the two in this order).     *)
(***************************************************************************)
GuardStates == {"idle", "waiting", "held", "writing", "unlatched"}
Guard == [pc : GuardStates, key : Keys \cup {NoKey},
          frame : Frames \cup {NoFrame}, write : BOOLEAN]
IdleGuard == [pc |-> "idle", key |-> NoKey, frame |-> NoFrame, write |-> FALSE]

FramesTypeOK ==
  /\ pageTable \in [Keys -> Frames \cup {NoFrame}]
  /\ freeFrames \in SUBSET Frames
  /\ frameKey \in [Frames -> Keys \cup {NoKey}]
  /\ pinCount \in [Frames -> Nat]
  /\ dirty \in [Frames -> BOOLEAN]
  /\ frameData \in [Frames -> Images]
  /\ nextPageId \in 0 .. MaxPages
  /\ disk \in [Keys -> Images \cup {Absent}]
  /\ guard \in [Guards -> Guard]

(* A new pool over new files. *)
FramesInit ==
  /\ pageTable = [k \in Keys |-> NoFrame]
  /\ freeFrames = Frames
  /\ frameKey = [f \in Frames |-> NoKey]
  /\ pinCount = [f \in Frames |-> 0]
  /\ dirty = [f \in Frames |-> FALSE]
  /\ frameData = [f \in Frames |-> Zero]
  /\ nextPageId = 0
  /\ disk = [k \in Keys |-> Absent]
  /\ guard = [g \in Guards |-> IdleGuard]

-----------------------------------------------------------------------------
Cached(k) == pageTable[k] # NoFrame
GuardsOn(f) == {g \in Guards : guard[g].pc # "idle" /\ guard[g].frame = f}
HasLatch(g) == guard[g].pc \in {"held", "writing"}

(* Guard g has been given frame f, which caches page k. *)
Attach(g, k, f, w) ==
  guard' = [guard EXCEPT ![g] =
              [pc |-> "waiting", key |-> k, frame |-> f, write |-> w]]

(* Mutants: the page table keeps the old page; a dirty victim is dropped.  *)
StaleEntry(f) == pageTable
NotWrittenBack(f) == disk

(* What evicting frame f's old page leaves on disk and in the page table. *)
WrittenBack(f) ==
  IF frameKey[f] # NoKey /\ dirty[f]
  THEN [disk EXCEPT ![frameKey[f]] = frameData[f]]
  ELSE disk
Unmapped(f) ==
  IF frameKey[f] # NoKey
  THEN [pageTable EXCEPT ![frameKey[f]] = NoFrame]
  ELSE pageTable

(* Mutant: the frame is handed out without a pin. *)
InstallUnpinned(f, k, image) ==
  /\ pageTable' = [Unmapped(f) EXCEPT ![k] = f]
  /\ freeFrames' = freeFrames \ {f}
  /\ frameKey' = [frameKey EXCEPT ![f] = k]
  /\ pinCount' = [pinCount EXCEPT ![f] = 0]
  /\ dirty' = [dirty EXCEPT ![f] = FALSE]
  /\ frameData' = [frameData EXCEPT ![f] = image]

(* Frame f now caches page k, pinned once and clean. *)
Install(f, k, image) ==
  /\ pageTable' = [Unmapped(f) EXCEPT ![k] = f]
  /\ freeFrames' = freeFrames \ {f}
  /\ frameKey' = [frameKey EXCEPT ![f] = k]
  /\ pinCount' = [pinCount EXCEPT ![f] = 1]
  /\ dirty' = [dirty EXCEPT ![f] = FALSE]
  /\ frameData' = [frameData EXCEPT ![f] = image]

(***************************************************************************)
(* read_page, write_page: fetch_page, then the guard's constructor.        *)
(***************************************************************************)
FetchHit(g, k, w) ==
  /\ guard[g].pc = "idle"
  /\ Cached(k)
  /\ pinCount' = [pinCount EXCEPT ![pageTable[k]] = @ + 1]
  /\ Attach(g, k, pageTable[k], w)
  /\ UNCHANGED <<pageTable, freeFrames, frameKey, dirty, frameData,
                 nextPageId, disk>>

(* Clients ask only for pages that new_page has reserved on disk. *)
Wanted(k) == ~Cached(k) /\ disk[k] # Absent

(* DiskManager::read_page fills the frame with zeros, once, when the last   *)
(* call on the file's stream failed (disk_manager.cpp:85).                 *)
ReadImages(d, k) ==
  {d[k]} \cup (IF Faults \subseteq {"read"} THEN {} ELSE {Zero})

FetchMiss(g, k, w, f) ==
  /\ guard[g].pc = "idle"
  /\ Wanted(k)
  /\ disk' = WrittenBack(f)
  /\ \E image \in ReadImages(WrittenBack(f), k) : Install(f, k, image)
  /\ Attach(g, k, f, w)
  /\ UNCHANGED nextPageId

(* new_page, whose callers wrap the pinned page in a WritePageGuard. *)
NewPage(g, file, f) ==
  LET k == <<file, nextPageId>> IN
  /\ guard[g].pc = "idle"
  /\ nextPageId < MaxPages
  /\ nextPageId' = nextPageId + 1
  /\ Install(f, k, Zero)
  /\ disk' = [WrittenBack(f) EXCEPT ![k] = Zero]
  /\ Attach(g, k, f, TRUE)

(***************************************************************************)
(* Disk calls that throw in the middle of fetch_page and new_page.  The    *)
(* exception reaches the caller: no guard is created.                      *)
(***************************************************************************)
SomeoneFetches == \E g \in Guards : guard[g].pc = "idle"

(* read_page throws for a file it does not know (the ids open_file mints): *)
(* the frame is off the free list or out of the replacer, and keeps the    *)
(* identity and the dirty flag of its old page.                            *)
FetchReadFails(f) ==
  /\ "read" \in Faults
  /\ SomeoneFetches
  /\ disk' = WrittenBack(f)
  /\ pageTable' = Unmapped(f)
  /\ freeFrames' = freeFrames \ {f}
  /\ UNCHANGED <<frameKey, pinCount, dirty, frameData, nextPageId, guard>>

(* Writing the victim back throws: only the replacer has changed. *)
EvictWriteFails(f) ==
  /\ "write" \in Faults
  /\ SomeoneFetches
  /\ frameKey[f] # NoKey /\ dirty[f]
  /\ UNCHANGED frameVars

(* new_page's last call, which reserves the page on disk, throws. *)
NewPageReserveFails(file, f) ==
  LET k == <<file, nextPageId>> IN
  /\ "reserve" \in Faults
  /\ SomeoneFetches
  /\ nextPageId < MaxPages
  /\ nextPageId' = nextPageId + 1
  /\ Install(f, k, Zero)
  /\ disk' = WrittenBack(f)
  /\ UNCHANGED guard

(***************************************************************************)
(* The guards.                                                             *)
(***************************************************************************)
SetPc(g, pc) == guard' = [guard EXCEPT ![g].pc = pc]

(* Mutant: a writer does not wait for readers. *)
NoWriterHolds(g) ==
  \A h \in Guards \ {g} :
    HasLatch(h) /\ guard[h].frame = guard[g].frame => ~guard[h].write

(* lock() and lock_shared() on the frame's rw_latch_. *)
LatchFree(g) ==
  \A h \in Guards \ {g} :
    HasLatch(h) /\ guard[h].frame = guard[g].frame
      => ~guard[g].write /\ ~guard[h].write

Latch(g) ==
  /\ guard[g].pc = "waiting"
  /\ LatchFree(g)
  /\ SetPc(g, "held")
  /\ UNCHANGED <<poolVars, disk>>

(* A client rewrites the page through data(): not one atomic store. *)
BeginWrite(g) ==
  /\ guard[g].pc = "held" /\ guard[g].write
  /\ frameData' = [frameData EXCEPT ![guard[g].frame] = Torn]
  /\ SetPc(g, "writing")
  /\ UNCHANGED <<pageTable, freeFrames, frameKey, pinCount, dirty,
                 nextPageId, disk>>

EndWrite(g, v) ==
  /\ guard[g].pc = "writing"
  /\ frameData' = [frameData EXCEPT ![guard[g].frame] = v]
  /\ SetPc(g, "held")
  /\ UNCHANGED <<pageTable, freeFrames, frameKey, pinCount, dirty,
                 nextPageId, disk>>

(* drop(): first the latch ... *)
Unlatch(g) ==
  /\ guard[g].pc = "held"
  /\ SetPc(g, "unlatched")
  /\ UNCHANGED <<poolVars, disk>>

(* ... then unpin_page, for whatever page the frame says it holds.         *)
(* UnpinnedFrame is the frame unpin_page finds, NoFrame if it returns      *)
(* false.                                                                  *)
UnpinnedFrame(g) ==
  LET k == frameKey[guard[g].frame] IN
  IF k = NoKey THEN NoFrame
  ELSE IF ~Cached(k) THEN NoFrame
  ELSE IF pinCount[pageTable[k]] <= 0 THEN NoFrame
  ELSE pageTable[k]

(* Mutant: the writer's is_dirty is ignored. *)
UnpinClean(g) ==
  /\ guard[g].pc = "unlatched"
  /\ guard' = [guard EXCEPT ![g] = IdleGuard]
  /\ pinCount' = IF UnpinnedFrame(g) = NoFrame THEN pinCount
                 ELSE [pinCount EXCEPT ![UnpinnedFrame(g)] = @ - 1]
  /\ UNCHANGED <<pageTable, freeFrames, frameKey, dirty, frameData,
                 nextPageId, disk>>

Unpin(g) ==
  /\ guard[g].pc = "unlatched"
  /\ guard' = [guard EXCEPT ![g] = IdleGuard]
  /\ IF UnpinnedFrame(g) = NoFrame
     THEN UNCHANGED <<pinCount, dirty>>
     ELSE /\ pinCount' = [pinCount EXCEPT ![UnpinnedFrame(g)] = @ - 1]
          /\ dirty' = [dirty EXCEPT ![UnpinnedFrame(g)] = @ \/ guard[g].write]
  /\ UNCHANGED <<pageTable, freeFrames, frameKey, frameData, nextPageId, disk>>

(***************************************************************************)
(* flush_page, flush_all_pages and delete_page.  Flushing reads the bytes  *)
(* of a page without taking its rw_latch_.                                 *)
(***************************************************************************)
FlushPage(k) ==
  /\ Cached(k)
  /\ disk' = [disk EXCEPT ![frameKey[pageTable[k]]] = frameData[pageTable[k]]]
  /\ dirty' = [dirty EXCEPT ![pageTable[k]] = FALSE]
  /\ UNCHANGED <<pageTable, freeFrames, frameKey, pinCount, frameData,
                 nextPageId, guard>>

DirtyFrames == {f \in Frames : frameKey[f] # NoKey /\ dirty[f]}

(* flush_all_pages writes the dirty frames in index order; S is all of     *)
(* them, or those it reached before a write threw, and last the one with   *)
(* the highest index, whose bytes stay if two frames hold the same page.   *)
FlushFrames(S, last) ==
  /\ \/ S = DirtyFrames
     \/ "write" \in Faults /\ S \subseteq DirtyFrames
  /\ S # {} => last \in S
  /\ disk' = [k \in Keys |->
                IF \E f \in S : frameKey[f] = k
                THEN IF frameKey[last] = k THEN frameData[last]
                     ELSE frameData[CHOOSE f \in S : frameKey[f] = k]
                ELSE disk[k]]
  /\ dirty' = [f \in Frames |-> dirty[f] /\ f \notin S]
  /\ UNCHANGED <<pageTable, freeFrames, frameKey, pinCount, frameData,
                 nextPageId, guard>>

(* The frame goes back to the free list; the page stays on disk. *)
DeletePage(k) ==
  /\ Cached(k)
  /\ pinCount[pageTable[k]] <= 0
  /\ pageTable' = [pageTable EXCEPT ![k] = NoFrame]
  /\ freeFrames' = freeFrames \cup {pageTable[k]}
  /\ frameKey' = [frameKey EXCEPT ![pageTable[k]] = NoKey]
  /\ pinCount' = [pinCount EXCEPT ![pageTable[k]] = 0]
  /\ dirty' = [dirty EXCEPT ![pageTable[k]] = FALSE]
  /\ frameData' = [frameData EXCEPT ![pageTable[k]] = Zero]
  /\ UNCHANGED <<nextPageId, disk, guard>>
=============================================================================
