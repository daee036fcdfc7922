----------------------------- MODULE BufferPool -----------------------------
(***************************************************************************)
(* The buffer pool over a replacer that may offer any evictable frame: what *)
(* the pool relies on, whatever the replacement policy.  ArcBufferPool     *)
(* implements this module with the ARC policy of the code.                 *)
(***************************************************************************)
EXTENDS BufferFrames

VARIABLES
  alive,      \* the frames the replacer tracks (alive_map_)
  evictable   \* those of them it may offer as victims

vars == <<frameVars, alive, evictable>>

TypeOK ==
  /\ FramesTypeOK
  /\ alive \in SUBSET Frames
  /\ evictable \in SUBSET alive

Init ==
  /\ FramesInit
  /\ alive = {}
  /\ evictable = {}

(***************************************************************************)
(* What the pool asks of the replacer.                                     *)
(***************************************************************************)
(* The frame a handler gets: a free one, else a victim of evict(). *)
CanClaim(f) == IF freeFrames # {} THEN f \in freeFrames ELSE f \in evictable

(* Mutants: evict() keeps counting its victim; a pinned frame stays         *)
(* evictable; a hit or a fill is not recorded; an unpinned frame is never  *)
(* offered again.                                                          *)
ForgetHalf(f)     == alive' = alive \ {f} /\ UNCHANGED evictable
TrackEvictable(f) == alive' = alive \cup {f} /\ UNCHANGED evictable
TrackNothing(f)   == evictable' = evictable \ {f} /\ UNCHANGED alive
ReleaseNothing(f) == UNCHANGED <<alive, evictable>>

(* evict() has returned f. *)
Forget(f) ==
  /\ alive' = alive \ {f}
  /\ evictable' = evictable \ {f}

(* record_access(f), then set_evictable(f, false). *)
TrackPinned(f) ==
  /\ alive' = alive \cup {f}
  /\ evictable' = evictable \ {f}

(* set_evictable(f, true), which unpin_page calls at pin count 0. *)
Release(f) ==
  /\ alive' = alive
  /\ evictable' = IF f \in alive THEN evictable \cup {f} ELSE evictable

-----------------------------------------------------------------------------
Fetch(g, k, w) ==
  \/ FetchHit(g, k, w) /\ TrackPinned(pageTable[k])
  \/ \E f \in Frames :
       /\ CanClaim(f)
       /\ FetchMiss(g, k, w, f)
       /\ TrackPinned(f)

Create(g, file) ==
  \E f \in Frames :
    /\ CanClaim(f)
    /\ NewPage(g, file, f)
    /\ TrackPinned(f)

DiskFails ==
  \E f \in Frames :
    /\ CanClaim(f)
    /\ \/ FetchReadFails(f) /\ Forget(f)
       \/ EvictWriteFails(f) /\ Forget(f)
       \/ \E file \in Files : NewPageReserveFails(file, f) /\ TrackPinned(f)

(* Mutant: unpin_page does not wait for the last pin. *)
DropReleases(g) ==
  /\ Unpin(g)
  /\ IF UnpinnedFrame(g) # NoFrame
     THEN Release(UnpinnedFrame(g))
     ELSE UNCHANGED <<alive, evictable>>

Drop(g) ==
  /\ Unpin(g)
  /\ IF UnpinnedFrame(g) # NoFrame /\ pinCount'[UnpinnedFrame(g)] = 0
     THEN Release(UnpinnedFrame(g))
     ELSE UNCHANGED <<alive, evictable>>

(* ArcReplacer::remove does nothing for a frame it does not track, and     *)
(* terminates the process for one that is tracked and not evictable.       *)
RemoveTerminates(f) == f \in alive \ evictable

Delete(k) ==
  /\ DeletePage(k)
  /\ ~RemoveTerminates(pageTable[k])
  /\ Forget(pageTable[k])

Flush ==
  /\ \/ \E k \in Keys : FlushPage(k)
     \/ \E S \in SUBSET Frames, last \in Frames : FlushFrames(S, last)
  /\ UNCHANGED <<alive, evictable>>

UseLatch(g) ==
  /\ \/ Latch(g)
     \/ BeginWrite(g)
     \/ \E v \in Values : EndWrite(g, v)
     \/ Unlatch(g)
  /\ UNCHANGED <<alive, evictable>>

Acquire(g) ==
  \/ \E k \in Keys, w \in BOOLEAN : Fetch(g, k, w)
  \/ \E file \in Files : Create(g, file)

Next ==
  \/ \E g \in Guards : Acquire(g) \/ UseLatch(g) \/ Drop(g)
  \/ DiskFails
  \/ \E k \in Deletable : Delete(k)
  \/ Flush

Spec == Init /\ [][Next]_vars

(***************************************************************************)
(* A thread that holds a guard runs on: the latch is taken when it stays   *)
(* free, a rewrite ends, and the guard's destructor runs.  Nothing makes a *)
(* client ask for a page, rewrite one, flush or delete.                    *)
(***************************************************************************)
GuardRuns(g) ==
  /\ \/ Latch(g)
     \/ \E v \in Values : EndWrite(g, v)
     \/ Unlatch(g)
  /\ UNCHANGED <<alive, evictable>>

Fairness == \A g \in Guards : WF_vars(GuardRuns(g)) /\ WF_vars(Drop(g))

FairSpec == Spec /\ Fairness

-----------------------------------------------------------------------------
(***************************************************************************)
(* The page table and the frames: a page the table maps to a frame is the  *)
(* page in that frame, so no two pages share one and no two frames hold    *)
(* the mapped copy of one page.                                            *)
(***************************************************************************)
TableMatchesFrames ==
  \A k \in Keys : Cached(k) => frameKey[pageTable[k]] = k

(* A guard's Page pointer stays good: as long as the guard exists, its     *)
(* frame holds the page it was made for, and the page table says so.       *)
GuardKeepsItsPage ==
  \A g \in Guards : guard[g].pc # "idle" =>
    /\ guard[g].frame # NoFrame /\ guard[g].key # NoKey
    /\ frameKey[guard[g].frame] = guard[g].key
    /\ pageTable[guard[g].key] = guard[g].frame

(* "There can only be 1 WritePageGuard reading/writing a page at a time"   *)
(* (buffer_pool_manager.cpp:52): stated of pages, while the code locks     *)
(* frames.                                                                 *)
OneWriterPerPage ==
  \A g, h \in Guards :
    g # h /\ HasLatch(g) /\ HasLatch(h) /\ guard[g].key = guard[h].key
      => ~guard[g].write /\ ~guard[h].write

(* A pin for every guard: an evictable or free frame has none. *)
PinsCoverGuards ==
  \A f \in Frames : pinCount[f] >= Cardinality(GuardsOn(f))

(* What the cache holds and the disk does not is not forgotten: the frame  *)
(* is dirty, or a write guard will make it so when it unpins.              *)
WriterPending(f) == \E g \in GuardsOn(f) : guard[g].write
NoLostWrite ==
  \A k \in Keys : Cached(k) =>
    \/ frameData[pageTable[k]] = disk[k]
    \/ dirty[pageTable[k]]
    \/ WriterPending(pageTable[k])

(* unpin_page and evict(): the replacer offers exactly the tracked frames  *)
(* that nobody has pinned, so remove() never terminates the process.       *)
EvictableIffUnpinned ==
  \A f \in alive : f \in evictable <=> pinCount[f] = 0

(* fetch_page and new_page return nullptr for "All pages pinned"           *)
(* (buffer_pool_manager.cpp:189): when no frame can be claimed, every      *)
(* frame is pinned.                                                        *)
NullMeansAllPinned ==
  (\A f \in Frames : ~CanClaim(f)) => \A f \in Frames : pinCount[f] > 0

-----------------------------------------------------------------------------
(***************************************************************************)
(* The inductive invariant behind these.  A frame that can be claimed has  *)
(* no pin, hence no guard; what the replacer tracks is the mapped copy of  *)
(* its page; and new_page's next id is the id of no page yet.              *)
(***************************************************************************)
FreeFramesAreEmpty ==
  \A f \in freeFrames : frameKey[f] = NoKey /\ pinCount[f] = 0 /\ f \notin alive

AliveFramesAreMapped ==
  \A f \in alive : frameKey[f] # NoKey /\ pageTable[frameKey[f]] = f

NextIdIsFresh ==
  /\ \A k \in Keys : Cached(k) \/ disk[k] # Absent => k[2] < nextPageId
  /\ \A f \in Frames : frameKey[f] # NoKey => frameKey[f][2] < nextPageId

OneWriterPerFrame ==
  \A g, h \in Guards :
    g # h /\ HasLatch(g) /\ HasLatch(h) /\ guard[g].frame = guard[h].frame
      => ~guard[g].write /\ ~guard[h].write

WritersWrite == \A g \in Guards : guard[g].pc = "writing" => guard[g].write

IInv ==
  /\ TypeOK
  /\ TableMatchesFrames
  /\ GuardKeepsItsPage
  /\ PinsCoverGuards
  /\ EvictableIffUnpinned
  /\ FreeFramesAreEmpty
  /\ AliveFramesAreMapped
  /\ NextIdIsFresh
  /\ OneWriterPerFrame
  /\ WritersWrite

-----------------------------------------------------------------------------
(* A reader that holds the latch sees the same page, unchanged. *)
ReaderSeesStablePage ==
  [][\A g \in Guards :
       HasLatch(g) /\ ~guard[g].write /\ HasLatch(g)' =>
         /\ guard'[g].frame = guard[g].frame
         /\ frameKey'[guard[g].frame] = frameKey[guard[g].frame]
         /\ frameData'[guard[g].frame] = frameData[guard[g].frame]]_vars

(* The pool implements PageStore: eviction, refetching, flushing and the   *)
(* pins are invisible to the clients, and no write is lost or undone.      *)
Store == INSTANCE PageStore WITH
  content <- [k \in Keys |-> IF Cached(k) THEN frameData[pageTable[k]]
                                          ELSE disk[k]],
  durable <- disk,
  held    <- [g \in Guards |->
                IF HasLatch(g)
                THEN [key |-> guard[g].key, write |-> guard[g].write]
                ELSE [key |-> NoKey, write |-> FALSE]]
ImplementsPageStore == Store!Spec

(* "Fetch p0 back: its bytes must have persisted through the write-back"   *)
(* (buffer_pool_manager_gtest.cpp:133): once a page's bytes are on disk,   *)
(* only its current bytes replace them.                                    *)
WriteBackPersists ==
  [][\A k \in Keys : disk[k] # Absent /\ disk'[k] # disk[k] =>
       Cached(k) /\ disk'[k] = frameData[pageTable[k]]]_vars

(* If clients stop asking for pages and rewriting them, every guard        *)
(* finishes and every frame can be claimed again: no pin and no latch is   *)
(* leaked.                                                                 *)
ClientGoesOn ==
  \E g \in Guards :
    \/ guard[g].pc = "idle" /\ guard'[g].pc # "idle"
    \/ guard'[g].pc = "writing"
Drained ==
  /\ \A g \in Guards : guard[g].pc = "idle"
  /\ \A f \in Frames : f \in freeFrames \cup evictable
DrainsWhenClientsStop == <>[][~ClientGoesOn]_vars => <>[]Drained
=============================================================================
