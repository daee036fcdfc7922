-------------------------- MODULE BufferPoolProofs --------------------------
(***************************************************************************)
(* Proofs about BufferPool, for every pool size, number of guards, files   *)
(* and pages, and for every kind of disk failure unless a theorem says     *)
(* otherwise.                                                              *)
(***************************************************************************)
EXTENDS BufferPool, FiniteSetTheorems, TLAPS

-----------------------------------------------------------------------------
(* Facts about guards and pins.                                            *)

LEMMA GuardsOnFinite ==
  ASSUME NEW f
  PROVE  /\ IsFiniteSet(GuardsOn(f))
         /\ Cardinality(GuardsOn(f)) \in Nat
<1>1. GuardsOn(f) \subseteq Guards
  BY DEF GuardsOn
<1>2. IsFiniteSet(GuardsOn(f))
  BY <1>1, FrameAssumption, FS_Subset
<1> QED
  BY <1>2, FS_CardinalityType

(* A frame without pins has no guards. *)
LEMMA UnpinnedMeansUnguarded ==
  ASSUME FramesTypeOK, PinsCoverGuards, NEW f \in Frames, pinCount[f] = 0
  PROVE  GuardsOn(f) = {}
<1>1. Cardinality(GuardsOn(f)) <= 0
  BY DEF PinsCoverGuards
<1>2. Cardinality(GuardsOn(f)) = 0
  BY <1>1, GuardsOnFinite
<1> QED
  BY <1>2, GuardsOnFinite, FS_EmptySet

(* What a claimed frame looks like: no pins, no guards, and if it holds a  *)
(* page, the page table maps that page to it.                              *)
LEMMA ClaimedFrame ==
  ASSUME IInv, NEW f \in Frames, CanClaim(f)
  PROVE  /\ pinCount[f] = 0
         /\ GuardsOn(f) = {}
         /\ frameKey[f] # NoKey => pageTable[frameKey[f]] = f
<1>1. pinCount[f] = 0 /\ (frameKey[f] # NoKey => pageTable[frameKey[f]] = f)
  <2>1. CASE f \in freeFrames
    BY <2>1 DEF IInv, FreeFramesAreEmpty
  <2>2. CASE f \in evictable
    BY <2>2 DEF IInv, TypeOK, EvictableIffUnpinned, AliveFramesAreMapped
  <2> QED
    BY <2>1, <2>2 DEF CanClaim
<1> QED
  BY <1>1, UnpinnedMeansUnguarded DEF IInv, TypeOK

(* A guard that appears on f adds one to the guards on f, and none to the  *)
(* guards on any other frame.                                              *)
LEMMA AttachedGuards ==
  ASSUME FramesTypeOK, NEW g \in Guards, guard[g].pc = "idle",
         NEW k \in Keys, NEW f \in Frames, NEW w \in BOOLEAN,
         Attach(g, k, f, w)
  PROVE  /\ GuardsOn(f)' = GuardsOn(f) \cup {g}
         /\ Cardinality(GuardsOn(f)') = Cardinality(GuardsOn(f)) + 1
         /\ \A h \in Frames \ {f} : GuardsOn(h)' = GuardsOn(h)
<1>1. GuardsOn(f)' = GuardsOn(f) \cup {g}
  BY DEF GuardsOn, Attach, FramesTypeOK
<1>2. g \notin GuardsOn(f)
  BY DEF GuardsOn
<1>3. Cardinality(GuardsOn(f) \cup {g}) = Cardinality(GuardsOn(f)) + 1
  BY <1>2, GuardsOnFinite, FS_AddElement
<1>4. \A h \in Frames \ {f} : GuardsOn(h)' = GuardsOn(h)
  BY DEF GuardsOn, Attach, FramesTypeOK
<1> QED
  BY <1>1, <1>3, <1>4

(* Moving a guard between its busy states changes no set of guards. *)
LEMMA SetPcGuards ==
  ASSUME FramesTypeOK, NEW g \in Guards, guard[g].pc # "idle",
         NEW pc \in GuardStates \ {"idle"}, SetPc(g, pc)
  PROVE  \A f \in Frames : GuardsOn(f)' = GuardsOn(f)
BY DEF GuardsOn, SetPc, FramesTypeOK

-----------------------------------------------------------------------------
(***************************************************************************)
(* The invariant, action by action.  A step that leaves frames and guards  *)
(* as they are keeps every part of it that only speaks of those.           *)
(***************************************************************************)
LEMMA InitIInv == Init => IInv
<1> SUFFICES ASSUME Init PROVE IInv
  OBVIOUS
<1> USE DEF Init, FramesInit, IdleGuard
<1>1. TypeOK
  BY FrameAssumption DEF TypeOK, FramesTypeOK, Guard, GuardStates, Images
<1>2. PinsCoverGuards
  <2>1. \A f \in Frames : GuardsOn(f) = {}
    BY DEF GuardsOn
  <2> QED
    BY <2>1, FS_EmptySet DEF PinsCoverGuards
<1>3. /\ TableMatchesFrames /\ GuardKeepsItsPage /\ EvictableIffUnpinned
      /\ FreeFramesAreEmpty /\ AliveFramesAreMapped /\ NextIdIsFresh
      /\ OneWriterPerFrame /\ WritersWrite
  BY DEF TableMatchesFrames, GuardKeepsItsPage, EvictableIffUnpinned,
         FreeFramesAreEmpty, AliveFramesAreMapped, NextIdIsFresh,
         OneWriterPerFrame, WritersWrite, Cached, HasLatch
<1> QED
  BY <1>1, <1>2, <1>3 DEF IInv

(* Installing an uncached page in a claimed frame: everything but the      *)
(* guards and the ids.                                                     *)
LEMMA InstallStep ==
  ASSUME IInv, NEW f \in Frames, CanClaim(f), NEW k \in Keys, ~Cached(k),
         NEW image \in Images, Install(f, k, image), TrackPinned(f)
  PROVE  /\ pageTable' \in [Keys -> Frames \cup {NoFrame}]
         /\ freeFrames' \in SUBSET Frames
         /\ frameKey' \in [Frames -> Keys \cup {NoKey}]
         /\ pinCount' \in [Frames -> Nat]
         /\ dirty' \in [Frames -> BOOLEAN]
         /\ frameData' \in [Frames -> Images]
         /\ alive' \in SUBSET Frames /\ evictable' \in SUBSET alive'
         /\ TableMatchesFrames'
         /\ EvictableIffUnpinned'
         /\ FreeFramesAreEmpty'
         /\ AliveFramesAreMapped'
         /\ \A j \in Keys : pageTable'[j] \in {pageTable[j], NoFrame} \/ j = k
         /\ \A g \in Guards : guard[g].pc # "idle" =>
              /\ guard[g].frame # f
              /\ pageTable'[guard[g].key] = guard[g].frame
              /\ frameKey'[guard[g].frame] = guard[g].key
<1> USE DEF Install, TrackPinned, Cached
<1>0. FramesTypeOK /\ alive \in SUBSET Frames /\ evictable \in SUBSET alive
  BY DEF IInv, TypeOK
<1>1. /\ pinCount[f] = 0 /\ GuardsOn(f) = {}
      /\ frameKey[f] # NoKey => pageTable[frameKey[f]] = f
  BY ClaimedFrame
<1>2. Unmapped(f) \in [Keys -> Frames \cup {NoFrame}]
  BY <1>0 DEF FramesTypeOK, Unmapped
<1>3. \A j \in Keys : Unmapped(f)[j] = IF j = frameKey[f] THEN NoFrame
                                                      ELSE pageTable[j]
  BY <1>0, FrameAssumption DEF FramesTypeOK, Unmapped
<1>4. /\ pageTable' \in [Keys -> Frames \cup {NoFrame}]
      /\ freeFrames' \in SUBSET Frames
      /\ frameKey' \in [Frames -> Keys \cup {NoKey}]
      /\ pinCount' \in [Frames -> Nat]
      /\ dirty' \in [Frames -> BOOLEAN]
      /\ frameData' \in [Frames -> Images]
  BY <1>0, <1>2 DEF FramesTypeOK
<1>5. alive' \in SUBSET Frames /\ evictable' \in SUBSET alive'
  BY <1>0
<1>6. \A j \in Keys : pageTable'[j] = IF j = k THEN f
                                      ELSE IF j = frameKey[f] THEN NoFrame
                                      ELSE pageTable[j]
  BY <1>2, <1>3
<1>7. \A h \in Frames : frameKey'[h] = IF h = f THEN k ELSE frameKey[h]
  BY <1>0 DEF FramesTypeOK
<1>8. \A h \in Frames : pinCount'[h] = IF h = f THEN 1 ELSE pinCount[h]
  BY <1>0 DEF FramesTypeOK
<1>9. TableMatchesFrames'
  BY <1>0, <1>4, <1>6, <1>7, FrameAssumption
  DEF IInv, TableMatchesFrames, FramesTypeOK
<1>10. EvictableIffUnpinned'
  BY <1>0, <1>8 DEF IInv, EvictableIffUnpinned, FramesTypeOK
<1>11. FreeFramesAreEmpty'
  BY <1>0, <1>7, <1>8 DEF IInv, FreeFramesAreEmpty, FramesTypeOK
<1>12. AliveFramesAreMapped'
  <2> SUFFICES ASSUME NEW h \in alive'
               PROVE  frameKey'[h] # NoKey /\ pageTable'[frameKey'[h]] = h
    BY DEF AliveFramesAreMapped
  <2>1. CASE h = f
    BY <2>1, <1>6, <1>7, FrameAssumption
  <2>2. CASE h # f
    <3>1. h \in alive /\ frameKey[h] # NoKey /\ pageTable[frameKey[h]] = h
      BY <2>2, <1>0 DEF IInv, AliveFramesAreMapped
    <3>2. frameKey[h] \in Keys /\ frameKey[h] # k
      BY <3>1, <1>0, FrameAssumption DEF FramesTypeOK
    <3>3. frameKey[h] # frameKey[f]
      BY <3>1, <1>1, <2>2
    <3> QED
      BY <3>1, <3>2, <3>3, <2>2, <1>0, <1>6, <1>7
  <2> QED
    BY <2>1, <2>2
<1>13. ASSUME NEW g \in Guards, guard[g].pc # "idle"
       PROVE  /\ guard[g].frame # f
              /\ pageTable'[guard[g].key] = guard[g].frame
              /\ frameKey'[guard[g].frame] = guard[g].key
  <2>1. guard[g] \in Guard
    BY <1>0 DEF FramesTypeOK
  <2>2. guard[g].frame # f
    BY <1>13, <1>1 DEF GuardsOn
  <2>3. /\ guard[g].frame \in Frames
        /\ frameKey[guard[g].frame] = guard[g].key
        /\ pageTable[guard[g].key] = guard[g].frame
    BY <1>13, <2>1 DEF IInv, GuardKeepsItsPage, Guard
  <2>4. guard[g].key \in Keys
    BY <1>13, <2>1 DEF IInv, GuardKeepsItsPage, Guard
  <2>5. guard[g].key # k /\ guard[g].key # frameKey[f]
    BY <2>2, <2>3, <2>4, <1>1, FrameAssumption
  <2> QED
    BY <2>2, <2>3, <2>4, <2>5, <1>6, <1>7
<1> QED
  BY <1>4, <1>5, <1>6, <1>9, <1>10, <1>11, <1>12, <1>13

(***************************************************************************)
(* read_page and write_page.                                               *)
(***************************************************************************)
LEMMA FetchHitStep ==
  ASSUME IInv, NEW g \in Guards, NEW k \in Keys, NEW w \in BOOLEAN,
         FetchHit(g, k, w), TrackPinned(pageTable[k])
  PROVE  IInv'
<1>0. FramesTypeOK /\ alive \in SUBSET Frames /\ evictable \in SUBSET alive
  BY DEF IInv, TypeOK
<1>1. PICK f \in Frames : f = pageTable[k] /\ frameKey[f] = k
  BY <1>0 DEF FramesTypeOK, IInv, TableMatchesFrames, FetchHit, Cached
<1>2. /\ guard[g].pc = "idle"
      /\ Attach(g, k, f, w)
      /\ TrackPinned(f)
      /\ pinCount' = [pinCount EXCEPT ![f] = @ + 1]
      /\ UNCHANGED <<pageTable, freeFrames, frameKey, dirty, frameData,
                     nextPageId, disk>>
  BY <1>1 DEF FetchHit
<1>3. pinCount[f] \in Nat
  BY <1>0 DEF FramesTypeOK
<1>4. \A h \in Frames : pinCount'[h] = IF h = f THEN pinCount[h] + 1
                                               ELSE pinCount[h]
  BY <1>0, <1>2 DEF FramesTypeOK
<1>5. \A h \in Guards : guard'[h] = IF h = g THEN
         [pc |-> "waiting", key |-> k, frame |-> f, write |-> w] ELSE guard[h]
  BY <1>0, <1>2 DEF FramesTypeOK, Attach
<1>6. TypeOK'
  <2>1. guard' \in [Guards -> Guard]
    BY <1>0, <1>2 DEF FramesTypeOK, Attach, Guard, GuardStates
  <2> QED
    BY <1>0, <1>2, <1>3, <2>1 DEF FramesTypeOK, TypeOK, TrackPinned
<1>7. TableMatchesFrames' /\ NextIdIsFresh'
  BY <1>2 DEF IInv, TableMatchesFrames, NextIdIsFresh, Cached
<1>8. GuardKeepsItsPage'
  BY <1>1, <1>2, <1>5, FrameAssumption DEF IInv, GuardKeepsItsPage
<1>9. PinsCoverGuards'
  <2>1. /\ Cardinality(GuardsOn(f)') = Cardinality(GuardsOn(f)) + 1
        /\ \A h \in Frames \ {f} : GuardsOn(h)' = GuardsOn(h)
    BY <1>0, <1>2, AttachedGuards
  <2>2. \A h \in Frames : pinCount[h] >= Cardinality(GuardsOn(h))
    BY DEF IInv, PinsCoverGuards
  <2>3. pinCount'[f] >= Cardinality(GuardsOn(f)')
    BY <1>3, <1>4, <2>1, <2>2, GuardsOnFinite
  <2>4. \A h \in Frames \ {f} : pinCount'[h] >= Cardinality(GuardsOn(h)')
    BY <1>4, <2>1, <2>2
  <2> QED
    BY <2>3, <2>4 DEF PinsCoverGuards
<1>10. EvictableIffUnpinned'
  BY <1>0, <1>3, <1>4, <1>2 DEF IInv, EvictableIffUnpinned, TrackPinned
<1>11. FreeFramesAreEmpty'
  BY <1>0, <1>1, <1>2, <1>4, FrameAssumption
  DEF IInv, FreeFramesAreEmpty, FramesTypeOK, TrackPinned
<1>12. AliveFramesAreMapped'
  BY <1>0, <1>1, <1>2, FrameAssumption
  DEF IInv, AliveFramesAreMapped, TrackPinned
<1>13. OneWriterPerFrame' /\ WritersWrite'
  BY <1>5 DEF IInv, OneWriterPerFrame, WritersWrite, HasLatch
<1> QED
  BY <1>6, <1>7, <1>8, <1>9, <1>10, <1>11, <1>12, <1>13 DEF IInv

(* The guards after a claimed frame f was given to an idle guard, or to    *)
(* none because the call threw.                                            *)
LEMMA ClaimGuards ==
  ASSUME IInv, NEW f \in Frames, CanClaim(f), NEW k \in Keys, ~Cached(k),
         NEW image \in Images, Install(f, k, image), TrackPinned(f),
         \/ \E g \in Guards, w \in BOOLEAN :
               guard[g].pc = "idle" /\ Attach(g, k, f, w)
         \/ UNCHANGED guard
  PROVE  /\ guard' \in [Guards -> Guard]
         /\ GuardKeepsItsPage'
         /\ PinsCoverGuards'
         /\ OneWriterPerFrame'
         /\ WritersWrite'
<1>0. FramesTypeOK
  BY DEF IInv, TypeOK
<1>1. /\ pinCount' \in [Frames -> Nat]
      /\ \A g \in Guards : guard[g].pc # "idle" =>
           /\ guard[g].frame # f
           /\ pageTable'[guard[g].key] = guard[g].frame
           /\ frameKey'[guard[g].frame] = guard[g].key
  BY InstallStep
<1>2. /\ pageTable'[k] = f /\ frameKey'[f] = k
      /\ \A h \in Frames : pinCount'[h] = IF h = f THEN 1 ELSE pinCount[h]
  <2>1. Unmapped(f) \in [Keys -> Frames \cup {NoFrame}]
    BY <1>0 DEF FramesTypeOK, Unmapped
  <2> QED
    BY <1>0, <2>1 DEF FramesTypeOK, Install
<1>3. GuardsOn(f) = {} /\ Cardinality(GuardsOn(f)) = 0
  BY ClaimedFrame, FS_EmptySet
<1>4. CASE UNCHANGED guard
  <2>1. \A h \in Frames : GuardsOn(h)' = GuardsOn(h)
    BY <1>4 DEF GuardsOn
  <2>2. PinsCoverGuards'
    BY SMTT(30), <1>0, <1>2, <1>3, <2>1, GuardsOnFinite
    DEF IInv, PinsCoverGuards, FramesTypeOK
  <2>3. GuardKeepsItsPage'
    BY <1>1, <1>4 DEF IInv, GuardKeepsItsPage
  <2> QED
    BY <1>0, <1>4, <2>2, <2>3
    DEF IInv, FramesTypeOK, OneWriterPerFrame, WritersWrite, HasLatch
<1>5. ASSUME NEW g \in Guards, NEW w \in BOOLEAN,
             guard[g].pc = "idle", Attach(g, k, f, w)
      PROVE  /\ guard' \in [Guards -> Guard]
             /\ GuardKeepsItsPage' /\ PinsCoverGuards'
             /\ OneWriterPerFrame' /\ WritersWrite'
  <2>1. \A h \in Guards : guard'[h] = IF h = g THEN
           [pc |-> "waiting", key |-> k, frame |-> f, write |-> w] ELSE guard[h]
    BY <1>0, <1>5 DEF FramesTypeOK, Attach
  <2>2. guard' \in [Guards -> Guard]
    BY <1>0, <1>5 DEF FramesTypeOK, Attach, Guard, GuardStates
  <2>3. GuardKeepsItsPage'
    BY <1>1, <1>2, <2>1, FrameAssumption DEF IInv, GuardKeepsItsPage
  <2>4. PinsCoverGuards'
    <3>1. /\ Cardinality(GuardsOn(f)') = Cardinality(GuardsOn(f)) + 1
          /\ \A h \in Frames \ {f} : GuardsOn(h)' = GuardsOn(h)
      BY <1>0, <1>5, AttachedGuards
    <3> QED
      BY <1>0, <1>2, <1>3, <3>1, GuardsOnFinite
      DEF IInv, PinsCoverGuards, FramesTypeOK
  <2>5. OneWriterPerFrame' /\ WritersWrite'
    BY <2>1 DEF IInv, OneWriterPerFrame, WritersWrite, HasLatch
  <2> QED
    BY <2>2, <2>3, <2>4, <2>5
<1> QED
  BY <1>4, <1>5

(* Writing a victim back extends no file, so it names no new page id.      *)
LEMMA WrittenBackPages ==
  ASSUME IInv, NEW f \in Frames, CanClaim(f)
  PROVE  /\ WrittenBack(f) \in [Keys -> Images \cup {Absent}]
         /\ \A k \in Keys : WrittenBack(f)[k] # Absent => k[2] < nextPageId
         /\ \A k \in Keys : disk[k] # Absent => WrittenBack(f)[k] \in Images
<1>0. /\ disk \in [Keys -> Images \cup {Absent}] /\ frameData[f] \in Images
      /\ frameKey[f] \in Keys \cup {NoKey}
  BY DEF IInv, TypeOK, FramesTypeOK
<1>1. frameKey[f] # NoKey => pageTable[frameKey[f]] = f
  BY ClaimedFrame
<1>2. frameKey[f] # NoKey => frameKey[f][2] < nextPageId
  BY <1>0, <1>1, FrameAssumption DEF IInv, NextIdIsFresh, Cached
<1>3. \A k \in Keys : \/ WrittenBack(f)[k] = disk[k]
                      \/ /\ k = frameKey[f] /\ k # NoKey
                         /\ WrittenBack(f)[k] = frameData[f]
  <2>1. CASE frameKey[f] # NoKey /\ dirty[f]
    <3>1. WrittenBack(f) = [disk EXCEPT ![frameKey[f]] = frameData[f]]
      BY <2>1 DEF WrittenBack
    <3> QED
      BY <1>0, <2>1, <3>1
  <2>2. CASE ~(frameKey[f] # NoKey /\ dirty[f])
    BY <2>2 DEF WrittenBack
  <2> QED
    BY <2>1, <2>2
<1>4. WrittenBack(f) \in [Keys -> Images \cup {Absent}]
  BY <1>0 DEF WrittenBack
<1>5. \A k \in Keys : WrittenBack(f)[k] # Absent => k[2] < nextPageId
  BY <1>2, <1>3 DEF IInv, NextIdIsFresh
<1>6. \A k \in Keys : disk[k] # Absent => WrittenBack(f)[k] \in Images
  BY <1>0, <1>3
<1> QED
  BY <1>4, <1>5, <1>6

LEMMA FetchMissStep ==
  ASSUME IInv, NEW g \in Guards, NEW k \in Keys, NEW w \in BOOLEAN,
         NEW f \in Frames, CanClaim(f), FetchMiss(g, k, w, f), TrackPinned(f)
  PROVE  IInv'
<1>1. /\ guard[g].pc = "idle" /\ Attach(g, k, f, w)
      /\ ~Cached(k) /\ disk[k] # Absent
      /\ disk' = WrittenBack(f) /\ nextPageId' = nextPageId
  BY DEF FetchMiss, Wanted
<1>2. PICK image \in Images : Install(f, k, image)
  <2>1. ReadImages(WrittenBack(f), k) \subseteq Images
    BY <1>1, WrittenBackPages DEF ReadImages, Images
  <2> QED
    BY <2>1 DEF FetchMiss
<1>3. /\ guard' \in [Guards -> Guard] /\ GuardKeepsItsPage'
      /\ PinsCoverGuards' /\ OneWriterPerFrame' /\ WritersWrite'
  BY <1>1, <1>2, ClaimGuards
<1>4. /\ TableMatchesFrames' /\ EvictableIffUnpinned'
      /\ FreeFramesAreEmpty' /\ AliveFramesAreMapped'
  BY <1>1, <1>2, InstallStep
<1>5. TypeOK'
  <2>1. nextPageId' \in 0 .. MaxPages
    BY <1>1 DEF IInv, TypeOK, FramesTypeOK
  <2>2. disk' \in [Keys -> Images \cup {Absent}]
    BY <1>1, WrittenBackPages
  <2> QED
    BY <1>1, <1>2, <1>3, <2>1, <2>2, InstallStep DEF TypeOK, FramesTypeOK
<1>6. NextIdIsFresh'
  <2>1. \A j \in Keys : pageTable'[j] \in {pageTable[j], NoFrame} \/ j = k
    BY <1>1, <1>2, InstallStep
  <2>2. k[2] < nextPageId
    BY <1>1 DEF IInv, NextIdIsFresh
  <2>3. \A h \in Frames : frameKey'[h] \in {k, frameKey[h]}
    BY <1>2 DEF Install, IInv, TypeOK, FramesTypeOK
  <2> QED
    BY <1>1, <2>1, <2>2, <2>3, WrittenBackPages DEF IInv, NextIdIsFresh, Cached
<1> QED
  BY <1>3, <1>4, <1>5, <1>6 DEF IInv

(***************************************************************************)
(* new_page, whether its last call reserves the page on disk or throws.    *)
(***************************************************************************)
LEMMA NewPageStep ==
  ASSUME IInv, NEW file \in Files, NEW f \in Frames, CanClaim(f),
         TrackPinned(f),
         \/ \E g \in Guards : NewPage(g, file, f)
         \/ NewPageReserveFails(file, f)
  PROVE  IInv'
<1>1. PICK k : k = <<file, nextPageId>>
  OBVIOUS
<1>0. nextPageId \in Nat
  BY FrameAssumption DEF IInv, TypeOK, FramesTypeOK
<1>2. /\ nextPageId < MaxPages /\ nextPageId' = nextPageId + 1
      /\ Install(f, k, Zero)
      /\ disk' \in {WrittenBack(f), [WrittenBack(f) EXCEPT ![k] = Zero]}
  BY <1>1 DEF NewPage, NewPageReserveFails
<1>3. k \in Keys /\ k[2] = nextPageId
  BY <1>0, <1>1, <1>2, FrameAssumption DEF Keys, PageIds
<1>4. ~Cached(k)
  BY <1>0, <1>3 DEF IInv, NextIdIsFresh
<1>5. Zero \in Images
  BY DEF Images
<1>6. \/ \E g \in Guards, w \in BOOLEAN :
             guard[g].pc = "idle" /\ Attach(g, k, f, w)
      \/ UNCHANGED guard
  BY <1>1 DEF NewPage, NewPageReserveFails
<1>7. /\ guard' \in [Guards -> Guard] /\ GuardKeepsItsPage'
      /\ PinsCoverGuards' /\ OneWriterPerFrame' /\ WritersWrite'
  BY <1>2, <1>3, <1>4, <1>5, <1>6, ClaimGuards
<1>8. /\ TableMatchesFrames' /\ EvictableIffUnpinned'
      /\ FreeFramesAreEmpty' /\ AliveFramesAreMapped'
  BY <1>2, <1>3, <1>4, <1>5, InstallStep
<1>9. TypeOK'
  <2>1. nextPageId' \in 0 .. MaxPages
    BY <1>0, <1>2, FrameAssumption
  <2>2. disk' \in [Keys -> Images \cup {Absent}]
    BY <1>2, <1>5, WrittenBackPages
  <2> QED
    BY <1>2, <1>3, <1>4, <1>5, <1>7, <2>1, <2>2, InstallStep
    DEF TypeOK, FramesTypeOK
<1>10. NextIdIsFresh'
  <2>1. \A j \in Keys : pageTable'[j] \in {pageTable[j], NoFrame} \/ j = k
    BY <1>2, <1>3, <1>4, <1>5, InstallStep
  <2>2. \A j \in Keys : disk'[j] = WrittenBack(f)[j] \/ j = k
    BY <1>2, WrittenBackPages
  <2>3. \A j \in Keys : Cached(j)' \/ disk'[j] # Absent
                          => j[2] < nextPageId \/ j = k
    BY <2>1, <2>2, WrittenBackPages DEF IInv, NextIdIsFresh, Cached
  <2>4. \A j \in Keys : j[2] \in Int
    BY DEF Keys, PageIds
  <2>5. \A h \in Frames : /\ frameKey'[h] \in {k, frameKey[h]}
                          /\ frameKey[h] \in Keys \cup {NoKey}
    BY <1>2 DEF Install, IInv, TypeOK, FramesTypeOK
  <2>6. \A h \in Frames : frameKey'[h] # NoKey => frameKey'[h][2] < nextPageId'
    BY <1>0, <1>2, <1>3, <2>4, <2>5 DEF IInv, NextIdIsFresh
  <2>7. \A j \in Keys : Cached(j)' \/ disk'[j] # Absent => j[2] < nextPageId'
    BY <1>0, <1>2, <1>3, <2>3, <2>4
  <2> QED
    BY <2>6, <2>7 DEF NextIdIsFresh
<1> QED
  BY <1>7, <1>8, <1>9, <1>10 DEF IInv

(***************************************************************************)
(* A disk call throws after the frame was claimed and before it was given  *)
(* its new page: the frame is lost, and the invariant survives.            *)
(***************************************************************************)
LEMMA LostFrameStep ==
  ASSUME IInv, NEW f \in Frames, CanClaim(f), Forget(f),
         FetchReadFails(f) \/ EvictWriteFails(f)
  PROVE  IInv'
<1>0. FramesTypeOK /\ alive \in SUBSET Frames /\ evictable \in SUBSET alive
  BY DEF IInv, TypeOK
<1>1. /\ UNCHANGED <<frameKey, pinCount, dirty, frameData, nextPageId, guard>>
      /\ freeFrames' \in SUBSET freeFrames
      /\ pageTable' \in {pageTable, Unmapped(f)}
      /\ disk' \in {disk, WrittenBack(f)}
  BY DEF FetchReadFails, EvictWriteFails, frameVars, poolVars
<1>2. /\ pinCount[f] = 0 /\ GuardsOn(f) = {}
      /\ frameKey[f] # NoKey => pageTable[frameKey[f]] = f
  BY ClaimedFrame
<1>3. /\ pageTable' \in [Keys -> Frames \cup {NoFrame}]
      /\ \A j \in Keys : \/ pageTable'[j] = pageTable[j]
                         \/ pageTable'[j] = NoFrame /\ j = frameKey[f]
  BY <1>0, <1>1, FrameAssumption DEF Unmapped, FramesTypeOK
<1>4. TypeOK'
  BY <1>0, <1>1, <1>3, WrittenBackPages DEF TypeOK, FramesTypeOK, Forget
<1>5. TableMatchesFrames'
  BY <1>1, <1>3 DEF IInv, TableMatchesFrames, Cached
<1>6. GuardKeepsItsPage'
  <2> SUFFICES ASSUME NEW g \in Guards, guard[g].pc # "idle"
               PROVE  /\ guard[g].frame # NoFrame /\ guard[g].key # NoKey
                      /\ frameKey[guard[g].frame] = guard[g].key
                      /\ pageTable'[guard[g].key] = guard[g].frame
    BY <1>1 DEF GuardKeepsItsPage
  <2>1. /\ guard[g].frame # NoFrame /\ guard[g].key # NoKey
        /\ frameKey[guard[g].frame] = guard[g].key
        /\ pageTable[guard[g].key] = guard[g].frame
        /\ guard[g].key \in Keys
    BY <1>0 DEF IInv, GuardKeepsItsPage, FramesTypeOK, Guard
  <2>2. guard[g].frame # f
    BY <1>2 DEF GuardsOn
  <2> QED
    BY <1>2, <1>3, <2>1, <2>2
<1>7. PinsCoverGuards'
  BY <1>1 DEF IInv, PinsCoverGuards, GuardsOn
<1>8. EvictableIffUnpinned' /\ FreeFramesAreEmpty'
  BY <1>1 DEF IInv, EvictableIffUnpinned, FreeFramesAreEmpty, Forget
<1>9. AliveFramesAreMapped'
  <2> SUFFICES ASSUME NEW h \in alive \ {f}
               PROVE  frameKey[h] # NoKey /\ pageTable'[frameKey[h]] = h
    BY <1>1 DEF AliveFramesAreMapped, Forget
  <2>1. frameKey[h] # NoKey /\ pageTable[frameKey[h]] = h
        /\ frameKey[h] \in Keys
    BY <1>0 DEF IInv, AliveFramesAreMapped, FramesTypeOK
  <2> QED
    BY <1>2, <1>3, <2>1
<1>10. NextIdIsFresh'
  BY <1>1, <1>3, WrittenBackPages DEF IInv, NextIdIsFresh, Cached
<1>11. OneWriterPerFrame' /\ WritersWrite'
  BY <1>1 DEF IInv, OneWriterPerFrame, WritersWrite, HasLatch
<1> QED
  BY <1>4, <1>5, <1>6, <1>7, <1>8, <1>9, <1>10, <1>11 DEF IInv

(***************************************************************************)
(* Dropping a guard.                                                       *)
(***************************************************************************)
(* unpin_page finds the frame the guard points to, with a pin left on it.  *)
LEMMA UnpinFindsTheFrame ==
  ASSUME IInv, NEW g \in Guards, guard[g].pc # "idle"
  PROVE  /\ guard[g].frame \in Frames
         /\ guard[g].key \in Keys
         /\ pinCount[guard[g].frame] > 0
         /\ UnpinnedFrame(g) = guard[g].frame
<1> DEFINE f == guard[g].frame
<1>1. /\ f \in Frames /\ guard[g].key \in Keys
      /\ frameKey[f] = guard[g].key /\ pageTable[guard[g].key] = f
  BY DEF IInv, TypeOK, FramesTypeOK, Guard, GuardKeepsItsPage
<1>2. g \in GuardsOn(f)
  BY DEF GuardsOn
<1>3. Cardinality(GuardsOn(f)) # 0
  BY <1>2, GuardsOnFinite, FS_EmptySet
<1>4. pinCount[f] > 0
  <2>1. pinCount[f] \in Nat /\ pinCount[f] >= Cardinality(GuardsOn(f))
    BY <1>1 DEF IInv, TypeOK, FramesTypeOK, PinsCoverGuards
  <2> QED
    BY <2>1, <1>3, GuardsOnFinite
<1>5. pinCount[f] \in Nat
  BY <1>1 DEF IInv, TypeOK, FramesTypeOK
<1> QED
  BY <1>1, <1>4, <1>5, FrameAssumption DEF UnpinnedFrame, Cached

LEMMA DropStep ==
  ASSUME IInv, NEW g \in Guards, Drop(g)
  PROVE  IInv'
<1>0. FramesTypeOK /\ alive \in SUBSET Frames /\ evictable \in SUBSET alive
  BY DEF IInv, TypeOK
<1>1. PICK f \in Frames :
        /\ f = guard[g].frame /\ f = UnpinnedFrame(g)
        /\ pinCount[f] > 0 /\ pinCount[f] \in Nat
  BY <1>0, UnpinFindsTheFrame DEF Drop, Unpin, FramesTypeOK
<1>2. /\ guard[g].pc = "unlatched"
      /\ guard' = [guard EXCEPT ![g] = IdleGuard]
      /\ pinCount' = [pinCount EXCEPT ![f] = @ - 1]
      /\ dirty' = [dirty EXCEPT ![f] = @ \/ guard[g].write]
      /\ UNCHANGED <<pageTable, freeFrames, frameKey, frameData, nextPageId,
                     disk>>
  BY <1>1, FrameAssumption DEF Drop, Unpin
<1>3. IF pinCount'[f] = 0 THEN Release(f) ELSE UNCHANGED <<alive, evictable>>
  BY <1>1, FrameAssumption DEF Drop
<1>4. \A h \in Frames : pinCount'[h] = IF h = f THEN pinCount[h] - 1
                                               ELSE pinCount[h]
  BY <1>0, <1>2 DEF FramesTypeOK
<1>5. \A h \in Guards : guard'[h] = IF h = g THEN IdleGuard ELSE guard[h]
  BY <1>0, <1>2 DEF FramesTypeOK
<1>6. TypeOK'
  <2>1. guard' \in [Guards -> Guard]
    BY <1>0, <1>2 DEF FramesTypeOK, Guard, GuardStates, IdleGuard
  <2>2. pinCount' \in [Frames -> Nat]
    BY <1>0, <1>1, <1>2 DEF FramesTypeOK
  <2>3. dirty' \in [Frames -> BOOLEAN]
    BY <1>0, <1>2 DEF FramesTypeOK, Guard
  <2>4. alive' \in SUBSET Frames /\ evictable' \in SUBSET alive'
    BY <1>0, <1>3 DEF Release
  <2> QED
    BY <1>0, <1>2, <2>1, <2>2, <2>3, <2>4 DEF TypeOK, FramesTypeOK
<1>7. TableMatchesFrames' /\ NextIdIsFresh' /\ AliveFramesAreMapped'
  BY <1>2, <1>3
  DEF IInv, TableMatchesFrames, NextIdIsFresh, AliveFramesAreMapped, Cached,
      Release
<1>8. GuardKeepsItsPage' /\ OneWriterPerFrame' /\ WritersWrite'
  BY <1>2, <1>5
  DEF IInv, GuardKeepsItsPage, OneWriterPerFrame, WritersWrite, HasLatch,
      IdleGuard
<1>9. PinsCoverGuards'
  <2>1. GuardsOn(f)' = GuardsOn(f) \ {g}
    BY <1>5 DEF GuardsOn, IdleGuard
  <2>2. g \in GuardsOn(f)
    BY <1>1, <1>2 DEF GuardsOn
  <2>3. Cardinality(GuardsOn(f) \ {g}) = Cardinality(GuardsOn(f)) - 1
    BY <2>2, GuardsOnFinite, FS_RemoveElement
  <2>4. \A h \in Frames \ {f} : GuardsOn(h)' = GuardsOn(h)
    <3> SUFFICES ASSUME NEW h \in Frames \ {f}, NEW x \in Guards
                 PROVE  x \in GuardsOn(h)' <=> x \in GuardsOn(h)
      BY DEF GuardsOn
    <3>1. CASE x = g
      <4>1. guard'[g].pc = "idle"
        BY <1>5 DEF IdleGuard
      <4>2. g \notin GuardsOn(h)' /\ g \notin GuardsOn(h)
        BY <4>1, <1>1 DEF GuardsOn
      <4> QED
        BY <3>1, <4>2
    <3>2. CASE x # g
      BY <3>2, <1>5 DEF GuardsOn
    <3> QED
      BY <3>1, <3>2
  <2>5. \A h \in Frames : pinCount[h] >= Cardinality(GuardsOn(h))
    BY DEF IInv, PinsCoverGuards
  <2>6. pinCount'[f] >= Cardinality(GuardsOn(f)')
    BY <1>1, <1>4, <2>1, <2>3, <2>5, GuardsOnFinite
  <2>7. \A h \in Frames \ {f} : pinCount'[h] >= Cardinality(GuardsOn(h)')
    BY <1>4, <2>4, <2>5
  <2> QED
    BY <2>6, <2>7 DEF PinsCoverGuards
<1>10. EvictableIffUnpinned'
  BY <1>0, <1>1, <1>3, <1>4 DEF IInv, EvictableIffUnpinned, Release
<1>11. FreeFramesAreEmpty'
  BY <1>0, <1>1, <1>2, <1>3, <1>4
  DEF IInv, FreeFramesAreEmpty, Release, FramesTypeOK
<1> QED
  BY <1>6, <1>7, <1>8, <1>9, <1>10, <1>11 DEF IInv

(***************************************************************************)
(* delete_page, flush_page, flush_all_pages.                               *)
(***************************************************************************)
LEMMA DeleteStep ==
  ASSUME IInv, NEW k \in Keys, Delete(k)
  PROVE  IInv'
<1>0. FramesTypeOK /\ alive \in SUBSET Frames /\ evictable \in SUBSET alive
  BY DEF IInv, TypeOK
<1>1. PICK f \in Frames : f = pageTable[k] /\ frameKey[f] = k
  BY <1>0
  DEF Delete, DeletePage, Cached, IInv, TableMatchesFrames, FramesTypeOK
<1>2. /\ pinCount[f] <= 0 /\ Forget(f)
      /\ pageTable' = [pageTable EXCEPT ![k] = NoFrame]
      /\ freeFrames' = freeFrames \cup {f}
      /\ frameKey' = [frameKey EXCEPT ![f] = NoKey]
      /\ pinCount' = [pinCount EXCEPT ![f] = 0]
      /\ dirty' = [dirty EXCEPT ![f] = FALSE]
      /\ frameData' = [frameData EXCEPT ![f] = Zero]
      /\ UNCHANGED <<nextPageId, disk, guard>>
  BY <1>1 DEF Delete, DeletePage
<1>3. GuardsOn(f) = {} /\ pinCount[f] = 0
  <2>1. pinCount[f] = 0
    BY <1>0, <1>2 DEF FramesTypeOK
  <2> QED
    BY <2>1, <1>0, UnpinnedMeansUnguarded DEF IInv
<1>4. /\ \A j \in Keys : pageTable'[j] = IF j = k THEN NoFrame
                                                 ELSE pageTable[j]
      /\ \A h \in Frames : frameKey'[h] = IF h = f THEN NoKey ELSE frameKey[h]
      /\ \A h \in Frames : pinCount'[h] = IF h = f THEN 0 ELSE pinCount[h]
  BY <1>0, <1>2 DEF FramesTypeOK
<1>5. TypeOK'
  BY <1>0, <1>2 DEF TypeOK, FramesTypeOK, Forget, Images
<1>6. TableMatchesFrames'
  BY <1>0, <1>1, <1>4 DEF IInv, TableMatchesFrames, Cached, FramesTypeOK
<1>7. GuardKeepsItsPage'
  <2> SUFFICES ASSUME NEW g \in Guards, guard[g].pc # "idle"
               PROVE  /\ guard[g].frame # NoFrame /\ guard[g].key # NoKey
                      /\ frameKey'[guard[g].frame] = guard[g].key
                      /\ pageTable'[guard[g].key] = guard[g].frame
    BY <1>2 DEF GuardKeepsItsPage
  <2>1. /\ guard[g].frame \in Frames /\ guard[g].key \in Keys
        /\ guard[g].frame # NoFrame /\ guard[g].key # NoKey
        /\ frameKey[guard[g].frame] = guard[g].key
        /\ pageTable[guard[g].key] = guard[g].frame
    BY <1>0 DEF IInv, GuardKeepsItsPage, FramesTypeOK, Guard
  <2>2. guard[g].frame # f
    BY <1>3 DEF GuardsOn
  <2> QED
    BY <1>1, <1>4, <2>1, <2>2
<1>8. PinsCoverGuards'
  <2>1. \A h \in Frames : GuardsOn(h)' = GuardsOn(h)
    BY <1>2 DEF GuardsOn
  <2>2. Cardinality(GuardsOn(f)) = 0
    BY <1>3, FS_EmptySet
  <2>3. pinCount'[f] >= Cardinality(GuardsOn(f)')
    BY <1>4, <2>1, <2>2
  <2>4. \A h \in Frames \ {f} : pinCount'[h] >= Cardinality(GuardsOn(h)')
    BY <1>4, <2>1 DEF IInv, PinsCoverGuards
  <2> QED
    BY <2>3, <2>4 DEF PinsCoverGuards
<1>9. EvictableIffUnpinned' /\ FreeFramesAreEmpty'
  BY <1>0, <1>2, <1>4
  DEF IInv, EvictableIffUnpinned, FreeFramesAreEmpty, Forget, FramesTypeOK
<1>10. AliveFramesAreMapped'
  <2> SUFFICES ASSUME NEW h \in alive \ {f}
               PROVE  frameKey'[h] # NoKey /\ pageTable'[frameKey'[h]] = h
    BY <1>2 DEF AliveFramesAreMapped, Forget
  <2>1. /\ frameKey[h] # NoKey /\ pageTable[frameKey[h]] = h
        /\ frameKey[h] \in Keys
    BY <1>0 DEF IInv, AliveFramesAreMapped, FramesTypeOK
  <2> QED
    BY <1>0, <1>1, <1>4, <2>1
<1>11. NextIdIsFresh'
  BY <1>2, <1>4 DEF IInv, NextIdIsFresh, Cached
<1>12. OneWriterPerFrame' /\ WritersWrite'
  BY <1>2 DEF IInv, OneWriterPerFrame, WritersWrite, HasLatch
<1> QED
  BY <1>5, <1>6, <1>7, <1>8, <1>9, <1>10, <1>11, <1>12 DEF IInv

(* Flushing changes the dirty flags and overwrites pages that exist.       *)
LEMMA FlushStep ==
  ASSUME IInv, Flush
  PROVE  IInv'
<1>0. FramesTypeOK
  BY DEF IInv, TypeOK
<1>1. /\ UNCHANGED <<pageTable, freeFrames, frameKey, pinCount, frameData,
                     nextPageId, guard, alive, evictable>>
      /\ dirty' \in [Frames -> BOOLEAN]
  BY <1>0 DEF Flush, FlushPage, FlushFrames, FramesTypeOK
<1>2. /\ disk' \in [Keys -> Images \cup {Absent}]
      /\ NextIdIsFresh'
  <2>1. CASE \E k \in Keys : FlushPage(k)
    <3>1. PICK k \in Keys : FlushPage(k)
      BY <2>1
    <3>2. /\ pageTable[k] \in Frames /\ frameKey[pageTable[k]] = k
          /\ Cached(k) /\ k[2] < nextPageId
      BY <3>1, <1>0
      DEF FlushPage, Cached, IInv, TableMatchesFrames, NextIdIsFresh,
          FramesTypeOK
    <3>3. disk' = [disk EXCEPT ![k] = frameData[pageTable[k]]]
      BY <3>1, <3>2 DEF FlushPage
    <3> QED
      BY <1>0, <1>1, <3>2, <3>3
      DEF FramesTypeOK, IInv, NextIdIsFresh, Cached
  <2>2. CASE \E S \in SUBSET Frames, last \in Frames : FlushFrames(S, last)
    <3>1. PICK S \in SUBSET Frames, last \in Frames : FlushFrames(S, last)
      BY <2>2
    <3>2. \A k \in Keys :
             \/ disk'[k] = disk[k]
             \/ \E f \in S : frameKey[f] = k /\ disk'[k] = frameData[f]
      BY <3>1 DEF FlushFrames
    <3>3. disk' \in [Keys -> Images \cup {Absent}]
      <4>1. DOMAIN disk' = Keys /\ disk' = [k \in Keys |-> disk'[k]]
        BY <3>1 DEF FlushFrames
      <4>2. \A k \in Keys : disk'[k] \in Images \cup {Absent}
        BY <1>0, <3>2 DEF FramesTypeOK
      <4> QED
        BY <4>1, <4>2
    <3>4. \A k \in Keys : disk'[k] # Absent => k[2] < nextPageId
      BY <3>2, FrameAssumption DEF IInv, NextIdIsFresh
    <3> QED
      BY <1>1, <3>3, <3>4 DEF IInv, NextIdIsFresh, Cached
  <2> QED
    BY <2>1, <2>2 DEF Flush
<1>3. TypeOK'
  BY <1>0, <1>1, <1>2 DEF IInv, TypeOK, FramesTypeOK
<1>4. /\ TableMatchesFrames' /\ GuardKeepsItsPage' /\ EvictableIffUnpinned'
      /\ FreeFramesAreEmpty' /\ AliveFramesAreMapped' /\ OneWriterPerFrame'
      /\ WritersWrite'
  BY <1>1
  DEF IInv, TableMatchesFrames, GuardKeepsItsPage, EvictableIffUnpinned,
      FreeFramesAreEmpty, AliveFramesAreMapped, OneWriterPerFrame,
      WritersWrite, Cached, HasLatch
<1>5. PinsCoverGuards'
  BY <1>1 DEF IInv, PinsCoverGuards, GuardsOn
<1> QED
  BY <1>2, <1>3, <1>4, <1>5 DEF IInv

(***************************************************************************)
(* The latch of a guard, and the bytes it rewrites.                        *)
(***************************************************************************)
LEMMA UseLatchStep ==
  ASSUME IInv, NEW g \in Guards, UseLatch(g)
  PROVE  IInv'
<1>0. FramesTypeOK
  BY DEF IInv, TypeOK
<1>1. PICK pc \in GuardStates \ {"idle"} :
        /\ SetPc(g, pc) /\ guard[g].pc # "idle"
        /\ pc \in {"held", "writing"} => HasLatch(g) \/ LatchFree(g)
        /\ pc = "writing" => guard[g].write
  BY DEF UseLatch, Latch, BeginWrite, EndWrite, Unlatch, GuardStates, HasLatch
<1>2. /\ UNCHANGED <<pageTable, freeFrames, frameKey, pinCount, dirty,
                     nextPageId, disk, alive, evictable>>
      /\ frameData' \in [Frames -> Images]
  BY <1>0
  DEF UseLatch, Latch, BeginWrite, EndWrite, Unlatch, poolVars, FramesTypeOK,
      Images
<1>3. \A h \in Guards : guard'[h] = IF h = g THEN [guard[g] EXCEPT !.pc = pc]
                                             ELSE guard[h]
  BY <1>0, <1>1 DEF SetPc, FramesTypeOK
<1>4. /\ guard'[g].pc = pc
      /\ \A h \in Guards : /\ guard'[h].key = guard[h].key
                           /\ guard'[h].frame = guard[h].frame
                           /\ guard'[h].write = guard[h].write
                           /\ h # g => guard'[h].pc = guard[h].pc
  BY <1>0, <1>3 DEF FramesTypeOK, Guard
<1>5. TypeOK'
  <2>1. guard' \in [Guards -> Guard]
    BY <1>0, <1>1 DEF FramesTypeOK, SetPc, Guard
  <2> QED
    BY <1>0, <1>2, <2>1 DEF IInv, TypeOK, FramesTypeOK
<1>6. /\ TableMatchesFrames' /\ EvictableIffUnpinned' /\ FreeFramesAreEmpty'
      /\ AliveFramesAreMapped' /\ NextIdIsFresh'
  BY <1>2
  DEF IInv, TableMatchesFrames, EvictableIffUnpinned, FreeFramesAreEmpty,
      AliveFramesAreMapped, NextIdIsFresh, Cached
<1>7. GuardKeepsItsPage'
  BY <1>1, <1>2, <1>4 DEF IInv, GuardKeepsItsPage
<1>8. PinsCoverGuards'
  BY <1>0, <1>1, <1>2, SetPcGuards DEF IInv, PinsCoverGuards
<1>9. OneWriterPerFrame'
  <2> SUFFICES ASSUME NEW a \in Guards, NEW b \in Guards, a # b,
                      HasLatch(a)', HasLatch(b)',
                      guard[a].frame = guard[b].frame
               PROVE  ~guard[a].write /\ ~guard[b].write
    BY <1>4 DEF OneWriterPerFrame
  <2>1. /\ a # g => HasLatch(a)
        /\ b # g => HasLatch(b)
        /\ a = g \/ b = g => HasLatch(g) \/ LatchFree(g)
    BY <1>1, <1>4 DEF HasLatch
  <2> QED
    BY <2>1 DEF IInv, OneWriterPerFrame, LatchFree
<1>10. WritersWrite'
  BY <1>1, <1>4 DEF IInv, WritersWrite
<1> QED
  BY <1>5, <1>6, <1>7, <1>8, <1>9, <1>10 DEF IInv

-----------------------------------------------------------------------------
LEMMA NextIInv == IInv /\ [Next]_vars => IInv'
<1> SUFFICES ASSUME IInv, [Next]_vars PROVE IInv'
  OBVIOUS
<1>1. CASE \E g \in Guards : Acquire(g)
  <2>1. PICK g \in Guards : Acquire(g)
    BY <1>1
  <2>2. CASE \E k \in Keys, w \in BOOLEAN : Fetch(g, k, w)
    BY <2>2, FetchHitStep, FetchMissStep DEF Fetch
  <2>3. CASE \E file \in Files : Create(g, file)
    BY <2>3, NewPageStep DEF Create
  <2> QED
    BY <2>1, <2>2, <2>3 DEF Acquire
<1>2. CASE \E g \in Guards : UseLatch(g)
  BY <1>2, UseLatchStep
<1>3. CASE \E g \in Guards : Drop(g)
  BY <1>3, DropStep
<1>4. CASE DiskFails
  BY <1>4, LostFrameStep, NewPageStep DEF DiskFails
<1>5. CASE \E k \in Deletable : Delete(k)
  BY <1>5, DeleteStep, FrameAssumption
<1>6. CASE Flush
  BY <1>6, FlushStep
<1>7. CASE UNCHANGED vars
  BY <1>7
  DEF vars, frameVars, poolVars, IInv, TypeOK, FramesTypeOK,
      TableMatchesFrames, GuardKeepsItsPage, PinsCoverGuards, GuardsOn,
      EvictableIffUnpinned, FreeFramesAreEmpty, AliveFramesAreMapped,
      NextIdIsFresh, OneWriterPerFrame, WritersWrite, Cached, HasLatch
<1> QED
  BY <1>1, <1>2, <1>3, <1>4, <1>5, <1>6, <1>7 DEF Next

(* The inductive invariant holds in every state, disk failures included.   *)
THEOREM PoolInvariant == Spec => []IInv
BY InitIInv, NextIInv, PTL DEF Spec

-----------------------------------------------------------------------------
(***************************************************************************)
(* What it gives.                                                          *)
(***************************************************************************)
(* Every field of the pool, of its frames and of the guards has its type;  *)
(* in particular unpin_page never takes a pin count below 0.               *)
THEOREM PoolTypeCorrect == Spec => []TypeOK
<1>1. IInv => TypeOK
  BY DEF IInv
<1> QED
  BY <1>1, PoolInvariant, PTL

(* fetch_page, new_page and delete_page keep page_table_ and the frames'   *)
(* own page ids in step, also when a disk call throws halfway.             *)
THEOREM PageTableMatchesFrames == Spec => []TableMatchesFrames
<1>1. IInv => TableMatchesFrames
  BY DEF IInv
<1> QED
  BY <1>1, PoolInvariant, PTL

(* The Page pointer in a ReadPageGuard or a WritePageGuard never points to *)
(* a frame that evict() or delete_page has given to another page.          *)
THEOREM NoGuardDangles == Spec => []GuardKeepsItsPage
<1>1. IInv => GuardKeepsItsPage
  BY DEF IInv
<1> QED
  BY <1>1, PoolInvariant, PTL

(* The rw_latch_ of a frame excludes writers of a page, because a guarded  *)
(* page never moves to another frame.                                      *)
THEOREM WritersExclude == Spec => []OneWriterPerPage
<1>1. IInv => OneWriterPerPage
  <2> SUFFICES ASSUME IInv, NEW g \in Guards, NEW h \in Guards,
                      g # h, HasLatch(g), HasLatch(h),
                      guard[g].key = guard[h].key
               PROVE  ~guard[g].write /\ ~guard[h].write
    BY DEF OneWriterPerPage
  <2>1. guard[g].frame = guard[h].frame
    BY DEF IInv, GuardKeepsItsPage, HasLatch
  <2> QED
    BY <2>1 DEF IInv, OneWriterPerFrame
<1> QED
  BY <1>1, PoolInvariant, PTL

(* pin_count_ counts at least the guards there are.                        *)
THEOREM EveryGuardIsPinned == Spec => []PinsCoverGuards
<1>1. IInv => PinsCoverGuards
  BY DEF IInv
<1> QED
  BY <1>1, PoolInvariant, PTL

(* The replacer's evictable flags follow the pin counts, so that remove(), *)
(* called by delete_page, never terminates the process.                    *)
THEOREM FlagsFollowPins == Spec => []EvictableIffUnpinned
<1>1. IInv => EvictableIffUnpinned
  BY DEF IInv
<1> QED
  BY <1>1, PoolInvariant, PTL

(* Bytes under a shared latch do not change and the frame is not reused:   *)
(* evict() and delete_page pass guarded frames over, and a WritePageGuard  *)
(* waits.                                                                  *)
LEMMA ReaderStep ==
  ASSUME IInv, Next, NEW g \in Guards,
         HasLatch(g), ~guard[g].write, HasLatch(g)'
  PROVE  /\ guard'[g].frame = guard[g].frame
         /\ frameKey'[guard[g].frame] = frameKey[guard[g].frame]
         /\ frameData'[guard[g].frame] = frameData[guard[g].frame]
<1>0. FramesTypeOK /\ guard[g].frame \in Frames /\ guard[g].pc # "idle"
  BY UnpinFindsTheFrame DEF IInv, TypeOK, HasLatch
<1>1. ASSUME NEW f \in Frames, GuardsOn(f) = {}
      PROVE  guard[g].frame # f
  BY <1>0, <1>1 DEF GuardsOn
<1>2. ASSUME NEW h \in Guards, Acquire(h)
      PROVE  /\ guard'[g].frame = guard[g].frame
             /\ frameKey'[guard[g].frame] = frameKey[guard[g].frame]
             /\ frameData'[guard[g].frame] = frameData[guard[g].frame]
  <2>1. guard[h].pc = "idle"
    BY <1>2 DEF Acquire, Fetch, Create, FetchHit, FetchMiss, NewPage
  <2>2. guard'[g] = guard[g]
    BY <2>1, <1>0, <1>2
    DEF Acquire, Fetch, Create, FetchHit, FetchMiss, NewPage, Attach,
        FramesTypeOK
  <2>3. \/ UNCHANGED <<frameKey, frameData>>
        \/ \E f \in Frames : \E k, image : CanClaim(f) /\ Install(f, k, image)
    BY <1>2 DEF Acquire, Fetch, Create, FetchHit, FetchMiss, NewPage
  <2> QED
    BY <2>2, <2>3, <1>0, <1>1, ClaimedFrame DEF Install, FramesTypeOK
<1>3. ASSUME NEW h \in Guards, UseLatch(h)
      PROVE  /\ guard'[g].frame = guard[g].frame
             /\ frameKey'[guard[g].frame] = frameKey[guard[g].frame]
             /\ frameData'[guard[g].frame] = frameData[guard[g].frame]
  <2>1. guard'[g].frame = guard[g].frame /\ frameKey' = frameKey
    BY <1>0, <1>3
    DEF UseLatch, Latch, BeginWrite, EndWrite, Unlatch, SetPc, FramesTypeOK,
        Guard, poolVars
  <2>2. \/ frameData' = frameData
        \/ /\ HasLatch(h) /\ guard[h].write
           /\ \E v : frameData' = [frameData EXCEPT ![guard[h].frame] = v]
    BY <1>3
    DEF UseLatch, Latch, BeginWrite, EndWrite, Unlatch, poolVars, HasLatch,
        IInv, WritersWrite
  <2>3. HasLatch(h) /\ guard[h].write => guard[h].frame # guard[g].frame
    BY DEF IInv, OneWriterPerFrame
  <2> QED
    BY <1>0, <2>1, <2>2, <2>3 DEF FramesTypeOK
<1>4. ASSUME NEW h \in Guards, Drop(h)
      PROVE  /\ guard'[g].frame = guard[g].frame
             /\ frameKey'[guard[g].frame] = frameKey[guard[g].frame]
             /\ frameData'[guard[g].frame] = frameData[guard[g].frame]
  <2>1. guard[h].pc = "unlatched" /\ guard' = [guard EXCEPT ![h] = IdleGuard]
        /\ UNCHANGED <<frameKey, frameData>>
    BY <1>4 DEF Drop, Unpin
  <2>2. h # g
    BY <2>1 DEF HasLatch
  <2> QED
    BY <2>1, <2>2, <1>0 DEF FramesTypeOK
<1>5. CASE DiskFails
  <2>1. UNCHANGED guard
    BY <1>5
    DEF DiskFails, FetchReadFails, EvictWriteFails, NewPageReserveFails,
        frameVars
  <2>2. \/ UNCHANGED <<frameKey, frameData>>
        \/ \E f \in Frames : \E k, image : CanClaim(f) /\ Install(f, k, image)
    BY <1>5
    DEF DiskFails, FetchReadFails, EvictWriteFails, NewPageReserveFails,
        frameVars, poolVars
  <2> QED
    BY <2>1, <2>2, <1>0, <1>1, ClaimedFrame DEF Install, FramesTypeOK
<1>6. ASSUME NEW k \in Keys, Delete(k)
      PROVE  /\ guard'[g].frame = guard[g].frame
             /\ frameKey'[guard[g].frame] = frameKey[guard[g].frame]
             /\ frameData'[guard[g].frame] = frameData[guard[g].frame]
  <2>1. PICK f \in Frames :
          /\ pinCount[f] = 0
          /\ frameKey' = [frameKey EXCEPT ![f] = NoKey]
          /\ frameData' = [frameData EXCEPT ![f] = Zero]
          /\ guard' = guard
    <3>1. pageTable[k] \in Frames /\ pinCount[pageTable[k]] = 0
      BY <1>0, <1>6 DEF Delete, DeletePage, Cached, FramesTypeOK
    <3> QED
      BY <3>1, <1>6 DEF Delete, DeletePage
  <2>2. GuardsOn(f) = {}
    BY <1>0, <2>1, UnpinnedMeansUnguarded DEF IInv
  <2> QED
    BY <1>0, <1>1, <2>1, <2>2 DEF FramesTypeOK
<1>7. CASE Flush
  BY <1>7 DEF Flush, FlushPage, FlushFrames
<1> QED
  BY <1>2, <1>3, <1>4, <1>5, <1>6, <1>7, FrameAssumption DEF Next

(* A thread that holds a ReadPageGuard sees one and the same page image,   *)
(* whatever the other threads fetch, write, flush and delete.              *)
THEOREM ReadersAreStable == Spec => ReaderSeesStablePage
<1>1. IInv /\ [Next]_vars =>
        [\A g \in Guards :
           HasLatch(g) /\ ~guard[g].write /\ HasLatch(g)' =>
             /\ guard'[g].frame = guard[g].frame
             /\ frameKey'[guard[g].frame] = frameKey[guard[g].frame]
             /\ frameData'[guard[g].frame] = frameData[guard[g].frame]]_vars
  BY ReaderStep
<1> QED
  BY <1>1, PoolInvariant, PTL DEF Spec, ReaderSeesStablePage

-----------------------------------------------------------------------------
(***************************************************************************)
(* No write is lost, if the disk does not fail: then no frame keeps the    *)
(* identity of a page that is no longer mapped to it, so nothing but the   *)
(* current copy of a page is ever written to its place on disk.            *)
(***************************************************************************)
AllFramesAreMapped ==
  \A f \in Frames : frameKey[f] # NoKey => pageTable[frameKey[f]] = f

WInv == IInv /\ AllFramesAreMapped /\ NoLostWrite

(* Every cached page but k stays in its frame, and with it all that        *)
(* NoLostWrite says of it.                                                 *)
LEMMA OtherPagesKept ==
  ASSUME WInv, NEW f \in Frames, CanClaim(f), NEW k \in Keys, ~Cached(k),
         NEW image \in Images, Install(f, k, image),
         NEW d, d = WrittenBack(f),
         \A j \in Keys \ {k} : disk'[j] = d[j],
         \A h \in Guards : guard[h].pc # "idle" => guard'[h] = guard[h]
  PROVE  /\ AllFramesAreMapped'
         /\ \A j \in Keys \ {k} : Cached(j)' =>
              \/ frameData'[pageTable'[j]] = disk'[j]
              \/ dirty'[pageTable'[j]]
              \/ WriterPending(pageTable[j])'
         /\ pageTable'[k] = f /\ frameData'[f] = image
<1>0. FramesTypeOK
  BY DEF WInv, IInv, TypeOK
<1>1. frameKey[f] # NoKey => pageTable[frameKey[f]] = f
  BY ClaimedFrame DEF WInv
<1>2. Unmapped(f) \in [Keys -> Frames \cup {NoFrame}]
  BY <1>0 DEF FramesTypeOK, Unmapped
<1>3. \A j \in Keys : pageTable'[j] = IF j = k THEN f
                                      ELSE IF j = frameKey[f] THEN NoFrame
                                      ELSE pageTable[j]
  <2>1. \A j \in Keys : Unmapped(f)[j] = IF j = frameKey[f] THEN NoFrame
                                                        ELSE pageTable[j]
    BY <1>0, FrameAssumption DEF FramesTypeOK, Unmapped
  <2> QED
    BY <1>2, <2>1 DEF Install
<1>4. \A h \in Frames : /\ frameKey'[h] = IF h = f THEN k ELSE frameKey[h]
                        /\ frameData'[h] = IF h = f THEN image ELSE frameData[h]
                        /\ dirty'[h] = IF h = f THEN FALSE ELSE dirty[h]
  BY <1>0 DEF Install, FramesTypeOK
<1>5. AllFramesAreMapped'
  <2> SUFFICES ASSUME NEW h \in Frames, frameKey'[h] # NoKey
               PROVE  pageTable'[frameKey'[h]] = h
    BY DEF AllFramesAreMapped
  <2>1. CASE h = f
    BY <2>1, <1>3, <1>4
  <2>2. CASE h # f
    <3>1. /\ frameKey'[h] = frameKey[h] /\ frameKey[h] \in Keys
          /\ pageTable[frameKey[h]] = h
      BY ZenonT(60), <2>2, <1>0, <1>4 DEF FramesTypeOK, WInv, AllFramesAreMapped
    <3>2. frameKey[h] # k /\ frameKey[h] # frameKey[f]
      BY <3>1, <2>2, <1>1, FrameAssumption DEF Cached
    <3> QED
      BY <3>1, <3>2, <1>3
  <2> QED
    BY <2>1, <2>2
<1>6. ASSUME NEW j \in Keys \ {k}, Cached(j)'
      PROVE  \/ frameData'[pageTable'[j]] = disk'[j]
             \/ dirty'[pageTable'[j]]
             \/ WriterPending(pageTable[j])'
  <2>1. /\ pageTable'[j] = pageTable[j] /\ j # frameKey[f] /\ Cached(j)
    BY <1>3, <1>6 DEF Cached
  <2>2. /\ pageTable[j] \in Frames /\ frameKey[pageTable[j]] = j
    BY <2>1, <1>0
    DEF Cached, FramesTypeOK, WInv, IInv, TableMatchesFrames
  <2>3. /\ pageTable[j] # f
        /\ frameData'[pageTable[j]] = frameData[pageTable[j]]
        /\ dirty'[pageTable[j]] = dirty[pageTable[j]]
    BY <2>1, <2>2, <1>4
  <2>4. disk'[j] = disk[j]
    BY <1>0, <2>1 DEF WrittenBack, FramesTypeOK
  <2>5. \A h \in Frames : WriterPending(h) => WriterPending(h)'
    BY DEF WriterPending, GuardsOn
  <2>6. WriterPending(pageTable[j]) => WriterPending(pageTable[j])'
    BY <2>1, <2>2, <2>5
  <2> QED
    BY <2>1, <2>3, <2>4, <2>6 DEF WInv, NoLostWrite
<1> QED
  BY <1>3, <1>4, <1>5, <1>6

LEMMA WriteAcquireStep ==
  ASSUME WInv, Faults = {}, NEW g \in Guards, Acquire(g)
  PROVE  AllFramesAreMapped' /\ NoLostWrite'
<1>0. FramesTypeOK
  BY DEF WInv, IInv, TypeOK
<1>1. CASE \E k \in Keys, w \in BOOLEAN :
             FetchHit(g, k, w) /\ TrackPinned(pageTable[k])
  <2>1. PICK k \in Keys, w \in BOOLEAN : FetchHit(g, k, w)
    BY <1>1
  <2>2. /\ UNCHANGED <<pageTable, frameKey, frameData, dirty, disk>>
        /\ guard[g].pc = "idle" /\ Attach(g, k, pageTable[k], w)
    BY <2>1 DEF FetchHit
  <2>3. \A h \in Guards : guard[h].pc # "idle" => guard'[h] = guard[h]
    BY <2>2, <1>0 DEF Attach, FramesTypeOK
  <2>4. \A f : WriterPending(f) => WriterPending(f)'
    BY <2>3 DEF WriterPending, GuardsOn
  <2>5. \A k2 \in Keys : WriterPending(pageTable[k2])
                           => WriterPending(pageTable[k2])'
    BY <2>2, <2>4
  <2> QED
    BY <2>2, <2>5 DEF WInv, AllFramesAreMapped, NoLostWrite, Cached
<1>2. CASE \E k \in Keys, w \in BOOLEAN, f \in Frames :
             CanClaim(f) /\ FetchMiss(g, k, w, f) /\ TrackPinned(f)
  <2>1. PICK k \in Keys, w \in BOOLEAN, f \in Frames :
               CanClaim(f) /\ FetchMiss(g, k, w, f)
    BY <1>2
  <2>2. /\ guard[g].pc = "idle" /\ Attach(g, k, f, w)
        /\ ~Cached(k) /\ disk[k] # Absent /\ disk' = WrittenBack(f)
        /\ Install(f, k, disk'[k])
    BY <2>1 DEF FetchMiss, Wanted, ReadImages
  <2>3. disk'[k] \in Images
    BY <2>1, <2>2, WrittenBackPages DEF WInv
  <2>4. \A h \in Guards : guard[h].pc # "idle" => guard'[h] = guard[h]
    BY <2>2, <1>0 DEF Attach, FramesTypeOK
  <2>5. /\ AllFramesAreMapped'
        /\ \A j \in Keys \ {k} : Cached(j)' =>
              \/ frameData'[pageTable'[j]] = disk'[j]
              \/ dirty'[pageTable'[j]]
              \/ WriterPending(pageTable[j])'
        /\ frameData'[pageTable'[k]] = disk'[k]
    BY <2>1, <2>2, <2>3, <2>4, OtherPagesKept
  <2> QED
    BY <2>5 DEF NoLostWrite
<1>3. CASE \E file \in Files : Create(g, file)
  <2>1. PICK file \in Files, f \in Frames :
               CanClaim(f) /\ NewPage(g, file, f)
    BY <1>3 DEF Create
  <2>2. PICK k : k = <<file, nextPageId>>
    OBVIOUS
  <2>3. /\ guard[g].pc = "idle" /\ Attach(g, k, f, TRUE)
        /\ nextPageId < MaxPages /\ Install(f, k, Zero)
        /\ disk' = [WrittenBack(f) EXCEPT ![k] = Zero]
    BY <2>1, <2>2 DEF NewPage
  <2>4. nextPageId \in Nat
    BY <1>0, FrameAssumption DEF FramesTypeOK
  <2>5. k \in Keys /\ k[2] = nextPageId
    BY <2>2, <2>3, <2>4, FrameAssumption DEF Keys, PageIds
  <2>6. ~Cached(k)
    BY <2>4, <2>5 DEF WInv, IInv, NextIdIsFresh
  <2>7. \A h \in Guards : guard[h].pc # "idle" => guard'[h] = guard[h]
    BY <2>3, <1>0 DEF Attach, FramesTypeOK
  <2>8. WrittenBack(f) \in [Keys -> Images \cup {Absent}]
    BY <2>1, WrittenBackPages DEF WInv
  <2>9. /\ disk'[k] = Zero
        /\ \A j \in Keys \ {k} : disk'[j] = WrittenBack(f)[j]
    BY <2>3, <2>5, <2>8
  <2>10. Zero \in Images
    BY DEF Images
  <2>11. /\ AllFramesAreMapped'
         /\ \A j \in Keys \ {k} : Cached(j)' =>
              \/ frameData'[pageTable'[j]] = disk'[j]
              \/ dirty'[pageTable'[j]]
              \/ WriterPending(pageTable[j])'
         /\ frameData'[pageTable'[k]] = Zero
    <3> DEFINE d == WrittenBack(f)
    <3>1. \A j \in Keys \ {k} : disk'[j] = d[j]
      BY <2>9
    <3> HIDE DEF d
    <3>2. d = WrittenBack(f)
      BY DEF d
    <3> QED
      BY <2>1, <2>3, <2>5, <2>6, <2>7, <2>10, <3>1, <3>2, OtherPagesKept
  <2> QED
    BY <2>9, <2>11 DEF NoLostWrite
<1> QED
  BY <1>1, <1>2, <1>3 DEF Acquire, Fetch

LEMMA WriteUseLatchStep ==
  ASSUME WInv, NEW g \in Guards, UseLatch(g)
  PROVE  AllFramesAreMapped' /\ NoLostWrite'
<1>0. FramesTypeOK
  BY DEF WInv, IInv, TypeOK
<1>1. PICK pc \in GuardStates \ {"idle"} : SetPc(g, pc) /\ guard[g].pc # "idle"
  BY DEF UseLatch, Latch, BeginWrite, EndWrite, Unlatch, GuardStates
<1>2. UNCHANGED <<pageTable, frameKey, dirty, disk>>
  BY DEF UseLatch, Latch, BeginWrite, EndWrite, Unlatch, poolVars
<1>3. \A h \in Guards : /\ guard'[h].frame = guard[h].frame
                        /\ guard'[h].write = guard[h].write
                        /\ guard[h].pc # "idle" => guard'[h].pc # "idle"
  BY <1>0, <1>1 DEF SetPc, FramesTypeOK, Guard
<1>4. \A f : WriterPending(f) => WriterPending(f)'
  BY <1>3 DEF WriterPending, GuardsOn
<1>5. \A k \in Keys : WriterPending(pageTable[k]) => WriterPending(pageTable[k])'
  BY <1>2, <1>4
<1>6. \/ frameData' = frameData
      \/ /\ guard[g].write
         /\ \E v : frameData' = [frameData EXCEPT ![guard[g].frame] = v]
  BY DEF UseLatch, Latch, BeginWrite, EndWrite, Unlatch, poolVars, WInv, IInv,
         WritersWrite
<1>7. ASSUME NEW k \in Keys, Cached(k)
      PROVE  \/ frameData'[pageTable[k]] = disk[k]
             \/ dirty[pageTable[k]]
             \/ WriterPending(pageTable[k])'
  <2>1. CASE frameData'[pageTable[k]] = frameData[pageTable[k]]
    BY <2>1, <1>5, <1>7 DEF WInv, NoLostWrite
  <2>2. CASE guard[g].write /\ pageTable[k] = guard[g].frame
    <3>1. WriterPending(pageTable[k])
      BY <2>2, <1>1 DEF WriterPending, GuardsOn
    <3> QED
      BY <3>1, <1>5
  <2>3. pageTable[k] \in Frames
    BY <1>0, <1>7 DEF FramesTypeOK, Cached
  <2> QED
    BY <1>0, <1>6, <2>1, <2>2, <2>3 DEF FramesTypeOK
<1>8. AllFramesAreMapped'
  BY <1>2 DEF WInv, AllFramesAreMapped
<1> QED
  BY <1>2, <1>7, <1>8 DEF NoLostWrite, Cached

LEMMA WriteDropStep ==
  ASSUME WInv, NEW g \in Guards, Drop(g)
  PROVE  AllFramesAreMapped' /\ NoLostWrite'
<1>0. FramesTypeOK
  BY DEF WInv, IInv, TypeOK
<1>1. PICK f \in Frames : f = guard[g].frame /\ f = UnpinnedFrame(g)
  BY <1>0, UnpinFindsTheFrame DEF Drop, Unpin, FramesTypeOK, WInv
<1>2. /\ guard' = [guard EXCEPT ![g] = IdleGuard]
      /\ dirty' = [dirty EXCEPT ![f] = @ \/ guard[g].write]
      /\ UNCHANGED <<pageTable, frameKey, frameData, disk>>
  BY <1>1, FrameAssumption DEF Drop, Unpin
<1>3. ASSUME NEW h \in Frames, dirty[h] \/ WriterPending(h)
      PROVE  dirty'[h] \/ WriterPending(h)'
  <2>1. CASE dirty[h]
    BY <2>1, <1>0, <1>2 DEF FramesTypeOK
  <2>2. CASE WriterPending(h)
    <3>1. PICK a \in Guards :
            guard[a].pc # "idle" /\ guard[a].frame = h /\ guard[a].write
      BY <2>2 DEF WriterPending, GuardsOn
    <3>2. CASE a = g
      BY <3>1, <3>2, <1>0, <1>1, <1>2 DEF FramesTypeOK
    <3>3. CASE a # g
      <4>1. guard'[a] = guard[a]
        BY <3>3, <1>0, <1>2 DEF FramesTypeOK
      <4> QED
        BY <3>1, <4>1 DEF WriterPending, GuardsOn
    <3> QED
      BY <3>2, <3>3
  <2> QED
    BY <1>3, <2>1, <2>2
<1>4. NoLostWrite'
  <2> SUFFICES ASSUME NEW k \in Keys, Cached(k)
               PROVE  \/ frameData[pageTable[k]] = disk[k]
                      \/ dirty'[pageTable[k]]
                      \/ WriterPending(pageTable[k])'
    BY <1>2 DEF NoLostWrite, Cached
  <2>1. PICK h \in Frames : h = pageTable[k]
    BY <1>0 DEF Cached, FramesTypeOK
  <2>2. \/ frameData[h] = disk[k]
        \/ dirty[h]
        \/ WriterPending(h)
    BY <2>1 DEF WInv, NoLostWrite
  <2>3. pageTable'[k] = h
    BY <2>1, <1>2
  <2> QED
    BY <2>1, <2>2, <2>3, <1>3
<1>5. AllFramesAreMapped'
  BY <1>2 DEF WInv, AllFramesAreMapped
<1> QED
  BY <1>4, <1>5

LEMMA WriteDeleteStep ==
  ASSUME WInv, NEW k \in Keys, Delete(k)
  PROVE  AllFramesAreMapped' /\ NoLostWrite'
<1>0. FramesTypeOK
  BY DEF WInv, IInv, TypeOK
<1>1. PICK f \in Frames : f = pageTable[k] /\ frameKey[f] = k
  BY <1>0
  DEF Delete, DeletePage, Cached, WInv, IInv, TableMatchesFrames, FramesTypeOK
<1>2. /\ pageTable' = [pageTable EXCEPT ![k] = NoFrame]
      /\ frameKey' = [frameKey EXCEPT ![f] = NoKey]
      /\ dirty' = [dirty EXCEPT ![f] = FALSE]
      /\ frameData' = [frameData EXCEPT ![f] = Zero]
      /\ UNCHANGED <<disk, guard>>
  BY <1>1 DEF Delete, DeletePage
<1>3. \A h : WriterPending(h)' <=> WriterPending(h)
  BY <1>2 DEF WriterPending, GuardsOn
<1>4. NoLostWrite'
  <2> SUFFICES ASSUME NEW j \in Keys, Cached(j)'
               PROVE  \/ frameData'[pageTable'[j]] = disk'[j]
                      \/ dirty'[pageTable'[j]]
                      \/ WriterPending(pageTable[j])'
    BY DEF NoLostWrite
  <2>1. j # k /\ pageTable'[j] = pageTable[j] /\ Cached(j)
    BY <1>0, <1>2 DEF Cached, FramesTypeOK
  <2>2. PICK h \in Frames : h = pageTable[j] /\ frameKey[h] = j
    BY <1>0, <2>1
    DEF Cached, WInv, IInv, TableMatchesFrames, FramesTypeOK
  <2>3. frameData'[h] = frameData[h] /\ dirty'[h] = dirty[h]
    BY <1>0, <1>1, <1>2, <2>1, <2>2 DEF FramesTypeOK
  <2>4. frameData[h] = disk[j] \/ dirty[h] \/ WriterPending(h)
    BY <2>1, <2>2 DEF WInv, NoLostWrite
  <2>5. WriterPending(h) => WriterPending(h)'
    BY <1>3
  <2>6. pageTable'[j] = h
    BY <2>1, <2>2
  <2> QED
    BY <1>2, <2>3, <2>4, <2>5, <2>6
<1>5. AllFramesAreMapped'
  <2> SUFFICES ASSUME NEW h \in Frames, frameKey'[h] # NoKey
               PROVE  pageTable'[frameKey'[h]] = h
    BY DEF AllFramesAreMapped
  <2>1. h # f /\ frameKey'[h] = frameKey[h]
    BY <1>0, <1>2 DEF FramesTypeOK
  <2>2. pageTable[frameKey[h]] = h /\ frameKey[h] # k
    BY <2>1, <1>1 DEF WInv, AllFramesAreMapped
  <2>3. frameKey[h] \in Keys
    BY <1>0, <2>1 DEF FramesTypeOK
  <2> QED
    BY <1>0, <1>2, <2>1, <2>2, <2>3 DEF FramesTypeOK
<1> QED
  BY <1>4, <1>5

LEMMA WriteFlushStep ==
  ASSUME WInv, Faults = {}, Flush
  PROVE  AllFramesAreMapped' /\ NoLostWrite'
<1>0. FramesTypeOK
  BY DEF WInv, IInv, TypeOK
<1>1. UNCHANGED <<pageTable, frameKey, frameData, guard>>
  BY DEF Flush, FlushPage, FlushFrames
<1>2. \A h : WriterPending(h)' <=> WriterPending(h)
  BY <1>1 DEF WriterPending, GuardsOn
<1>3. ASSUME NEW j \in Keys, Cached(j), NEW h \in Frames, h = pageTable[j],
             frameKey[h] = j
      PROVE  frameData[h] = disk'[j] \/ dirty'[h] \/ WriterPending(h)
  <2>1. frameData[h] = disk[j] \/ dirty[h] \/ WriterPending(h)
    BY <1>3 DEF WInv, NoLostWrite
  <2>2. ASSUME NEW k \in Keys, FlushPage(k)
        PROVE  frameData[h] = disk'[j] \/ dirty'[h] \/ WriterPending(h)
    <3>1. /\ pageTable[k] \in Frames /\ frameKey[pageTable[k]] = k
          /\ disk' = [disk EXCEPT ![frameKey[pageTable[k]]] =
                        frameData[pageTable[k]]]
          /\ dirty' = [dirty EXCEPT ![pageTable[k]] = FALSE]
      BY <1>0, <2>2
      DEF FlushPage, Cached, WInv, IInv, TableMatchesFrames, FramesTypeOK
    <3>2. CASE j = k
      BY <1>0, <1>3, <3>1, <3>2 DEF FramesTypeOK
    <3>3. CASE j # k
      <4>1. pageTable[k] # h
        BY <1>3, <3>1, <3>3
      <4>2. disk'[j] = disk[j] /\ dirty'[h] = dirty[h]
        BY <1>0, <3>1, <3>3, <4>1 DEF FramesTypeOK
      <4> QED
        BY <2>1, <4>2
    <3> QED
      BY <3>2, <3>3
  <2>3. ASSUME NEW S \in SUBSET Frames, NEW last \in Frames,
               FlushFrames(S, last)
        PROVE  frameData[h] = disk'[j] \/ dirty'[h] \/ WriterPending(h)
    <3>1. /\ S = DirtyFrames
          /\ disk' = [k \in Keys |->
                IF \E f \in S : frameKey[f] = k
                THEN IF frameKey[last] = k THEN frameData[last]
                     ELSE frameData[CHOOSE f \in S : frameKey[f] = k]
                ELSE disk[k]]
          /\ dirty' = [f \in Frames |-> dirty[f] /\ f \notin S]
      BY <2>3 DEF FlushFrames
    <3>2. \A f \in Frames : frameKey[f] = j => f = h
      BY <1>3, FrameAssumption DEF WInv, AllFramesAreMapped
    <3>3. CASE dirty[h]
      <4>1. h \in S
        BY <1>3, <3>1, <3>3, FrameAssumption DEF DirtyFrames
      <4>2. (CHOOSE f \in S : frameKey[f] = j) = h
        BY <1>3, <3>2, <4>1
      <4> QED
        BY <1>3, <3>1, <3>2, <4>1, <4>2
    <3>4. CASE ~dirty[h]
      <4>1. ~ \E f \in S : frameKey[f] = j
        BY <3>1, <3>2, <3>4 DEF DirtyFrames
      <4> QED
        BY <2>1, <3>1, <3>4, <4>1
    <3> QED
      BY <3>3, <3>4
  <2> QED
    BY <2>2, <2>3 DEF Flush
<1>4. NoLostWrite'
  <2> SUFFICES ASSUME NEW j \in Keys, Cached(j)
               PROVE  \/ frameData[pageTable[j]] = disk'[j]
                      \/ dirty'[pageTable[j]]
                      \/ WriterPending(pageTable[j])'
    BY <1>1 DEF NoLostWrite, Cached
  <2>1. PICK h \in Frames : h = pageTable[j] /\ frameKey[h] = j
    BY <1>0 DEF Cached, WInv, IInv, TableMatchesFrames, FramesTypeOK
  <2>2. pageTable'[j] = h
    BY <1>1, <2>1
  <2> QED
    BY <1>2, <1>3, <2>1, <2>2
<1>5. AllFramesAreMapped'
  BY <1>1 DEF WInv, AllFramesAreMapped
<1> QED
  BY <1>4, <1>5

LEMMA InitWInv == Init => WInv
<1>1. Init => AllFramesAreMapped /\ NoLostWrite
  BY DEF Init, FramesInit, AllFramesAreMapped, NoLostWrite, Cached
<1> QED
  BY <1>1, InitIInv DEF WInv

LEMMA NextWInv ==
  ASSUME Faults = {}, WInv, [Next]_vars
  PROVE  WInv'
<1>1. IInv'
  BY NextIInv DEF WInv
<1>2. CASE UNCHANGED vars
  <2>1. UNCHANGED <<pageTable, frameKey, frameData, dirty, disk, guard>>
    BY <1>2 DEF vars, frameVars, poolVars
  <2> QED
    BY <1>1, <2>1
    DEF WInv, AllFramesAreMapped, NoLostWrite, Cached, WriterPending, GuardsOn
<1>3. CASE Next
  <2>1. ~DiskFails
    BY DEF DiskFails, FetchReadFails, EvictWriteFails, NewPageReserveFails
  <2>2. AllFramesAreMapped' /\ NoLostWrite'
    BY <1>3, <2>1, FrameAssumption, WriteAcquireStep, WriteUseLatchStep,
       WriteDropStep, WriteDeleteStep, WriteFlushStep
    DEF Next
  <2> QED
    BY <1>1, <2>2 DEF WInv
<1> QED
  BY <1>2, <1>3

(* What a WritePageGuard wrote and the disk does not hold is never         *)
(* forgotten: the frame is dirty, or the guard has yet to unpin it.        *)
THEOREM NoWriteIsForgotten ==
  ASSUME Faults = {}
  PROVE  Spec => []NoLostWrite
<1>1. WInv /\ [Next]_vars => WInv'
  BY NextWInv
<1>2. WInv => NoLostWrite
  BY DEF WInv
<1> QED
  BY <1>1, <1>2, InitWInv, PTL DEF Spec

-----------------------------------------------------------------------------
(* What holds besides of a pool whose disk answers every call              *)
(* (Faults = {}): it implements PageStore, and it hands out every frame it *)
(* can.                                                                    *)


-----------------------------------------------------------------------------
(* The refinement mapping of BufferPool!Store, named.                      *)
Content == [k \in Keys |-> IF Cached(k) THEN frameData[pageTable[k]]
                                        ELSE disk[k]]
Held == [g \in Guards |->
           IF HasLatch(g)
           THEN [key |-> guard[g].key, write |-> guard[g].write]
           ELSE [key |-> NoKey, write |-> FALSE]]

LEMMA InitSim == Init => Store!Init
BY DEF Init, FramesInit, Store!Init, Store!Free, IdleGuard, Cached, HasLatch

(* The pages that evicting frame f puts on disk. *)
VictimPages(f) == IF frameKey[f] # NoKey /\ dirty[f] THEN {frameKey[f]} ELSE {}

(* A frame given to another page: no page's content changes but that of    *)
(* the page moved in, and of the old page only what the frame held is      *)
(* written.                                                                *)
LEMMA ClaimSim ==
  ASSUME WInv, NEW f \in Frames, CanClaim(f), NEW k \in Keys, ~Cached(k),
         NEW image \in Images, Install(f, k, image),
         \A j \in Keys \ {k} : disk'[j] = WrittenBack(f)[j]
  PROVE  /\ WrittenBack(f) = Store!Written(VictimPages(f))
         /\ Content' = [Content EXCEPT ![k] = image]
         /\ WrittenBack(f)[k] = disk[k]
<1>0. FramesTypeOK
  BY DEF WInv, IInv, TypeOK
<1>1. /\ GuardsOn(f) = {}
      /\ frameKey[f] # NoKey => pageTable[frameKey[f]] = f
      /\ frameKey[f] \in Keys \cup {NoKey}
  BY <1>0, ClaimedFrame DEF WInv, FramesTypeOK
<1>2. frameKey[f] # k
  BY <1>1, FrameAssumption DEF Cached
<1>3. \A j \in Keys : WrittenBack(f)[j] =
        IF j = frameKey[f] /\ dirty[f] THEN frameData[f] ELSE disk[j]
  BY <1>0, <1>1, FrameAssumption DEF WrittenBack, FramesTypeOK
<1>4. WrittenBack(f) = Store!Written(VictimPages(f))
  <2>1. DOMAIN WrittenBack(f) = Keys
    BY <1>0 DEF WrittenBack, FramesTypeOK
  <2>2. WrittenBack(f) = [j \in Keys |-> WrittenBack(f)[j]]
    BY <1>0 DEF WrittenBack, FramesTypeOK
  <2>3. \A j \in Keys : Store!Written(VictimPages(f))[j] = WrittenBack(f)[j]
    BY <1>1, <1>3, FrameAssumption DEF Store!Written, VictimPages, Cached
  <2> QED
    BY <2>2, <2>3 DEF Store!Written
<1>5. Unmapped(f) \in [Keys -> Frames \cup {NoFrame}]
  BY <1>0 DEF FramesTypeOK, Unmapped
<1>6. \A j \in Keys : pageTable'[j] = IF j = k THEN f
                                      ELSE IF j = frameKey[f] THEN NoFrame
                                      ELSE pageTable[j]
  BY <1>0, <1>5, FrameAssumption DEF Install, FramesTypeOK, Unmapped
<1>7. \A h \in Frames : frameData'[h] = IF h = f THEN image ELSE frameData[h]
  BY <1>0 DEF Install, FramesTypeOK
<1>8. ASSUME NEW j \in Keys
      PROVE  Content'[j] = IF j = k THEN image ELSE Content[j]
  <2>0. Content'[j] = IF pageTable'[j] # NoFrame THEN frameData'[pageTable'[j]]
                                                 ELSE disk'[j]
    BY DEF Content, Cached
  <2>1. CASE j = k
    BY <2>0, <2>1, <1>6, <1>7, FrameAssumption
  <2>2. CASE j = frameKey[f]
    <3>1. j # k /\ pageTable'[j] = NoFrame /\ Content'[j] = WrittenBack(f)[j]
      BY <2>0, <2>2, <1>2, <1>6
    <3>2. pageTable[j] = f /\ Content[j] = frameData[f]
      BY <2>2, <1>1, FrameAssumption DEF Content, Cached
    <3>3. dirty[f] \/ frameData[f] = disk[j]
      BY <3>2, <1>1, FrameAssumption DEF WInv, NoLostWrite, WriterPending, Cached
    <3> QED
      BY <2>2, <3>1, <3>2, <3>3, <1>3
  <2>3. CASE j # k /\ j # frameKey[f]
    <3>1. pageTable'[j] = pageTable[j] /\ disk'[j] = disk[j]
      BY <2>3, <1>3, <1>6
    <3>2. Cached(j) => pageTable[j] \in Frames /\ pageTable[j] # f
      BY <1>0, <2>3
      DEF FramesTypeOK, Cached, WInv, IInv, TableMatchesFrames
    <3> QED
      BY <2>0, <2>3, <3>1, <3>2, <1>7 DEF Content, Cached
  <2> QED
    BY <2>1, <2>2, <2>3
<1>9. Content' = [Content EXCEPT ![k] = image]
  BY <1>8 DEF Content
<1> QED
  BY <1>2, <1>3, <1>4, <1>9

(* A guard that has no latch before and after leaves no trace. *)
LEMMA SameHeld ==
  ASSUME FramesTypeOK, NEW g \in Guards, ~HasLatch(g),
         NEW b, guard' = [guard EXCEPT ![g] = b], b.pc \in {"idle", "waiting"}
  PROVE  Held' = Held
BY DEF Held, HasLatch, FramesTypeOK

-----------------------------------------------------------------------------
(***************************************************************************)
(* The simulation, action by action.                                       *)
(***************************************************************************)
(* A hit and a refill are invisible; what an eviction writes is a Sync.    *)
LEMMA FetchSim ==
  ASSUME WInv, Faults = {}, NEW g \in Guards, NEW k \in Keys,
         NEW w \in BOOLEAN, Fetch(g, k, w)
  PROVE  [Store!Next]_(Store!storeVars)
<1>0. FramesTypeOK
  BY DEF WInv, IInv, TypeOK
<1>1. CASE FetchHit(g, k, w)
  <2>1. Held' = Held
    BY <1>0, <1>1, SameHeld DEF FetchHit, Attach, HasLatch
  <2>2. Content' = Content /\ disk' = disk
    BY <1>1 DEF FetchHit, Content, Cached
  <2> QED
    BY <2>1, <2>2 DEF Store!storeVars, Content, Held
<1>2. ASSUME NEW f \in Frames, CanClaim(f), FetchMiss(g, k, w, f)
      PROVE  Store!Next
  <2>1. /\ guard[g].pc = "idle" /\ Attach(g, k, f, w)
        /\ ~Cached(k) /\ disk[k] # Absent /\ disk' = WrittenBack(f)
        /\ Install(f, k, disk'[k])
    BY <1>2 DEF FetchMiss, Wanted, ReadImages
  <2>2. disk'[k] \in Images
    BY <1>2, <2>1, WrittenBackPages DEF WInv
  <2>3. /\ WrittenBack(f) = Store!Written(VictimPages(f))
        /\ Content' = [Content EXCEPT ![k] = disk'[k]]
        /\ disk'[k] = disk[k]
    BY <1>2, <2>1, <2>2, ClaimSim
  <2>4. Content' = Content
    BY <2>1, <2>3 DEF Content
  <2>5. Held' = Held
    BY <1>0, <2>1, SameHeld DEF Attach, HasLatch
  <2>6. VictimPages(f) \in SUBSET Keys
    BY <1>0, <1>2 DEF VictimPages, FramesTypeOK
  <2>7. Store!Sync(VictimPages(f))
    BY <2>1, <2>3, <2>4, <2>5 DEF Store!Sync, Content, Held
  <2> QED
    BY <2>6, <2>7 DEF Store!Next
<1> QED
  BY <1>1, <1>2 DEF Fetch

(* new_page makes a page that was on no disk and in no frame. *)
LEMMA CreateSim ==
  ASSUME WInv, NEW g \in Guards, NEW file \in Files, Create(g, file)
  PROVE  Store!Next
<1>0. FramesTypeOK
  BY DEF WInv, IInv, TypeOK
<1>1. PICK f \in Frames : CanClaim(f) /\ NewPage(g, file, f)
  BY DEF Create
<1>2. PICK k : k = <<file, nextPageId>>
  OBVIOUS
<1>3. /\ guard[g].pc = "idle" /\ Attach(g, k, f, TRUE)
      /\ nextPageId < MaxPages /\ Install(f, k, Zero)
      /\ disk' = [WrittenBack(f) EXCEPT ![k] = Zero]
  BY <1>1, <1>2 DEF NewPage
<1>4. nextPageId \in Nat
  BY <1>0, FrameAssumption DEF FramesTypeOK
<1>5. k \in Keys /\ k[2] = nextPageId
  BY <1>2, <1>3, <1>4, FrameAssumption DEF Keys, PageIds
<1>6. ~Cached(k) /\ disk[k] = Absent
  BY <1>4, <1>5 DEF WInv, IInv, NextIdIsFresh
<1>7. WrittenBack(f) \in [Keys -> Images \cup {Absent}]
  BY <1>1, WrittenBackPages DEF WInv
<1>8. \A j \in Keys \ {k} : disk'[j] = WrittenBack(f)[j]
  BY <1>3, <1>5, <1>7
<1>9. /\ WrittenBack(f) = Store!Written(VictimPages(f))
      /\ Content' = [Content EXCEPT ![k] = Zero]
  <2>1. Zero \in Images
    BY DEF Images
  <2> QED
    BY <1>1, <1>3, <1>5, <1>6, <1>8, <2>1, ClaimSim
<1>10. Held' = Held
  BY <1>0, <1>3, SameHeld DEF Attach, HasLatch
<1>11. Content[k] = Absent
  BY <1>5, <1>6 DEF Content
<1>12. PICK S \in SUBSET Keys : S = VictimPages(f)
  BY <1>0, <1>1 DEF VictimPages, FramesTypeOK
<1>13. Store!Create(k, S)
  BY <1>3, <1>6, <1>9, <1>10, <1>11, <1>12 DEF Store!Create, Content, Held
<1> QED
  BY <1>5, <1>13 DEF Store!Next

(* Releasing the pin is invisible: the latch has been released before.     *)
LEMMA DropSim ==
  ASSUME WInv, NEW g \in Guards, Drop(g)
  PROVE  UNCHANGED Store!storeVars
<1>0. FramesTypeOK
  BY DEF WInv, IInv, TypeOK
<1>1. /\ guard' = [guard EXCEPT ![g] = IdleGuard]
      /\ guard[g].pc = "unlatched"
      /\ UNCHANGED <<pageTable, frameData, disk>>
  BY DEF Drop, Unpin
<1>2. Held' = Held
  BY <1>0, <1>1, SameHeld DEF HasLatch, IdleGuard
<1>3. Content' = Content
  BY <1>1 DEF Content, Cached
<1> QED
  BY <1>1, <1>2, <1>3 DEF Store!storeVars, Content, Held

(* delete_page falls back to what the disk holds; no guard has the page.   *)
LEMMA DeleteSim ==
  ASSUME WInv, NEW k \in Deletable, Delete(k)
  PROVE  Store!Next
<1>0. FramesTypeOK /\ k \in Keys
  BY FrameAssumption DEF WInv, IInv, TypeOK
<1>1. PICK f \in Frames : f = pageTable[k] /\ frameKey[f] = k
  BY <1>0
  DEF Delete, DeletePage, Cached, WInv, IInv, TableMatchesFrames, FramesTypeOK
<1>2. /\ pageTable' = [pageTable EXCEPT ![k] = NoFrame]
      /\ frameData' = [frameData EXCEPT ![f] = Zero]
      /\ pinCount[f] <= 0
      /\ UNCHANGED <<disk, guard>>
  BY <1>1 DEF Delete, DeletePage
<1>3. GuardsOn(f) = {}
  <2>1. pinCount[f] = 0
    BY <1>0, <1>2 DEF FramesTypeOK
  <2> QED
    BY <1>0, <2>1, UnpinnedMeansUnguarded DEF WInv, IInv
<1>4. ASSUME NEW g \in Guards, HasLatch(g) PROVE guard[g].key # k
  BY <1>1, <1>3, <1>4 DEF WInv, IInv, GuardKeepsItsPage, HasLatch, GuardsOn
<1>5. Store!Holders(k) = {}
  BY <1>0, <1>4, FrameAssumption DEF Store!Holders
<1>6. Held' = Held
  BY <1>2 DEF Held, HasLatch
<1>7. ASSUME NEW j \in Keys
      PROVE  Content'[j] = IF j = k THEN disk[k] ELSE Content[j]
  <2>1. Content'[j] = IF pageTable'[j] # NoFrame THEN frameData'[pageTable'[j]]
                                                 ELSE disk[j]
    BY <1>2 DEF Content, Cached
  <2>2. CASE j = k
    BY <1>0, <1>2, <2>1, <2>2 DEF FramesTypeOK
  <2>3. CASE j # k
    <3>1. pageTable'[j] = pageTable[j]
      BY <1>0, <1>2, <2>3 DEF FramesTypeOK
    <3>2. Cached(j) => pageTable[j] \in Frames /\ pageTable[j] # f
      BY <1>0, <1>1, <2>3
      DEF FramesTypeOK, Cached, WInv, IInv, TableMatchesFrames
    <3> QED
      BY <1>0, <1>2, <2>1, <2>3, <3>1, <3>2 DEF Content, Cached, FramesTypeOK
  <2> QED
    BY <2>2, <2>3
<1>8. Content' = [Content EXCEPT ![k] = disk[k]]
  BY <1>7 DEF Content
<1>9. Store!Discard(k)
  BY <1>2, <1>5, <1>6, <1>8 DEF Store!Discard, Content, Held
<1> QED
  BY <1>9 DEF Store!Next

(* flush_page and flush_all_pages write current contents, one frame a page.*)
LEMMA FlushSim ==
  ASSUME WInv, Faults = {}, Flush
  PROVE  Store!Next
<1>0. FramesTypeOK
  BY DEF WInv, IInv, TypeOK
<1>1. UNCHANGED <<pageTable, frameData, frameKey, guard>>
  BY DEF Flush, FlushPage, FlushFrames
<1>2. Held' = Held
  BY <1>1 DEF Held, HasLatch
<1>3. ASSUME NEW T \in SUBSET Keys, \A k \in T : Cached(k),
             disk' = [k \in Keys |-> IF k \in T THEN Content[k] ELSE disk[k]]
      PROVE  Store!Sync(T)
  <2>1. \A k \in Keys : ~Cached(k) => disk'[k] = disk[k]
    BY <1>3
  <2>2. Content' = Content
    BY <1>1, <2>1 DEF Content, Cached
  <2> QED
    BY <1>2, <1>3, <2>2 DEF Store!Sync, Store!Written, Content, Held
<1>4. ASSUME NEW k \in Keys, FlushPage(k)
      PROVE  Store!Sync({k})
  <2>1. /\ pageTable[k] \in Frames /\ frameKey[pageTable[k]] = k
        /\ disk' = [disk EXCEPT ![k] = frameData[pageTable[k]]]
        /\ Content[k] = frameData[pageTable[k]]
    BY <1>0, <1>4
    DEF FlushPage, Cached, WInv, IInv, TableMatchesFrames, FramesTypeOK, Content
  <2>2. disk' = [j \in Keys |-> IF j \in {k} THEN Content[j] ELSE disk[j]]
    BY <1>0, <2>1 DEF FramesTypeOK
  <2> QED
    BY <1>4, <1>3, <2>2 DEF FlushPage
<1>5. ASSUME NEW S \in SUBSET Frames, NEW last \in Frames,
             FlushFrames(S, last)
      PROVE  \E T \in SUBSET Keys : Store!Sync(T)
  <2> DEFINE T == {frameKey[f] : f \in S}
  <2>1. /\ S = DirtyFrames
        /\ S # {} => last \in S
        /\ disk' = [k \in Keys |->
              IF \E f \in S : frameKey[f] = k
              THEN IF frameKey[last] = k THEN frameData[last]
                   ELSE frameData[CHOOSE f \in S : frameKey[f] = k]
              ELSE disk[k]]
    BY <1>5 DEF FlushFrames
  <2>2. T \in SUBSET Keys
    BY <1>0, <2>1 DEF DirtyFrames, FramesTypeOK
  <2>3. ASSUME NEW k \in Keys
        PROVE  disk'[k] = IF k \in T THEN Content[k] ELSE disk[k]
    <3>1. CASE k \in T
      <4>1. PICK h \in S : frameKey[h] = k
        BY <3>1
      <4>2. pageTable[k] = h /\ Content[k] = frameData[h]
        BY <4>1, FrameAssumption
        DEF WInv, AllFramesAreMapped, Content, Cached
      <4>3. \A f \in Frames : frameKey[f] = k => f = h
        BY <4>2, FrameAssumption DEF WInv, AllFramesAreMapped
      <4>4. (CHOOSE f \in S : frameKey[f] = k) = h
        BY <4>1, <4>3
      <4>5. \E f \in S : frameKey[f] = k
        BY <4>1
      <4> QED
        BY <2>1, <3>1, <4>2, <4>3, <4>4, <4>5
    <3>2. CASE k \notin T
      BY <2>1, <3>2
    <3> QED
      BY <3>1, <3>2
  <2>4. disk' = [k \in Keys |-> IF k \in T THEN Content[k] ELSE disk[k]]
    <3> HIDE DEF T
    <3>1. disk' = [k \in Keys |-> disk'[k]]
      BY <2>1
    <3> QED
      BY <2>3, <3>1
  <2>5. \A k \in T : Cached(k)
    BY <1>0, <2>1, FrameAssumption
    DEF DirtyFrames, WInv, AllFramesAreMapped, Cached
  <2> HIDE DEF T
  <2> QED
    BY <1>3, <2>2, <2>4, <2>5
<1>6. \E T \in SUBSET Keys : Store!Sync(T)
  <2>1. CASE \E k \in Keys : FlushPage(k)
    BY <2>1, <1>4
  <2>2. CASE \E S \in SUBSET Frames, last \in Frames : FlushFrames(S, last)
    BY <2>2, <1>5
  <2> QED
    BY <2>1, <2>2 DEF Flush
<1> QED
  BY <1>6 DEF Store!Next

(* A guard that takes its frame's rw_latch_ acquires the page, which no    *)
(* other guard has latched in a conflicting way: one page, one frame.      *)
LEMMA LatchSim ==
  ASSUME WInv, NEW g \in Guards, Latch(g), UNCHANGED <<alive, evictable>>,
         NEW k \in Keys, k = guard[g].key, NEW w \in BOOLEAN, w = guard[g].write
  PROVE  Store!Acquire(g, k, w)
<1>0. FramesTypeOK
  BY DEF WInv, IInv, TypeOK
<1>1. /\ guard[g].pc = "waiting" /\ ~HasLatch(g) /\ LatchFree(g)
      /\ guard' = [guard EXCEPT ![g].pc = "held"]
      /\ UNCHANGED <<pageTable, frameData, disk>>
  BY DEF Latch, SetPc, poolVars, HasLatch
<1>2. /\ k \in Keys /\ guard[g].frame \in Frames
      /\ pageTable[k] = guard[g].frame
  BY <1>0, <1>1 DEF FramesTypeOK, Guard, WInv, IInv, GuardKeepsItsPage
<1>3. Content[k] # Absent
  <2>1. Content[k] = frameData[guard[g].frame]
    BY <1>2, FrameAssumption DEF Content, Cached
  <2> QED
    BY <1>0, <1>2, <2>1, FrameAssumption DEF FramesTypeOK
<1>4. ASSUME NEW h \in Guards, HasLatch(h), guard[h].key = k
      PROVE  ~w /\ ~guard[h].write
  <2>1. guard[h].frame = guard[g].frame
    BY <1>2, <1>4 DEF WInv, IInv, GuardKeepsItsPage, HasLatch
  <2> QED
    BY <1>1, <1>4, <2>1 DEF LatchFree
<1>5. \A h \in Store!Holders(k) : ~w /\ ~Held[h].write
  BY <1>2, <1>4, FrameAssumption DEF Store!Holders, Held
<1>6. Held' = [Held EXCEPT ![g] = [key |-> k, write |-> w]]
  BY ZenonT(60), <1>0, <1>1 DEF Held, HasLatch, FramesTypeOK, Guard
<1>7. Held[g] = Store!Free
  BY <1>1 DEF Held, Store!Free
<1>8. Content' = Content
  BY <1>1 DEF Content, Cached
<1> QED
  BY <1>1, <1>3, <1>5, <1>6, <1>7, <1>8 DEF Store!Acquire, Content, Held

(* Bytes written under a write guard are the new content of its page, and  *)
(* of no other.                                                            *)
LEMMA WriteSim ==
  ASSUME WInv, NEW g \in Guards, NEW pc \in {"held", "writing"},
         NEW image \in Images, HasLatch(g), guard[g].write,
         guard' = [guard EXCEPT ![g].pc = pc],
         frameData' = [frameData EXCEPT ![guard[g].frame] = image],
         UNCHANGED <<pageTable, disk>>
  PROVE  Store!Write(g, image)
<1>0. FramesTypeOK
  BY DEF WInv, IInv, TypeOK
<1>1. PICK k \in Keys :
        /\ k = guard[g].key
        /\ guard[g].frame \in Frames
        /\ pageTable[k] = guard[g].frame
        /\ frameKey[guard[g].frame] = k
  BY <1>0 DEF FramesTypeOK, Guard, WInv, IInv, GuardKeepsItsPage, HasLatch
<1>2. Held[g].write /\ Held[g].key = k
  BY <1>1 DEF Held
<1>3. Held' = Held
  BY <1>0 DEF Held, HasLatch, FramesTypeOK, Guard
<1>4. ASSUME NEW j \in Keys
      PROVE  Content'[j] = IF j = k THEN image ELSE Content[j]
  <2>1. Content'[j] = IF pageTable[j] # NoFrame THEN frameData'[pageTable[j]]
                                                ELSE disk[j]
    BY DEF Content, Cached
  <2>2. CASE j = k
    BY <1>0, <1>1, <2>1, <2>2, FrameAssumption DEF FramesTypeOK
  <2>3. CASE j # k
    <3>1. Cached(j) => pageTable[j] \in Frames /\ pageTable[j] # guard[g].frame
      BY <1>0, <1>1, <2>3
      DEF FramesTypeOK, Cached, WInv, IInv, TableMatchesFrames
    <3> QED
      BY <1>0, <2>1, <2>3, <3>1 DEF Content, Cached, FramesTypeOK
  <2> QED
    BY <2>2, <2>3
<1>5. Content' = [Content EXCEPT ![k] = image]
  BY <1>4 DEF Content
<1> QED
  BY <1>2, <1>3, <1>5 DEF Store!Write, Content, Held

LEMMA UseLatchSim ==
  ASSUME WInv, NEW g \in Guards, UseLatch(g)
  PROVE  Store!Next
<1>0. FramesTypeOK
  BY DEF WInv, IInv, TypeOK
<1>1. CASE Latch(g)
  <2>1. PICK k \in Keys, w \in BOOLEAN : k = guard[g].key /\ w = guard[g].write
    BY <1>0, <1>1
    DEF FramesTypeOK, Guard, WInv, IInv, GuardKeepsItsPage, Latch
  <2>2. Store!Acquire(g, k, w)
    BY <1>1, <2>1, LatchSim DEF UseLatch
  <2> QED
    BY <2>2 DEF Store!Next
<1>2. ASSUME NEW image \in Images, Store!Write(g, image)
      PROVE  Store!Next
  BY <1>2 DEF Store!Next
<1>3. CASE BeginWrite(g)
  <2>1. Torn \in Images /\ HasLatch(g)
    BY <1>3 DEF BeginWrite, Images, HasLatch
  <2>2. Store!Write(g, Torn)
    BY <1>3, <2>1, WriteSim DEF BeginWrite, SetPc
  <2> QED
    BY <1>2, <2>1, <2>2
<1>4. ASSUME NEW v \in Values, EndWrite(g, v) PROVE Store!Next
  <2>1. v \in Images /\ HasLatch(g) /\ guard[g].write
    BY <1>4 DEF EndWrite, Images, HasLatch, WInv, IInv, WritersWrite
  <2>2. Store!Write(g, v)
    BY <1>4, <2>1, WriteSim DEF EndWrite, SetPc
  <2> QED
    BY <1>2, <2>1, <2>2
<1>5. CASE Unlatch(g)
  <2>1. /\ guard[g].pc = "held" /\ guard' = [guard EXCEPT ![g].pc = "unlatched"]
        /\ UNCHANGED <<pageTable, frameData, disk>>
    BY <1>5 DEF Unlatch, SetPc, poolVars
  <2>2. guard[g].key \in Keys
    BY <1>0, <2>1 DEF FramesTypeOK, Guard, WInv, IInv, GuardKeepsItsPage
  <2>3. Held[g] # Store!Free
    BY <2>1, <2>2, FrameAssumption DEF Held, HasLatch, Store!Free
  <2>4. Held' = [Held EXCEPT ![g] = Store!Free]
    BY <1>0, <2>1 DEF Held, HasLatch, Store!Free, FramesTypeOK, Guard
  <2>5. Content' = Content
    BY <2>1 DEF Content, Cached
  <2>6. Store!ReleaseLatch(g)
    BY <2>1, <2>3, <2>4, <2>5 DEF Store!ReleaseLatch, Content, Held
  <2> QED
    BY <2>6 DEF Store!Next
<1> QED
  BY <1>1, <1>3, <1>4, <1>5 DEF UseLatch

LEMMA NextSim ==
  ASSUME Faults = {}, WInv, [Next]_vars
  PROVE  [Store!Next]_(Store!storeVars)
<1>1. CASE UNCHANGED vars
  <2>1. UNCHANGED <<pageTable, frameData, disk, guard>>
    BY <1>1 DEF vars, frameVars, poolVars
  <2>2. UNCHANGED <<Content, Held>>
    BY <2>1 DEF Content, Held, Cached, HasLatch
  <2> QED
    BY <2>1, <2>2 DEF Store!storeVars, Content, Held
<1>2. CASE Next
  <2>1. ~DiskFails
    BY DEF DiskFails, FetchReadFails, EvictWriteFails, NewPageReserveFails
  <2>2. ASSUME NEW g \in Guards, Acquire(g)
        PROVE  [Store!Next]_(Store!storeVars)
    BY <2>2, FetchSim, CreateSim DEF Acquire
  <2> QED
    BY <1>2, <2>1, <2>2, UseLatchSim, DropSim, DeleteSim, FlushSim DEF Next
<1> QED
  BY <1>1, <1>2

(* The clients of the pool cannot tell it from memory with one content a   *)
(* page: caching, eviction, write-back, flushing and the pins neither lose *)
(* nor undo a write, and only new_page and its owner change a page.        *)
THEOREM PoolImplementsPageStore ==
  ASSUME Faults = {}
  PROVE  Spec => ImplementsPageStore
<1>1. WInv /\ [Next]_vars => WInv'
  BY NextWInv
<1>2. WInv /\ [Next]_vars => [Store!Next]_(Store!storeVars)
  BY NextSim
<1> QED
  BY <1>1, <1>2, InitWInv, InitSim, PTL
  DEF Spec, ImplementsPageStore, Store!Spec

(* Once a page's bytes are on disk, only its cached bytes replace them:    *)
(* eviction and flushing write back, they do not make up.  (It fails when  *)
(* a disk call may throw, which the run pool_stale_frame shows.)           *)
THEOREM WriteBackIsFaithful ==
  ASSUME Faults = {}
  PROVE  Spec => WriteBackPersists
<1>1. ASSUME WInv, Next, NEW k \in Keys, disk[k] # Absent, disk'[k] # disk[k]
      PROVE  Cached(k) /\ disk'[k] = frameData[pageTable[k]]
  <2>1. Store!Next
    BY <1>1, NextSim DEF Store!storeVars
  <2>2. disk'[k] = Content[k]
    <3>1. CASE \E g \in Guards :
                 \/ \E j \in Keys, w \in BOOLEAN : Store!Acquire(g, j, w)
                 \/ \E image \in Images : Store!Write(g, image)
                 \/ Store!ReleaseLatch(g)
      BY <1>1, <3>1 DEF Store!Acquire, Store!Write, Store!ReleaseLatch
    <3>2. CASE \E S \in SUBSET Keys :
                 \/ \E j \in Keys : Store!Create(j, S)
                 \/ Store!Sync(S)
      <4>1. PICK S \in SUBSET Keys :
                   \/ \E j \in Keys : Store!Create(j, S)
                   \/ Store!Sync(S)
        BY <3>2
      <4>2. disk'[k] = Store!Written(S)[k]
        BY <1>1, <4>1 DEF Store!Create, Store!Sync, Store!Written
      <4> QED
        BY <1>1, <4>2 DEF Store!Written, Content
    <3>3. CASE \E j \in Deletable : Store!Discard(j)
      BY <1>1, <3>3 DEF Store!Discard
    <3> QED
      BY <2>1, <3>1, <3>2, <3>3 DEF Store!Next
  <2> QED
    BY <1>1, <2>2 DEF Content
<1>2. WInv /\ [Next]_vars =>
        [\A k \in Keys : disk[k] # Absent /\ disk'[k] # disk[k] =>
             Cached(k) /\ disk'[k] = frameData[pageTable[k]]]_vars
  BY <1>1
<1>3. WInv /\ [Next]_vars => WInv'
  BY NextWInv
<1> QED
  BY <1>2, <1>3, InitWInv, PTL DEF Spec, WriteBackPersists

-----------------------------------------------------------------------------
(***************************************************************************)
(* While the disk answers, no frame drops out of the pool: each is free or *)
(* tracked by the replacer, so what cannot be claimed is pinned.           *)
(***************************************************************************)
NoFrameIsLost == \A f \in Frames : f \in freeFrames \cup alive

LEMMA NoFrameIsLostStep ==
  ASSUME Faults = {}, IInv, NoFrameIsLost, [Next]_vars
  PROVE  NoFrameIsLost'
<1> USE DEF NoFrameIsLost
<1>0. FramesTypeOK
  BY DEF IInv, TypeOK
<1>1. ASSUME NEW g \in Guards, Acquire(g) PROVE NoFrameIsLost'
  <2>1. ASSUME NEW k \in Keys, NEW w \in BOOLEAN, FetchHit(g, k, w),
               TrackPinned(pageTable[k])
        PROVE  NoFrameIsLost'
    BY <2>1 DEF FetchHit, TrackPinned
  <2>2. ASSUME NEW f \in Frames, freeFrames' = freeFrames \ {f}, TrackPinned(f)
        PROVE  NoFrameIsLost'
    BY <2>2 DEF TrackPinned
  <2>3. ASSUME NEW f \in Frames, NEW k \in Keys, NEW w \in BOOLEAN,
               FetchMiss(g, k, w, f)
        PROVE  freeFrames' = freeFrames \ {f}
    BY <2>3 DEF FetchMiss, Install
  <2>4. ASSUME NEW f \in Frames, NEW file \in Files, NewPage(g, file, f)
        PROVE  freeFrames' = freeFrames \ {f}
    BY <2>4 DEF NewPage, Install
  <2> QED
    BY <1>1, <2>1, <2>2, <2>3, <2>4 DEF Acquire, Fetch, Create
<1>2. ASSUME NEW k \in Keys, Delete(k) PROVE NoFrameIsLost'
  BY <1>2 DEF Delete, DeletePage, Forget
<1>3. ASSUME NEW g \in Guards, UseLatch(g) \/ Drop(g) PROVE NoFrameIsLost'
  BY <1>3
  DEF UseLatch, Latch, BeginWrite, EndWrite, Unlatch, poolVars, Drop, Unpin,
      Release
<1>4. CASE Flush
  BY <1>4 DEF Flush, FlushPage, FlushFrames
<1>5. CASE UNCHANGED vars
  BY <1>5 DEF vars, frameVars, poolVars
<1>6. ~DiskFails
  BY DEF DiskFails, FetchReadFails, EvictWriteFails, NewPageReserveFails
<1> QED
  BY <1>1, <1>2, <1>3, <1>4, <1>5, <1>6, FrameAssumption DEF Next

(* "All pages pinned": when fetch_page and new_page return nullptr, every  *)
(* frame of the pool is pinned, whatever was fetched, deleted and flushed  *)
(* before.                                                                 *)
THEOREM NullOnlyWhenPinned ==
  ASSUME Faults = {}
  PROVE  Spec => []NullMeansAllPinned
<1>1. Init => NoFrameIsLost
  BY DEF Init, FramesInit, NoFrameIsLost
<1>2. IInv /\ NoFrameIsLost /\ [Next]_vars => NoFrameIsLost'
  BY NoFrameIsLostStep
<1>3. IInv /\ NoFrameIsLost => NullMeansAllPinned
  <2> SUFFICES ASSUME IInv, NoFrameIsLost, \A f \in Frames : ~CanClaim(f),
                      NEW f \in Frames
               PROVE  pinCount[f] > 0
    BY DEF NullMeansAllPinned
  <2>1. freeFrames = {} /\ f \notin evictable
    BY DEF CanClaim, IInv, TypeOK, FramesTypeOK
  <2>2. f \in alive /\ pinCount[f] \in Nat
    BY <2>1 DEF NoFrameIsLost, IInv, TypeOK, FramesTypeOK
  <2> QED
    BY <2>1, <2>2 DEF IInv, EvictableIffUnpinned
<1> QED
  BY <1>1, <1>2, <1>3, PoolInvariant, PTL DEF Spec
=============================================================================
