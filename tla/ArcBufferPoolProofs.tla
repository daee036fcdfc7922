------------------------- MODULE ArcBufferPoolProofs -------------------------
(***************************************************************************)
(* BufferPoolManager with ARC implements the pool over any replacer, for   *)
(* every number of frames, guards, files and pages and every kind of disk  *)
(* failure.  The argument joins the two inductive invariants: P!IInv of    *)
(* the pool, with the frames ARC tracks and offers read off its state, and *)
(* R!ArcInv of the replacer.  What ties them is that ARC is told one page  *)
(* id per page: its maps are keyed by the id alone, without the file.      *)
(***************************************************************************)
EXTENDS ArcBufferPool, FiniteSetTheorems, TLAPS

R == INSTANCE ArcReplacerProofs WITH recency <- <<>>
P == INSTANCE BufferPoolProofs WITH
  alive     <- DOMAIN arc.alive,
  evictable <- Evictable(arc)

(* A page some frame holds, the page table maps or a file has. *)
Known(k) ==
  \/ Cached(k)
  \/ disk[k] # Absent
  \/ \E f \in Frames : frameKey[f] = k

(* new_page never hands out an id twice, whatever the file. *)
IdsAreUnique ==
  \A j, k \in Keys : Known(j) /\ Known(k) /\ PageOf(j) = PageOf(k) => j = k

(* ARC has each live frame under the page that is in it. *)
ArcKnowsPages ==
  \A f \in DOMAIN arc.alive : arc.alive[f].page = PageOf(frameKey[f])

Inv == P!IInv /\ R!ArcInv(arc) /\ IdsAreUnique /\ ArcKnowsPages

-----------------------------------------------------------------------------
(***************************************************************************)
(* The operators of the two instances are those of ArcBufferPool.          *)
(***************************************************************************)
LEMMA ArcAssumed ==
  IsFiniteSet(Frames) /\ NoFrame \notin Frames /\ R!IsFiniteSet(Frames)
BY PoolAssumption, FrameAssumption DEF IsFiniteSet, R!IsFiniteSet

LEMMA SameQueries ==
  ASSUME NEW a
  PROVE  R!Evictable(a) = Evictable(a) /\ R!Victim(a) = Victim(a)
<1>1. R!Evictable(a) = Evictable(a)
  BY DEF R!Evictable, Evictable
<1>2. \A s : R!Kept(s, Evictable(a)) = Kept(s, Evictable(a))
  BY DEF R!Kept, Kept
<1> QED
  BY <1>1, <1>2
  DEF R!Victim, Victim, R!VictimList, VictimList, R!Candidates, Candidates,
      R!Last, Last, R!MRU, MRU, R!MFU, MFU

LEMMA SameWithout == ASSUME NEW s, NEW x PROVE R!Without(s, x) = Without(s, x)
BY DEF R!Without, Without, R!Kept, Kept, R!ToSet, ToSet

LEMMA SameUpdates ==
  ASSUME NEW a, NEW f, NEW page, NEW e
  PROVE  /\ R!Demoted(a, f) = Demoted(a, f)
         /\ R!SetEvictable(a, f, e) = SetEvictable(a, f, e)
         /\ R!Removed(a, f) = Removed(a, f)
         /\ R!Released(a, f) = SetEvictable(a, f, TRUE)
         /\ R!EmptyArc = EmptyArc
BY DEF R!Released, R!Demoted, Demoted, R!SetEvictable, SetEvictable, R!Removed, Removed,
       R!EmptyArc, EmptyArc, R!Erase, Erase, R!Put, Put, R!Without, Without,
       R!Kept, Kept, R!ToSet, ToSet, R!VictimList, VictimList,
       R!Candidates, Candidates, R!Evictable, Evictable,
       R!MRU, MRU, R!MFU, MFU

LEMMA SameAccess ==
  ASSUME NEW a, NEW f, NEW page
  PROVE  R!AccessPinned(a, f, page) = AccessPinned(a, f, page)
BY DEF R!AccessPinned, AccessPinned, R!RecordAccess, RecordAccess,
       R!SetEvictable, SetEvictable, R!Promote, Promote,
       R!Resurrect, Resurrect, R!Adapted, Adapted, R!Enter, Enter,
       R!Trimmed, Trimmed, R!NotBelow1, NotBelow1, R!Smaller, Smaller,
       R!Capacity, Capacity, R!Cardinality, Cardinality,
       R!IsFiniteSet, IsFiniteSet, R!Front, Front, R!Last, Last,
       R!Erase, Erase, R!Put, Put, R!Without, Without,
       R!Kept, Kept, R!ToSet, ToSet, R!MRU, MRU, R!MFU, MFU

LEMMA SameFacts ==
  ASSUME NEW a
  PROVE  R!VictimFound(a) <=> VictimFound(a)
BY SameQueries DEF R!VictimFound, VictimFound, R!Cardinality, Cardinality,
       R!IsFiniteSet, IsFiniteSet

-----------------------------------------------------------------------------
(***************************************************************************)
(* The calls to replacer_, as the pool sees them.                          *)
(***************************************************************************)
LEMMA EmptyReplacer == R!ArcInv(EmptyArc)
<1>1. R!ArcInv(R!EmptyArc)
  BY R!EmptyArcInv, ArcAssumed
<1>2. R!EmptyArc = EmptyArc
  BY SameUpdates
<1> QED
  BY <1>1, <1>2

LEMMA EvictFinds ==
  ASSUME NEW a, R!ArcInv(a)
  PROVE  /\ Victim(a) = NoFrame <=> Evictable(a) = {}
         /\ Victim(a) # NoFrame => Victim(a) \in Evictable(a) \cap Frames
         /\ VictimFound(a)
<1>1. /\ R!Victim(a) = NoFrame <=> R!Evictable(a) = {}
      /\ R!Victim(a) # NoFrame => /\ R!Victim(a) \in R!Evictable(a)
                                  /\ R!Victim(a) \in Frames
  BY R!VictimFacts, ArcAssumed
<1>2. R!VictimFound(a)
  BY R!ArcInvShows, ArcAssumed
<1> QED
  BY <1>1, <1>2, SameQueries, SameFacts

LEMMA AfterEvict ==
  ASSUME NEW a, R!ArcInv(a), NEW f, f = Victim(a), f # NoFrame,
         NEW b, b = Demoted(a, f)
  PROVE  /\ R!ArcInv(b)
         /\ DOMAIN b.alive = DOMAIN a.alive \ {f}
         /\ \A g \in DOMAIN b.alive : b.alive[g].page = a.alive[g].page
         /\ Evictable(b) = Evictable(a) \ {f}
<1>1. f = R!Victim(a) /\ b = R!Demoted(a, f)
  BY SameQueries, SameUpdates
<1>2. /\ R!ArcInv(b)
      /\ DOMAIN b.alive = DOMAIN a.alive \ {f}
      /\ \A g \in DOMAIN b.alive : b.alive[g].page = a.alive[g].page
      /\ R!Evictable(b) = R!Evictable(a) \ {f}
  BY <1>1, R!DemotedKeeps, ArcAssumed
<1> QED
  BY <1>2, SameQueries

LEMMA AfterAccess ==
  ASSUME NEW a, R!ArcInv(a), NEW f \in Frames, NEW page \in PageIds,
         f \in DOMAIN a.alive \/ \A g \in DOMAIN a.alive : a.alive[g].page # page,
         NEW b, b = AccessPinned(a, f, page)
  PROVE  /\ R!ArcInv(b)
         /\ DOMAIN b.alive = DOMAIN a.alive \cup {f}
         /\ b.alive[f].page = IF f \in DOMAIN a.alive THEN a.alive[f].page
                                                      ELSE page
         /\ \A g \in DOMAIN a.alive \ {f} : b.alive[g].page = a.alive[g].page
         /\ Evictable(b) = Evictable(a) \ {f}
<1>1. b = R!AccessPinned(a, f, page)
  BY SameAccess
<1>2. /\ R!ArcInv(b)
      /\ DOMAIN b.alive = DOMAIN a.alive \cup {f}
      /\ b.alive[f].page = IF f \in DOMAIN a.alive THEN a.alive[f].page
                                                   ELSE page
      /\ \A g \in DOMAIN a.alive \ {f} : b.alive[g].page = a.alive[g].page
      /\ R!Evictable(b) = R!Evictable(a) \ {f}
  BY <1>1, R!AccessKeeps, ArcAssumed
<1> QED
  BY <1>2, SameQueries

LEMMA AfterRelease ==
  ASSUME NEW a, R!ArcInv(a), NEW f, NEW b, b = R!Released(a, f)
  PROVE  /\ R!ArcInv(b)
         /\ DOMAIN b.alive = DOMAIN a.alive
         /\ \A g \in DOMAIN a.alive : b.alive[g].page = a.alive[g].page
         /\ Evictable(b) = IF f \in DOMAIN a.alive THEN Evictable(a) \cup {f}
                                                   ELSE Evictable(a)
<1>1. /\ R!ArcInv(b)
      /\ DOMAIN b.alive = DOMAIN a.alive
      /\ \A g \in DOMAIN a.alive : b.alive[g].page = a.alive[g].page
      /\ R!Evictable(b) = R!Evictable(a) \cup ({f} \cap DOMAIN a.alive)
  BY R!ReleaseKeeps, ArcAssumed
<1>2. Evictable(b) = Evictable(a) \cup ({f} \cap DOMAIN a.alive)
  BY <1>1, SameQueries
<1> QED
  BY <1>1, <1>2

LEMMA AfterRemove ==
  ASSUME NEW a, R!ArcInv(a), NEW f, ~RemoveTerminates(a, f),
         NEW b, b = Removed(a, f)
  PROVE  /\ R!ArcInv(b)
         /\ DOMAIN b.alive = DOMAIN a.alive \ {f}
         /\ \A g \in DOMAIN b.alive : b.alive[g].page = a.alive[g].page
         /\ Evictable(b) = Evictable(a) \ {f}
<1>1. CASE f \notin DOMAIN a.alive
  <2>1. b = a /\ f \notin Evictable(a)
    BY <1>1 DEF Removed, Evictable
  <2>2. DOMAIN a.alive \ {f} = DOMAIN a.alive /\ Evictable(a) \ {f} = Evictable(a)
    BY <1>1, <2>1
  <2> QED
    BY <2>1, <2>2
<1>2. CASE f \in DOMAIN a.alive
  <2>1. f \in R!Evictable(a)
    BY <1>2 DEF R!Evictable, RemoveTerminates
  <2>2. b = R!Removed(a, f)
    BY SameUpdates
  <2>3. /\ R!ArcInv(b)
        /\ DOMAIN b.alive = DOMAIN a.alive \ {f}
        /\ \A g \in DOMAIN b.alive : b.alive[g].page = a.alive[g].page
        /\ R!Evictable(b) = R!Evictable(a) \ {f}
    BY <2>1, <2>2, R!RemovedKeeps, ArcAssumed
  <2> QED
    BY <2>3, SameQueries
<1> QED
  BY <1>1, <1>2

-----------------------------------------------------------------------------
(***************************************************************************)
(* What the pool's invariant says, in the names of ArcBufferPool.          *)
(***************************************************************************)
LEMMA PoolAssumed == P!FrameAssumption
BY FrameAssumption
DEF P!FrameAssumption, P!IsFiniteSet, IsFiniteSet, P!Keys, Keys, P!PageIds, PageIds,
    P!Images, Images

LEMMA PoolSays ==
  ASSUME P!IInv
  PROVE  /\ FramesTypeOK
         /\ DOMAIN arc.alive \subseteq Frames
         /\ Evictable(arc) \subseteq DOMAIN arc.alive
         /\ \A k \in Keys : Cached(k) => frameKey[pageTable[k]] = k
         /\ \A f \in freeFrames : /\ frameKey[f] = NoKey /\ pinCount[f] = 0
                                  /\ f \notin DOMAIN arc.alive
         /\ \A f \in DOMAIN arc.alive :
              frameKey[f] # NoKey /\ pageTable[frameKey[f]] = f
         /\ \A f \in DOMAIN arc.alive :
              f \in Evictable(arc) <=> pinCount[f] = 0
BY DEF P!IInv, P!TypeOK, P!FramesTypeOK, FramesTypeOK, P!Keys, Keys,
       P!PageIds, PageIds, P!Images, Images, P!Guard, Guard,
       P!GuardStates, GuardStates, P!TableMatchesFrames, P!Cached, Cached,
       P!FreeFramesAreEmpty, P!AliveFramesAreMapped, P!EvictableIffUnpinned

LEMMA FreshId ==
  ASSUME P!IInv
  PROVE  \A k \in Keys : Known(k) => PageOf(k) # nextPageId
<1>1. /\ \A k \in Keys : Cached(k) \/ disk[k] # Absent => k[2] < nextPageId
      /\ \A f \in Frames : frameKey[f] # NoKey => frameKey[f][2] < nextPageId
  BY DEF P!IInv, P!NextIdIsFresh, P!Keys, Keys, P!PageIds, PageIds,
         P!Cached, Cached
<1>2. \A k \in Keys : Known(k) => k[2] < nextPageId
  BY <1>1, FrameAssumption DEF Known
<1>3. nextPageId \in Nat
  BY PoolSays, FrameAssumption DEF FramesTypeOK
<1>4. \A k \in Keys : k[2] \in Int
  BY DEF Keys, PageIds
<1> QED
  BY <1>2, <1>3, <1>4 DEF PageOf

-----------------------------------------------------------------------------
(***************************************************************************)
(* The frame a handler claims, and the replacer when it has filled it.     *)
(***************************************************************************)
LEMMA ClaimedFrame ==
  ASSUME Inv, NEW f \in Claimed, NEW c, c = ArcAfterClaim(f)
  PROVE  /\ f \in Frames
         /\ P!CanClaim(f)
         /\ R!ArcInv(c)
         /\ DOMAIN c.alive = DOMAIN arc.alive \ {f}
         /\ \A g \in DOMAIN c.alive : c.alive[g].page = arc.alive[g].page
         /\ Evictable(c) = Evictable(arc) \ {f}
<1> PICK a : a = arc
  OBVIOUS
<1>0. /\ R!ArcInv(a) /\ freeFrames \subseteq Frames
      /\ \A g \in freeFrames : g \notin DOMAIN a.alive
      /\ Evictable(a) \subseteq DOMAIN a.alive
  BY PoolSays DEF Inv, FramesTypeOK
<1>1. CASE freeFrames # {}
  <2>1. f \in freeFrames /\ c = a
    BY <1>1 DEF Claimed, ArcAfterClaim
  <2>2. DOMAIN a.alive \ {f} = DOMAIN a.alive /\ Evictable(a) \ {f} = Evictable(a)
    BY <1>0, <2>1
  <2> QED
    BY <1>0, <1>1, <2>1, <2>2 DEF P!CanClaim
<1>2. CASE freeFrames = {}
  <2>1. f = Victim(a) /\ f # NoFrame /\ c = Demoted(a, f)
    BY <1>2 DEF Claimed, ArcAfterClaim
  <2>2. f \in Evictable(a) /\ f \in Frames
    BY <1>0, <2>1, EvictFinds
  <2>3. /\ R!ArcInv(c)
        /\ DOMAIN c.alive = DOMAIN a.alive \ {f}
        /\ \A g \in DOMAIN c.alive : c.alive[g].page = a.alive[g].page
        /\ Evictable(c) = Evictable(a) \ {f}
    BY <1>0, <2>1, AfterEvict
  <2> QED
    BY <1>2, <2>2, <2>3 DEF P!CanClaim
<1> QED
  BY <1>1, <1>2

(* ARC tracks no frame under a page id that no frame is mapped to. *)
LEMMA PageIsNew ==
  ASSUME Inv, NEW k \in Keys, ~Cached(k), Known(k) \/ PageOf(k) = nextPageId
  PROVE  \A g \in DOMAIN arc.alive : arc.alive[g].page # PageOf(k)
<1> SUFFICES ASSUME NEW g \in DOMAIN arc.alive, arc.alive[g].page = PageOf(k)
             PROVE  FALSE
  OBVIOUS
<1>1. /\ g \in Frames /\ frameKey[g] # NoKey /\ pageTable[frameKey[g]] = g
      /\ frameKey[g] \in Keys
  BY PoolSays DEF Inv, FramesTypeOK
<1>2. Known(frameKey[g]) /\ PageOf(frameKey[g]) = PageOf(k)
  BY <1>1 DEF Known, Inv, ArcKnowsPages
<1>3. Known(k)
  BY <1>1, <1>2, FreshId DEF Inv
<1>4. frameKey[g] = k
  BY <1>1, <1>2, <1>3 DEF Inv, IdsAreUnique
<1> QED
  BY <1>1, <1>4, FrameAssumption DEF Cached

LEMMA Filled ==
  ASSUME Inv, NEW f \in Claimed, NEW k \in Keys, ~Cached(k),
         Known(k) \/ PageOf(k) = nextPageId,
         NEW c, c = ArcAfterClaim(f), NEW page, page = PageOf(k),
         arc' = AccessPinned(c, f, page),
         frameKey' = [frameKey EXCEPT ![f] = k]
  PROVE  /\ P!TrackPinned(f)
         /\ R!ArcInv(arc)'
         /\ ArcKnowsPages'
<1> PICK a, b : a = arc /\ b = arc'
  OBVIOUS
<1>1. /\ f \in Frames /\ R!ArcInv(c)
      /\ DOMAIN c.alive = DOMAIN a.alive \ {f}
      /\ \A g \in DOMAIN c.alive : c.alive[g].page = a.alive[g].page
      /\ Evictable(c) = Evictable(a) \ {f}
  BY ClaimedFrame
<1>2. \A g \in DOMAIN c.alive : c.alive[g].page # page
  BY <1>1, PageIsNew
<1>3. page \in PageIds /\ f \notin DOMAIN c.alive
  BY <1>1 DEF Keys, PageOf
<1>4. /\ R!ArcInv(b)
      /\ DOMAIN b.alive = DOMAIN c.alive \cup {f}
      /\ b.alive[f].page = page
      /\ \A g \in DOMAIN c.alive \ {f} : b.alive[g].page = c.alive[g].page
      /\ Evictable(b) = Evictable(c) \ {f}
  <2>1. b = AccessPinned(c, f, page)
    OBVIOUS
  <2> HIDE DEF ArcAfterClaim
  <2> QED
    BY <1>1, <1>2, <1>3, <2>1, AfterAccess
<1>5. DOMAIN b.alive = DOMAIN a.alive \cup {f} /\ Evictable(b) = Evictable(a) \ {f}
  BY <1>1, <1>4
<1>6. P!TrackPinned(f)
  BY <1>5 DEF P!TrackPinned, Evictable
<1>7. \A g \in DOMAIN b.alive : b.alive[g].page = PageOf(frameKey'[g])
  <2> TAKE g \in DOMAIN b.alive
  <2>1. frameKey \in [Frames -> Keys \cup {NoKey}] /\ DOMAIN a.alive \subseteq Frames
    BY PoolSays DEF Inv, FramesTypeOK
  <2>2. CASE g = f
    BY <1>1, <1>4, <2>1, <2>2
  <2>3. CASE g # f
    <3>1. g \in DOMAIN c.alive \ {f} /\ g \in DOMAIN a.alive
      BY <1>1, <1>4, <2>3
    <3>2. b.alive[g].page = a.alive[g].page
      BY <1>1, <1>4, <3>1
    <3>3. a.alive[g].page = PageOf(frameKey[g])
      BY <3>1 DEF Inv, ArcKnowsPages
    <3>4. frameKey'[g] = frameKey[g]
      BY <2>1, <2>3, <3>1
    <3> QED
      BY <3>2, <3>3, <3>4
  <2> QED
    BY <2>2, <2>3
<1> QED
  BY <1>4, <1>6, <1>7 DEF ArcKnowsPages

-----------------------------------------------------------------------------
(***************************************************************************)
(* The calls of each handler.                                              *)
(***************************************************************************)
(* A hit may find a frame that ARC no longer tracks: one whose write-back  *)
(* threw.  Its page id is then in no live entry, for only the frame the    *)
(* page table names is tracked under it.                                   *)
LEMMA Hit ==
  ASSUME Inv, NEW k \in Keys, Cached(k), NEW f, f = pageTable[k],
         NEW page, page = PageOf(k),
         arc' = AccessPinned(arc, f, page), UNCHANGED frameKey
  PROVE  /\ P!TrackPinned(f)
         /\ R!ArcInv(arc)'
         /\ ArcKnowsPages'
<1> PICK a, b : a = arc /\ b = arc'
  OBVIOUS
<1>0. f \in Frames /\ frameKey[f] = k /\ page \in PageIds /\ R!ArcInv(a)
  BY PoolSays DEF Inv, FramesTypeOK, Cached, Keys, PageOf
<1>1. ASSUME NEW g \in DOMAIN a.alive, a.alive[g].page = page
      PROVE  f = g
  <2>1. /\ g \in Frames /\ frameKey[g] # NoKey /\ pageTable[frameKey[g]] = g
        /\ frameKey[g] \in Keys
    BY PoolSays DEF Inv, FramesTypeOK
  <2>2. PageOf(frameKey[g]) = PageOf(k)
    BY <1>1 DEF Inv, ArcKnowsPages
  <2>3. frameKey[g] = k
    BY <2>1, <2>2 DEF Known, Inv, IdsAreUnique
  <2> QED
    BY <2>1, <2>3
<1>2. f \in DOMAIN a.alive \/ \A g \in DOMAIN a.alive : a.alive[g].page # page
  BY <1>1
<1>3. /\ R!ArcInv(b)
      /\ DOMAIN b.alive = DOMAIN a.alive \cup {f}
      /\ b.alive[f].page = IF f \in DOMAIN a.alive THEN a.alive[f].page
                                                   ELSE page
      /\ \A g \in DOMAIN a.alive \ {f} : b.alive[g].page = a.alive[g].page
      /\ Evictable(b) = Evictable(a) \ {f}
  <2>1. b = AccessPinned(a, f, page)
    OBVIOUS
  <2> QED
    BY <1>0, <1>2, <2>1, AfterAccess
<1>4. P!TrackPinned(f)
  BY <1>3 DEF P!TrackPinned, Evictable
<1>5. \A g \in DOMAIN b.alive : b.alive[g].page = PageOf(frameKey'[g])
  BY <1>0, <1>3 DEF Inv, ArcKnowsPages
<1> QED
  BY <1>3, <1>4, <1>5 DEF ArcKnowsPages

(* fetch_page's read has thrown, or the write-back before it. *)
LEMMA Lost ==
  ASSUME Inv, NEW f \in Claimed, arc' = ArcAfterClaim(f), UNCHANGED frameKey
  PROVE  /\ P!Forget(f)
         /\ R!ArcInv(arc)'
         /\ ArcKnowsPages'
<1> PICK a, b : a = arc /\ b = arc'
  OBVIOUS
<1>1. /\ R!ArcInv(b)
      /\ DOMAIN b.alive = DOMAIN a.alive \ {f}
      /\ \A g \in DOMAIN b.alive : b.alive[g].page = a.alive[g].page
      /\ Evictable(b) = Evictable(a) \ {f}
  BY ClaimedFrame
<1>2. P!Forget(f)
  BY <1>1 DEF P!Forget, Evictable
<1>3. \A g \in DOMAIN b.alive : b.alive[g].page = PageOf(frameKey'[g])
  BY <1>1 DEF Inv, ArcKnowsPages
<1> QED
  BY <1>1, <1>2, <1>3 DEF ArcKnowsPages

LEMMA LastUnpin ==
  ASSUME Inv, NEW f, arc' = R!Released(arc, f), UNCHANGED frameKey
  PROVE  /\ P!Release(f)
         /\ R!ArcInv(arc)'
         /\ ArcKnowsPages'
<1> PICK a, b : a = arc /\ b = arc'
  OBVIOUS
<1>1. R!ArcInv(a) /\ b = R!Released(a, f)
  BY DEF Inv
<1>2. /\ R!ArcInv(b)
      /\ DOMAIN b.alive = DOMAIN a.alive
      /\ \A g \in DOMAIN a.alive : b.alive[g].page = a.alive[g].page
      /\ Evictable(b) = IF f \in DOMAIN a.alive THEN Evictable(a) \cup {f}
                                                ELSE Evictable(a)
  BY <1>1, AfterRelease
<1>3. P!Release(f)
  BY <1>2 DEF P!Release, Evictable
<1>4. \A g \in DOMAIN b.alive : b.alive[g].page = PageOf(frameKey'[g])
  BY <1>2 DEF Inv, ArcKnowsPages
<1> QED
  BY <1>2, <1>3, <1>4 DEF ArcKnowsPages

LEMMA Deleted ==
  ASSUME Inv, NEW f, ~RemoveTerminates(arc, f), arc' = Removed(arc, f),
         frameKey' = [frameKey EXCEPT ![f] = NoKey]
  PROVE  /\ P!Forget(f)
         /\ R!ArcInv(arc)'
         /\ ArcKnowsPages'
<1> PICK a, b : a = arc /\ b = arc'
  OBVIOUS
<1>0. /\ R!ArcInv(a) /\ ~RemoveTerminates(a, f) /\ b = Removed(a, f)
      /\ frameKey \in [Frames -> Keys \cup {NoKey}]
      /\ DOMAIN a.alive \subseteq Frames
  BY PoolSays DEF Inv, FramesTypeOK
<1>1. /\ R!ArcInv(b)
      /\ DOMAIN b.alive = DOMAIN a.alive \ {f}
      /\ \A g \in DOMAIN b.alive : b.alive[g].page = a.alive[g].page
      /\ Evictable(b) = Evictable(a) \ {f}
  BY <1>0, AfterRemove
<1>2. P!Forget(f)
  BY <1>1 DEF P!Forget, Evictable
<1>3. \A g \in DOMAIN b.alive : b.alive[g].page = PageOf(frameKey'[g])
  <2> TAKE g \in DOMAIN b.alive
  <2>1. g \in DOMAIN a.alive /\ g # f /\ frameKey'[g] = frameKey[g]
    BY <1>0, <1>1
  <2> QED
    BY <1>1, <2>1 DEF Inv, ArcKnowsPages
<1> QED
  BY <1>1, <1>2, <1>3 DEF ArcKnowsPages

-----------------------------------------------------------------------------
(***************************************************************************)
(* Page ids stay unique: a step makes known only the page new_page creates.*)
(***************************************************************************)
LEMMA IdsStay ==
  ASSUME Inv, NEW k,
         \A j \in Keys : Known(j)' => Known(j) \/ (j = k /\ PageOf(k) = nextPageId)
  PROVE  IdsAreUnique'
<1> SUFFICES ASSUME NEW i \in Keys, NEW j \in Keys, Known(i)', Known(j)',
                    PageOf(i) = PageOf(j)
             PROVE  i = j
  BY DEF IdsAreUnique
<1>1. \A x \in Keys : Known(x) => PageOf(x) # nextPageId
  BY FreshId DEF Inv
<1>2. CASE Known(i) /\ Known(j)
  BY <1>2 DEF Inv, IdsAreUnique
<1>3. CASE ~Known(i)
  <2>1. i = k /\ PageOf(i) = nextPageId
    BY <1>3
  <2>2. ~Known(j)
    BY <1>1, <2>1
  <2> QED
    BY <2>1, <2>2
<1>4. CASE ~Known(j)
  <2>1. j = k /\ PageOf(j) = nextPageId
    BY <1>4
  <2>2. ~Known(i)
    BY <1>1, <2>1
  <2> QED
    BY <2>1, <2>2
<1> QED
  BY <1>2, <1>3, <1>4

LEMMA EvictionMakesNothingKnown ==
  ASSUME Inv, NEW f \in Frames, NEW j \in Keys
  PROVE  /\ WrittenBack(f)[j] # Absent => Known(j)
         /\ Unmapped(f)[j] # NoFrame => Known(j)
<1>1. /\ disk \in [Keys -> Images \cup {Absent}]
      /\ pageTable \in [Keys -> Frames \cup {NoFrame}]
      /\ frameKey \in [Frames -> Keys \cup {NoKey}]
  BY PoolSays DEF Inv, FramesTypeOK
<1> QED
  BY <1>1 DEF WrittenBack, Unmapped, Known, Cached

LEMMA InstallKnows ==
  ASSUME Inv, NEW f \in Frames, NEW k \in Keys, NEW image,
         Install(f, k, image),
         \A j \in Keys \ {k} : disk'[j] = WrittenBack(f)[j],
         NEW j \in Keys, Known(j)'
  PROVE  Known(j) \/ j = k
<1>1. /\ pageTable \in [Keys -> Frames \cup {NoFrame}]
      /\ frameKey \in [Frames -> Keys \cup {NoKey}]
  BY PoolSays DEF Inv, FramesTypeOK
<1>2. Unmapped(f) \in [Keys -> Frames \cup {NoFrame}]
  BY <1>1 DEF Unmapped
<1> SUFFICES ASSUME j # k PROVE Known(j)
  OBVIOUS
<1>3. CASE Cached(j)'
  <2>1. Unmapped(f)[j] # NoFrame
    BY <1>2, <1>3 DEF Install, Cached
  <2> QED
    BY <2>1, EvictionMakesNothingKnown
<1>4. CASE disk'[j] # Absent
  <2>1. WrittenBack(f)[j] # Absent
    BY <1>4
  <2> QED
    BY <2>1, EvictionMakesNothingKnown
<1>5. CASE \E h \in Frames : frameKey'[h] = j
  BY <1>1, <1>5 DEF Install, Known
<1> QED
  BY <1>3, <1>4, <1>5 DEF Known

-----------------------------------------------------------------------------
(***************************************************************************)
(* Each step of the pool with ARC is a step of BufferPool and keeps what   *)
(* ties the two states together.                                           *)
(***************************************************************************)
Tied == R!ArcInv(arc) /\ ArcKnowsPages /\ IdsAreUnique

LEMMA SameFrames ==
  ASSUME NEW f, NEW k, NEW image
  PROVE  /\ P!Install(f, k, image) <=> Install(f, k, image)
         /\ P!WrittenBack(f) = WrittenBack(f)
         /\ P!Unmapped(f) = Unmapped(f)
         /\ P!Cached(k) <=> Cached(k)
         /\ P!Wanted(k) <=> Wanted(k)
         /\ P!SomeoneFetches <=> SomeoneFetches
BY DEF P!Install, Install, P!WrittenBack, WrittenBack, P!Unmapped, Unmapped,
       P!Cached, Cached, P!Wanted, Wanted, P!SomeoneFetches, SomeoneFetches

LEMMA FetchSim ==
  ASSUME Inv, NEW g \in Guards, NEW k \in Keys, NEW w \in BOOLEAN,
         Fetch(g, k, w)
  PROVE  P!Fetch(g, k, w) /\ Tied'
<1>1. CASE /\ FetchHit(g, k, w)
           /\ arc' = AccessPinned(arc, pageTable[k], PageOf(k))
  <2>1. Cached(k) /\ UNCHANGED <<pageTable, frameKey, disk>>
    BY <1>1 DEF FetchHit
  <2>2. P!TrackPinned(pageTable[k]) /\ R!ArcInv(arc)' /\ ArcKnowsPages'
    BY <1>1, <2>1, Hit
  <2>3. IdsAreUnique'
    BY <2>1, IdsStay DEF Known, Cached
  <2>4. P!FetchHit(g, k, w)
    BY <1>1 DEF FetchHit, P!FetchHit, P!Cached, Cached, P!Attach, Attach
  <2> QED
    BY <2>2, <2>3, <2>4 DEF P!Fetch, Tied
<1>2. CASE \E f \in Claimed :
             /\ FetchMiss(g, k, w, f)
             /\ arc' = AccessPinned(ArcAfterClaim(f), f, PageOf(k))
  <2>1. PICK f \in Claimed :
          /\ FetchMiss(g, k, w, f)
          /\ arc' = AccessPinned(ArcAfterClaim(f), f, PageOf(k))
    BY <1>2
  <2>2. PICK image : Install(f, k, image)
    BY <2>1 DEF FetchMiss
  <2>3. /\ ~Cached(k) /\ disk[k] # Absent /\ Known(k)
        /\ frameKey' = [frameKey EXCEPT ![f] = k]
        /\ disk' = WrittenBack(f)
    BY <2>1, <2>2 DEF FetchMiss, Wanted, Known, Install
  <2>4. P!TrackPinned(f) /\ R!ArcInv(arc)' /\ ArcKnowsPages'
    BY <2>1, <2>3, Filled
  <2>5. f \in Frames /\ P!CanClaim(f)
    BY ClaimedFrame
  <2>6. \A j \in Keys : Known(j)' => Known(j)
    BY <2>2, <2>3, <2>5, InstallKnows
  <2>7. IdsAreUnique'
    BY <2>6, IdsStay
  <2>8. P!FetchMiss(g, k, w, f)
    BY <2>1, SameFrames
    DEF FetchMiss, P!FetchMiss, P!ReadImages, ReadImages, P!Attach, Attach
  <2> QED
    BY <2>4, <2>5, <2>7, <2>8 DEF P!Fetch, Tied
<1> QED
  BY <1>1, <1>2 DEF Fetch

LEMMA NewPageFills ==
  ASSUME Inv, NEW file \in Files, NEW f \in Claimed, nextPageId < MaxPages,
         NEW k, k = <<file, nextPageId>>, Install(f, k, Zero),
         \A j \in Keys \ {k} : disk'[j] = WrittenBack(f)[j],
         arc' = AccessPinned(ArcAfterClaim(f), f, nextPageId)
  PROVE  f \in Frames /\ P!CanClaim(f) /\ P!TrackPinned(f) /\ Tied'
<1>1. k \in Keys /\ PageOf(k) = nextPageId
  BY PoolSays, FrameAssumption DEF Inv, FramesTypeOK, Keys, PageIds, PageOf
<1>2. ~Cached(k)
  BY <1>1, FreshId DEF Inv, Known
<1>3. f \in Frames /\ P!CanClaim(f)
  BY ClaimedFrame
<1>4. frameKey' = [frameKey EXCEPT ![f] = k]
  BY DEF Install
<1>5. P!TrackPinned(f) /\ R!ArcInv(arc)' /\ ArcKnowsPages'
  <2> PICK c, page : c = ArcAfterClaim(f) /\ page = PageOf(k)
    OBVIOUS
  <2>1. arc' = AccessPinned(c, f, page)
    BY <1>1
  <2> QED
    BY <1>1, <1>2, <1>4, <2>1, Filled
<1>6. \A j \in Keys : Known(j)' => Known(j) \/ j = k
  BY <1>1, <1>3, InstallKnows
<1>7. IdsAreUnique'
  BY <1>1, <1>6, IdsStay
<1> QED
  BY <1>3, <1>5, <1>7 DEF Tied

LEMMA CreateSim ==
  ASSUME Inv, NEW g \in Guards, NEW file \in Files, Create(g, file)
  PROVE  P!Create(g, file) /\ Tied'
<1>1. PICK f \in Claimed :
        /\ NewPage(g, file, f)
        /\ arc' = AccessPinned(ArcAfterClaim(f), f, nextPageId)
  BY DEF Create
<1>2. PICK k : k = <<file, nextPageId>>
  OBVIOUS
<1>3. /\ nextPageId < MaxPages /\ Install(f, k, Zero)
      /\ disk' = [WrittenBack(f) EXCEPT ![k] = Zero]
  BY <1>1, <1>2 DEF NewPage
<1>4. f \in Frames
  BY <1>1, ClaimedFrame
<1>5. \A j \in Keys \ {k} : disk'[j] = WrittenBack(f)[j]
  <2>1. disk \in [Keys -> Images \cup {Absent}]
    BY PoolSays DEF Inv, FramesTypeOK
  <2>2. DOMAIN WrittenBack(f) = Keys
    BY <2>1 DEF WrittenBack
  <2> QED
    BY <1>3, <2>2
<1>6. P!CanClaim(f) /\ P!TrackPinned(f) /\ Tied'
  BY <1>1, <1>2, <1>3, <1>5, NewPageFills
<1>7. P!NewPage(g, file, f)
  BY <1>1, SameFrames DEF NewPage, P!NewPage, P!Attach, Attach
<1> QED
  BY <1>4, <1>6, <1>7 DEF P!Create

LEMMA DiskFailsSim ==
  ASSUME Inv, DiskFails
  PROVE  P!DiskFails /\ Tied'
<1>1. PICK f \in Claimed :
        \/ FetchReadFails(f) /\ arc' = ArcAfterClaim(f)
        \/ EvictWriteFails(f) /\ arc' = ArcAfterClaim(f)
        \/ /\ \E file \in Files : NewPageReserveFails(file, f)
           /\ arc' = AccessPinned(ArcAfterClaim(f), f, nextPageId)
  BY DEF DiskFails
<1>2. f \in Frames /\ P!CanClaim(f)
  BY ClaimedFrame
<1>3. CASE FetchReadFails(f) /\ arc' = ArcAfterClaim(f)
  <2>1. /\ UNCHANGED frameKey
        /\ disk' = WrittenBack(f) /\ pageTable' = Unmapped(f)
    BY <1>3 DEF FetchReadFails
  <2>2. P!Forget(f) /\ R!ArcInv(arc)' /\ ArcKnowsPages'
    BY <1>3, <2>1, Lost
  <2>3. ASSUME NEW j \in Keys, Known(j)' PROVE Known(j)
    <3>1. \/ Unmapped(f)[j] # NoFrame
          \/ WrittenBack(f)[j] # Absent
          \/ \E h \in Frames : frameKey[h] = j
      BY <2>1, <2>3 DEF Known, Cached
    <3> QED
      BY <1>2, <3>1, EvictionMakesNothingKnown DEF Known
  <2>4. IdsAreUnique'
    BY <2>3, IdsStay
  <2>5. P!FetchReadFails(f)
    BY <1>3, SameFrames DEF FetchReadFails, P!FetchReadFails
  <2> QED
    BY <1>2, <2>2, <2>4, <2>5 DEF P!DiskFails, Tied
<1>4. CASE EvictWriteFails(f) /\ arc' = ArcAfterClaim(f)
  <2>1. UNCHANGED <<pageTable, frameKey, disk>>
    BY <1>4 DEF EvictWriteFails, frameVars, poolVars
  <2>2. P!Forget(f) /\ R!ArcInv(arc)' /\ ArcKnowsPages'
    BY <1>4, <2>1, Lost
  <2>3. IdsAreUnique'
    BY <2>1, IdsStay DEF Known, Cached
  <2>4. P!EvictWriteFails(f)
    BY <1>4, SameFrames
    DEF EvictWriteFails, P!EvictWriteFails, frameVars, poolVars,
        P!frameVars, P!poolVars
  <2> QED
    BY <1>2, <2>2, <2>3, <2>4 DEF P!DiskFails, Tied
<1>5. CASE /\ \E file \in Files : NewPageReserveFails(file, f)
           /\ arc' = AccessPinned(ArcAfterClaim(f), f, nextPageId)
  <2>1. PICK file \in Files : NewPageReserveFails(file, f)
    BY <1>5
  <2>2. PICK k : k = <<file, nextPageId>>
    OBVIOUS
  <2>3. /\ nextPageId < MaxPages /\ Install(f, k, Zero)
        /\ disk' = WrittenBack(f)
    BY <2>1, <2>2 DEF NewPageReserveFails
  <2>4. P!TrackPinned(f) /\ Tied'
    BY <1>5, <2>2, <2>3, NewPageFills
  <2>5. P!NewPageReserveFails(file, f)
    BY <2>1, SameFrames DEF NewPageReserveFails, P!NewPageReserveFails
  <2> QED
    BY <1>2, <2>4, <2>5 DEF P!DiskFails
<1> QED
  BY <1>1, <1>3, <1>4, <1>5

LEMMA DropSim ==
  ASSUME Inv, NEW g \in Guards, Drop(g)
  PROVE  P!Drop(g) /\ Tied'
<1>1. Unpin(g) /\ UNCHANGED <<pageTable, frameKey, disk>>
  BY DEF Drop, Unpin
<1>2. P!UnpinnedFrame(g) = UnpinnedFrame(g)
  BY SameFrames DEF P!UnpinnedFrame, UnpinnedFrame, P!Cached, Cached
<1>3. P!Unpin(g)
  BY <1>1, <1>2 DEF Unpin, P!Unpin, P!IdleGuard, IdleGuard
<1>4. IdsAreUnique'
  BY <1>1, IdsStay DEF Known, Cached
<1>5. CASE UnpinnedFrame(g) # NoFrame /\ pinCount'[UnpinnedFrame(g)] = 0
  <2>1. PICK f : f = UnpinnedFrame(g)
    OBVIOUS
  <2>2. arc' = R!Released(arc, f)
    BY <1>5, <2>1, SameUpdates DEF Drop
  <2>3. P!Release(f) /\ R!ArcInv(arc)' /\ ArcKnowsPages'
    BY <1>1, <2>2, LastUnpin
  <2> QED
    BY <1>2, <1>3, <1>4, <1>5, <2>1, <2>3 DEF P!Drop, Tied
<1>6. CASE ~(UnpinnedFrame(g) # NoFrame /\ pinCount'[UnpinnedFrame(g)] = 0)
  <2>1. UNCHANGED arc
    BY <1>6 DEF Drop
  <2>2. R!ArcInv(arc)' /\ ArcKnowsPages'
    BY <1>1, <2>1 DEF Inv, ArcKnowsPages
  <2> QED
    BY <1>2, <1>3, <1>4, <1>6, <2>1, <2>2 DEF P!Drop, Tied, Evictable
<1> QED
  BY <1>5, <1>6

LEMMA DeleteSim ==
  ASSUME Inv, NEW k \in Keys, Delete(k)
  PROVE  P!Delete(k) /\ Tied'
<1>1. PICK f : f = pageTable[k]
  OBVIOUS
<1>2. /\ DeletePage(k) /\ ~RemoveTerminates(arc, f) /\ arc' = Removed(arc, f)
      /\ f \in Frames
      /\ pageTable' = [pageTable EXCEPT ![k] = NoFrame]
      /\ frameKey' = [frameKey EXCEPT ![f] = NoKey]
      /\ UNCHANGED disk
  BY <1>1, PoolSays DEF Delete, DeletePage, Cached, Inv, FramesTypeOK
<1>3. P!Forget(f) /\ R!ArcInv(arc)' /\ ArcKnowsPages'
  BY <1>2, Deleted
<1>4. IdsAreUnique'
  <2>1. /\ pageTable \in [Keys -> Frames \cup {NoFrame}]
        /\ frameKey \in [Frames -> Keys \cup {NoKey}]
    BY PoolSays DEF Inv, FramesTypeOK
  <2>2. \A j \in Keys : Known(j)' => Known(j)
    BY <1>2, <2>1, FrameAssumption DEF Known, Cached
  <2> QED
    BY <2>2, IdsStay
<1>5. P!DeletePage(k)
  BY <1>2, SameFrames DEF DeletePage, P!DeletePage
<1>6. ~P!RemoveTerminates(f)
  BY <1>2 DEF P!RemoveTerminates, RemoveTerminates, Evictable
<1> QED
  BY <1>1, <1>3, <1>4, <1>5, <1>6 DEF P!Delete, Tied

LEMMA FlushSim == Inv /\ Flush => P!Flush /\ Tied'
<1> SUFFICES ASSUME Inv, Flush PROVE P!Flush /\ Tied'
  OBVIOUS
<1>0. /\ disk \in [Keys -> Images \cup {Absent}]
      /\ pageTable \in [Keys -> Frames \cup {NoFrame}]
      /\ frameKey \in [Frames -> Keys \cup {NoKey}]
  BY PoolSays DEF Inv, FramesTypeOK
<1>1. UNCHANGED <<pageTable, frameKey, arc>>
  BY DEF Flush, FlushPage, FlushFrames
<1>2. R!ArcInv(arc)' /\ ArcKnowsPages'
  BY <1>1 DEF Inv, ArcKnowsPages
<1>3. ASSUME NEW j \in Keys, disk'[j] # Absent PROVE Known(j)
  <2>1. CASE \E k \in Keys : FlushPage(k)
    BY <1>0, <1>3, <2>1 DEF FlushPage, Cached, Known
  <2>2. CASE \E S \in SUBSET Frames, last \in Frames : FlushFrames(S, last)
    BY <1>3, <2>2 DEF FlushFrames, Known
  <2> QED
    BY <2>1, <2>2 DEF Flush
<1>4. IdsAreUnique'
  BY <1>1, <1>3, IdsStay DEF Known, Cached
<1>5. (\E k \in Keys : P!FlushPage(k))
        \/ \E S \in SUBSET Frames, last \in Frames : P!FlushFrames(S, last)
  BY SameFrames
  DEF Flush, FlushPage, P!FlushPage, FlushFrames, P!FlushFrames,
      DirtyFrames, P!DirtyFrames, P!Keys, Keys, P!PageIds, PageIds
<1>6. UNCHANGED <<DOMAIN arc.alive, Evictable(arc)>>
  BY <1>1 DEF Evictable
<1> QED
  BY <1>2, <1>4, <1>5, <1>6
  DEF P!Flush, P!Keys, Keys, P!PageIds, PageIds, Tied

LEMMA UseLatchSim ==
  ASSUME Inv, NEW g \in Guards, UseLatch(g)
  PROVE  P!UseLatch(g) /\ Tied'
<1>1. UNCHANGED <<pageTable, frameKey, disk, arc>>
  BY DEF UseLatch, Latch, BeginWrite, EndWrite, Unlatch, poolVars
<1>2. R!ArcInv(arc)' /\ ArcKnowsPages'
  BY <1>1 DEF Inv, ArcKnowsPages
<1>3. IdsAreUnique'
  BY <1>1, IdsStay DEF Known, Cached
<1>4. UNCHANGED <<DOMAIN arc.alive, Evictable(arc)>>
  BY <1>1 DEF Evictable
<1>5. \/ P!Latch(g) \/ P!BeginWrite(g)
      \/ \E v \in Values : P!EndWrite(g, v)
      \/ P!Unlatch(g)
  BY DEF UseLatch, Latch, BeginWrite, EndWrite, Unlatch, poolVars, SetPc,
         LatchFree, HasLatch, P!Latch, P!BeginWrite, P!EndWrite, P!Unlatch,
         P!poolVars, P!SetPc, P!LatchFree, P!HasLatch
<1> QED
  BY <1>2, <1>3, <1>4, <1>5 DEF P!UseLatch, Tied

LEMMA NextSim ==
  ASSUME Inv, [Next]_vars
  PROVE  [P!Next]_(P!vars) /\ Tied'
<1>1. ASSUME NEW g \in Guards, Acquire(g) \/ UseLatch(g) \/ Drop(g)
      PROVE  P!Next /\ Tied'
  <2>1. CASE \E k \in Keys, w \in BOOLEAN : Fetch(g, k, w)
    <3>1. PICK k \in Keys, w \in BOOLEAN : Fetch(g, k, w)
      BY <2>1
    <3>2. P!Fetch(g, k, w) /\ Tied'
      BY <3>1, FetchSim
    <3> QED
      BY <3>2 DEF P!Next, P!Acquire, P!Keys, Keys, P!PageIds, PageIds
  <2>2. CASE \E file \in Files : Create(g, file)
    BY <2>2, CreateSim DEF P!Next, P!Acquire
  <2>3. CASE UseLatch(g)
    BY <2>3, UseLatchSim DEF P!Next
  <2>4. CASE Drop(g)
    BY <2>4, DropSim DEF P!Next
  <2> QED
    BY <1>1, <2>1, <2>2, <2>3, <2>4 DEF Acquire
<1>2. CASE DiskFails
  BY <1>2, DiskFailsSim DEF P!Next
<1>3. ASSUME NEW k \in Deletable, Delete(k)
      PROVE  P!Next /\ Tied'
  BY <1>3, DeleteSim, FrameAssumption DEF P!Next
<1>4. CASE Flush
  BY <1>4, FlushSim DEF P!Next
<1>5. CASE UNCHANGED vars
  <2>1. /\ UNCHANGED <<pageTable, frameKey, disk, arc>>
        /\ UNCHANGED frameVars
    BY <1>5 DEF vars, frameVars, poolVars
  <2>2. R!ArcInv(arc)' /\ ArcKnowsPages'
    BY <2>1 DEF Inv, ArcKnowsPages
  <2>3. IdsAreUnique'
    BY <2>1, IdsStay DEF Known, Cached
  <2>4. UNCHANGED P!vars
    BY <2>1 DEF P!vars, P!frameVars, P!poolVars, frameVars, poolVars, Evictable
  <2> QED
    BY <2>2, <2>3, <2>4 DEF Tied
<1> QED
  BY <1>1, <1>2, <1>3, <1>4, <1>5 DEF Next

LEMMA InitSim == Init => P!Init /\ Inv
<1> SUFFICES ASSUME Init PROVE P!Init /\ Inv
  OBVIOUS
<1>1. DOMAIN arc.alive = {} /\ Evictable(arc) = {}
  BY DEF Init, EmptyArc, Evictable
<1>2. P!Init
  BY <1>1
  DEF Init, FramesInit, P!Init, P!FramesInit, P!Keys, Keys, P!PageIds, PageIds,
      P!IdleGuard, IdleGuard
<1>3. P!IInv
  BY <1>2, P!InitIInv, PoolAssumed, FrameAssumption
<1>4. R!ArcInv(arc)
  BY EmptyReplacer DEF Init
<1>5. ArcKnowsPages
  BY <1>1 DEF ArcKnowsPages
<1>6. IdsAreUnique
  BY FrameAssumption DEF Init, FramesInit, IdsAreUnique, Known, Cached
<1> QED
  BY <1>2, <1>3, <1>4, <1>5, <1>6 DEF Inv

LEMMA NextInv == Inv /\ [Next]_vars => Inv'
<1> SUFFICES ASSUME Inv, [Next]_vars PROVE Inv'
  OBVIOUS
<1>1. [P!Next]_(P!vars) /\ Tied'
  BY NextSim
<1>2. P!IInv'
  BY <1>1, P!NextIInv, PoolAssumed DEF Inv
<1> QED
  BY <1>1, <1>2 DEF Inv, Tied

-----------------------------------------------------------------------------
(***************************************************************************)
(* The theorems.                                                           *)
(***************************************************************************)
(* The pool's invariant, ARC's and what ties them hold in every state the  *)
(* handlers of BufferPoolManager reach, whichever disk calls throw.        *)
THEOREM PoolAndReplacerInvariant == Spec => []Inv
BY InitSim, NextInv, PTL DEF Spec

LEMMA SamePool ==
  /\ P!Init <=> Pool!Init
  /\ [P!Next]_(P!vars) <=> [Pool!Next]_(Pool!vars)
BY DEF P!Next, Pool!Next, P!Acquire, Pool!Acquire, P!Fetch, Pool!Fetch,
       P!Create, Pool!Create, P!DiskFails, Pool!DiskFails, P!Delete,
       Pool!Delete, P!Flush, Pool!Flush, P!UseLatch, Pool!UseLatch, P!Drop,
       Pool!Drop, P!Forget, Pool!Forget, P!TrackPinned, Pool!TrackPinned,
       P!Release, Pool!Release, P!RemoveTerminates, Pool!RemoveTerminates,
       P!CanClaim, Pool!CanClaim, P!FetchHit, Pool!FetchHit, P!FetchMiss,
       Pool!FetchMiss, P!NewPage, Pool!NewPage, P!FetchReadFails,
       Pool!FetchReadFails, P!EvictWriteFails, Pool!EvictWriteFails,
       P!NewPageReserveFails, Pool!NewPageReserveFails, P!Latch, Pool!Latch,
       P!BeginWrite, Pool!BeginWrite, P!EndWrite, Pool!EndWrite, P!Unlatch,
       Pool!Unlatch, P!Unpin, Pool!Unpin, P!FlushPage, Pool!FlushPage,
       P!FlushFrames, Pool!FlushFrames, P!DeletePage, Pool!DeletePage,
       P!Attach, Pool!Attach, P!Install, Pool!Install, P!WrittenBack,
       Pool!WrittenBack, P!Unmapped, Pool!Unmapped, P!Cached, Pool!Cached,
       P!Wanted, Pool!Wanted, P!ReadImages, Pool!ReadImages,
       P!SomeoneFetches, Pool!SomeoneFetches, P!SetPc, Pool!SetPc,
       P!LatchFree, Pool!LatchFree, P!HasLatch, Pool!HasLatch,
       P!UnpinnedFrame, Pool!UnpinnedFrame, P!DirtyFrames, Pool!DirtyFrames,
       P!IdleGuard, Pool!IdleGuard, P!Keys, Pool!Keys, P!PageIds,
       Pool!PageIds, P!poolVars, Pool!poolVars, P!frameVars, Pool!frameVars,
       P!vars, Pool!vars, P!Init, Pool!Init, P!FramesInit, Pool!FramesInit

(* ARC is a replacer BufferPool allows: it never offers a pinned frame,    *)
(* offers one whenever one is unpinned, and forgets what it gave away.     *)
(* Every step of the pool with ARC is then a step of the pool over any     *)
(* replacer, and what is shown of that pool holds of this one.             *)
THEOREM PoolWithArcIsAPool == Spec => ImplementsBufferPool
<1>1. Init => Pool!Init
  BY InitSim, SamePool
<1>2. Inv /\ [Next]_vars => [Pool!Next]_(Pool!vars)
  BY NextSim, SamePool
<1> QED
  BY <1>1, <1>2, PoolAndReplacerInvariant, PTL
  DEF Spec, ImplementsBufferPool, Pool!Spec

(* fetch_page and new_page return nullptr only when no frame is free and   *)
(* none is unpinned: ARC's evict() finds the victim BufferPool allows.     *)
THEOREM EvictAgreesWithPool == Spec => []VictimAgrees
<1>1. Inv => VictimAgrees
  <2> SUFFICES ASSUME Inv PROVE VictimAgrees
    OBVIOUS
  <2> PICK a : a = arc
    OBVIOUS
  <2>1. /\ Victim(a) = NoFrame <=> Evictable(a) = {}
        /\ VictimFound(a)
    BY EvictFinds DEF Inv
  <2>2. freeFrames \subseteq Frames /\ Evictable(a) \subseteq Frames
    BY PoolSays DEF Inv, FramesTypeOK
  <2>3. Claimed = {} <=> \A f \in Frames : ~Pool!CanClaim(f)
    BY <2>1, <2>2 DEF Claimed, Pool!CanClaim
  <2> QED
    BY <2>1, <2>3 DEF VictimAgrees
<1> QED
  BY <1>1, PoolAndReplacerInvariant, PTL

(* delete_page tests the pin count and remove() the evictable flag: the    *)
(* TURTLE_ENSURE in remove() never ends the process.                       *)
THEOREM RemoveIsAlwaysLegal == Spec => []RemoveNeverTerminates
<1>1. Inv => RemoveNeverTerminates
  <2> SUFFICES ASSUME Inv, NEW k \in Keys, Cached(k),
                      pinCount[pageTable[k]] <= 0
               PROVE  ~RemoveTerminates(arc, pageTable[k])
    BY DEF RemoveNeverTerminates
  <2>1. /\ pageTable[k] \in Frames
        /\ pinCount[pageTable[k]] = 0
        /\ \A f \in DOMAIN arc.alive : f \in Evictable(arc) <=> pinCount[f] = 0
    BY PoolSays DEF Inv, FramesTypeOK, Cached
  <2> QED
    BY <2>1 DEF RemoveTerminates, Evictable
<1> QED
  BY <1>1, PoolAndReplacerInvariant, PTL
=============================================================================
