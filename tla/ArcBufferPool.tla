--------------------------- MODULE ArcBufferPool ---------------------------
(***************************************************************************)
(* BufferPoolManager with its ArcReplacer: the handlers of BufferFrames,   *)
(* each with the calls it makes to replacer_, in the order it makes them.  *)
(* The module implements BufferPool, so what is shown there of any         *)
(* replacer holds of the pool as built.                                    *)
(***************************************************************************)
EXTENDS BufferFrames

INSTANCE ArcReplacer

ASSUME PoolAssumption == IsFiniteSet(Frames)

VARIABLE arc   \* replacer_

vars == <<frameVars, arc>>

Init == FramesInit /\ arc = EmptyArc

(* page_id_: all that the replacer is told of a page. *)
PageOf(k) == k[2]

(* The free list first, then the one victim of evict(). *)
Claimed == IF freeFrames # {} THEN freeFrames ELSE {Victim(arc)} \ {NoFrame}

(* The replacer once f has been claimed. *)
ArcAfterClaim(f) == IF freeFrames # {} THEN arc ELSE Demoted(arc, f)

-----------------------------------------------------------------------------
Fetch(g, k, w) ==
  \/ /\ FetchHit(g, k, w)
     /\ arc' = AccessPinned(arc, pageTable[k], PageOf(k))
  \/ \E f \in Claimed :
       /\ FetchMiss(g, k, w, f)
       /\ arc' = AccessPinned(ArcAfterClaim(f), f, PageOf(k))

Create(g, file) ==
  \E f \in Claimed :
    /\ NewPage(g, file, f)
    /\ arc' = AccessPinned(ArcAfterClaim(f), f, nextPageId)

DiskFails ==
  \E f \in Claimed :
    \/ FetchReadFails(f) /\ arc' = ArcAfterClaim(f)
    \/ EvictWriteFails(f) /\ arc' = ArcAfterClaim(f)
    \/ /\ \E file \in Files : NewPageReserveFails(file, f)
       /\ arc' = AccessPinned(ArcAfterClaim(f), f, nextPageId)

(* Mutant: the pin count is tested before it is lowered. *)
DropTestsOldCount(g) ==
  /\ Unpin(g)
  /\ arc' = IF UnpinnedFrame(g) # NoFrame /\ pinCount[UnpinnedFrame(g)] = 0
            THEN SetEvictable(arc, UnpinnedFrame(g), TRUE)
            ELSE arc

Drop(g) ==
  /\ Unpin(g)
  /\ arc' = IF UnpinnedFrame(g) # NoFrame /\ pinCount'[UnpinnedFrame(g)] = 0
            THEN SetEvictable(arc, UnpinnedFrame(g), TRUE)
            ELSE arc

Delete(k) ==
  /\ DeletePage(k)
  /\ ~RemoveTerminates(arc, pageTable[k])
  /\ arc' = Removed(arc, pageTable[k])

Flush ==
  /\ \/ \E k \in Keys : FlushPage(k)
     \/ \E S \in SUBSET Frames, last \in Frames : FlushFrames(S, last)
  /\ UNCHANGED arc

UseLatch(g) ==
  /\ \/ Latch(g)
     \/ BeginWrite(g)
     \/ \E v \in Values : EndWrite(g, v)
     \/ Unlatch(g)
  /\ UNCHANGED arc

Acquire(g) ==
  \/ \E k \in Keys, w \in BOOLEAN : Fetch(g, k, w)
  \/ \E file \in Files : Create(g, file)

Next ==
  \/ \E g \in Guards : Acquire(g) \/ UseLatch(g) \/ Drop(g)
  \/ DiskFails
  \/ \E k \in Deletable : Delete(k)
  \/ Flush

Spec == Init /\ [][Next]_vars

-----------------------------------------------------------------------------
(* Every step of the pool with ARC is a step BufferPool allows: ARC never  *)
(* offers a pinned frame, and offers one whenever one is unpinned.         *)
Pool == INSTANCE BufferPool WITH
  alive     <- DOMAIN arc.alive,
  evictable <- Evictable(arc)
ImplementsBufferPool == Pool!Spec

(* evict() fails only when BufferPool has nothing to evict either. *)
VictimAgrees ==
  /\ VictimFound(arc)
  /\ Claimed = {} <=> \A f \in Frames : ~Pool!CanClaim(f)

(* delete_page checks the pin count, remove() the evictable flag: the two  *)
(* agree, so TURTLE_ENSURE never ends the process.                         *)
RemoveNeverTerminates ==
  \A k \in Keys : Cached(k) /\ pinCount[pageTable[k]] <= 0 =>
    ~RemoveTerminates(arc, pageTable[k])
=============================================================================
