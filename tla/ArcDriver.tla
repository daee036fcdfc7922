----------------------------- MODULE ArcDriver -----------------------------
(***************************************************************************)
(* The replacer in the hands of BufferPoolManager: it tells the replacer   *)
(* of every access, with the frame pinned, releases frames whose pin count *)
(* drops to 0, removes deleted ones, and asks for a victim only when no    *)
(* frame is free.  recency is not in the code: the live frames, the last   *)
(* accessed first.                                                         *)
(***************************************************************************)
EXTENDS ArcReplacer

VARIABLES arc, recency
arcVars == <<arc, recency>>

ArcInit == arc = EmptyArc /\ recency = <<>>

CachedPages == {arc.alive[f].page : f \in DOMAIN arc.alive}
FreeFrames == Frames \ DOMAIN arc.alive
Accessed(f) == recency' = <<f>> \o Without(recency, f)

Hit(f) ==
  /\ f \in DOMAIN arc.alive
  /\ arc' = AccessPinned(arc, f, arc.alive[f].page)
  /\ Accessed(f)

Fill(f, page) ==
  /\ page \notin CachedPages
  /\ f \in FreeFrames
  /\ arc' = AccessPinned(arc, f, page)
  /\ Accessed(f)

Replace(f, page) ==
  /\ page \notin CachedPages
  /\ FreeFrames = {}
  /\ Victim(arc) = f
  /\ arc' = AccessPinned(Demoted(arc, f), f, page)
  /\ Accessed(f)

Unpinned(f) ==
  /\ f \in DOMAIN arc.alive
  /\ arc' = SetEvictable(arc, f, TRUE)
  /\ UNCHANGED recency

Deleted(f) ==
  /\ f \in DOMAIN arc.alive
  /\ ~RemoveTerminates(arc, f)
  /\ arc' = Removed(arc, f)
  /\ recency' = Without(recency, f)

ArcNext ==
  \E f \in Frames :
    \/ Hit(f)
    \/ \E page \in PageIds : Fill(f, page) \/ Replace(f, page)
    \/ Unpinned(f)
    \/ Deleted(f)

ArcSpec == ArcInit /\ [][ArcNext]_arcVars

-----------------------------------------------------------------------------
ArcTypeOK ==
  /\ {arc.mru, arc.mfu} \subseteq Seq(Frames)
  /\ {arc.mruGhost, arc.mfuGhost} \subseteq Seq(PageIds)
  /\ DOMAIN arc.alive \subseteq Frames
  /\ \A f \in DOMAIN arc.alive : arc.alive[f] \in Status
  /\ DOMAIN arc.ghost \subseteq PageIds
  /\ arc.size \in 0 .. Capacity /\ arc.target \in 0 .. Capacity

(* mru_, mfu_, the ghost lists, alive_map_ and ghost_map_ never disagree.  *)
ListsAndMapsAgree == ListsMatchMaps(arc)

(* fetch_page is told "no victim" only when nothing is evictable. *)
EvictFindsAVictim == VictimFound(arc)

(* The ghosts are trimmed in time: the metadata never outgrows ARC's       *)
(* bounds.                                                                 *)
MetadataIsBounded == Bounded(arc)

(* The victim comes from MRU when MRU holds more frames than its target,   *)
(* from MFU otherwise, and from the other list only when nothing on that   *)
(* one can go.  Of the frames there that can go it is the least recently   *)
(* accessed: the back of either list is its LRU end.                       *)
Position(f) == CHOOSE i \in DOMAIN recency : recency[i] = f
VictimIsLeastRecentlyUsed ==
  Victim(arc) # NoFrame =>
    LET v == Victim(arc)
        on(l) == {f \in DOMAIN arc.alive : arc.alive[f].list = l}
        rivals(l) == {f \in on(l) : arc.alive[f].evictable}
        preferred == IF Cardinality(on(MRU)) > arc.target THEN MRU ELSE MFU
    IN /\ arc.alive[v].list # preferred => rivals(preferred) = {}
       /\ \A f \in rivals(arc.alive[v].list) : Position(f) <= Position(v)
=============================================================================
