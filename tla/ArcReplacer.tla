---------------------------- MODULE ArcReplacer ----------------------------
(***************************************************************************)
(* ArcReplacer, the Adaptive Replacement Cache policy.  Its methods are    *)
(* operators on the replacer's state a, so that a caller that makes        *)
(* several calls under its own latch (BufferPoolManager does) composes     *)
(* them in one step.  ArcDriver drives them by the protocol of             *)
(* BufferPoolManager, ArcBufferPool from BufferPoolManager itself.         *)
(***************************************************************************)
EXTENDS Naturals, Sequences, FiniteSets, SequencesExt

CONSTANTS
  Frames,   \* the frames; their number is replacer_size_
  PageIds,  \* the page ids, which ghost entries are keyed by
  NoFrame

ASSUME ArcAssumption == IsFiniteSet(Frames) /\ NoFrame \notin Frames

Capacity == Cardinality(Frames)
MRU == "mru"
MFU == "mfu"

(* The front of a list is its most recently used end.                      *)
(*   mru, mfu            live lists of frames (T1, T2)                     *)
(*   mruGhost, mfuGhost  lists of the ids of pages evicted from them       *)
(*   alive, ghost        alive_map_ and ghost_map_; the list of a status   *)
(*                       is its arc_status_                                *)
(*   size                curr_size_                                        *)
(*   target              mru_target_size_                                  *)
EmptyArc ==
  [mru |-> <<>>, mfu |-> <<>>, mruGhost |-> <<>>, mfuGhost |-> <<>>,
   alive |-> <<>>, ghost |-> <<>>, size |-> 0, target |-> 0]

Status == [page : PageIds, evictable : BOOLEAN, list : {MRU, MFU}]

(* A map with, or without, an entry for x. *)
Put(map, x, entry) ==
  [y \in DOMAIN map \cup {x} |-> IF y = x THEN entry ELSE map[y]]
Erase(map, x) == [y \in DOMAIN map \ {x} |-> map[y]]

(* The elements of a list that are in S, in their order; and the list      *)
(* without x, as std::list::remove leaves it.                              *)
Kept(seq, S) ==
  LET upTo[i \in 0 .. Len(seq)] ==
        IF i = 0 THEN <<>>
        ELSE IF seq[i] \in S THEN Append(upTo[i - 1], seq[i]) ELSE upTo[i - 1]
  IN upTo[Len(seq)]
Without(seq, x) == Kept(seq, ToSet(seq) \ {x})

(***************************************************************************)
(* evict                                                                   *)
(***************************************************************************)
(* Mutants: pinned frames are candidates; the other list is not tried; MRU *)
(* goes first while it is within its target.                               *)
AllCandidates(a, live) == Kept(live, DOMAIN a.alive)
PreferredList(a) == IF Len(a.mru) > a.target THEN MRU ELSE MFU

Evictable(a) == {f \in DOMAIN a.alive : a.alive[f].evictable}
Candidates(a, live) == Kept(live, Evictable(a))

TurnsSwapped(a) ==
  LET mruFirst == Len(a.mru) <= a.target IN
  IF mruFirst
  THEN IF Candidates(a, a.mru) # <<>> THEN MRU ELSE MFU
  ELSE IF Candidates(a, a.mfu) # <<>> THEN MFU ELSE MRU

(* The list evict() takes its victim from: the preferred one, or the other *)
(* if everything on it is pinned.                                          *)
VictimList(a) ==
  LET mruFirst == Len(a.mru) > a.target IN
  IF mruFirst
  THEN IF Candidates(a, a.mru) # <<>> THEN MRU ELSE MFU
  ELSE IF Candidates(a, a.mfu) # <<>> THEN MFU ELSE MRU

(* The frame evict() returns, NoFrame for std::nullopt. *)
Victim(a) ==
  LET c == Candidates(a, IF VictimList(a) = MRU THEN a.mru ELSE a.mfu) IN
  IF a.size = 0 \/ c = <<>> THEN NoFrame ELSE Last(c)

(* The replacer after evict() returned frame f. *)
Demoted(a, f) ==
  LET page == a.alive[f].page
      live == VictimList(a)
      rest == [a EXCEPT !.alive = Erase(@, f), !.size = @ - 1,
                        !.ghost = Put(@, page, live)]
  IN IF live = MRU
     THEN [rest EXCEPT !.mru = Without(@, f), !.mruGhost = <<page>> \o @]
     ELSE [rest EXCEPT !.mfu = Without(@, f), !.mfuGhost = <<page>> \o @]

(***************************************************************************)
(* record_access                                                           *)
(***************************************************************************)
NotBelow1(n) == IF n < 1 THEN 1 ELSE n
Smaller(m, n) == IF m < n THEN m ELSE n

(* Mutants: the frame stays on the MRU list too; the target has no cap;    *)
(* the ghosts are not trimmed.                                             *)
PromoteCopy(a, f) ==
  [a EXCEPT !.mfu = <<f>> \o Without(@, f), !.alive[f].list = MFU]
Uncapped(a, live) == IF live = MRU THEN a.target + 1 ELSE 0
Untrimmed(a) == a

(* A hit on a live list promotes the frame to the front of MFU. *)
Promote(a, f) ==
  [a EXCEPT !.mru = IF a.alive[f].list = MRU THEN Without(@, f) ELSE @,
            !.mfu = IF a.alive[f].list = MRU THEN <<f>> \o @
                                             ELSE <<f>> \o Without(@, f),
            !.alive[f].list = MFU]

(* A hit on a ghost adapts the target and brings the page back in MFU. *)
Adapted(a, live) ==
  LET b1 == Len(a.mruGhost)
      b2 == Len(a.mfuGhost)
      up == NotBelow1(b2 \div NotBelow1(b1))
      down == NotBelow1(b1 \div NotBelow1(b2))
  IN IF live = MRU THEN Smaller(a.target + up, Capacity)
     ELSE IF a.target > down THEN a.target - down ELSE 0

Resurrect(a, f, page) ==
  LET live == a.ghost[page] IN
  [a EXCEPT !.target = Adapted(a, live),
            !.mruGhost = IF live = MRU THEN Without(@, page) ELSE @,
            !.mfuGhost = IF live = MFU THEN Without(@, page) ELSE @,
            !.ghost = Erase(@, page),
            !.mfu = <<f>> \o @,
            !.alive = Put(@, f, [page |-> page, evictable |-> FALSE,
                                 list |-> MFU])]

(* A total miss trims the ghosts and enters MRU. *)
Trimmed(a) ==
  LET t1b1 == Len(a.mru) + Len(a.mruGhost)
      total == t1b1 + Len(a.mfu) + Len(a.mfuGhost)
  IN IF t1b1 = Capacity
     THEN IF a.mruGhost = <<>> THEN a
          ELSE [a EXCEPT !.mruGhost = Front(@),
                         !.ghost = Erase(@, Last(a.mruGhost))]
     ELSE IF t1b1 < Capacity /\ total >= 2 * Capacity /\ a.mfuGhost # <<>>
          THEN [a EXCEPT !.mfuGhost = Front(@),
                         !.ghost = Erase(@, Last(a.mfuGhost))]
          ELSE a

Enter(a, f, page) ==
  [Trimmed(a) EXCEPT
     !.mru = <<f>> \o @,
     !.alive = Put(@, f, [page |-> page, evictable |-> FALSE, list |-> MRU])]

RecordAccess(a, f, page) ==
  IF f \in DOMAIN a.alive THEN Promote(a, f)
  ELSE IF page \in DOMAIN a.ghost THEN Resurrect(a, f, page)
  ELSE Enter(a, f, page)

(***************************************************************************)
(* set_evictable and remove                                                *)
(***************************************************************************)
(* Mutant: a repeated call counts again. *)
CountEveryCall(a, f, e) ==
  IF f \notin DOMAIN a.alive THEN a
  ELSE [a EXCEPT !.alive[f].evictable = e,
                 !.size = IF e THEN @ + 1 ELSE IF @ = 0 THEN 0 ELSE @ - 1]

SetEvictable(a, f, e) ==
  IF f \notin DOMAIN a.alive \/ a.alive[f].evictable = e THEN a
  ELSE [a EXCEPT !.alive[f].evictable = e,
                 !.size = IF e THEN @ + 1 ELSE @ - 1]

(* TURTLE_ENSURE in remove() terminates the process. *)
RemoveTerminates(a, f) == f \in DOMAIN a.alive /\ ~a.alive[f].evictable

Removed(a, f) ==
  IF f \notin DOMAIN a.alive THEN a
  ELSE [a EXCEPT !.mru = IF a.alive[f].list = MRU THEN Without(@, f) ELSE @,
                 !.mfu = IF a.alive[f].list = MFU THEN Without(@, f) ELSE @,
                 !.alive = Erase(@, f),
                 !.size = @ - 1]

(* What fetch_page and new_page do to a frame they hand out. *)
AccessPinned(a, f, page) == SetEvictable(RecordAccess(a, f, page), f, FALSE)

-----------------------------------------------------------------------------
(* The four lists and the two maps agree: every live frame is on the list  *)
(* its status names, once, every remembered page is on the ghost list its  *)
(* status names, once, and no page is both live and a ghost.               *)
ListsMatchMaps(a) ==
  /\ \A s \in {a.mru, a.mfu, a.mruGhost, a.mfuGhost} : IsInjective(s)
  /\ ToSet(a.mru) = {f \in DOMAIN a.alive : a.alive[f].list = MRU}
  /\ ToSet(a.mfu) = {f \in DOMAIN a.alive : a.alive[f].list = MFU}
  /\ ToSet(a.mruGhost) = {p \in DOMAIN a.ghost : a.ghost[p] = MRU}
  /\ ToSet(a.mfuGhost) = {p \in DOMAIN a.ghost : a.ghost[p] = MFU}
  /\ \A f \in DOMAIN a.alive : a.alive[f].page \notin DOMAIN a.ghost

(* curr_size_ counts the evictable frames, so evict() gives up only when   *)
(* there are none, and finds a victim otherwise.                           *)
VictimFound(a) ==
  /\ a.size = Cardinality(Evictable(a))
  /\ a.size > 0 => Victim(a) # NoFrame /\ a.alive[Victim(a)].evictable

(* The bounds of ARC: recency with its ghosts never exceeds the capacity,  *)
(* all the metadata never exceeds twice the capacity.                      *)
Bounded(a) ==
  /\ Len(a.mru) + Len(a.mruGhost) <= Capacity
  /\ Len(a.mru) + Len(a.mfu) + Len(a.mruGhost) + Len(a.mfuGhost)
       <= 2 * Capacity
=============================================================================
