------------------------------ MODULE PageStore ------------------------------
(***************************************************************************)
(* What the buffer pool promises its clients, with no frames, no pins and  *)
(* no replacer: a page has one current content, which only the holder of   *)
(* its write guard changes, and a content that has reached the disk.       *)
(* Moving pages between memory and disk is invisible, and never replaces   *)
(* what is on disk by anything but the page's current content.             *)
(***************************************************************************)
EXTENDS FiniteSets

CONSTANTS Keys, Deletable, Images, Guards, Zero, Absent, NoKey

VARIABLES
  content,  \* content[k]: what a guard of page k reads
  durable,  \* durable[k]: what the disk holds, Absent before new_page
  held      \* held[g]: the page g has latched, and how

storeVars == <<content, durable, held>>

Free == [key |-> NoKey, write |-> FALSE]

Init ==
  /\ content = [k \in Keys |-> Absent]
  /\ durable = [k \in Keys |-> Absent]
  /\ held = [g \in Guards |-> Free]

Holders(k) == {g \in Guards : held[g].key = k}

(* The disk after the current contents of the pages in S were written. *)
Written(S) == [k \in Keys |-> IF k \in S THEN content[k] ELSE durable[k]]

Acquire(g, k, w) ==
  /\ held[g] = Free
  /\ content[k] # Absent
  /\ \A h \in Holders(k) : ~w /\ ~held[h].write
  /\ held' = [held EXCEPT ![g] = [key |-> k, write |-> w]]
  /\ UNCHANGED <<content, durable>>

Write(g, image) ==
  /\ held[g].write
  /\ content' = [content EXCEPT ![held[g].key] = image]
  /\ UNCHANGED <<durable, held>>

ReleaseLatch(g) ==
  /\ held[g] # Free
  /\ held' = [held EXCEPT ![g] = Free]
  /\ UNCHANGED <<content, durable>>

(* A page comes into being, all zero, and is reserved on disk or not yet;  *)
(* pages S reach the disk on the way.                                      *)
Create(k, S) ==
  /\ content[k] = Absent /\ durable[k] = Absent
  /\ content' = [content EXCEPT ![k] = Zero]
  /\ \/ durable' = [Written(S) EXCEPT ![k] = Zero]
     \/ durable' = Written(S)
  /\ UNCHANGED held

Sync(S) ==
  /\ durable' = Written(S)
  /\ UNCHANGED <<content, held>>

(* delete_page discards what has not reached the disk; nobody may hold the *)
(* page. No other page ever goes back to an older content.                 *)
Discard(k) ==
  /\ Holders(k) = {}
  /\ content' = [content EXCEPT ![k] = durable[k]]
  /\ UNCHANGED <<durable, held>>

Next ==
  \/ \E g \in Guards :
       \/ \E k \in Keys, w \in BOOLEAN : Acquire(g, k, w)
       \/ \E image \in Images : Write(g, image)
       \/ ReleaseLatch(g)
  \/ \E S \in SUBSET Keys :
       \/ \E k \in Keys : Create(k, S)
       \/ Sync(S)
  \/ \E k \in Deletable : Discard(k)

Spec == Init /\ [][Next]_storeVars
=============================================================================
