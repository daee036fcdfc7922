-------------------------- MODULE StatementsProofs --------------------------
(***************************************************************************)
(* Proofs about Statements and the table heap under it, for every layout   *)
(* of a page, every number of pages, every batch size, every list of       *)
(* tuples that is inserted and every WHERE and SET clause.                 *)
(*                                                                         *)
(* The invariant has two halves.  Heap: the pages form one chain in the    *)
(* order in which they were allocated, none holds more than fits, and      *)
(* free_space_map_ is right.  StatementInv: every row that the WHERE       *)
(* clause selects is in exactly one of the places it can be on its way     *)
(* through the operators, and what the table holds is what it held before, *)
(* less what was removed, and what was added.                              *)
(***************************************************************************)
EXTENDS Statements, FiniteSetTheorems, SequenceTheorems, WellFoundedInduction, TLAPS

-----------------------------------------------------------------------------
(***************************************************************************)
(* Induction over a set of numbers, which first-order provers can use in   *)
(* place of a predicate.                                                   *)
(***************************************************************************)
LEMMA NatMinimum ==
  ASSUME NEW T \in SUBSET Nat, T # {}
  PROVE  \E m \in T : \A k \in T : m <= k
<1>1. PICK m \in T : \A k \in T : <<k, m>> \notin OpToRel(<, Nat)
  <2>1. IsWellFoundedOn(OpToRel(<, Nat), Nat)
    BY NatLessThanWellFounded
  <2> QED
    BY <2>1, WFMin
<1>2. ASSUME NEW k \in T, k < m PROVE FALSE
  <2>1. PICK p \in Nat \X Nat : p = <<k, m>>
    OBVIOUS
  <2>2. p[1] = k /\ p[2] = m
    BY <2>1
  <2>3. p \in OpToRel(<, Nat)
    BY <1>2, <2>2 DEF OpToRel
  <2> QED
    BY <1>1, <2>1, <2>3
<1> QED
  BY <1>2

LEMMA UpToInduction ==
  ASSUME NEW n \in Nat, NEW S, 0 \in S,
         \A m \in 1 .. n : m - 1 \in S => m \in S
  PROVE  0 .. n \subseteq S
<1> SUFFICES ASSUME (0 .. n) \ S # {}
             PROVE  FALSE
  OBVIOUS
<1>1. PICK m \in (0 .. n) \ S : \A k \in (0 .. n) \ S : m <= k
  <2>1. (0 .. n) \ S \in SUBSET Nat
    OBVIOUS
  <2> QED
    BY <2>1, NatMinimum
<1>2. m \in 1 .. n /\ m - 1 \notin (0 .. n) \ S
  BY <1>1
<1>3. m - 1 \in S
  BY <1>2
<1> QED
  BY <1>1, <1>2, <1>3

-----------------------------------------------------------------------------
(* The running sum of w from c on, as a recursive function. *)
IsSum(s, c, w, n) == s = [i \in 0 .. n |-> IF i = 0 THEN c ELSE s[i - 1] + w[i]]

LEMMA SumExists ==
  ASSUME NEW n \in Nat, NEW c \in Int, NEW w \in [1 .. n -> Int]
  PROVE  \E s \in [0 .. n -> Int] : IsSum(s, c, w, n)
<1> DEFINE Some(m) == \E s \in [0 .. m -> Int] : IsSum(s, c, w, m)
           S == {m \in 0 .. n : Some(m)}
<1>1. Some(0)
  <2> DEFINE s == [i \in 0 .. 0 |-> c]
  <2>1. s \in [0 .. 0 -> Int] /\ IsSum(s, c, w, 0)
    BY DEF IsSum
  <2> QED
    BY <2>1
<1>2. ASSUME NEW m \in 1 .. n, Some(m - 1) PROVE Some(m)
  <2>1. PICK s \in [0 .. (m - 1) -> Int] : IsSum(s, c, w, m - 1)
    BY <1>2
  <2> DEFINE t == [i \in 0 .. m |-> IF i = m THEN s[m - 1] + w[m] ELSE s[i]]
  <2>2. t \in [0 .. m -> Int]
    BY <2>1
  <2>3. ASSUME NEW i \in 0 .. m
        PROVE  t[i] = IF i = 0 THEN c ELSE t[i - 1] + w[i]
    <3>1. CASE i = m
      BY <3>1
    <3>2. CASE i # m
      <4>1. s[i] = IF i = 0 THEN c ELSE s[i - 1] + w[i]
        BY <3>2, <2>1 DEF IsSum
      <4> QED
        BY <3>2, <4>1
    <3> QED
      BY <3>1, <3>2
  <2>4. IsSum(t, c, w, m)
    <3> HIDE DEF t
    <3> QED
      BY <2>2, <2>3 DEF IsSum
  <2> QED
    BY <2>2, <2>4
<1>3. 0 .. n \subseteq S
  <2> HIDE DEF Some
  <2>1. 0 \in S
    BY <1>1
  <2>2. \A m \in 1 .. n : m - 1 \in S => m \in S
    BY <1>2
  <2> HIDE DEF S
  <2> QED
    BY <2>1, <2>2, UpToInduction
<1> QED
  BY <1>3

(* What such a function computes: it starts at c and adds w[i] at i.       *)
Accumulates(s, w, n) == \A i \in 1 .. n : s[i] = s[i - 1] + w[i]

LEMMA SumFacts ==
  ASSUME NEW n \in Nat, NEW c \in Int, NEW w \in [1 .. n -> Int],
         NEW s, IsSum(s, c, w, n)
  PROVE  /\ s \in [0 .. n -> Int]
         /\ s[0] = c
         /\ Accumulates(s, w, n)
<1>1. /\ s[0] = c /\ DOMAIN s = 0 .. n
      /\ Accumulates(s, w, n)
  BY DEF IsSum, Accumulates
<1> DEFINE S == {i \in 0 .. n : s[i] \in Int}
<1>2. 0 \in S
  BY <1>1
<1>3. ASSUME NEW i \in 1 .. n, i - 1 \in S PROVE i \in S
  BY <1>1, <1>3 DEF Accumulates
<1>4. 0 .. n \subseteq S
  <2> HIDE DEF S
  <2> QED
    BY <1>2, <1>3, UpToInduction
<1>5. s = [i \in 0 .. n |-> s[i]]
  BY DEF IsSum
<1> QED
  BY <1>1, <1>4, <1>5

(* Sums of weights that differ at j only: what comes after j is shifted.   *)
Shifted(t, v, s, w, n, j) ==
  \A i \in 0 .. n : t[i] = IF j \in 1 .. i THEN s[i] + v[j] - w[j] ELSE s[i]

LEMMA SumShift ==
  ASSUME NEW n \in Nat, NEW m \in Nat, n <= m, NEW c \in Int,
         NEW w \in [1 .. n -> Int], NEW s, IsSum(s, c, w, n),
         NEW v \in [1 .. m -> Int], NEW t, IsSum(t, c, v, m),
         NEW j \in Nat, \A i \in 1 .. n : i # j => v[i] = w[i]
  PROVE  Shifted(t, v, s, w, n, j)
<1>1. /\ s \in [0 .. n -> Int] /\ s[0] = c
      /\ Accumulates(s, w, n)
  BY SumFacts
<1>2. /\ t \in [0 .. m -> Int] /\ t[0] = c
      /\ Accumulates(t, v, m)
  BY SMTT(30), SumFacts
<1> DEFINE S == {i \in 0 .. n :
                   t[i] = IF j \in 1 .. i THEN s[i] + v[j] - w[j] ELSE s[i]}
<1>3. 0 \in S
  BY <1>1, <1>2
<1>4. ASSUME NEW i \in 1 .. n, i - 1 \in S PROVE i \in S
  <2>1. s[i] = s[i - 1] + w[i] /\ t[i] = t[i - 1] + v[i]
    BY <1>1, <1>2 DEF Accumulates
  <2>2. /\ s[i - 1] \in Int /\ w[i] \in Int /\ v[i] \in Int
        /\ t[i - 1] = IF j \in 1 .. (i - 1) THEN s[i - 1] + v[j] - w[j]
                                            ELSE s[i - 1]
    BY <1>1, <1>4
  <2>3. CASE j = i
    BY <2>1, <2>2, <2>3
  <2>4. CASE j # i /\ j \in 1 .. (i - 1)
    <3>1. w[j] \in Int /\ v[j] \in Int /\ v[i] = w[i]
      BY <2>4
    <3> QED
      BY <2>1, <2>2, <2>4, <3>1
  <2>5. CASE j # i /\ j \notin 1 .. (i - 1)
    BY <2>1, <2>2, <2>5
  <2> QED
    BY <2>3, <2>4, <2>5
<1>5. 0 .. n \subseteq S
  <2> HIDE DEF S
  <2> QED
    BY <1>3, <1>4, UpToInduction
<1> QED
  BY <1>5 DEF Shifted

-----------------------------------------------------------------------------
Rid == [page : PageIds \cup {NoPage}, slot : Nat \ {0}]

(***************************************************************************)
(* The table.  Page ids are handed out in order, so the chain is 0, 1, ... *)
(***************************************************************************)
Shaped(h) ==
  h = [page |-> h.page, first |-> h.first, last |-> h.last,
       freeSpace |-> h.freeSpace, nextPage |-> h.nextPage]

Linear(h) ==
  /\ h.first = 0 /\ h.last \in PageIds /\ h.nextPage = h.last + 1
  /\ DOMAIN h.page = 0 .. h.last
  /\ \A p \in 0 .. h.last :
       /\ h.page[p] \in Page
       /\ h.page[p].next = IF p = h.last THEN NoPage ELSE p + 1

(* No page holds more than fits into it. *)
Fitting(h) == \A p \in 0 .. h.last : On(Rows(h, p))!Used <= PageSize

Mapped(h) == DOMAIN h.freeSpace \subseteq 0 .. h.last /\ TrueFreeSpace(h)

Heap(h) == Shaped(h) /\ Linear(h) /\ Fitting(h) /\ Mapped(h)

(* The slots of the table, and those with a tuple. *)
IsSlot(h, r) ==
  /\ r \in Rid /\ r.page \in 0 .. h.last
  /\ r.slot \in DOMAIN Rows(h, r.page)

(***************************************************************************)
(* The statement s and the ghost g, on the table h.                        *)
(***************************************************************************)
Typed(s) ==
  /\ s \in [kind : Kinds, pc : States, where : SUBSET Tuples, iter : Row,
            child : Seq(Row), out : Seq(Row), count : Nat]
  /\ \A row \in ToSet(s.child) \cup ToSet(s.out) : row.tuple \in Tuples
  /\ s.pc = "apply" => s.out # <<>>

GhostTyped(h, g) ==
  /\ g = [start |-> g.start, seen |-> g.seen, removed |-> g.removed,
          added |-> g.added]
  /\ g.seen \in Seq(Rid) /\ g.added \in Seq(Tuples)
  /\ IsFiniteSet(DOMAIN g.start)
  /\ \A r \in DOMAIN g.start : IsSlot(h, r) /\ g.start[r] \in Tuples

(* TableHoldsWhatWasStored, with names for what it counts. *)
Holding(h, t) == {r \in LiveRids(h) : ReadAt(h, r) = t}
Kept(start, removed) == DOMAIN start \ removed
StillHeld(start, removed, t) == {r \in Kept(start, removed) : start[r] = t}
AddedAt(added, t) == {i \in DOMAIN added : added[i] = t}

Unharmed(h, start, removed) ==
  \A r \in Kept(start, removed) : r \in LiveRids(h) /\ ReadAt(h, r) = start[r]

Counted(h, start, removed, added) ==
  \A t \in Tuples :
    Cardinality(Holding(h, t)) = Cardinality(StillHeld(start, removed, t))
                                 + Cardinality(AddedAt(added, t))

Balanced(h, g) ==
  Unharmed(h, g.start, g.removed) /\ Counted(h, g.start, g.removed, g.added)

Rids(rows) == {row.rid : row \in ToSet(rows)}
Distinct(rows) == \A i, j \in DOMAIN rows : rows[i].rid = rows[j].rid => i = j

(* The rows from a slot of page p on, in the order of the scan. *)
From(h, p, slot) ==
  {r \in LiveRids(h) : \/ r.page = p /\ r.slot >= slot
                       \/ r.page > p}

(* The rows that a scan has yet to reach, the iterator's own among them. *)
Onward(h, iter) ==
  IF iter = AtEnd THEN {} ELSE From(h, iter.rid.page, iter.rid.slot)

Scanning(s) == s.kind \in {"delete", "update"}

Matches(start, where) == {r \in DOMAIN start : start[r] \in where}

(* Rows of the table as it was when the statement began, each once. *)
Copies(rows, start) ==
  /\ Distinct(rows)
  /\ \A row \in ToSet(rows) :
       row.rid \in DOMAIN start /\ row.tuple = start[row.rid]

NothingTwice(start, where, seen, removed) ==
  /\ IsInjective(seen)
  /\ ToSet(seen) \subseteq Matches(start, where)
  /\ removed \subseteq ToSet(seen)

(* Every matching row is seen, in a batch, or ahead of the scan. *)
Underway(start, where, seen, out, child, ahead) ==
  /\ Copies(child, start) /\ Copies(out, start)
  /\ \A row \in ToSet(out) : row.tuple \in where
  /\ Rids(out) \cap (ToSet(seen) \cup Rids(child) \cup ahead) = {}
  /\ Rids(child) \cap (ToSet(seen) \cup ahead) = {}
  /\ ToSet(seen) \cap ahead = {}
  /\ Matches(start, where) \subseteq
       ToSet(seen) \cup Rids(out) \cup Rids(child) \cup ahead

(* While a scan has rows ahead, the table has lost rows at most; the        *)
(* iterator stands on one that is still there.                             *)
ScanIsTrue(h, iter, start) ==
  iter # AtEnd =>
    /\ iter.rid \in LiveRids(h)
    /\ iter.tuple = ReadAt(h, iter.rid)
    /\ \A r \in LiveRids(h) : r \in DOMAIN start /\ ReadAt(h, r) = start[r]

(* What DELETE and UPDATE maintain, and INSERT. *)
ScanInv(h, s, g) ==
  /\ ScanIsTrue(h, s.iter, g.start)
  /\ NothingTwice(g.start, s.where, g.seen, g.removed)
  /\ s.pc # "terminated" =>
       Underway(g.start, s.where, g.seen, s.out, s.child, Onward(h, s.iter))
  /\ s.kind = "update" /\ s.pc = "apply" => s.child = <<>> /\ s.iter = AtEnd

InsertInv(s, g) == s.iter = AtEnd /\ g.removed = {}

StatementInv(h, s, g) ==
  /\ Typed(s) /\ GhostTyped(h, g) /\ Balanced(h, g)
  /\ s.pc = "done" => s = Idle /\ g = Untouched(h)
  /\ Scanning(s) => ScanInv(h, s, g)
  /\ ~Scanning(s) => InsertInv(s, g)

IInv == Heap(heap) /\ StatementInv(heap, stmt, ghost)

-----------------------------------------------------------------------------
(***************************************************************************)
(* Sizes, sequences and the least number of a set.                         *)
(***************************************************************************)
LEMMA Sizes ==
  /\ PageSize \in Nat /\ HeaderSize \in Nat /\ SlotSize \in Nat
  /\ HeaderSize <= PageSize
  /\ \A t \in Tuples : Size[t] \in Nat /\ Size[t] > 0
  /\ \A t \in Tuples : HeaderSize + SlotSize + Size[t] <= PageSize
  /\ MaxPages \in Nat /\ MaxPages > 0
  /\ Empty \notin Tuples
BY HeapAssumption

LEMMA FunIsSeq ==
  ASSUME NEW S, NEW n \in Nat, NEW f \in [1 .. n -> S]
  PROVE  f \in Seq(S) /\ Len(f) = n
OBVIOUS

LEMMA MinIs ==
  ASSUME NEW S \in SUBSET Nat, S # {}, NEW m, m = Min(S)
  PROVE  m \in S /\ \A x \in S : m <= x
<1>1. \E y \in S : \A x \in S : y <= x
  BY NatMinimum
<1> QED
  BY <1>1 DEF Min

-----------------------------------------------------------------------------
(***************************************************************************)
(* The space the rows of a page take.                                      *)
(***************************************************************************)
PageRows == Seq(Tuples \cup {Empty})

Weights(rows) ==
  [i \in 1 .. Len(rows) |-> IF rows[i] = Empty THEN 0 ELSE Size[rows[i]]]

LEMMA RowFacts ==
  ASSUME NEW rows \in PageRows
  PROVE  /\ Len(rows) \in Nat /\ DOMAIN rows = 1 .. Len(rows)
         /\ \A i \in 1 .. Len(rows) : rows[i] \in Tuples \cup {Empty}
         /\ rows = [i \in 1 .. Len(rows) |-> rows[i]]
         /\ Weights(rows) \in [1 .. Len(rows) -> Int]
         /\ \A i \in 1 .. Len(rows) :
              /\ Weights(rows)[i] >= 0
              /\ rows[i] = Empty => Weights(rows)[i] = 0
              /\ rows[i] # Empty => Weights(rows)[i] = Size[rows[i]]
<1>1. Len(rows) \in Nat /\ DOMAIN rows = 1 .. Len(rows)
  BY DEF PageRows
<1>2. \A i \in 1 .. Len(rows) : rows[i] \in Tuples \cup {Empty}
  BY DEF PageRows
<1>3. \A i \in 1 .. Len(rows) :
         (IF rows[i] = Empty THEN 0 ELSE Size[rows[i]]) \in Nat
  BY <1>2, Sizes
<1>4. rows = [i \in 1 .. Len(rows) |-> rows[i]]
  BY <1>1 DEF PageRows
<1>5. \A i \in 1 .. Len(rows) :
         Weights(rows)[i] = IF rows[i] = Empty THEN 0 ELSE Size[rows[i]]
  BY DEF Weights
<1>6. Weights(rows) \in [1 .. Len(rows) -> Int]
  BY <1>3 DEF Weights
<1> QED
  BY <1>1, <1>2, <1>3, <1>4, <1>5, <1>6

LEMMA StoredIs ==
  ASSUME NEW rows \in PageRows, NEW s, s = On(rows)!Stored
  PROVE  IsSum(s, 0, Weights(rows), Len(rows))
<1> PICK n : n = Len(rows)
  OBVIOUS
<1> PICK w : w = Weights(rows)
  OBVIOUS
<1> DEFINE Good(f) == f = [i \in 0 .. n |->
                             IF i = 0 THEN 0
                             ELSE f[i - 1] + (IF rows[i] = Empty THEN 0
                                              ELSE Size[rows[i]])]
<1>1. /\ n \in Nat /\ w \in [1 .. n -> Int] /\ 0 \in Int
      /\ \A i \in 1 .. n :
           (IF rows[i] = Empty THEN 0 ELSE Size[rows[i]]) = w[i]
  BY RowFacts
<1>2. PICK f \in [0 .. n -> Int] : IsSum(f, 0, w, n)
  BY <1>1, SumExists
<1>3. f[0] = 0 /\ Accumulates(f, w, n)
  BY <1>1, <1>2, SumFacts
<1>4. Good(f)
  BY <1>1, <1>2, <1>3 DEF Accumulates
<1>5. Good(s)
  BY <1>4 DEF On!Stored
<1>6. \A i \in 0 .. n : s[i] = IF i = 0 THEN 0 ELSE s[i - 1] + w[i]
  <2>1. ASSUME NEW i \in 0 .. n, i # 0 PROVE s[i] = s[i - 1] + w[i]
    <3>1. i \in 1 .. n
      BY <1>1, <2>1
    <3>2. PICK x : x = IF rows[i] = Empty THEN 0 ELSE Size[rows[i]]
      OBVIOUS
    <3>3. x = w[i]
      BY <1>1, <3>1, <3>2
    <3>4. s[i] = s[i - 1] + x
      BY <1>5, <2>1, <3>2
    <3> QED
      BY <3>3, <3>4
  <2>2. s[0] = 0
    BY <1>1, <1>5
  <2> QED
    BY <2>1, <2>2
<1>7. s = [i \in 0 .. n |-> s[i]]
  BY <1>5
<1> QED
  BY <1>6, <1>7 DEF IsSum

LEMMA SumIsNat ==
  ASSUME NEW n \in Nat, NEW w \in [1 .. n -> Int], \A i \in 1 .. n : w[i] >= 0,
         NEW s, IsSum(s, 0, w, n)
  PROVE  s[n] \in Nat
<1>0. 0 \in Int
  OBVIOUS
<1>1. s \in [0 .. n -> Int] /\ s[0] = 0 /\ Accumulates(s, w, n)
  BY <1>0, SumFacts
<1> DEFINE S == {i \in 0 .. n : s[i] \in Nat}
<1>2. 0 \in S
  BY <1>1
<1>3. ASSUME NEW i \in 1 .. n, i - 1 \in S PROVE i \in S
  <2>1. s[i] = s[i - 1] + w[i] /\ s[i - 1] \in Nat
    BY <1>1, <1>3 DEF Accumulates
  <2> QED
    BY <2>1
<1>4. 0 .. n \subseteq S
  <2> HIDE DEF S
  <2> QED
    BY <1>2, <1>3, UpToInduction
<1> QED
  BY <1>4

LEMMA UsedIs ==
  ASSUME NEW rows \in PageRows
  PROVE  /\ On(rows)!Used
              = HeaderSize + SlotSize * Len(rows) + On(rows)!Stored[Len(rows)]
         /\ On(rows)!Stored[Len(rows)] \in Nat
         /\ On(rows)!Used \in Nat
<1> PICK n, w, s : n = Len(rows) /\ w = Weights(rows) /\ s = On(rows)!Stored
  OBVIOUS
<1>1. n \in Nat /\ w \in [1 .. n -> Int] /\ \A i \in 1 .. n : w[i] >= 0
  BY RowFacts
<1>2. s[n] \in Nat
  BY <1>1, StoredIs, SumIsNat
<1>3. SlotSize * n \in Nat
  BY <1>1, Sizes
<1>4. On(rows)!Used = HeaderSize + SlotSize * n + s[n]
  BY DEF On!Used
<1> QED
  BY <1>2, <1>3, <1>4, Sizes

LEMMA UsedEmpty == <<>> \in PageRows /\ On(<<>>)!Used = HeaderSize
<1> PICK rows : rows = <<>>
  OBVIOUS
<1>1. rows \in PageRows /\ Len(rows) = 0
  BY DEF PageRows
<1> PICK s, w : s = On(rows)!Stored /\ w = Weights(rows)
  OBVIOUS
<1>2. IsSum(s, 0, w, 0)
  BY <1>1, StoredIs
<1>3. s[0] = 0
  BY <1>2 DEF IsSum
<1>4. On(rows)!Used = HeaderSize + SlotSize * 0 + s[0]
  BY <1>1, UsedIs
<1> QED
  BY <1>1, <1>3, <1>4, Sizes

LEMMA UsedAfterDelete ==
  ASSUME NEW rows \in PageRows, NEW i \in DOMAIN rows,
         NEW new, new = [rows EXCEPT ![i] = Empty]
  PROVE  /\ new \in PageRows /\ Len(new) = Len(rows)
         /\ On(new)!Used <= On(rows)!Used
<1> PICK n : n = Len(rows)
  OBVIOUS
<1>1. n \in Nat /\ DOMAIN rows = 1 .. n
      /\ \A j \in 1 .. n : rows[j] \in Tuples \cup {Empty}
  BY RowFacts
<1>2. /\ new \in [1 .. n -> Tuples \cup {Empty}]
      /\ new[i] = Empty /\ \A j \in 1 .. n : j # i => new[j] = rows[j]
  BY <1>1, RowFacts
<1>3. new \in PageRows /\ Len(new) = n
  BY <1>1, <1>2, FunIsSeq DEF PageRows
<1> PICK w, v : w = Weights(rows) /\ v = Weights(new)
  OBVIOUS
<1> PICK s, t : s = On(rows)!Stored /\ t = On(new)!Stored
  OBVIOUS
<1>4. /\ w \in [1 .. n -> Int] /\ v \in [1 .. n -> Int]
      /\ i \in Nat /\ i \in 1 .. n
      /\ w[i] >= 0 /\ w[i] \in Int /\ v[i] = 0
  <2>1. w \in [1 .. n -> Int] /\ \A j \in 1 .. n : w[j] >= 0
    BY RowFacts
  <2>2. v \in [1 .. n -> Int] /\ \A j \in 1 .. n : new[j] = Empty => v[j] = 0
    BY <1>3, RowFacts
  <2>3. i \in 1 .. n /\ new[i] = Empty
    BY <1>1, <1>2
  <2>4. i \in Nat
    BY <1>1, <2>3
  <2>5. v[i] = 0
    BY <2>2, <2>3
  <2>6. w[i] \in Int /\ w[i] >= 0
    BY <2>1, <2>3
  <2> QED
    BY <2>1, <2>2, <2>3, <2>4, <2>5, <2>6
<1>4a. \A j \in 1 .. n : j # i => v[j] = w[j]
  BY <1>2, <1>3 DEF Weights
<1>5. IsSum(s, 0, w, n) /\ IsSum(t, 0, v, n)
  BY <1>3, StoredIs
<1>6. Shifted(t, v, s, w, n, i)
  <2>1. n <= n /\ 0 \in Int
    BY <1>1
  <2> QED
    BY <1>1, <1>4, <1>4a, <1>5, <2>1, SumShift
<1>7. t[n] = s[n] + v[i] - w[i]
  <2>1. n \in 0 .. n
    BY <1>1
  <2> QED
    BY <1>4, <1>6, <2>1 DEF Shifted
<1>8. PICK a, b, x, y : a = s[n] /\ b = t[n] /\ x = w[i] /\ y = SlotSize * n
  OBVIOUS
<1>9. a \in Nat /\ b \in Nat /\ x \in Nat /\ y \in Nat /\ b = a + 0 - x
  <2>1. a \in Nat /\ b \in Nat
    BY <1>3, <1>8, UsedIs
  <2>2. y \in Nat
    BY <1>1, <1>8, Sizes
  <2> QED
    BY <1>4, <1>7, <1>8, <2>1, <2>2
<1>10. On(rows)!Used = HeaderSize + y + a /\ On(new)!Used = HeaderSize + y + b
  BY <1>3, <1>8, UsedIs
<1> QED
  BY <1>3, <1>9, <1>10, Sizes

LEMMA NextSlotIs ==
  ASSUME NEW rows \in PageRows, NEW slot, slot = On(rows)!NextSlot
  PROVE  \/ /\ slot \in 1 .. Len(rows) /\ rows[slot] = Empty
            /\ On(rows)!EmptySlots # {}
         \/ slot = Len(rows) + 1 /\ On(rows)!EmptySlots = {}
<1> PICK E : E = On(rows)!EmptySlots
  OBVIOUS
<1>1. E = {i \in 1 .. Len(rows) : rows[i] = Empty} /\ E \in SUBSET Nat
  BY RowFacts DEF On!EmptySlots, On!Slots
<1>2. CASE E # {}
  <2>1. \E y \in E : \A x \in E : y <= x
    BY <1>1, <1>2, NatMinimum
  <2>2. slot = CHOOSE x \in E : \A y \in E : x <= y
    BY <1>2 DEF On!NextSlot, On!Min
  <2>3. slot \in E
    BY <2>1, <2>2
  <2> QED
    BY <1>1, <1>2, <2>3
<1>3. CASE E = {}
  BY <1>3 DEF On!NextSlot
<1> QED
  BY <1>2, <1>3

(* What WithTuple does to the rows of a page. *)
Placed(new, rows, slot, t) ==
  /\ DOMAIN new = DOMAIN rows \cup {slot} /\ new[slot] = t
  /\ \A j \in DOMAIN rows : j # slot => new[j] = rows[j]
  /\ slot \in DOMAIN rows => rows[slot] = Empty

LEMMA RowsAfterInsert ==
  ASSUME NEW rows \in PageRows, NEW t \in Tuples,
         NEW new, new = WithTuple(rows, t), NEW slot, slot = On(rows)!NextSlot
  PROVE  new \in PageRows /\ slot \in Nat \ {0} /\ Placed(new, rows, slot, t)
<1> PICK n : n = Len(rows)
  OBVIOUS
<1>1. n \in Nat /\ DOMAIN rows = 1 .. n
      /\ \A j \in 1 .. n : rows[j] \in Tuples \cup {Empty}
  BY RowFacts
<1>2. \/ slot \in 1 .. n /\ rows[slot] = Empty
      \/ slot = n + 1
  BY NextSlotIs
<1> PICK m : m = IF slot = n + 1 THEN n + 1 ELSE n
  OBVIOUS
<1>3. m \in Nat /\ 1 .. n \cup {slot} = 1 .. m /\ slot \in Nat \ {0}
  BY <1>1, <1>2
<1>4. new = [s \in 1 .. m |-> IF s = slot THEN t ELSE rows[s]]
  BY <1>1, <1>3 DEF WithTuple
<1>5. \A s \in 1 .. m : s # slot => s \in 1 .. n
  BY <1>1, <1>2, <1>3
<1>6. new \in [1 .. m -> Tuples \cup {Empty}]
  BY <1>1, <1>4, <1>5
<1>7. new \in PageRows /\ DOMAIN new = 1 .. m
  BY <1>3, <1>6, FunIsSeq DEF PageRows
<1>8. new[slot] = t
  BY <1>3, <1>4
<1>9. \A j \in 1 .. n : j # slot => new[j] = rows[j]
  BY <1>3, <1>4
<1>10. slot \in 1 .. n => rows[slot] = Empty
  BY <1>1, <1>2
<1> QED
  BY <1>1, <1>3, <1>7, <1>8, <1>9, <1>10 DEF Placed

LEMMA UsedAfterInsert ==
  ASSUME NEW rows \in PageRows, NEW t \in Tuples, On(rows)!HasRoom(t),
         NEW new, new = WithTuple(rows, t)
  PROVE  On(new)!Used <= PageSize
<1> PICK slot, n, m : slot = On(rows)!NextSlot /\ n = Len(rows) /\ m = Len(new)
  OBVIOUS
<1>1. new \in PageRows /\ DOMAIN new = DOMAIN rows \cup {slot}
      /\ slot \in Nat \ {0} /\ new[slot] = t
      /\ \A j \in DOMAIN rows : j # slot => new[j] = rows[j]
  <2>1. slot = On(rows)!NextSlot
    OBVIOUS
  <2>2. new \in PageRows /\ slot \in Nat \ {0} /\ Placed(new, rows, slot, t)
    BY <2>1, RowsAfterInsert
  <2> QED
    BY <2>2 DEF Placed
<1>2. n \in Nat /\ m \in Nat /\ DOMAIN rows = 1 .. n /\ DOMAIN new = 1 .. m
  BY <1>1, RowFacts
<1>3. \/ slot \in 1 .. n /\ rows[slot] = Empty /\ On(rows)!EmptySlots # {}
      \/ slot = n + 1 /\ On(rows)!EmptySlots = {}
  BY NextSlotIs
<1>4. \/ slot \in 1 .. n /\ m = n
      \/ slot = n + 1 /\ m = n + 1
  <2>1. 1 .. m = 1 .. n \cup {slot}
    BY <1>1, <1>2
  <2>2. CASE slot \in 1 .. n
    <3>1. 1 .. m = 1 .. n
      BY <2>1, <2>2
    <3>2. ~(m < n) /\ ~(n < m)
      BY <1>2, <3>1
    <3> QED
      BY <1>2, <2>2, <3>2
  <2>3. CASE slot = n + 1
    <3>1. 1 .. m = 1 .. (n + 1)
      BY <1>2, <2>1, <2>3
    <3>2. ~(m < n + 1) /\ ~(n + 1 < m)
      BY <1>2, <3>1
    <3> QED
      BY <1>2, <2>3, <3>2
  <2> QED
    BY <1>3, <2>2, <2>3
<1> PICK w, v : w = Weights(rows) /\ v = Weights(new)
  OBVIOUS
<1> PICK s, u : s = On(rows)!Stored /\ u = On(new)!Stored
  OBVIOUS
<1>5. /\ w \in [1 .. n -> Int] /\ v \in [1 .. m -> Int]
      /\ slot \in 1 .. m /\ v[slot] = Size[t]
      /\ slot \in 1 .. n => w[slot] = 0
  <2>1. w \in [1 .. n -> Int] /\ \A i \in 1 .. n : rows[i] = Empty => w[i] = 0
    BY RowFacts
  <2>2. v \in [1 .. m -> Int] /\ \A i \in 1 .. m : new[i] # Empty => v[i] = Size[new[i]]
    BY <1>1, RowFacts
  <2>3. slot \in 1 .. m
    BY <1>2, <1>4
  <2>4. v[slot] = Size[t]
    BY <1>1, <2>2, <2>3, Sizes
  <2>5. slot \in 1 .. n => w[slot] = 0
    BY <1>2, <1>3, <2>1
  <2> QED
    BY <2>1, <2>2, <2>3, <2>4, <2>5
<1>6. \A j \in 1 .. n : j # slot => v[j] = w[j]
  <2>1. \A j \in 1 .. n : j \in 1 .. m
    BY <1>2, <1>4
  <2> QED
    BY <1>1, <1>2, <2>1 DEF Weights
<1>7. IsSum(s, 0, w, n) /\ IsSum(u, 0, v, m)
  BY <1>1, StoredIs
<1>8. Shifted(u, v, s, w, n, slot)
  <2>1. n <= m /\ 0 \in Int /\ slot \in Nat
    BY <1>1, <1>2, <1>4
  <2> QED
    BY <1>2, <1>5, <1>6, <1>7, <2>1, SumShift
<1> PICK a, b, x : a = s[n] /\ b = u[m] /\ x = Size[t]
  OBVIOUS
<1>9. a \in Nat /\ b \in Nat /\ x \in Nat
  BY <1>1, UsedIs, Sizes
<1>10. b = a + x
  <2>1. CASE slot \in 1 .. n /\ m = n
    <3>1. n \in 0 .. n /\ slot \in 1 .. n
      BY <1>2, <2>1
    <3>2. u[n] = s[n] + v[slot] - w[slot]
      BY <3>1, <1>8 DEF Shifted
    <3>3. b = a + x - 0
      BY <1>5, <2>1, <3>2
    <3> QED
      BY <1>9, <3>3
  <2>2. CASE slot = n + 1 /\ m = n + 1
    <3>1. n \in 0 .. n /\ slot \notin 1 .. n
      BY <1>2, <2>2
    <3>2. u[n] = s[n]
      BY <3>1, <1>8 DEF Shifted
    <3>3. Accumulates(u, v, m)
      <4>1. 0 \in Int
        OBVIOUS
      <4> QED
        BY <1>2, <1>5, <1>7, <4>1, SumFacts
    <3>4. m \in 1 .. m /\ m - 1 = n
      BY <1>2, <2>2
    <3>5. u[m] = u[n] + v[m]
      BY <3>3, <3>4 DEF Accumulates
    <3> QED
      BY <1>5, <2>2, <3>2, <3>5
  <2> QED
    BY <1>4, <2>1, <2>2
<1> PICK y, z : y = SlotSize * n /\ z = SlotSize * m
  OBVIOUS
<1>11. On(rows)!Used = HeaderSize + y + a /\ On(new)!Used = HeaderSize + z + b
  BY <1>1, UsedIs
<1>12. y \in Nat /\ z \in Nat /\ (m = n => z = y) /\ (m = n + 1 => z = y + SlotSize)
  <2>1. SlotSize * (n + 1) = SlotSize * n + SlotSize
    BY <1>2, Sizes
  <2> QED
    BY SMTT(30), <1>2, <2>1, Sizes
<1>13. HeaderSize + y + a + x
         + (IF On(rows)!EmptySlots # {} THEN 0 ELSE SlotSize) <= PageSize
  BY <1>11 DEF On!HasRoom
<1>17. PageSize \in Nat /\ HeaderSize \in Nat /\ SlotSize \in Nat
  BY Sizes
<1>14. CASE m = n /\ On(rows)!EmptySlots # {}
  <2>1. HeaderSize + y + a + x + 0 <= PageSize
    BY <1>13, <1>14
  <2>2. On(new)!Used = HeaderSize + y + (a + x)
    BY <1>10, <1>11, <1>12, <1>14
  <2> QED
    BY <1>9, <1>12, <1>17, <2>1, <2>2
<1>15. CASE m = n + 1 /\ On(rows)!EmptySlots = {}
  <2>1. HeaderSize + y + a + x + SlotSize <= PageSize
    BY <1>13, <1>15
  <2>2. On(new)!Used = HeaderSize + (y + SlotSize) + (a + x)
    BY <1>10, <1>11, <1>12, <1>15
  <2> QED
    BY SMTT(30), <1>9, <1>12, <1>17, <2>1, <2>2
<1>16. (m = n /\ On(rows)!EmptySlots # {}) \/ (m = n + 1 /\ On(rows)!EmptySlots = {})
  <2>1. n + 1 \notin 1 .. n
    BY <1>2
  <2>2. n # n + 1
    BY <1>2
  <2> QED
    BY <1>3, <1>4, <2>1, <2>2
<1> QED
  BY <1>14, <1>15, <1>16

LEMMA EmptyHasRoom ==
  ASSUME NEW t \in Tuples
  PROVE  On(<<>>)!HasRoom(t)
<1> PICK rows : rows = <<>>
  OBVIOUS
<1>1. rows \in PageRows /\ On(rows)!Used = HeaderSize /\ DOMAIN rows = {}
  BY UsedEmpty
<1>2. On(rows)!EmptySlots = {}
  BY <1>1 DEF On!EmptySlots, On!Slots
<1>3. HeaderSize + Size[t] + SlotSize <= PageSize
  BY Sizes
<1>4. On(rows)!HasRoom(t)
  BY <1>1, <1>2, <1>3 DEF On!HasRoom
<1> QED
  BY <1>4

-----------------------------------------------------------------------------
(***************************************************************************)
(* The chain of pages.                                                     *)
(***************************************************************************)
(* The pages after p as Chain's recursive function lists them. *)
Links(at, page, p) ==
  at = [i \in 1 .. MaxPages |->
          IF i = 1 THEN p
          ELSE IF at[i - 1] = NoPage THEN NoPage ELSE page[at[i - 1]].next]

Run(p, n) == [i \in 1 .. MaxPages |-> IF i <= n THEN p + i - 1 ELSE NoPage]

LEMMA LinksAreUnique ==
  ASSUME NEW page, NEW p, NEW a, Links(a, page, p), NEW b, Links(b, page, p)
  PROVE  a = b
<1> DEFINE S == {i \in 0 .. MaxPages : i = 0 \/ a[i] = b[i]}
<1>1. 0 \in S
  BY Sizes
<1>2. ASSUME NEW i \in 1 .. MaxPages, i - 1 \in S PROVE i \in S
  <2>1. CASE i = 1
    BY <2>1, Sizes DEF Links
  <2>2. CASE i # 1
    <3>1. PICK x : x = a[i - 1] /\ x = b[i - 1]
      BY <1>2, <2>2, Sizes
    <3>2. /\ a[i] = IF x = NoPage THEN NoPage ELSE page[x].next
          /\ b[i] = IF x = NoPage THEN NoPage ELSE page[x].next
      BY ZenonT(60), <2>2, <3>1 DEF Links
    <3> QED
      BY <1>2, <3>2
  <2> QED
    BY <2>1, <2>2
<1>3. 0 .. MaxPages \subseteq S
  <2> HIDE DEF S
  <2> QED
    BY <1>1, <1>2, Sizes, UpToInduction
<1>4. \A i \in 1 .. MaxPages : a[i] = b[i]
  BY <1>3
<1>5. a = [i \in 1 .. MaxPages |-> a[i]] /\ b = [i \in 1 .. MaxPages |-> b[i]]
  BY DEF Links
<1> QED
  BY <1>4, <1>5

LEMMA LinksAreRun ==
  ASSUME NEW h, Linear(h), NEW p \in 0 .. h.last,
         NEW n, n = h.last - p + 1
  PROVE  Links(Run(p, n), h.page, p)
<1> PICK l, page : l = h.last /\ page = h.page
  OBVIOUS
<1>1. l \in 0 .. MaxPages - 1 /\ p \in 0 .. l /\ n = l - p + 1
  BY DEF Linear, PageIds
<1>2. n \in 1 .. MaxPages /\ MaxPages \in Nat /\ l \in Nat /\ p \in Nat
  BY <1>1, Sizes
<1>3. \A q \in 0 .. l : page[q].next = IF q = l THEN NoPage ELSE q + 1
  BY DEF Linear
<1>4. \A q \in 0 .. l : q # NoPage
  BY <1>1, HeapAssumption
<1> PICK a : a = Run(p, n)
  OBVIOUS
<1>5. /\ a = [i \in 1 .. MaxPages |-> a[i]]
      /\ \A i \in 1 .. MaxPages : a[i] = IF i <= n THEN p + i - 1 ELSE NoPage
  BY DEF Run
<1>6. ASSUME NEW i \in 1 .. MaxPages
      PROVE  a[i] = IF i = 1 THEN p
                    ELSE IF a[i - 1] = NoPage THEN NoPage
                         ELSE page[a[i - 1]].next
  <2>1. CASE i = 1
    BY <1>2, <1>5, <2>1
  <2>2. CASE i # 1 /\ i <= n
    <3>1. PICK q : q = p + (i - 1) - 1
      OBVIOUS
    <3>2. q \in 0 .. l /\ q # l /\ q + 1 = p + i - 1
      BY <1>1, <1>2, <2>2, <3>1
    <3>3. a[i - 1] = q /\ a[i] = q + 1
      <4> PICK j : j = i - 1
        OBVIOUS
      <4>1. j \in 1 .. MaxPages /\ j <= n
        BY <1>2, <2>2
      <4>2. a[j] = p + j - 1
        BY <1>5, <4>1
      <4>3. a[i] = p + i - 1
        BY <1>5, <2>2
      <4> QED
        BY <3>1, <3>2, <4>2, <4>3
    <3>4. page[q].next = q + 1 /\ q # NoPage
      BY <1>3, <1>4, <3>2
    <3> QED
      BY <2>2, <3>3, <3>4
  <2>3. CASE i # 1 /\ i = n + 1
    <3>1. a[i - 1] = l /\ a[i] = NoPage
      BY SMTT(30), <1>1, <1>2, <1>5, <2>3
    <3>2. page[l].next = NoPage /\ l # NoPage
      BY <1>1, <1>2, <1>3, <1>4
    <3> QED
      BY <2>3, <3>1, <3>2
  <2>4. CASE i # 1 /\ i > n + 1
    <3>1. a[i - 1] = NoPage /\ a[i] = NoPage
      <4> PICK j : j = i - 1
        OBVIOUS
      <4>1. j \in 1 .. MaxPages /\ ~(j <= n) /\ ~(i <= n)
        BY <1>2, <2>4
      <4>2. a[j] = NoPage /\ a[i] = NoPage
        BY <1>5, <4>1
      <4> QED
        BY <4>2
    <3> QED
      BY <2>4, <3>1
  <2> QED
    BY <1>2, <2>1, <2>2, <2>3, <2>4
<1>7. Links(a, page, p)
  BY <1>5, <1>6 DEF Links
<1> QED
  BY <1>7

LEMMA ChainIs ==
  ASSUME NEW h, Linear(h), NEW p \in 0 .. h.last,
         NEW n, n = h.last - p + 1, NEW c, c = Chain(h, p)
  PROVE  /\ n \in Nat \ {0} /\ c \in Seq(Int) /\ Len(c) = n
         /\ \A i \in 1 .. n : c[i] = p + i - 1
<1>1. h.last \in 0 .. MaxPages - 1
  BY DEF Linear, PageIds
<1>2. n \in 1 .. MaxPages /\ MaxPages \in Nat /\ p \in Nat
  BY <1>1, Sizes
<1> PICK a : a = Run(p, n)
  OBVIOUS
<1>3. Links(a, h.page, p)
  BY LinksAreRun
<1> PICK page : page = h.page
  OBVIOUS
<1> DEFINE at == CHOOSE f : f = [i \in 1 .. MaxPages |->
                    IF i = 1 THEN p
                    ELSE IF f[i - 1] = NoPage THEN NoPage ELSE page[f[i - 1]].next]
<1>4. Links(at, page, p)
  BY <1>3 DEF Links
<1>5. at = a
  <2> HIDE DEF at
  <2> QED
    BY <1>3, <1>4, LinksAreUnique
<1>6. c = SubSeq(at, 1, Cardinality({i \in 1 .. MaxPages : at[i] # NoPage}))
  BY DEF Chain
<1>7. \A i \in 1 .. MaxPages : a[i] = IF i <= n THEN p + i - 1 ELSE NoPage
  BY DEF Run
<1>8. \A i \in 1 .. n : p + i - 1 # NoPage /\ p + i - 1 \in Int
  BY <1>1, <1>2, HeapAssumption
<1>9. {i \in 1 .. MaxPages : a[i] # NoPage} = 1 .. n
  BY <1>2, <1>7, <1>8
<1>10. Cardinality(1 .. n) = n
  <2>1. 1 \in Int /\ n \in Int
    BY <1>2
  <2>2. Cardinality(1 .. n) = IF 1 > n THEN 0 ELSE n - 1 + 1
    BY <2>1, FS_Interval
  <2> QED
    BY <1>2, <2>2
<1>11. c = SubSeq(a, 1, n)
  <2> HIDE DEF at
  <2> QED
    BY <1>5, <1>6, <1>9, <1>10
<1>12. \A i \in 1 .. n : a[i] = p + i - 1 /\ a[i] \in Int
  BY <1>2, <1>7, <1>8
<1>13. /\ SubSeq(a, 1, n) \in Seq(Int)
       /\ Len(SubSeq(a, 1, n)) = IF 1 <= n THEN n - 1 + 1 ELSE 0
       /\ \A i \in 1 .. n - 1 + 1 : SubSeq(a, 1, n)[i] = a[1 + i - 1]
  <2>1. 1 \in Int /\ n \in Int
    BY <1>2
  <2> QED
    BY <2>1, <1>12, SubSeqProperties
<1>14. Len(c) = n
  BY <1>2, <1>11, <1>13
<1>15. \A i \in 1 .. n : c[i] = a[i]
  BY <1>2, <1>11, <1>13
<1> QED
  BY <1>2, <1>11, <1>12, <1>13, <1>14, <1>15

LEMMA RowsOf ==
  ASSUME NEW h, Linear(h), NEW p \in 0 .. h.last
  PROVE  /\ p \in Nat /\ p \in PageIds /\ p # NoPage
         /\ Rows(h, p) \in PageRows
         /\ DOMAIN Rows(h, p) = 1 .. Len(Rows(h, p))
         /\ Len(Rows(h, p)) \in Nat
<1>1. h.last \in 0 .. MaxPages - 1
  BY DEF Linear, PageIds
<1>2. p \in Nat /\ p \in PageIds /\ p # NoPage
  BY <1>1, HeapAssumption, Sizes DEF PageIds
<1>3. Rows(h, p) \in PageRows
  BY DEF Linear, Page, Rows, PageRows
<1> QED
  BY <1>2, <1>3, RowFacts

LEMMA ChainPages ==
  ASSUME NEW h, Linear(h), NEW c, c = Chain(h, h.first)
  PROVE  /\ ToSet(c) = 0 .. h.last
         /\ IsInjective(c)
         /\ Len(c) \in Nat \ {0} /\ c[Len(c)] = h.last
<1> PICK l, n : l = h.last /\ n = l - 0 + 1
  OBVIOUS
<1>1. l \in 0 .. MaxPages - 1 /\ h.first = 0
  BY DEF Linear, PageIds
<1>2. 0 \in 0 .. h.last /\ l \in Nat /\ n = l + 1
  BY <1>1, Sizes
<1>3. /\ n \in Nat \ {0} /\ c \in Seq(Int) /\ Len(c) = n
      /\ \A i \in 1 .. n : c[i] = 0 + i - 1
  BY <1>1, <1>2, ChainIs
<1>4. DOMAIN c = 1 .. n /\ \A i \in 1 .. n : c[i] = i - 1
  BY <1>3
<1>5. \A q \in 0 .. l : q + 1 \in 1 .. n /\ c[q + 1] = q
  BY <1>2, <1>4
<1>6. ToSet(c) = 0 .. l
  <2>1. ASSUME NEW i \in 1 .. n PROVE c[i] \in 0 .. l
    BY <1>2, <1>4
  <2>2. ToSet(c) = {c[i] : i \in 1 .. n}
    BY <1>4 DEF ToSet
  <2>3. ASSUME NEW q \in 0 .. l PROVE q \in ToSet(c)
    BY <1>5, <2>2
  <2> QED
    BY <2>1, <2>2, <2>3
<1>7. IsInjective(c)
  BY <1>3, <1>4 DEF IsInjective
<1>8. n \in 1 .. n /\ n - 1 = l
  BY <1>2
<1>9. c[n] = l
  BY <1>4, <1>8
<1> QED
  BY <1>3, <1>6, <1>7, <1>9

LEMMA HeapIsWhole ==
  ASSUME NEW h, Heap(h)
  PROVE  IsHeap(h) /\ WholeChain(h) /\ TrueFreeSpace(h)
<1>1. Linear(h) /\ Fitting(h) /\ Mapped(h)
  BY DEF Heap
<1>2. /\ h.first = 0 /\ h.last \in PageIds /\ h.nextPage = h.last + 1
      /\ DOMAIN h.page = 0 .. h.last
      /\ \A p \in 0 .. h.last : h.page[p] \in Page
  BY <1>1 DEF Linear
<1>3. h.last \in 0 .. MaxPages - 1 /\ MaxPages \in Nat
  BY <1>2, Sizes DEF PageIds
<1>4. 0 .. h.last \subseteq PageIds /\ 0 \in PageIds /\ h.last \in 0 .. h.last
  BY <1>3, Sizes DEF PageIds
<1>5. h.nextPage \in 0 .. MaxPages
  BY <1>2, <1>3
<1>6. DOMAIN h.freeSpace \subseteq 0 .. h.last /\ TrueFreeSpace(h)
  BY <1>1 DEF Mapped
<1>7. ASSUME NEW p \in DOMAIN h.freeSpace PROVE h.freeSpace[p] \in 0 .. PageSize
  <2>1. p \in 0 .. h.last
    BY <1>6
  <2> PICK rows, u : rows = Rows(h, p) /\ u = On(rows)!Used
    OBVIOUS
  <2>2. rows \in PageRows
    BY <1>1, <2>1, RowsOf
  <2>3. u \in Nat /\ u <= PageSize /\ PageSize \in Nat
    BY <1>1, <2>1, <2>2, UsedIs, Sizes DEF Fitting
  <2>4. h.freeSpace[p] = PageSize - u
    BY <1>6 DEF TrueFreeSpace, Usable
  <2> QED
    BY <2>3, <2>4
<1>8. IsHeap(h)
  BY <1>2, <1>4, <1>5, <1>6, <1>7 DEF IsHeap
<1> PICK c : c = Chain(h, h.first)
  OBVIOUS
<1>9. /\ ToSet(c) = 0 .. h.last /\ IsInjective(c)
      /\ Len(c) \in Nat \ {0} /\ c[Len(c)] = h.last
  BY <1>1, ChainPages
<1>10. h.page[h.last].next = NoPage
  BY <1>1, <1>4 DEF Linear
<1>11. WholeChain(h)
  BY <1>2, <1>9, <1>10 DEF WholeChain, Last
<1> QED
  BY <1>6, <1>8, <1>11

(* The live record ids, each a record of its own. *)
LiveAt(h, r) == IsSlot(h, r) /\ ReadAt(h, r) # Empty

LEMMA LiveRidsAre ==
  ASSUME NEW h, Linear(h)
  PROVE  \A r : r \in LiveRids(h) <=> LiveAt(h, r)
<1>1. ToSet(Chain(h, h.first)) = 0 .. h.last
  BY ChainPages
<1>2. LiveRids(h) = UNION {{[page |-> p, slot |-> s] : s \in Live(h, p)} :
                             p \in 0 .. h.last}
  BY <1>1 DEF LiveRids
<1>3. ASSUME NEW r, r \in LiveRids(h) PROVE LiveAt(h, r)
  <2>1. PICK p \in 0 .. h.last : \E s \in Live(h, p) : r = [page |-> p, slot |-> s]
    BY <1>2, <1>3
  <2>2. PICK s \in Live(h, p) : r = [page |-> p, slot |-> s]
    BY <2>1
  <2>3. p \in PageIds /\ DOMAIN Rows(h, p) = 1 .. Len(Rows(h, p))
        /\ Len(Rows(h, p)) \in Nat
    BY RowsOf
  <2>4. s \in DOMAIN Rows(h, p) /\ Rows(h, p)[s] # Empty
    BY DEF Live
  <2>5. s \in Nat \ {0}
    BY <2>3, <2>4
  <2>6. r \in Rid /\ r.page = p /\ r.slot = s
    BY <2>2, <2>3, <2>5 DEF Rid
  <2> QED
    BY <2>4, <2>6 DEF LiveAt, IsSlot, ReadAt
<1>4. ASSUME NEW r, LiveAt(h, r) PROVE r \in LiveRids(h)
  <2>1. /\ r \in Rid /\ r.page \in 0 .. h.last
        /\ r.slot \in DOMAIN Rows(h, r.page)
        /\ Rows(h, r.page)[r.slot] # Empty
    BY <1>4 DEF LiveAt, IsSlot, ReadAt
  <2> PICK p, s : p = r.page /\ s = r.slot
    OBVIOUS
  <2>2. r = [page |-> p, slot |-> s]
    BY <2>1 DEF Rid
  <2>3. p \in 0 .. h.last /\ s \in Live(h, p)
    BY <2>1 DEF Live
  <2>4. r \in {[page |-> p, slot |-> x] : x \in Live(h, p)}
    BY <2>2, <2>3
  <2> QED
    BY <1>2, <2>3, <2>4
<1> QED
  BY <1>3, <1>4

LEMMA LiveRidsAreFinite ==
  ASSUME NEW h, Linear(h)
  PROVE  IsFiniteSet(LiveRids(h))
<1> DEFINE Page1(p) == {[page |-> p, slot |-> s] : s \in Live(h, p)}
           Pages == {Page1(p) : p \in 0 .. h.last}
<1>1. LiveRids(h) = UNION Pages
  BY ChainPages DEF LiveRids
<1>2. IsFiniteSet(Pages)
  <2>1. h.last \in Int /\ 0 \in Int
    BY DEF Linear, PageIds
  <2> DEFINE f == [p \in 0 .. h.last |-> Page1(p)]
  <2>2. f \in Surjection(0 .. h.last, Pages)
    BY DEF Surjection
  <2>3. IsFiniteSet(0 .. h.last)
    BY <2>1, FS_Interval
  <2> QED
    BY <2>2, <2>3, FS_Surjection
<1>3. ASSUME NEW p \in 0 .. h.last PROVE IsFiniteSet(Page1(p))
  <2> PICK n : n = Len(Rows(h, p))
    OBVIOUS
  <2>1. n \in Int /\ 1 \in Int /\ Live(h, p) \in SUBSET (1 .. n)
    BY RowsOf DEF Live
  <2>2. IsFiniteSet(1 .. n)
    BY <2>1, FS_Interval
  <2>3. IsFiniteSet(Live(h, p))
    BY <2>1, <2>2, FS_Subset
  <2> DEFINE f == [s \in Live(h, p) |-> [page |-> p, slot |-> s]]
  <2>4. f \in Surjection(Live(h, p), Page1(p))
    BY DEF Surjection
  <2> QED
    BY <2>3, <2>4, FS_Surjection
<1>4. \A P \in Pages : IsFiniteSet(P)
  BY <1>3
<1>5. IsFiniteSet(UNION Pages)
  <2> HIDE DEF Pages
  <2> QED
    BY <1>2, <1>4, FS_UNION
<1> QED
  BY <1>1, <1>5

-----------------------------------------------------------------------------
(***************************************************************************)
(* The iterator.                                                           *)
(***************************************************************************)
LEMMA AtEndIsNoRow ==
  /\ AtEnd.rid.page = NoPage /\ AtEnd \in Row /\ End \in Rid
  /\ \A p \in PageIds : \A s, t :
       AtEnd # [rid |-> [page |-> p, slot |-> s], tuple |-> t]
  /\ \A p \in PageIds : p # NoPage
<1>1. AtEnd.rid.page = NoPage /\ AtEnd \in Row /\ End \in Rid
  BY DEF AtEnd, End, Row, Rid
<1>2. \A p \in PageIds : p # NoPage
  BY HeapAssumption DEF PageIds
<1>3. ASSUME NEW p \in PageIds, NEW s, NEW t,
             AtEnd = [rid |-> [page |-> p, slot |-> s], tuple |-> t]
      PROVE  FALSE
  <2>1. AtEnd.rid.page = p
    BY <1>3
  <2> QED
    BY <1>1, <1>2, <2>1
<1> QED
  BY <1>1, <1>2, <1>3

(* The iterator stands on the first live row of A, or A is empty. *)
StandsFirst(h, iter, p, slot) ==
  \/ iter = AtEnd /\ From(h, p, slot) = {}
  \/ /\ iter # AtEnd /\ iter \in Row /\ iter.tuple \in Tuples
     /\ iter.rid \in LiveRids(h) /\ iter.tuple = ReadAt(h, iter.rid)
     /\ From(h, iter.rid.page, iter.rid.slot) = From(h, p, slot)

LEMMA FirstLiveIs ==
  ASSUME NEW h, Linear(h), NEW p \in 0 .. h.last, NEW slot \in Nat,
         NEW iter, iter = FirstLive(h, p, slot)
  PROVE  StandsFirst(h, iter, p, slot)
<1> PICK c, n : c = Chain(h, p) /\ n = h.last - p + 1
  OBVIOUS
<1> PICK l : l = h.last
  OBVIOUS
<1> DEFINE live(i) == {s \in Live(h, c[i]) : i = 1 => s >= slot}
           found == {i \in DOMAIN c : live(i) # {}}
<1>1. /\ n \in Nat \ {0} /\ DOMAIN c = 1 .. n
      /\ \A i \in 1 .. n : c[i] = p + i - 1
  BY ChainIs
<1>2. l \in Nat /\ p \in Nat /\ p <= l /\ n = l - p + 1
  BY DEF Linear, PageIds
<1>3. \A i \in 1 .. n : c[i] \in 0 .. l
  BY <1>1, <1>2
<1>4. \A q \in 0 .. l : q >= p => q - p + 1 \in 1 .. n /\ c[q - p + 1] = q
  <2>1. ASSUME NEW q \in 0 .. l, q >= p
        PROVE  q - p + 1 \in 1 .. n /\ c[q - p + 1] = q
    <3> PICK i : i = q - p + 1
      OBVIOUS
    <3>1. i \in 1 .. n /\ p + i - 1 = q
      BY <1>2, <2>1
    <3>2. c[i] = q
      BY <1>1, <3>1
    <3> QED
      BY <3>1, <3>2
  <2> QED
    BY <2>1
<1>5. \A q \in 0 .. l : Live(h, q) \in SUBSET (Nat \ {0})
  BY RowsOf DEF Live
<1>6. ASSUME NEW r, r \in From(h, p, slot)
      PROVE  \E i \in found : c[i] = r.page /\ r.slot \in live(i)
                              /\ i = r.page - p + 1
  <2>1. /\ LiveAt(h, r)
        /\ (r.page = p /\ r.slot >= slot) \/ r.page > p
    BY <1>6, LiveRidsAre DEF From
  <2>2. r.page \in 0 .. l /\ r.slot \in Live(h, r.page)
    BY <2>1 DEF LiveAt, IsSlot, ReadAt, Live
  <2> PICK q, i : q = r.page /\ i = q - p + 1
    OBVIOUS
  <2>3. q \in 0 .. l /\ q >= p
    BY <1>2, <2>1, <2>2
  <2>4. i \in 1 .. n /\ c[i] = q
    BY <1>4, <2>3
  <2>5. i = 1 => r.slot >= slot
    BY <1>2, <2>1, <2>3
  <2>6. r.slot \in live(i)
    BY <2>2, <2>4, <2>5
  <2> QED
    BY <1>1, <2>4, <2>6
<1>7. CASE found = {}
  <2>1. iter = AtEnd
    BY <1>7 DEF FirstLive
  <2>2. From(h, p, slot) = {}
    <3> HIDE DEF found
    <3> QED
      BY <1>6, <1>7
  <2> QED
    BY <2>1, <2>2 DEF StandsFirst
<1>8. CASE found # {}
  <2> PICK m : m = Min(found)
    OBVIOUS
  <2>1. m \in found /\ \A i \in found : m <= i
    <3>1. found \in SUBSET Nat
      BY <1>1
    <3> HIDE DEF found
    <3> QED
      BY <1>8, <3>1, MinIs
  <2>2. m \in 1 .. n /\ live(m) # {}
    BY <1>1, <2>1
  <2> PICK q, s : q = c[m] /\ s = Min(live(m))
    OBVIOUS
  <2>3. q \in 0 .. l /\ q = p + m - 1
    BY <1>1, <1>3, <2>2
  <2>4. s \in live(m) /\ \A x \in live(m) : s <= x
    <3>1. live(m) \in SUBSET Nat
      BY <1>5, <2>3
    <3> HIDE DEF live
    <3> QED
      BY <2>2, <3>1, MinIs
  <2>5. iter = RowAt(h, [page |-> q, slot |-> s])
    BY <1>8 DEF FirstLive
  <2> PICK r : r = [page |-> q, slot |-> s]
    OBVIOUS
  <2>6. r.page = q /\ r.slot = s /\ iter = [rid |-> r, tuple |-> ReadAt(h, r)]
    BY <2>5 DEF RowAt
  <2>7. s \in Live(h, q) /\ s \in Nat \ {0}
    BY <1>5, <2>3, <2>4
  <2>8. q \in PageIds
    BY <2>3, RowsOf
  <2>9. r \in Rid /\ LiveAt(h, r)
    BY <2>3, <2>6, <2>7, <2>8 DEF LiveAt, IsSlot, ReadAt, Live, Rid
  <2>10. r \in LiveRids(h)
    BY <2>9, LiveRidsAre
  <2>11. ReadAt(h, r) \in Tuples
    <3>1. Rows(h, q) \in PageRows
      BY <2>3, RowsOf
    <3>2. \A i \in DOMAIN Rows(h, q) : Rows(h, q)[i] \in Tuples \cup {Empty}
      BY <3>1, RowFacts
    <3> QED
      BY <2>6, <2>7, <3>2 DEF Live, ReadAt
  <2>12. iter # AtEnd /\ iter \in Row
    BY <2>6, <2>8, <2>9, <2>11, AtEndIsNoRow DEF Row, Rid
  <2>13. ASSUME NEW x, x \in From(h, q, s) PROVE x \in From(h, p, slot)
    <3>1. /\ x \in LiveRids(h)
          /\ (x.page = q /\ x.slot >= s) \/ x.page > q
      BY <2>13 DEF From
    <3>2. x.page \in 0 .. l /\ x.slot \in Nat
      BY <3>1, LiveRidsAre DEF LiveAt, IsSlot, Rid
    <3>3. CASE x.page > p
      BY <3>1, <3>3 DEF From
    <3>4. CASE ~(x.page > p)
      <4>1. x.page = q /\ q = p /\ x.slot >= s
        BY <1>2, <2>2, <2>3, <3>1, <3>2, <3>4
      <4>2. m = 1
        BY <1>2, <2>2, <2>3, <4>1
      <4>3. s >= slot
        BY <2>4, <4>2
      <4>4. x.slot >= slot
        BY <2>7, <3>2, <4>1, <4>3
      <4> QED
        BY <3>1, <4>1, <4>4 DEF From
    <3> QED
      BY <3>3, <3>4
  <2>14. ASSUME NEW x, x \in From(h, p, slot) PROVE x \in From(h, q, s)
    <3>1. PICK i \in found : c[i] = x.page /\ x.slot \in live(i)
                             /\ i = x.page - p + 1
      <4> HIDE DEF found, live
      <4> QED
        BY <1>6, <2>14
    <3>2. x \in LiveRids(h)
      BY <2>14 DEF From
    <3>3. m <= i /\ i \in 1 .. n
      BY <1>1, <2>1
    <3>4. x.page \in 0 .. l
      BY <3>2, LiveRidsAre DEF LiveAt, IsSlot
    <3>5. CASE i = m
      <4>1. x.page = q /\ s <= x.slot
        BY <2>4, <3>1, <3>5
      <4>2. x.slot \in Nat
        BY <3>2, LiveRidsAre DEF LiveAt, IsSlot, Rid
      <4>3. x.slot >= s
        BY <2>7, <4>1, <4>2
      <4> QED
        BY <3>2, <4>1, <4>3 DEF From
    <3>6. CASE i # m
      <4>1. x.page > q
        BY <1>2, <2>2, <2>3, <3>1, <3>3, <3>4, <3>6
      <4> QED
        BY <3>2, <4>1 DEF From
    <3> QED
      BY <3>5, <3>6
  <2>15. From(h, q, s) = From(h, p, slot)
    BY <2>13, <2>14
  <2>16. iter.rid = r /\ iter.tuple = ReadAt(h, r)
    BY <2>6
  <2> QED
    BY <2>6, <2>10, <2>11, <2>12, <2>15, <2>16 DEF StandsFirst
<1> QED
  BY <1>7, <1>8

LEMMA BeginIs ==
  ASSUME NEW h, Linear(h), NEW iter, iter = Begin(h)
  PROVE  Onward(h, iter) = LiveRids(h) /\ StandsFirst(h, iter, 0, 1)
<1>1. h.first = 0 /\ 0 \in 0 .. h.last /\ 1 \in Nat
  BY DEF Linear, PageIds
<1>2. StandsFirst(h, iter, 0, 1)
  BY <1>1, FirstLiveIs DEF Begin
<1>3. ASSUME NEW r, r \in LiveRids(h) PROVE r \in From(h, 0, 1)
  <2>1. r.page \in 0 .. h.last /\ r.slot \in Nat \ {0} /\ h.last \in Nat
    BY <1>3, LiveRidsAre DEF LiveAt, IsSlot, Rid, Linear, PageIds
  <2>2. (r.page = 0 /\ r.slot >= 1) \/ r.page > 0
    BY <2>1
  <2> QED
    BY <1>3, <2>2 DEF From
<1>4. From(h, 0, 1) = LiveRids(h)
  BY <1>3 DEF From
<1> QED
  BY <1>2, <1>4 DEF StandsFirst, Onward

LEMMA AdvancedIs ==
  ASSUME NEW h, Linear(h), NEW iter, iter # AtEnd, iter.rid \in LiveRids(h),
         NEW next, next = Advanced(h, iter)
  PROVE  /\ iter.rid \in Onward(h, iter)
         /\ Onward(h, next) = Onward(h, iter) \ {iter.rid}
         /\ StandsFirst(h, next, iter.rid.page, iter.rid.slot + 1)
<1> PICK r, p, s : r = iter.rid /\ p = r.page /\ s = r.slot
  OBVIOUS
<1>1. r \in Rid /\ p \in 0 .. h.last /\ s \in Nat \ {0} /\ p \in Nat
  BY LiveRidsAre DEF LiveAt, IsSlot, Rid, Linear, PageIds
<1>2. StandsFirst(h, next, p, s + 1)
  <2>1. s + 1 \in Nat
    BY <1>1
  <2> QED
    BY <1>1, <2>1, FirstLiveIs DEF Advanced
<1>3. r \in From(h, p, s)
  BY <1>1 DEF From
<1>4. ASSUME NEW x, x \in From(h, p, s), x # r PROVE x \in From(h, p, s + 1)
  <2>1. x \in LiveRids(h) /\ ((x.page = p /\ x.slot >= s) \/ x.page > p)
    BY <1>4 DEF From
  <2>2. x \in Rid /\ x.slot \in Nat
    BY <2>1, LiveRidsAre DEF LiveAt, IsSlot, Rid
  <2>3. x.page = p => x.slot # s
    BY <1>1, <1>4, <2>2 DEF Rid
  <2>4. x.page = p /\ x.slot >= s => x.slot >= s + 1
    BY <1>1, <2>2, <2>3
  <2> QED
    BY <2>1, <2>4 DEF From
<1>5. ASSUME NEW x, x \in From(h, p, s + 1) PROVE x \in From(h, p, s) /\ x # r
  <2>1. x \in LiveRids(h) /\ ((x.page = p /\ x.slot >= s + 1) \/ x.page > p)
    BY <1>5 DEF From
  <2>2. x \in Rid /\ x.slot \in Nat
    BY <2>1, LiveRidsAre DEF LiveAt, IsSlot, Rid
  <2>3. x.slot >= s + 1 => x.slot >= s /\ x.slot # s
    BY <1>1, <2>2
  <2>4. ~(p > p)
    BY <1>1
  <2> QED
    BY <2>1, <2>3, <2>4 DEF From
<1>6. From(h, p, s + 1) = From(h, p, s) \ {r}
  BY <1>4, <1>5
<1>7. Onward(h, iter) = From(h, p, s)
  BY DEF Onward
<1>8. Onward(h, next) = From(h, p, s + 1)
  BY <1>2 DEF StandsFirst, Onward
<1> QED
  BY <1>2, <1>3, <1>6, <1>7, <1>8

-----------------------------------------------------------------------------
(***************************************************************************)
(* What insert_tuple and mark_delete do to the table.                      *)
(***************************************************************************)
(* The rows of page q become rows, and free_space_map_ is told. *)
Rewritten(g, h, q, rows) ==
  /\ g.first = h.first /\ g.last = h.last /\ g.nextPage = h.nextPage
  /\ DOMAIN g.page = DOMAIN h.page
  /\ \A p \in DOMAIN h.page :
       g.page[p] = IF p = q THEN [h.page[p] EXCEPT !.rows = rows] ELSE h.page[p]
  /\ g.freeSpace = Put(h.freeSpace, q, Usable(rows))

LEMMA RewriteKeepsHeap ==
  ASSUME NEW h, Heap(h), NEW q \in 0 .. h.last, NEW rows \in PageRows,
         On(rows)!Used <= PageSize, NEW g, Shaped(g), Rewritten(g, h, q, rows)
  PROVE  /\ Heap(g) /\ g.last = h.last /\ Rows(g, q) = rows
         /\ \A p \in 0 .. h.last : p # q => Rows(g, p) = Rows(h, p)
<1>1. Linear(h) /\ Fitting(h) /\ Mapped(h)
  BY DEF Heap
<1>2. /\ g.first = h.first /\ g.last = h.last /\ g.nextPage = h.nextPage
      /\ DOMAIN h.page = 0 .. h.last /\ DOMAIN g.page = 0 .. h.last
  BY <1>1 DEF Rewritten, Linear
<1>3. \A p \in 0 .. h.last :
        g.page[p] = IF p = q THEN [h.page[p] EXCEPT !.rows = rows] ELSE h.page[p]
  BY <1>2 DEF Rewritten
<1>4. ASSUME NEW p \in 0 .. h.last
      PROVE  /\ g.page[p] \in Page /\ g.page[p].next = h.page[p].next
             /\ g.page[p].rows = IF p = q THEN rows ELSE h.page[p].rows
  <2>1. h.page[p] \in Page
    BY <1>1 DEF Linear
  <2> QED
    BY <1>3, <2>1 DEF Page, PageRows
<1>5. Rows(g, q) = rows /\ \A p \in 0 .. h.last : p # q => Rows(g, p) = Rows(h, p)
  BY <1>4 DEF Rows
<1>6. Linear(g)
  <2>1. \A p \in 0 .. g.last :
          /\ g.page[p] \in Page
          /\ g.page[p].next = IF p = g.last THEN NoPage ELSE p + 1
    BY <1>1, <1>2, <1>4 DEF Linear
  <2> QED
    BY <1>1, <1>2, <2>1 DEF Linear
<1>7. Fitting(g)
  <2>1. ASSUME NEW p \in 0 .. g.last PROVE On(Rows(g, p))!Used <= PageSize
    <3>1. p \in 0 .. h.last
      BY <1>2
    <3>2. CASE p = q
      BY <1>5, <3>2
    <3>3. CASE p # q
      <4>1. Rows(g, p) = Rows(h, p)
        BY <1>5, <3>1, <3>3
      <4>2. On(Rows(h, p))!Used <= PageSize
        BY <1>1, <3>1 DEF Fitting
      <4> QED
        BY <4>1, <4>2
    <3> QED
      BY <3>2, <3>3
  <2> QED
    BY <2>1 DEF Fitting
<1>8. Mapped(g)
  <2>1. DOMAIN h.freeSpace \subseteq 0 .. h.last
        /\ \A p \in DOMAIN h.freeSpace : h.freeSpace[p] = Usable(Rows(h, p))
    BY <1>1 DEF Mapped, TrueFreeSpace
  <2>2. /\ DOMAIN g.freeSpace = DOMAIN h.freeSpace \cup {q}
        /\ \A p \in DOMAIN h.freeSpace \cup {q} :
             g.freeSpace[p] = IF p = q THEN Usable(rows) ELSE h.freeSpace[p]
    BY DEF Rewritten, Put
  <2>3. ASSUME NEW p \in DOMAIN g.freeSpace
        PROVE  g.freeSpace[p] = Usable(Rows(g, p))
    <3>1. CASE p = q
      BY <1>5, <2>2, <3>1
    <3>2. CASE p # q
      <4>1. p \in DOMAIN h.freeSpace /\ p \in 0 .. h.last
        BY <2>1, <2>2, <3>2
      <4>2. Rows(g, p) = Rows(h, p)
        BY <1>5, <3>2, <4>1
      <4> QED
        BY <2>1, <2>2, <3>2, <4>1, <4>2
    <3> QED
      BY <3>1, <3>2
  <2> QED
    BY <1>2, <2>1, <2>2, <2>3 DEF Mapped, TrueFreeSpace
<1> QED
  BY <1>2, <1>5, <1>6, <1>7, <1>8 DEF Heap

Edited(g, h, q, rows) ==
  g = [h EXCEPT !.page[q].rows = rows, !.freeSpace = Put(@, q, Usable(rows))]

LEMMA RewriteIs ==
  ASSUME NEW h, Heap(h), NEW q \in 0 .. h.last, NEW rows, NEW g,
         Edited(g, h, q, rows)
  PROVE  Shaped(g) /\ Rewritten(g, h, q, rows)
<1>1. h = [page |-> h.page, first |-> h.first, last |-> h.last,
           freeSpace |-> h.freeSpace, nextPage |-> h.nextPage]
  BY DEF Heap, Shaped
<1>2. /\ g.page = [h.page EXCEPT ![q].rows = rows]
      /\ g.freeSpace = Put(h.freeSpace, q, Usable(rows))
      /\ g.first = h.first /\ g.last = h.last /\ g.nextPage = h.nextPage
  BY <1>1 DEF Edited
<1>3. Shaped(g)
  BY <1>1 DEF Shaped, Edited
<1>4. DOMAIN g.page = DOMAIN h.page
  BY <1>2
<1>5. \A p \in DOMAIN h.page :
        g.page[p] = IF p = q THEN [h.page[p] EXCEPT !.rows = rows] ELSE h.page[p]
  BY <1>2
<1> QED
  BY <1>2, <1>3, <1>4, <1>5 DEF Rewritten

(* g is h with one row less, or one more. *)
Less(g, h, r) ==
  /\ Heap(g) /\ \A x : IsSlot(h, x) => IsSlot(g, x)
  /\ LiveRids(g) = LiveRids(h) \ {r}
  /\ \A x \in LiveRids(g) : ReadAt(g, x) = ReadAt(h, x)

More(g, h, r, t) ==
  /\ Heap(g) /\ \A x : IsSlot(h, x) => IsSlot(g, x)
  /\ LiveRids(g) = LiveRids(h) \cup {r} /\ r \notin LiveRids(h)
  /\ IsSlot(g, r) /\ ReadAt(g, r) = t
  /\ \A x \in LiveRids(h) : ReadAt(g, x) = ReadAt(h, x)

LEMMA DeletedIs ==
  ASSUME NEW h, Heap(h), NEW r, IsSlot(h, r), NEW g, g = Deleted(h, r)
  PROVE  Less(g, h, r)
<1>1. Linear(h) /\ Fitting(h)
  BY DEF Heap
<1>2. r \in Rid /\ r.page \in 0 .. h.last /\ r.slot \in DOMAIN Rows(h, r.page)
  BY DEF IsSlot
<1> PICK q, s : q = r.page /\ s = r.slot
  OBVIOUS
<1> PICK old, rows : old = Rows(h, q) /\ rows = [old EXCEPT ![s] = Empty]
  OBVIOUS
<1>3. q \in 0 .. h.last /\ old \in PageRows /\ s \in DOMAIN old
  BY <1>1, <1>2, RowsOf
<1>4. rows \in PageRows /\ On(rows)!Used <= On(old)!Used
  BY <1>3, UsedAfterDelete
<1>5. On(rows)!Used <= PageSize
  <2> PICK u, v : u = On(rows)!Used /\ v = On(old)!Used
    OBVIOUS
  <2>1. u \in Nat /\ v \in Nat /\ u <= v
    BY <1>3, <1>4, UsedIs
  <2>2. v <= PageSize
    BY <1>1, <1>3 DEF Fitting
  <2> QED
    BY <2>1, <2>2, Sizes
<1>6. Shaped(g) /\ Rewritten(g, h, q, rows)
  <2>1. Edited(g, h, q, rows)
    BY DEF Deleted, Edited
  <2> QED
    BY <1>3, <2>1, RewriteIs
<1>7. /\ Heap(g) /\ g.last = h.last /\ Rows(g, q) = rows
      /\ \A p \in 0 .. h.last : p # q => Rows(g, p) = Rows(h, p)
  BY <1>3, <1>4, <1>5, <1>6, RewriteKeepsHeap
<1>8. DOMAIN rows = DOMAIN old /\ rows[s] = Empty
      /\ \A i \in DOMAIN old : i # s => rows[i] = old[i]
  BY <1>3
<1>9. \A p \in 0 .. h.last : DOMAIN Rows(g, p) = DOMAIN Rows(h, p)
  BY <1>7, <1>8
<1>10. \A x : IsSlot(g, x) <=> IsSlot(h, x)
  BY <1>7, <1>9 DEF IsSlot
<1>11. ASSUME NEW x, IsSlot(h, x)
       PROVE  ReadAt(g, x) = IF x = r THEN Empty ELSE ReadAt(h, x)
  <2>1. x \in Rid /\ x.page \in 0 .. h.last /\ x.slot \in DOMAIN Rows(h, x.page)
    BY <1>11 DEF IsSlot
  <2>2. CASE x.page # q
    <3>1. x # r
      BY <2>2
    <3> QED
      BY <1>7, <2>1, <2>2, <3>1 DEF ReadAt
  <2>3. CASE x.page = q
    <3>1. x.slot = s => x = r
      BY <1>2, <2>1, <2>3 DEF Rid
    <3>2. ReadAt(g, x) = rows[x.slot] /\ ReadAt(h, x) = old[x.slot]
      BY <1>7, <2>3 DEF ReadAt
    <3>3. x.slot \in DOMAIN old
      BY <2>1, <2>3
    <3>4. CASE x.slot = s
      BY <1>8, <3>1, <3>2, <3>4
    <3>5. CASE x.slot # s
      <4>1. x # r
        BY <3>5
      <4> QED
        BY <1>8, <3>2, <3>3, <3>5, <4>1
    <3> QED
      BY <3>4, <3>5
  <2> QED
    BY <2>2, <2>3
<1>12. Linear(g)
  BY <1>7 DEF Heap
<1>13. LiveRids(g) = LiveRids(h) \ {r}
  <2>1. ASSUME NEW x
        PROVE  x \in LiveRids(g) <=> x \in LiveRids(h) /\ x # r
    <3>1. x \in LiveRids(g) <=> IsSlot(h, x) /\ ReadAt(g, x) # Empty
      BY <1>10, <1>12, LiveRidsAre DEF LiveAt
    <3>2. x \in LiveRids(h) <=> IsSlot(h, x) /\ ReadAt(h, x) # Empty
      BY <1>1, LiveRidsAre DEF LiveAt
    <3> QED
      BY <1>11, <3>1, <3>2
  <2> QED
    BY <2>1
<1>14. \A x \in LiveRids(g) : ReadAt(g, x) = ReadAt(h, x)
  <2>1. \A x \in LiveRids(g) : IsSlot(h, x) /\ x # r
    BY <1>1, <1>13, LiveRidsAre DEF LiveAt
  <2> QED
    BY <1>11, <2>1
<1> QED
  BY <1>7, <1>10, <1>13, <1>14 DEF Less

LEMMA StoredInLast ==
  ASSUME NEW h, Heap(h), NEW t \in Tuples, ~Full(h, t), NEW g, g = Stored(h, t)
  PROVE  \E r : More(g, h, r, t)
<1>1. Linear(h) /\ Fitting(h)
  BY DEF Heap
<1> PICK q, old : q = h.last /\ old = Rows(h, q)
  OBVIOUS
<1> PICK s, rows : s = On(old)!NextSlot /\ rows = WithTuple(old, t)
  OBVIOUS
<1>2. q \in 0 .. h.last /\ q \in PageIds /\ old \in PageRows
  <2>1. h.last \in 0 .. h.last
    BY <1>1 DEF Linear, PageIds
  <2> QED
    BY <1>1, <2>1, RowsOf
<1>3. rows \in PageRows /\ s \in Nat \ {0} /\ Placed(rows, old, s, t)
  BY <1>2, RowsAfterInsert
<1>4. On(rows)!Used <= PageSize
  <2>1. On(old)!HasRoom(t)
    BY DEF Full
  <2> QED
    BY <1>2, <2>1, UsedAfterInsert
<1>5. Shaped(g) /\ Rewritten(g, h, q, rows)
  <2>1. Edited(g, h, q, rows)
    BY DEF Stored, Edited
  <2> QED
    BY <1>2, <2>1, RewriteIs
<1>6. /\ Heap(g) /\ g.last = h.last /\ Rows(g, q) = rows
      /\ \A p \in 0 .. h.last : p # q => Rows(g, p) = Rows(h, p)
  BY <1>2, <1>3, <1>4, <1>5, RewriteKeepsHeap
<1> PICK r : r = [page |-> q, slot |-> s]
  OBVIOUS
<1>7. r \in Rid /\ r.page = q /\ r.slot = s
  BY <1>2, <1>3 DEF Rid
<1>8. DOMAIN rows = DOMAIN old \cup {s} /\ rows[s] = t
      /\ \A i \in DOMAIN old : i # s => rows[i] = old[i]
  BY <1>3 DEF Placed
<1>9. s \in DOMAIN old => old[s] = Empty
  BY <1>3 DEF Placed
<1>10. IsSlot(g, r) /\ ReadAt(g, r) = t
  BY <1>2, <1>6, <1>7, <1>8 DEF IsSlot, ReadAt
<1>11. ASSUME NEW x, IsSlot(h, x)
       PROVE  IsSlot(g, x) /\ (x # r => ReadAt(g, x) = ReadAt(h, x))
  <2>1. x \in Rid /\ x.page \in 0 .. h.last /\ x.slot \in DOMAIN Rows(h, x.page)
    BY <1>11 DEF IsSlot
  <2>2. CASE x.page # q
    BY <1>6, <2>1, <2>2 DEF ReadAt, IsSlot
  <2>3. CASE x.page = q
    <3>1. x.slot = s => x = r
      BY <1>7, <2>1, <2>3 DEF Rid
    <3>2. ReadAt(g, x) = rows[x.slot] /\ ReadAt(h, x) = old[x.slot]
      BY <1>6, <2>3 DEF ReadAt
    <3>3. x.slot \in DOMAIN old /\ x.slot \in DOMAIN rows
      BY <1>8, <2>1, <2>3
    <3>4. IsSlot(g, x)
      BY <1>6, <2>1, <2>3, <3>3 DEF IsSlot
    <3> QED
      BY <1>8, <3>1, <3>2, <3>3, <3>4
  <2> QED
    BY <2>2, <2>3
<1>12. ASSUME NEW x, IsSlot(g, x), x # r PROVE IsSlot(h, x)
  <2>1. x \in Rid /\ x.page \in 0 .. h.last /\ x.slot \in DOMAIN Rows(g, x.page)
    BY <1>6, <1>12 DEF IsSlot
  <2>2. CASE x.page # q
    BY <1>6, <2>1, <2>2 DEF IsSlot
  <2>3. CASE x.page = q
    <3>1. x.slot # s
      BY <1>7, <1>12, <2>1, <2>3 DEF Rid
    <3>2. x.slot \in DOMAIN old
      BY <1>6, <1>8, <2>1, <2>3, <3>1
    <3> QED
      BY <2>1, <2>3, <3>2 DEF IsSlot
  <2> QED
    BY <2>2, <2>3
<1>13. Linear(g) /\ t # Empty
  BY <1>6, Sizes DEF Heap
<1>14. r \notin LiveRids(h)
  <2>1. SUFFICES ASSUME r \in LiveRids(h) PROVE FALSE
    OBVIOUS
  <2>2. IsSlot(h, r) /\ ReadAt(h, r) # Empty
    BY <1>1, <2>1, LiveRidsAre DEF LiveAt
  <2>3. s \in DOMAIN old /\ ReadAt(h, r) = old[s]
    BY <1>7, <2>2 DEF IsSlot, ReadAt
  <2> QED
    BY <1>9, <2>2, <2>3
<1>15. LiveRids(g) = LiveRids(h) \cup {r}
  <2>1. ASSUME NEW x
        PROVE  x \in LiveRids(g) <=> x \in LiveRids(h) \/ x = r
    <3>1. x \in LiveRids(g) <=> IsSlot(g, x) /\ ReadAt(g, x) # Empty
      BY <1>13, LiveRidsAre DEF LiveAt
    <3>2. x \in LiveRids(h) <=> IsSlot(h, x) /\ ReadAt(h, x) # Empty
      BY <1>1, LiveRidsAre DEF LiveAt
    <3> QED
      BY <1>10, <1>11, <1>12, <1>13, <1>14, <3>1, <3>2
  <2> QED
    BY <2>1
<1>16. \A x \in LiveRids(h) : ReadAt(g, x) = ReadAt(h, x)
  <2>1. \A x \in LiveRids(h) : IsSlot(h, x) /\ x # r
    BY <1>1, <1>14, LiveRidsAre DEF LiveAt
  <2> QED
    BY <1>11, <2>1
<1>17. \A x : IsSlot(h, x) => IsSlot(g, x)
  BY <1>11
<1> QED
  BY <1>6, <1>10, <1>14, <1>15, <1>16, <1>17 DEF More

LEMMA GrownIs ==
  ASSUME NEW h, Heap(h), h.nextPage < MaxPages, NEW g, g = Grown(h)
  PROVE  /\ Heap(g) /\ g.last = h.last + 1 /\ Rows(g, g.last) = <<>>
         /\ \A p \in 0 .. h.last : Rows(g, p) = Rows(h, p)
<1>1. Linear(h) /\ Fitting(h) /\ Mapped(h)
  BY DEF Heap
<1> PICK l, m, old : l = h.last /\ m = l + 1 /\ old = Rows(h, l)
  OBVIOUS
<1>2. /\ l \in Nat /\ l \in 0 .. l /\ m \in 0 .. (MaxPages - 1) /\ m \in Nat
      /\ m \notin 0 .. l /\ m # l /\ 0 .. m = 0 .. l \cup {m} /\ m \in PageIds
  <2>1. l \in 0 .. (MaxPages - 1) /\ h.nextPage = m
    BY <1>1 DEF Linear, PageIds
  <2> QED
    BY <2>1, Sizes DEF PageIds
<1>3. /\ g.first = h.first /\ g.last = m /\ g.nextPage = m + 1 /\ Shaped(g)
      /\ g.page = Put([h.page EXCEPT ![l].next = m], m, EmptyPage)
      /\ g.freeSpace = Put(h.freeSpace, l, Usable(old))
  <2>1. h = [page |-> h.page, first |-> h.first, last |-> h.last,
             freeSpace |-> h.freeSpace, nextPage |-> h.nextPage]
    BY DEF Heap, Shaped
  <2>2. h.nextPage = m
    BY <1>1 DEF Linear
  <2> QED
    BY <2>1, <2>2 DEF Grown, Shaped
<1>4. DOMAIN h.page = 0 .. l
      /\ \A p \in 0 .. l : /\ h.page[p] \in Page
                           /\ h.page[p].next = IF p = l THEN NoPage ELSE p + 1
  BY <1>1 DEF Linear
<1>5. DOMAIN g.page = 0 .. m /\ g.page[m] = EmptyPage
      /\ \A p \in 0 .. l :
           g.page[p] = IF p = l THEN [h.page[p] EXCEPT !.next = m] ELSE h.page[p]
  BY <1>2, <1>3, <1>4 DEF Put
<1>6. ASSUME NEW p \in 0 .. l
      PROVE  g.page[p] \in Page /\ g.page[p].rows = h.page[p].rows
             /\ g.page[p].next = p + 1
  <2>1. h.page[p] \in Page /\ (p # l => h.page[p].next = p + 1)
    BY <1>4
  <2>2. CASE p = l
    <3>1. g.page[p] = [h.page[p] EXCEPT !.next = m]
      BY <1>5, <2>2
    <3> QED
      BY <1>2, <2>1, <2>2, <3>1 DEF Page
  <2>3. CASE p # l
    <3>1. g.page[p] = h.page[p]
      BY <1>5, <2>3
    <3> QED
      BY <2>1, <2>3, <3>1
  <2> QED
    BY <2>2, <2>3
<1>7. EmptyPage \in Page /\ EmptyPage.rows = <<>> /\ EmptyPage.next = NoPage
  BY DEF Page, EmptyPage
<1>8. Linear(g)
  <2>1. ASSUME NEW p \in 0 .. m
        PROVE  /\ g.page[p] \in Page
               /\ g.page[p].next = IF p = m THEN NoPage ELSE p + 1
    <3>1. CASE p = m
      BY <1>5, <1>7, <3>1
    <3>2. CASE p # m
      BY <1>2, <1>6, <3>2
    <3> QED
      BY <3>1, <3>2
  <2>2. g.first = 0
    BY <1>1, <1>3 DEF Linear
  <2> QED
    BY <1>2, <1>3, <1>5, <2>1, <2>2 DEF Linear
<1>9. Rows(g, m) = <<>> /\ \A p \in 0 .. l : Rows(g, p) = Rows(h, p)
  BY <1>5, <1>6, <1>7 DEF Rows
<1>10. Fitting(g)
  <2>1. ASSUME NEW p \in 0 .. m PROVE On(Rows(g, p))!Used <= PageSize
    <3> PICK rows : rows = Rows(g, p)
      OBVIOUS
    <3>1. CASE p = m
      BY <1>9, <3>1, UsedEmpty, Sizes
    <3>2. CASE p # m
      <4>1. p \in 0 .. l /\ rows = Rows(h, p)
        BY <1>2, <1>9, <3>2
      <4> QED
        BY <1>1, <4>1 DEF Fitting
    <3> QED
      BY <3>1, <3>2
  <2> QED
    BY <1>3, <2>1 DEF Fitting
<1>11. Mapped(g)
  <2>1. DOMAIN h.freeSpace \subseteq 0 .. l
        /\ \A p \in DOMAIN h.freeSpace : h.freeSpace[p] = Usable(Rows(h, p))
    BY <1>1 DEF Mapped, TrueFreeSpace
  <2>2. /\ DOMAIN g.freeSpace = DOMAIN h.freeSpace \cup {l}
        /\ \A p \in DOMAIN h.freeSpace \cup {l} :
             g.freeSpace[p] = IF p = l THEN Usable(old) ELSE h.freeSpace[p]
    BY <1>3 DEF Put
  <2>3. ASSUME NEW p \in DOMAIN g.freeSpace
        PROVE  g.freeSpace[p] = Usable(Rows(g, p)) /\ p \in 0 .. m
    <3>1. p \in 0 .. l
      BY <1>2, <2>1, <2>2
    <3>2. Rows(g, p) = Rows(h, p)
      BY <1>9, <3>1
    <3>3. CASE p = l
      BY <1>2, <2>2, <3>2, <3>3
    <3>4. CASE p # l
      BY <1>2, <2>1, <2>2, <3>1, <3>2, <3>4
    <3> QED
      BY <3>3, <3>4
  <2>4. \A p \in DOMAIN g.freeSpace : g.freeSpace[p] = Usable(Rows(g, p))
    BY <2>3
  <2>5. DOMAIN g.freeSpace \subseteq 0 .. g.last
    BY <1>3, <2>3
  <2> QED
    BY <2>4, <2>5 DEF Mapped, TrueFreeSpace
<1> QED
  BY <1>3, <1>8, <1>9, <1>10, <1>11 DEF Heap

LEMMA GrowthChangesNoRow ==
  ASSUME NEW h, Heap(h), h.nextPage < MaxPages, NEW g, g = Grown(h)
  PROVE  /\ \A x : IsSlot(g, x) <=> IsSlot(h, x)
         /\ LiveRids(g) = LiveRids(h)
         /\ \A x : IsSlot(h, x) => ReadAt(g, x) = ReadAt(h, x)
<1>1. /\ Heap(g) /\ g.last = h.last + 1 /\ Rows(g, g.last) = <<>>
      /\ \A p \in 0 .. h.last : Rows(g, p) = Rows(h, p)
  BY GrownIs
<1>2. Linear(h) /\ Linear(g) /\ h.last \in Nat
  BY <1>1 DEF Heap, Linear, PageIds
<1>3. ASSUME NEW x PROVE IsSlot(g, x) <=> IsSlot(h, x)
  <2>1. CASE x.page \in 0 .. h.last
    BY <1>1, <1>2, <2>1 DEF IsSlot
  <2>2. CASE x.page \notin 0 .. h.last
    <3>1. ~IsSlot(h, x)
      BY <2>2 DEF IsSlot
    <3>2. ASSUME IsSlot(g, x) PROVE FALSE
      <4>1. x.page \in 0 .. g.last /\ x.slot \in DOMAIN Rows(g, x.page)
        BY <3>2 DEF IsSlot
      <4>2. x.page = g.last
        BY <1>1, <1>2, <2>2, <4>1
      <4>3. x.slot \in DOMAIN <<>>
        BY <1>1, <4>1, <4>2
      <4> QED
        BY <4>3
    <3> QED
      BY <3>1, <3>2
  <2> QED
    BY <2>1, <2>2
<1>4. \A x : IsSlot(h, x) => ReadAt(g, x) = ReadAt(h, x)
  BY <1>1 DEF IsSlot, ReadAt
<1>5. ASSUME NEW x PROVE x \in LiveRids(g) <=> x \in LiveRids(h)
  <2>1. x \in LiveRids(g) <=> IsSlot(g, x) /\ ReadAt(g, x) # Empty
    BY <1>2, LiveRidsAre DEF LiveAt
  <2>2. x \in LiveRids(h) <=> IsSlot(h, x) /\ ReadAt(h, x) # Empty
    BY <1>2, LiveRidsAre DEF LiveAt
  <2> QED
    BY <1>3, <1>4, <2>1, <2>2
<1> QED
  BY <1>3, <1>4, <1>5

LEMMA InsertedIs ==
  ASSUME NEW h, Heap(h), NEW t \in Tuples, CanInsert(h, t),
         NEW g, g = Inserted(h, t)
  PROVE  \E r : More(g, h, r, t)
<1>1. CASE ~Full(h, t)
  BY <1>1, StoredInLast DEF Inserted
<1>2. CASE Full(h, t)
  <2> PICK k : k = Grown(h)
    OBVIOUS
  <2>1. h.nextPage < MaxPages
    BY <1>2 DEF CanInsert
  <2>2. Heap(k) /\ Rows(k, k.last) = <<>>
    BY <2>1, GrownIs
  <2>3. ~Full(k, t)
    BY <2>2, EmptyHasRoom DEF Full
  <2>4. g = Stored(k, t)
    BY <1>2 DEF Inserted
  <2>5. PICK r : More(g, k, r, t)
    BY <2>2, <2>3, <2>4, StoredInLast
  <2>6. /\ \A x : IsSlot(k, x) <=> IsSlot(h, x)
        /\ LiveRids(k) = LiveRids(h)
        /\ \A x : IsSlot(h, x) => ReadAt(k, x) = ReadAt(h, x)
    BY <2>1, GrowthChangesNoRow
  <2>7. \A x \in LiveRids(h) : IsSlot(h, x)
    BY LiveRidsAre DEF LiveAt, Heap
  <2>8. More(g, h, r, t)
    BY <2>5, <2>6, <2>7 DEF More
  <2> QED
    BY <2>8
<1> QED
  BY <1>1, <1>2

LEMMA NewHeapIs == Heap(NewHeap) /\ LiveRids(NewHeap) = {}
<1> PICK h : h = NewHeap
  OBVIOUS
<1>1. /\ Shaped(h) /\ h.first = 0 /\ h.last = 0 /\ h.nextPage = 1
      /\ h.page = [p \in {0} |-> EmptyPage]
      /\ h.freeSpace = [p \in {0} |-> Usable(<<>>)]
  BY DEF NewHeap, Shaped
<1>2. 0 .. h.last = {0} /\ 0 \in PageIds
  BY <1>1, Sizes DEF PageIds
<1>3. EmptyPage \in Page /\ EmptyPage.rows = <<>> /\ EmptyPage.next = NoPage
  BY DEF Page, EmptyPage
<1>4. Linear(h)
  BY <1>1, <1>2, <1>3 DEF Linear
<1>5. Rows(h, 0) = <<>>
  BY <1>1, <1>3 DEF Rows
<1>6. Fitting(h)
  <2>1. On(<<>>)!Used <= PageSize
    BY UsedEmpty, Sizes
  <2> QED
    BY <1>2, <1>5, <2>1 DEF Fitting
<1>7. Mapped(h)
  BY <1>1, <1>2, <1>5 DEF Mapped, TrueFreeSpace
<1>8. LiveRids(h) = {}
  <2>1. ASSUME NEW x, x \in LiveRids(h) PROVE FALSE
    <3>1. x.page \in 0 .. h.last /\ x.slot \in DOMAIN Rows(h, x.page)
      BY <1>4, <2>1, LiveRidsAre DEF LiveAt, IsSlot
    <3>2. x.slot \in DOMAIN <<>>
      BY <1>2, <1>5, <3>1
    <3> QED
      BY <3>2
  <2> QED
    BY <2>1
<1> QED
  BY <1>1, <1>4, <1>6, <1>7, <1>8 DEF Heap

-----------------------------------------------------------------------------
(***************************************************************************)
(* Batches of rows.                                                        *)
(***************************************************************************)
(* Taking the first element off a sequence, and adding one at its end. *)
Split(seq, first, rest) ==
  /\ ToSet(seq) = ToSet(rest) \cup {first}
  /\ 1 \in DOMAIN seq /\ seq[1] = first
  /\ \A i \in DOMAIN rest : i \in Nat \ {0} /\ i + 1 \in DOMAIN seq
                            /\ rest[i] = seq[i + 1]

LEMMA TailIs ==
  ASSUME NEW S, NEW seq \in Seq(S), seq # <<>>,
         NEW first, first = Head(seq), NEW rest, rest = Tail(seq)
  PROVE  first \in S /\ rest \in Seq(S) /\ Split(seq, first, rest)
<1> PICK n : n = Len(seq)
  OBVIOUS
<1>1. n \in Nat \ {0} /\ DOMAIN seq = 1 .. n /\ first = seq[1]
  BY EmptySeq, LenProperties
<1>2. /\ first \in S /\ rest \in Seq(S) /\ Len(rest) = n - 1
      /\ \A i \in 1 .. Len(rest) : rest[i] = seq[i + 1]
  BY HeadTailProperties
<1>3. DOMAIN rest = 1 .. (n - 1)
  BY <1>2, LenProperties
<1>4. \A i \in DOMAIN rest : i \in Nat \ {0} /\ i + 1 \in DOMAIN seq
                             /\ rest[i] = seq[i + 1]
  BY <1>1, <1>2, <1>3
<1>5. ASSUME NEW x \in ToSet(seq) PROVE x \in ToSet(rest) \cup {first}
  <2>1. PICK i \in 1 .. n : x = seq[i]
    BY <1>1 DEF ToSet
  <2>2. CASE i = 1
    BY <1>1, <2>1, <2>2
  <2>3. CASE i # 1
    <3> PICK j : j = i - 1
      OBVIOUS
    <3>1. j \in DOMAIN rest /\ j + 1 = i
      BY <1>1, <1>3, <2>3
    <3>2. rest[j] = seq[j + 1]
      BY <1>4, <3>1
    <3>3. rest[j] = x
      BY <2>1, <3>1, <3>2
    <3> QED
      BY <3>1, <3>3 DEF ToSet
  <2> QED
    BY <2>2, <2>3
<1>6. ASSUME NEW x \in ToSet(rest) \cup {first} PROVE x \in ToSet(seq)
  <2>1. first \in ToSet(seq)
    BY <1>1 DEF ToSet
  <2>2. CASE x \in ToSet(rest)
    <3>1. PICK i \in DOMAIN rest : x = rest[i]
      BY <2>2 DEF ToSet
    <3> QED
      BY <1>4, <3>1 DEF ToSet
  <2> QED
    BY <2>1, <2>2
<1>7. ToSet(seq) = ToSet(rest) \cup {first}
  BY <1>5, <1>6
<1>8. 1 \in DOMAIN seq
  BY <1>1
<1> QED
  BY <1>1, <1>2, <1>4, <1>7, <1>8 DEF Split

Joined(more, seq, last) ==
  /\ ToSet(more) = ToSet(seq) \cup {last}
  /\ \A i \in DOMAIN more : \/ i \in DOMAIN seq /\ more[i] = seq[i]
                            \/ i = Len(seq) + 1 /\ more[i] = last

LEMMA AppendIs ==
  ASSUME NEW S, NEW seq \in Seq(S), NEW last \in S,
         NEW more, more = Append(seq, last)
  PROVE  more \in Seq(S) /\ more # <<>> /\ Joined(more, seq, last)
<1> PICK n : n = Len(seq)
  OBVIOUS
<1>1. n \in Nat /\ DOMAIN seq = 1 .. n
  BY LenProperties
<1>2. /\ more \in Seq(S) /\ more # <<>> /\ Len(more) = n + 1
      /\ \A i \in 1 .. n : more[i] = seq[i]
      /\ more[n + 1] = last
  BY AppendProperties
<1>3. DOMAIN more = 1 .. (n + 1)
  BY <1>2, LenProperties
<1>4. \A i \in DOMAIN more : \/ i \in DOMAIN seq /\ more[i] = seq[i]
                             \/ i = n + 1 /\ more[i] = last
  BY <1>1, <1>2, <1>3
<1>5. DOMAIN seq \subseteq DOMAIN more /\ n + 1 \in DOMAIN more
  BY <1>1, <1>3
<1>6. ASSUME NEW x \in ToSet(more) PROVE x \in ToSet(seq) \cup {last}
  <2>1. PICK i \in DOMAIN more : x = more[i]
    BY DEF ToSet
  <2> QED
    BY <1>4, <2>1 DEF ToSet
<1>7. ASSUME NEW x \in ToSet(seq) \cup {last} PROVE x \in ToSet(more)
  <2>1. CASE x = last
    BY <1>2, <1>5, <2>1 DEF ToSet
  <2>2. CASE x \in ToSet(seq)
    <3>1. PICK i \in DOMAIN seq : x = seq[i]
      BY <2>2 DEF ToSet
    <3>2. i \in DOMAIN more /\ more[i] = seq[i]
      BY <1>1, <1>2, <1>5
    <3> QED
      BY <3>1, <3>2 DEF ToSet
  <2> QED
    BY <2>1, <2>2
<1>8. ToSet(more) = ToSet(seq) \cup {last}
  BY <1>6, <1>7
<1> QED
  BY <1>2, <1>4, <1>8 DEF Joined

LEMMA TailOfRows ==
  ASSUME NEW rows, NEW row, NEW rest, Split(rows, row, rest)
  PROVE  /\ Rids(rows) = Rids(rest) \cup {row.rid}
         /\ Distinct(rows) => Distinct(rest) /\ row.rid \notin Rids(rest)
<1>1. Rids(rows) = Rids(rest) \cup {row.rid}
  BY DEF Split, Rids
<1>2. ASSUME Distinct(rows) PROVE Distinct(rest)
  <2>1. ASSUME NEW i \in DOMAIN rest, NEW j \in DOMAIN rest,
               rest[i].rid = rest[j].rid
        PROVE  i = j
    <3> PICK k, l : k = i + 1 /\ l = j + 1
      OBVIOUS
    <3>1. /\ i \in Nat /\ j \in Nat /\ k \in DOMAIN rows /\ l \in DOMAIN rows
          /\ rest[i] = rows[k] /\ rest[j] = rows[l]
      BY DEF Split
    <3>2. k = l
      BY <1>2, <2>1, <3>1 DEF Distinct
    <3> QED
      BY <3>1, <3>2
  <2> QED
    BY <2>1 DEF Distinct
<1>3. ASSUME Distinct(rows), row.rid \in Rids(rest) PROVE FALSE
  <2>1. PICK x \in ToSet(rest) : x.rid = row.rid
    BY <1>3 DEF Rids
  <2>2. PICK i \in DOMAIN rest : rest[i] = x
    BY DEF ToSet
  <2> PICK k : k = i + 1
    OBVIOUS
  <2>3. i \in Nat \ {0} /\ k \in DOMAIN rows /\ rest[i] = rows[k]
    BY DEF Split
  <2>4. 1 \in DOMAIN rows /\ rows[1] = row
    BY DEF Split
  <2>5. k = 1
    BY <1>3, <2>1, <2>2, <2>3, <2>4 DEF Distinct
  <2> QED
    BY <2>3, <2>5
<1> QED
  BY <1>1, <1>2, <1>3

LEMMA RowsWithOneMore ==
  ASSUME NEW rows, NEW row, NEW more, Joined(more, rows, row)
  PROVE  /\ Rids(more) = Rids(rows) \cup {row.rid}
         /\ Distinct(rows) /\ row.rid \notin Rids(rows) => Distinct(more)
<1>1. Rids(more) = Rids(rows) \cup {row.rid}
  BY DEF Joined, Rids
<1>2. ASSUME Distinct(rows), row.rid \notin Rids(rows) PROVE Distinct(more)
  <2>1. \A i \in DOMAIN rows : rows[i].rid # row.rid
    BY <1>2 DEF Rids, ToSet
  <2>2. ASSUME NEW i \in DOMAIN more, NEW j \in DOMAIN more,
               more[i].rid = more[j].rid
        PROVE  i = j
    <3>1. \/ i \in DOMAIN rows /\ more[i] = rows[i]
          \/ i = Len(rows) + 1 /\ more[i] = row
      BY DEF Joined
    <3>2. \/ j \in DOMAIN rows /\ more[j] = rows[j]
          \/ j = Len(rows) + 1 /\ more[j] = row
      BY DEF Joined
    <3> QED
      BY <1>2, <2>1, <2>2, <3>1, <3>2 DEF Distinct
  <2> QED
    BY <2>2 DEF Distinct
<1> QED
  BY <1>1, <1>2

LEMMA SeenOnce ==
  ASSUME NEW seen \in Seq(Rid), IsInjective(seen), NEW r, r \notin ToSet(seen),
         NEW more, Joined(more, seen, r)
  PROVE  IsInjective(more)
<1>1. \A i \in DOMAIN seen : seen[i] # r
  BY DEF ToSet
<1>2. ASSUME NEW i \in DOMAIN more, NEW j \in DOMAIN more, more[i] = more[j]
      PROVE  i = j
  <2>1. \/ i \in DOMAIN seen /\ more[i] = seen[i]
        \/ i = Len(seen) + 1 /\ more[i] = r
    BY DEF Joined
  <2>2. \/ j \in DOMAIN seen /\ more[j] = seen[j]
        \/ j = Len(seen) + 1 /\ more[j] = r
    BY DEF Joined
  <2> QED
    BY <1>1, <1>2, <2>1, <2>2 DEF IsInjective
<1> QED
  BY <1>2 DEF IsInjective

-----------------------------------------------------------------------------
(***************************************************************************)
(* What the table holds, counted.                                          *)
(***************************************************************************)
LEMMA OneFewer ==
  ASSUME NEW A, IsFiniteSet(A), NEW x, NEW B, B = A \ {x},
         NEW d, (x \in A /\ d = 1) \/ (x \notin A /\ d = 0)
  PROVE  /\ IsFiniteSet(B) /\ Cardinality(A) \in Nat
         /\ Cardinality(B) = Cardinality(A) - d
<1>1. Cardinality(A) \in Nat
  BY FS_CardinalityType
<1>2. /\ IsFiniteSet(A \ {x})
      /\ Cardinality(A \ {x}) = IF x \in A THEN Cardinality(A) - 1 ELSE Cardinality(A)
  BY FS_RemoveElement
<1> QED
  BY <1>1, <1>2

LEMMA OneMore ==
  ASSUME NEW A, IsFiniteSet(A), NEW x, x \notin A, NEW B,
         NEW d, (B = A \cup {x} /\ d = 1) \/ (B = A /\ d = 0)
  PROVE  Cardinality(A) \in Nat /\ Cardinality(B) = Cardinality(A) + d
<1>1. Cardinality(A) \in Nat
  BY FS_CardinalityType
<1>2. Cardinality(A \cup {x}) = Cardinality(A) + 1
  BY FS_AddElement
<1> QED
  BY <1>1, <1>2

LEMMA HoldingIsFinite ==
  ASSUME NEW h, Linear(h), NEW t
  PROVE  IsFiniteSet(Holding(h, t))
<1>1. IsFiniteSet(LiveRids(h)) /\ Holding(h, t) \in SUBSET LiveRids(h)
  BY LiveRidsAreFinite DEF Holding
<1> QED
  BY <1>1, FS_Subset

LEMMA StillHeldIsFinite ==
  ASSUME NEW start, IsFiniteSet(DOMAIN start), NEW removed, NEW t
  PROVE  IsFiniteSet(StillHeld(start, removed, t))
<1>1. StillHeld(start, removed, t) \in SUBSET DOMAIN start
  BY DEF StillHeld, Kept
<1> QED
  BY <1>1, FS_Subset

LEMMA AddedIsFinite ==
  ASSUME NEW added \in Seq(Tuples), NEW t
  PROVE  /\ IsFiniteSet(AddedAt(added, t))
         /\ Len(added) + 1 \notin AddedAt(added, t)
<1> PICK n : n = Len(added)
  OBVIOUS
<1>1. n \in Nat /\ DOMAIN added = 1 .. n
  BY LenProperties
<1>2. AddedAt(added, t) \in SUBSET (1 .. n) /\ n + 1 \notin 1 .. n
  BY <1>1 DEF AddedAt
<1>3. IsFiniteSet(1 .. n)
  <2>1. 1 \in Int /\ n \in Int
    BY <1>1
  <2> QED
    BY <2>1, FS_Interval
<1>4. IsFiniteSet(AddedAt(added, t))
  BY <1>2, <1>3, FS_Subset
<1> QED
  BY <1>2, <1>4

LEMMA BalancedAfterDelete ==
  ASSUME NEW h, Linear(h), NEW k, NEW r, Less(k, h, r), NEW start,
         IsFiniteSet(DOMAIN start), NEW removed, r \in Kept(start, removed),
         NEW added \in Seq(Tuples), Unharmed(h, start, removed),
         Counted(h, start, removed, added),
         NEW less, less = removed \cup {r}
  PROVE  Unharmed(k, start, less) /\ Counted(k, start, less, added)
<1>1. r \in LiveRids(h) /\ ReadAt(h, r) = start[r]
  BY DEF Unharmed
<1>2. LiveRids(k) = LiveRids(h) \ {r}
      /\ \A x \in LiveRids(k) : ReadAt(k, x) = ReadAt(h, x)
  BY DEF Less
<1>3. Kept(start, less) = Kept(start, removed) \ {r}
  BY DEF Kept
<1>4. Unharmed(k, start, less)
  BY <1>2, <1>3 DEF Unharmed
<1>5. ASSUME NEW t \in Tuples
      PROVE  Cardinality(Holding(k, t)) = Cardinality(StillHeld(start, less, t))
                                          + Cardinality(AddedAt(added, t))
  <2> PICK A, B, C, D, E :
        /\ A = Holding(h, t) /\ B = Holding(k, t)
        /\ C = StillHeld(start, removed, t) /\ D = StillHeld(start, less, t)
        /\ E = AddedAt(added, t)
    OBVIOUS
  <2> PICK d : d = IF start[r] = t THEN 1 ELSE 0
    OBVIOUS
  <2>1. B = A \ {r} /\ (r \in A <=> start[r] = t)
    BY <1>1, <1>2 DEF Holding
  <2>2. D = C \ {r} /\ (r \in C <=> start[r] = t)
    BY <1>3 DEF StillHeld
  <2>3. IsFiniteSet(A) /\ IsFiniteSet(C) /\ IsFiniteSet(E)
    BY HoldingIsFinite, StillHeldIsFinite, AddedIsFinite
  <2>4. /\ (r \in A /\ d = 1) \/ (r \notin A /\ d = 0)
        /\ (r \in C /\ d = 1) \/ (r \notin C /\ d = 0)
    BY <2>1, <2>2
  <2>5. Cardinality(A) \in Nat /\ Cardinality(B) = Cardinality(A) - d
    BY <2>1, <2>3, <2>4, OneFewer
  <2>6. Cardinality(C) \in Nat /\ Cardinality(D) = Cardinality(C) - d
    <3>1. D = C \ {r}
      BY <2>2
    <3>2. (r \in C /\ d = 1) \/ (r \notin C /\ d = 0)
      BY <2>4
    <3>3. IsFiniteSet(C)
      BY <2>3
    <3> QED
      BY ZenonT(60), <3>1, <3>2, <3>3, OneFewer
  <2>7. Cardinality(E) \in Nat
    BY <2>3, FS_CardinalityType
  <2>8. Cardinality(A) = Cardinality(C) + Cardinality(E)
    BY DEF Counted
  <2>9. d \in Int
    OBVIOUS
  <2> QED
    BY <2>5, <2>6, <2>7, <2>8, <2>9
<1> QED
  BY <1>4, <1>5 DEF Counted

LEMMA BalancedAfterInsert ==
  ASSUME NEW h, Linear(h), NEW k, NEW r, NEW new \in Tuples, More(k, h, r, new),
         NEW start, IsFiniteSet(DOMAIN start), NEW removed,
         NEW added \in Seq(Tuples), Unharmed(h, start, removed),
         Counted(h, start, removed, added),
         NEW more, more = Append(added, new)
  PROVE  Unharmed(k, start, removed) /\ Counted(k, start, removed, more)
<1>1. /\ LiveRids(k) = LiveRids(h) \cup {r} /\ r \notin LiveRids(h)
      /\ ReadAt(k, r) = new
      /\ \A x \in LiveRids(h) : ReadAt(k, x) = ReadAt(h, x)
  BY DEF More
<1>2. Unharmed(k, start, removed)
  BY <1>1 DEF Unharmed
<1> PICK n : n = Len(added)
  OBVIOUS
<1>3. n \in Nat /\ DOMAIN added = 1 .. n /\ DOMAIN more = 1 .. (n + 1)
      /\ more[n + 1] = new /\ \A i \in 1 .. n : more[i] = added[i]
  BY LenProperties, AppendProperties
<1>4. DOMAIN more = DOMAIN added \cup {n + 1} /\ n + 1 \notin DOMAIN added
  BY <1>3
<1>5. ASSUME NEW t \in Tuples
      PROVE  Cardinality(Holding(k, t)) = Cardinality(StillHeld(start, removed, t))
                                          + Cardinality(AddedAt(more, t))
  <2> PICK A, B, C, E, F :
        /\ A = Holding(h, t) /\ B = Holding(k, t)
        /\ C = StillHeld(start, removed, t)
        /\ E = AddedAt(added, t) /\ F = AddedAt(more, t)
    OBVIOUS
  <2> PICK d : d = IF new = t THEN 1 ELSE 0
    OBVIOUS
  <2> PICK m : m = n + 1
    OBVIOUS
  <2>1. /\ (B = A \cup {r} /\ d = 1) \/ (B = A /\ d = 0)
        /\ r \notin A
    BY <1>1 DEF Holding
  <2>2. /\ (F = E \cup {m} /\ d = 1) \/ (F = E /\ d = 0)
        /\ m \notin E
    BY <1>3, <1>4 DEF AddedAt
  <2>3. IsFiniteSet(A) /\ IsFiniteSet(C) /\ IsFiniteSet(E)
    BY HoldingIsFinite, StillHeldIsFinite, AddedIsFinite
  <2>4. Cardinality(A) \in Nat /\ Cardinality(B) = Cardinality(A) + d
    BY <2>1, <2>3, OneMore
  <2>5. Cardinality(E) \in Nat /\ Cardinality(F) = Cardinality(E) + d
    BY <2>2, <2>3, OneMore
  <2>6. Cardinality(C) \in Nat
    BY <2>3, FS_CardinalityType
  <2>7. Cardinality(A) = Cardinality(C) + Cardinality(E)
    BY DEF Counted
  <2>8. d \in Int
    OBVIOUS
  <2> QED
    BY <2>4, <2>5, <2>6, <2>7, <2>8
<1> QED
  BY <1>2, <1>5 DEF Counted

LEMMA BalancedAtStart ==
  ASSUME NEW h, Linear(h), NEW g, g = Untouched(h)
  PROVE  Balanced(h, g) /\ GhostTyped(h, g)
<1>1. g.start = Contents(h) /\ g.seen = <<>> /\ g.removed = {} /\ g.added = <<>>
  BY DEF Untouched
<1> PICK start : start = g.start
  OBVIOUS
<1>2. DOMAIN start = LiveRids(h) /\ \A r \in LiveRids(h) : start[r] = ReadAt(h, r)
  BY <1>1 DEF Contents
<1>3. Unharmed(h, start, {})
  BY <1>2 DEF Unharmed, Kept
<1>4. ASSUME NEW t \in Tuples
      PROVE  Cardinality(Holding(h, t)) = Cardinality(StillHeld(start, {}, t))
                                          + Cardinality(AddedAt(<<>>, t))
  <2> PICK A, C, E : /\ A = Holding(h, t) /\ C = StillHeld(start, {}, t)
                     /\ E = AddedAt(<<>>, t)
    OBVIOUS
  <2>1. A = C
    BY <1>2 DEF Holding, StillHeld, Kept
  <2>2. E = {}
    BY DEF AddedAt
  <2>3. Cardinality(A) \in Nat
    BY HoldingIsFinite, FS_CardinalityType
  <2>4. Cardinality(E) = 0
    BY <2>2, FS_EmptySet
  <2> QED
    BY <2>1, <2>2, <2>3, <2>4
<1>5. Balanced(h, g)
  BY <1>1, <1>3, <1>4 DEF Balanced, Counted
<1>6. \A r \in DOMAIN start : IsSlot(h, r) /\ start[r] \in Tuples
  <2>1. ASSUME NEW r \in LiveRids(h) PROVE IsSlot(h, r) /\ ReadAt(h, r) \in Tuples
    <3>1. IsSlot(h, r) /\ ReadAt(h, r) # Empty
      BY LiveRidsAre DEF LiveAt
    <3> PICK rows : rows = Rows(h, r.page)
      OBVIOUS
    <3>2. r.page \in 0 .. h.last /\ r.slot \in DOMAIN rows
      BY <3>1 DEF IsSlot
    <3>3. rows \in PageRows
      BY <3>2, RowsOf
    <3>4. rows[r.slot] \in Tuples \cup {Empty}
      BY <3>2, <3>3, RowFacts
    <3> QED
      BY <3>1, <3>4 DEF ReadAt
  <2> QED
    BY <1>2, <2>1
<1>7. IsFiniteSet(DOMAIN start)
  BY <1>2, LiveRidsAreFinite
<1>8. g.seen \in Seq(Rid) /\ g.added \in Seq(Tuples)
  BY <1>1
<1>9. g = [start |-> g.start, seen |-> g.seen, removed |-> g.removed,
           added |-> g.added]
  BY DEF Untouched
<1> QED
  BY <1>5, <1>6, <1>7, <1>8, <1>9 DEF GhostTyped

-----------------------------------------------------------------------------
(***************************************************************************)
(* The rows on their way from the table through the operators.             *)
(***************************************************************************)
(* The executor takes the first row of its batch. *)
LEMMA NextRowIs ==
  ASSUME NEW start, NEW where, NEW seen, NEW out, NEW child, NEW ahead,
         NEW removed, NothingTwice(start, where, seen, removed),
         Underway(start, where, seen, out, child, ahead),
         NEW row, NEW rest, Split(out, row, rest)
  PROVE  /\ row.rid \in Matches(start, where) /\ row.tuple = start[row.rid]
         /\ row.rid \in Kept(start, removed)
         /\ row.rid \notin ToSet(seen) /\ row.rid \notin Rids(rest)
         /\ row.rid \notin Rids(child) /\ row.rid \notin ahead
<1>1. /\ Rids(out) = Rids(rest) \cup {row.rid} /\ row.rid \notin Rids(rest)
  BY TailOfRows DEF Underway, Copies
<1>2. row \in ToSet(out)
  BY DEF Split
<1>3. row.rid \in DOMAIN start /\ row.tuple = start[row.rid] /\ row.tuple \in where
  BY <1>2 DEF Underway, Copies
<1>4. /\ row.rid \notin ToSet(seen) /\ row.rid \notin Rids(child)
      /\ row.rid \notin ahead
  BY <1>1 DEF Underway
<1>5. row.rid \notin removed
  BY <1>4 DEF NothingTwice
<1> QED
  BY <1>1, <1>3, <1>4, <1>5 DEF Matches, Kept

LEMMA RowWorkedOff ==
  ASSUME NEW start, NEW where, NEW seen \in Seq(Rid), NEW out, NEW child,
         NEW ahead, NEW removed, NothingTwice(start, where, seen, removed),
         Underway(start, where, seen, out, child, ahead),
         NEW row, NEW rest, Split(out, row, rest),
         NEW more, Joined(more, seen, row.rid),
         NEW less, less \subseteq removed \cup {row.rid}
  PROVE  /\ Underway(start, where, more, rest, child, ahead)
         /\ NothingTwice(start, where, more, less)
<1> PICK r : r = row.rid
  OBVIOUS
<1>1. /\ r \in Matches(start, where)
      /\ r \notin ToSet(seen) /\ r \notin Rids(rest)
      /\ r \notin Rids(child) /\ r \notin ahead
  BY NextRowIs
<1>2. /\ Rids(out) = Rids(rest) \cup {r}
      /\ Distinct(rest) /\ ToSet(out) = ToSet(rest) \cup {row}
  BY TailOfRows DEF Underway, Copies, Split
<1>3. ToSet(more) = ToSet(seen) \cup {r}
  BY DEF Joined
<1>4. IsInjective(more)
  BY <1>1, SeenOnce DEF NothingTwice
<1>5. NothingTwice(start, where, more, less)
  BY <1>1, <1>3, <1>4 DEF NothingTwice
<1>6. Copies(child, start) /\ Copies(rest, start)
      /\ \A x \in ToSet(rest) : x.tuple \in where
  BY <1>2 DEF Underway, Copies
<1>7. Rids(rest) \cap (ToSet(more) \cup Rids(child) \cup ahead) = {}
  BY <1>1, <1>2, <1>3 DEF Underway
<1>8. Rids(child) \cap (ToSet(more) \cup ahead) = {}
  BY <1>1, <1>3 DEF Underway
<1>9. ToSet(more) \cap ahead = {}
  BY <1>1, <1>3 DEF Underway
<1>10. Matches(start, where) \subseteq
         ToSet(more) \cup Rids(rest) \cup Rids(child) \cup ahead
  BY <1>2, <1>3 DEF Underway
<1> QED
  BY <1>5, <1>6, <1>7, <1>8, <1>9, <1>10 DEF Underway

(* The scan puts the row it stands on into its batch. *)
LEMMA RowScanned ==
  ASSUME NEW start, NEW where, NEW seen, NEW out, NEW child, NEW ahead,
         Underway(start, where, seen, out, child, ahead),
         NEW row, row.rid \in ahead, row.rid \in DOMAIN start,
         row.tuple = start[row.rid],
         NEW more, Joined(more, child, row),
         NEW rest, rest = ahead \ {row.rid}
  PROVE  Underway(start, where, seen, out, more, rest)
<1> PICK r : r = row.rid
  OBVIOUS
<1>1. r \notin Rids(out) /\ r \notin Rids(child) /\ r \notin ToSet(seen)
  BY DEF Underway
<1>2. Rids(more) = Rids(child) \cup {r} /\ Distinct(more)
      /\ ToSet(more) = ToSet(child) \cup {row}
  BY <1>1, RowsWithOneMore DEF Underway, Copies, Joined
<1>3. Copies(more, start)
  BY <1>2 DEF Underway, Copies
<1>4. Rids(out) \cap (ToSet(seen) \cup Rids(more) \cup rest) = {}
  BY <1>1, <1>2 DEF Underway
<1>5. Rids(more) \cap (ToSet(seen) \cup rest) = {}
  BY <1>1, <1>2 DEF Underway
<1>6. ToSet(seen) \cap rest = {}
  BY DEF Underway
<1>7. Matches(start, where) \subseteq
        ToSet(seen) \cup Rids(out) \cup Rids(more) \cup rest
  BY <1>2 DEF Underway
<1> QED
  BY <1>3, <1>4, <1>5, <1>6, <1>7 DEF Underway

(* The filter passes the row on, or drops it. *)
LEMMA RowFiltered ==
  ASSUME NEW start, NEW where, NEW seen, NEW out, NEW child, NEW ahead,
         Underway(start, where, seen, out, child, ahead),
         NEW row, NEW rest, Split(child, row, rest),
         NEW more, IF row.tuple \in where THEN Joined(more, out, row)
                                          ELSE more = out
  PROVE  Underway(start, where, seen, more, rest, ahead)
<1> PICK r : r = row.rid
  OBVIOUS
<1>1. /\ Rids(child) = Rids(rest) \cup {r} /\ r \notin Rids(rest)
      /\ Distinct(rest) /\ ToSet(child) = ToSet(rest) \cup {row}
  BY TailOfRows DEF Underway, Copies, Split
<1>2. r \notin Rids(out) /\ r \notin ToSet(seen) /\ r \notin ahead
  BY <1>1 DEF Underway
<1>3. r \in DOMAIN start /\ row.tuple = start[r] /\ Copies(rest, start)
  BY <1>1 DEF Underway, Copies
<1>4. Rids(rest) \cap (ToSet(seen) \cup ahead) = {} /\ ToSet(seen) \cap ahead = {}
  BY <1>1 DEF Underway
<1>5. CASE row.tuple \in where
  <2>1. Joined(more, out, row)
    BY <1>5
  <2>2. /\ Rids(more) = Rids(out) \cup {r} /\ Distinct(more)
        /\ ToSet(more) = ToSet(out) \cup {row}
    BY <1>2, <2>1, RowsWithOneMore DEF Underway, Copies, Joined
  <2>3. Copies(more, start) /\ \A x \in ToSet(more) : x.tuple \in where
    BY <1>3, <1>5, <2>2 DEF Underway, Copies
  <2>4. Rids(more) \cap (ToSet(seen) \cup Rids(rest) \cup ahead) = {}
    BY <1>1, <1>2, <2>2 DEF Underway
  <2>5. Matches(start, where) \subseteq
          ToSet(seen) \cup Rids(more) \cup Rids(rest) \cup ahead
    BY <1>1, <2>2 DEF Underway
  <2> QED
    BY <1>3, <1>4, <2>3, <2>4, <2>5 DEF Underway
<1>6. CASE row.tuple \notin where
  <2>1. more = out
    BY <1>6
  <2>2. r \notin Matches(start, where)
    BY <1>3, <1>6 DEF Matches
  <2>3. Rids(out) \cap (ToSet(seen) \cup Rids(rest) \cup ahead) = {}
    BY <1>1 DEF Underway
  <2>4. Matches(start, where) \subseteq
          ToSet(seen) \cup Rids(out) \cup Rids(rest) \cup ahead
    BY <1>1, <2>2 DEF Underway
  <2>5. Copies(out, start) /\ \A x \in ToSet(out) : x.tuple \in where
    BY DEF Underway
  <2> QED
    BY <1>3, <1>4, <2>1, <2>3, <2>4, <2>5 DEF Underway
<1> QED
  BY <1>5, <1>6

-----------------------------------------------------------------------------
(***************************************************************************)
(* The steps of a statement.                                               *)
(***************************************************************************)
LEMMA IdleIs ==
  ASSUME NEW h, Heap(h), NEW s, s = Idle, NEW g, g = Untouched(h)
  PROVE  StatementInv(h, s, g)
<1>1. Linear(h)
  BY DEF Heap
<1>2. Balanced(h, g) /\ GhostTyped(h, g) /\ g.removed = {}
  BY <1>1, BalancedAtStart DEF Untouched
<1>3. Typed(s)
  <2>1. s.child = <<>> /\ s.out = <<>> /\ s.pc = "done"
    BY DEF Idle
  <2>2. ToSet(<<>>) = {}
    BY DEF ToSet
  <2>3. s \in [kind : Kinds, pc : States, where : SUBSET Tuples, iter : Row,
               child : Seq(Row), out : Seq(Row), count : Nat]
    BY AtEndIsNoRow DEF Idle, Kinds, States
  <2> QED
    BY <2>1, <2>2, <2>3 DEF Typed
<1>4. ~Scanning(s) /\ s.iter = AtEnd
  BY DEF Idle, Scanning
<1> QED
  BY <1>2, <1>3, <1>4 DEF StatementInv, InsertInv

LEMMA InitIsGood == Init => IInv
<1> SUFFICES ASSUME Init PROVE IInv
  OBVIOUS
<1>1. PICK h, s, g : h = heap /\ s = stmt /\ g = ghost
  OBVIOUS
<1>2. h = NewHeap /\ s = Idle /\ g = Untouched(h)
  BY <1>1 DEF Init
<1>3. Heap(h)
  BY <1>2, NewHeapIs
<1>4. StatementInv(h, s, g)
  BY <1>2, <1>3, IdleIs
<1> QED
  BY <1>1, <1>3, <1>4 DEF IInv

LEMMA StartInsertKeeps ==
  ASSUME IInv, NEW list \in ValueLists, StartInsert(list)
  PROVE  IInv'
<1>1. PICK h, s, g : h = heap /\ s = stmt /\ g = ghost
  OBVIOUS
<1>2. PICK k, u, f : k = heap' /\ u = stmt' /\ f = ghost'
  OBVIOUS
<1>3. PICK rows : rows = [i \in DOMAIN list |-> [rid |-> End, tuple |-> list[i]]]
  OBVIOUS
<1>4. Heap(h) /\ StatementInv(h, s, g)
  BY <1>1 DEF IInv
<1>5. /\ s.pc = "done" /\ k = h /\ f = g
      /\ u = [Idle EXCEPT !.pc = "pull", !.where = Tuples, !.child = rows]
  BY <1>1, <1>2, <1>3 DEF StartInsert, Start
<1>6. g = Untouched(h) /\ g.removed = {}
  BY <1>4, <1>5 DEF StatementInv, Untouched
<1>7. PICK n \in Nat : list \in [1 .. n -> Tuples]
  <2>1. list \in Seq(Tuples)
    BY StatementAssumption
  <2> QED
    BY <2>1, LenProperties
<1>8. rows \in Seq(Row) /\ \A row \in ToSet(rows) : row.tuple \in Tuples
  <2>1. \A i \in 1 .. n : [rid |-> End, tuple |-> list[i]] \in Row
    BY <1>7, AtEndIsNoRow DEF Row, Rid
  <2>2. rows \in [1 .. n -> Row]
    BY <1>3, <1>7, <2>1
  <2>3. rows \in Seq(Row)
    BY <2>2, FunIsSeq
  <2>4. \A i \in DOMAIN rows : rows[i].tuple \in Tuples
    BY <1>3, <1>7
  <2> QED
    BY <2>3, <2>4 DEF ToSet
<1>9. /\ u.kind = "insert" /\ u.pc = "pull" /\ u.iter = AtEnd
      /\ u.child = rows /\ u.out = <<>>
      /\ u \in [kind : Kinds, pc : States, where : SUBSET Tuples, iter : Row,
                child : Seq(Row), out : Seq(Row), count : Nat]
  <2>1. u = [kind |-> "insert", pc |-> "pull", where |-> Tuples, iter |-> AtEnd,
             child |-> rows, out |-> <<>>, count |-> 0]
    BY <1>5 DEF Idle
  <2>2. "insert" \in Kinds /\ "pull" \in States /\ 0 \in Nat /\ <<>> \in Seq(Row)
    BY DEF Kinds, States
  <2>3. Tuples \in SUBSET Tuples /\ AtEnd \in Row /\ rows \in Seq(Row)
    BY <1>8, AtEndIsNoRow
  <2> QED
    BY <2>1, <2>2, <2>3
<1>10. Typed(u)
  <2>1. ToSet(<<>>) = {}
    BY DEF ToSet
  <2> QED
    BY <1>8, <1>9, <2>1 DEF Typed
<1>11. ~Scanning(u) /\ InsertInv(u, g)
  BY <1>6, <1>9 DEF Scanning, InsertInv
<1>12. StatementInv(k, u, f)
  BY <1>4, <1>5, <1>9, <1>10, <1>11 DEF StatementInv
<1> QED
  BY <1>2, <1>4, <1>5, <1>12 DEF IInv

LEMMA StartScanKeeps ==
  ASSUME IInv, NEW kind \in {"delete", "update"}, NEW where \in Predicates,
         StartScan(kind, where)
  PROVE  IInv'
<1>1. PICK h, s, g : h = heap /\ s = stmt /\ g = ghost
  OBVIOUS
<1>2. PICK k, u, f : k = heap' /\ u = stmt' /\ f = ghost'
  OBVIOUS
<1>3. PICK iter : iter = Begin(h)
  OBVIOUS
<1>4. Heap(h) /\ StatementInv(h, s, g) /\ Linear(h)
  BY <1>1 DEF IInv, Heap
<1>5. /\ s.pc = "done" /\ k = h /\ f = g
      /\ u = [Idle EXCEPT !.kind = kind, !.pc = "pull", !.where = where,
                          !.iter = iter]
  BY <1>1, <1>2, <1>3 DEF StartScan, Start
<1>6. /\ g = Untouched(h) /\ g.removed = {} /\ g.seen = <<>>
      /\ DOMAIN g.start = LiveRids(h)
      /\ \A r \in LiveRids(h) : g.start[r] = ReadAt(h, r)
  BY <1>4, <1>5 DEF StatementInv, Untouched, Contents
<1>7. Onward(h, iter) = LiveRids(h) /\ StandsFirst(h, iter, 0, 1)
  BY <1>3, <1>4, BeginIs
<1>8. iter \in Row
  BY <1>7, AtEndIsNoRow DEF StandsFirst
<1>9. /\ u.kind = kind /\ u.pc = "pull" /\ u.iter = iter /\ u.where = where
      /\ u.child = <<>> /\ u.out = <<>>
      /\ u \in [kind : Kinds, pc : States, where : SUBSET Tuples, iter : Row,
                child : Seq(Row), out : Seq(Row), count : Nat]
  <2>1. u = [kind |-> kind, pc |-> "pull", where |-> where, iter |-> iter,
             child |-> <<>>, out |-> <<>>, count |-> 0]
    BY <1>5 DEF Idle
  <2>2. kind \in Kinds /\ "pull" \in States /\ 0 \in Nat /\ <<>> \in Seq(Row)
    BY DEF Kinds, States
  <2>3. where \in SUBSET Tuples /\ iter \in Row /\ <<>> \in Seq(Row)
    BY <1>8, StatementAssumption
  <2> QED
    BY <2>1, <2>2, <2>3
<1>10. ToSet(<<>>) = {} /\ Rids(<<>>) = {} /\ Distinct(<<>>)
       /\ IsInjective(<<>>)
  BY DEF ToSet, Rids, Distinct, IsInjective
<1>11. Typed(u) /\ Scanning(u)
  BY <1>9, <1>10 DEF Typed, Scanning
<1>12. ScanIsTrue(h, iter, g.start)
  BY <1>6, <1>7 DEF ScanIsTrue, StandsFirst
<1>13. NothingTwice(g.start, where, <<>>, {})
  BY <1>10 DEF NothingTwice
<1>14. Underway(g.start, where, <<>>, <<>>, <<>>, LiveRids(h))
  BY <1>6, <1>10 DEF Underway, Copies, Matches
<1>15. ScanInv(h, u, g)
  BY <1>6, <1>7, <1>9, <1>12, <1>13, <1>14 DEF ScanInv
<1>16. StatementInv(k, u, f)
  BY <1>4, <1>5, <1>9, <1>11, <1>15 DEF StatementInv
<1> QED
  BY <1>2, <1>4, <1>5, <1>16 DEF IInv

LEMMA FinishKeeps ==
  ASSUME IInv, Finish
  PROVE  IInv'
<1>1. PICK h : h = heap
  OBVIOUS
<1>2. PICK k, u, f : k = heap' /\ u = stmt' /\ f = ghost'
  OBVIOUS
<1>3. Heap(h) /\ k = h /\ u = Idle /\ f = Untouched(h)
  BY <1>1, <1>2 DEF IInv, Finish
<1>4. StatementInv(k, u, f)
  BY <1>3, IdleIs
<1> QED
  BY <1>2, <1>3, <1>4 DEF IInv

LEMMA ScanRowKeeps ==
  ASSUME IInv, ScanRow
  PROVE  IInv'
<1>1. PICK h, s, g : h = heap /\ s = stmt /\ g = ghost
  OBVIOUS
<1>2. PICK k, u, f : k = heap' /\ u = stmt' /\ f = ghost'
  OBVIOUS
<1>3. PICK iter, next : iter = s.iter /\ next = Advanced(h, iter)
  OBVIOUS
<1>4. PICK rows : rows = Append(s.child, iter)
  OBVIOUS
<1>5. Heap(h) /\ StatementInv(h, s, g) /\ Linear(h)
  BY <1>1 DEF IInv, Heap
<1>6. PICK pc \in {"scan", "pull"} :
        u = [s EXCEPT !.child = rows, !.iter = next, !.pc = pc]
  <2>1. u = [s EXCEPT !.child = rows, !.iter = next,
                      !.pc = IF Len(s.child) + 1 < BatchSize /\ next # AtEnd
                             THEN "scan" ELSE "pull"]
    BY <1>1, <1>2, <1>3, <1>4 DEF ScanRow, NextIterator
  <2>2. (IF Len(s.child) + 1 < BatchSize /\ next # AtEnd
         THEN "scan" ELSE "pull") \in {"scan", "pull"}
    OBVIOUS
  <2> QED
    BY <2>1, <2>2
<1>7. k = h /\ f = g /\ iter # AtEnd /\ s.pc \in {"scan", "pull"}
  BY <1>1, <1>2, <1>3 DEF ScanRow
<1>8. Typed(s) /\ GhostTyped(h, g) /\ Balanced(h, g)
  BY <1>5 DEF StatementInv
<1>9. Scanning(s) /\ ScanInv(h, s, g)
  BY <1>3, <1>5, <1>7 DEF StatementInv, InsertInv
<1>10. /\ iter.rid \in LiveRids(h) /\ iter.tuple = ReadAt(h, iter.rid)
       /\ \A r \in LiveRids(h) : r \in DOMAIN g.start /\ ReadAt(h, r) = g.start[r]
  BY <1>3, <1>7, <1>9 DEF ScanInv, ScanIsTrue
<1>11. /\ iter.rid \in Onward(h, iter)
       /\ Onward(h, next) = Onward(h, iter) \ {iter.rid}
       /\ StandsFirst(h, next, iter.rid.page, iter.rid.slot + 1)
  BY <1>3, <1>5, <1>7, <1>10, AdvancedIs
<1>12. /\ s \in [kind : Kinds, pc : States, where : SUBSET Tuples, iter : Row,
                 child : Seq(Row), out : Seq(Row), count : Nat]
       /\ \A row \in ToSet(s.child) \cup ToSet(s.out) : row.tuple \in Tuples
  BY <1>8 DEF Typed
<1>13. iter \in Row /\ next \in Row
  BY <1>3, <1>11, <1>12, AtEndIsNoRow DEF StandsFirst
<1>14. rows \in Seq(Row) /\ Joined(rows, s.child, iter)
  <2>1. s.child \in Seq(Row)
    BY <1>12
  <2> QED
    BY <1>4, <1>13, <2>1, AppendIs
<1>15. iter.tuple \in Tuples /\ iter.rid \in DOMAIN g.start
       /\ iter.tuple = g.start[iter.rid]
  BY <1>8, <1>10 DEF GhostTyped
<1>16. /\ u.kind = s.kind /\ u.pc = pc /\ u.where = s.where /\ u.iter = next
       /\ u.child = rows /\ u.out = s.out
  BY <1>6, <1>12
<1>17. u \in [kind : Kinds, pc : States, where : SUBSET Tuples, iter : Row,
              child : Seq(Row), out : Seq(Row), count : Nat]
  BY <1>6, <1>12, <1>13, <1>14 DEF States
<1>18. Typed(u)
  <2>1. ToSet(rows) = ToSet(s.child) \cup {iter}
    BY <1>14 DEF Joined
  <2>2. \A row \in ToSet(rows) \cup ToSet(s.out) : row.tuple \in Tuples
    BY <1>12, <1>15, <2>1
  <2> QED
    BY <1>6, <1>16, <1>17, <2>2 DEF Typed
<1>19. ScanIsTrue(h, next, g.start)
  BY <1>10, <1>11 DEF ScanIsTrue, StandsFirst
<1>20. Underway(g.start, s.where, g.seen, s.out, rows, Onward(h, next))
  <2>1. PICK ahead, rest : ahead = Onward(h, iter) /\ rest = Onward(h, next)
    OBVIOUS
  <2>2. Underway(g.start, s.where, g.seen, s.out, s.child, ahead)
    BY <1>3, <1>7, <1>9, <2>1 DEF ScanInv
  <2>3. iter.rid \in ahead /\ rest = ahead \ {iter.rid}
    BY <1>11, <2>1
  <2> QED
    BY <1>14, <1>15, <2>1, <2>2, <2>3, RowScanned
<1>21. NothingTwice(g.start, s.where, g.seen, g.removed)
  BY <1>9 DEF ScanInv
<1>22. ScanInv(h, u, g)
  BY <1>6, <1>16, <1>19, <1>20, <1>21 DEF ScanInv
<1>23. StatementInv(k, u, f)
  BY <1>6, <1>7, <1>8, <1>9, <1>16, <1>18, <1>22 DEF StatementInv, Scanning
<1> QED
  BY <1>2, <1>5, <1>7, <1>23 DEF IInv

LEMMA FilterRowKeeps ==
  ASSUME IInv, FilterRow
  PROVE  IInv'
<1>1. PICK h, s, g : h = heap /\ s = stmt /\ g = ghost
  OBVIOUS
<1>2. PICK k, u, f : k = heap' /\ u = stmt' /\ f = ghost'
  OBVIOUS
<1>3. PICK row, rest : row = Head(s.child) /\ rest = Tail(s.child)
  OBVIOUS
<1>4. PICK out : out = IF row.tuple \in s.where THEN Append(s.out, row) ELSE s.out
  OBVIOUS
<1>5. Heap(h) /\ StatementInv(h, s, g)
  BY <1>1 DEF IInv
<1>6. /\ k = h /\ f = g /\ s.pc = "pull" /\ s.child # <<>>
      /\ u = [s EXCEPT !.child = rest, !.out = out]
  BY <1>1, <1>2, <1>3, <1>4 DEF FilterRow
<1>7. Typed(s) /\ GhostTyped(h, g) /\ Balanced(h, g)
  BY <1>5 DEF StatementInv
<1>8. /\ s \in [kind : Kinds, pc : States, where : SUBSET Tuples, iter : Row,
                child : Seq(Row), out : Seq(Row), count : Nat]
      /\ \A x \in ToSet(s.child) \cup ToSet(s.out) : x.tuple \in Tuples
  BY <1>7 DEF Typed
<1>9. row \in Row /\ rest \in Seq(Row) /\ Split(s.child, row, rest)
  <2>1. s.child \in Seq(Row)
    BY <1>8
  <2> QED
    BY <1>3, <1>6, <2>1, TailIs
<1>10. /\ out \in Seq(Row) /\ ToSet(out) \subseteq ToSet(s.out) \cup {row}
       /\ IF row.tuple \in s.where THEN Joined(out, s.out, row) ELSE out = s.out
  <2>1. s.out \in Seq(Row)
    BY <1>8
  <2>2. CASE row.tuple \in s.where
    <3>1. out = Append(s.out, row)
      BY <1>4, <2>2
    <3>2. out \in Seq(Row) /\ Joined(out, s.out, row)
      BY <1>9, <2>1, <3>1, AppendIs
    <3> QED
      BY <2>2, <3>2 DEF Joined
  <2>3. CASE row.tuple \notin s.where
    BY <1>4, <2>1, <2>3
  <2> QED
    BY <2>2, <2>3
<1>11. /\ u.kind = s.kind /\ u.pc = "pull" /\ u.where = s.where
       /\ u.iter = s.iter /\ u.child = rest /\ u.out = out
       /\ u \in [kind : Kinds, pc : States, where : SUBSET Tuples, iter : Row,
                 child : Seq(Row), out : Seq(Row), count : Nat]
  BY <1>6, <1>8, <1>9, <1>10
<1>12. Typed(u)
  <2>1. ToSet(s.child) = ToSet(rest) \cup {row}
    BY <1>9 DEF Split
  <2>2. \A x \in ToSet(rest) \cup ToSet(out) : x.tuple \in Tuples
    BY <1>8, <1>10, <2>1
  <2> QED
    BY <1>11, <2>2 DEF Typed
<1>13. ASSUME Scanning(s) PROVE ScanInv(h, u, g)
  <2>1. PICK ahead : ahead = Onward(h, s.iter)
    OBVIOUS
  <2>2. /\ ScanIsTrue(h, s.iter, g.start)
        /\ NothingTwice(g.start, s.where, g.seen, g.removed)
        /\ Underway(g.start, s.where, g.seen, s.out, s.child, ahead)
    BY <1>5, <1>6, <1>13, <2>1 DEF StatementInv, ScanInv
  <2>3. Underway(g.start, s.where, g.seen, out, rest, ahead)
    BY <1>9, <1>10, <2>2, RowFiltered
  <2> QED
    BY <1>11, <2>1, <2>2, <2>3 DEF ScanInv
<1>14. ~Scanning(s) => InsertInv(u, g)
  BY <1>5, <1>11 DEF StatementInv, InsertInv
<1>15. StatementInv(k, u, f)
  BY <1>6, <1>7, <1>11, <1>12, <1>13, <1>14 DEF StatementInv, Scanning
<1> QED
  BY <1>2, <1>5, <1>6, <1>15 DEF IInv

LEMMA PulledKeeps ==
  ASSUME IInv, Pulled
  PROVE  IInv'
<1>1. PICK h, s, g : h = heap /\ s = stmt /\ g = ghost
  OBVIOUS
<1>2. PICK k, u, f : k = heap' /\ u = stmt' /\ f = ghost'
  OBVIOUS
<1>3. Heap(h) /\ StatementInv(h, s, g)
  BY <1>1 DEF IInv
<1>4. /\ k = h /\ f = g /\ s.pc = "pull" /\ s.out # <<>>
      /\ u = [s EXCEPT !.pc = "apply"]
      /\ s.kind = "update" => s.child = <<>> /\ s.iter = AtEnd
  BY <1>1, <1>2 DEF Pulled, WantsMore, Exhausted
<1>5. Typed(s) /\ GhostTyped(h, g) /\ Balanced(h, g)
  BY <1>3 DEF StatementInv
<1>6. /\ s \in [kind : Kinds, pc : States, where : SUBSET Tuples, iter : Row,
                child : Seq(Row), out : Seq(Row), count : Nat]
      /\ \A x \in ToSet(s.child) \cup ToSet(s.out) : x.tuple \in Tuples
  BY <1>5 DEF Typed
<1>7. /\ u.kind = s.kind /\ u.pc = "apply" /\ u.where = s.where
      /\ u.iter = s.iter /\ u.child = s.child /\ u.out = s.out
      /\ u \in [kind : Kinds, pc : States, where : SUBSET Tuples, iter : Row,
                child : Seq(Row), out : Seq(Row), count : Nat]
  BY <1>4, <1>6 DEF States
<1>8. Typed(u)
  BY <1>4, <1>6, <1>7 DEF Typed
<1>9. ASSUME Scanning(s) PROVE ScanInv(h, u, g)
  <2>1. /\ ScanIsTrue(h, s.iter, g.start)
        /\ NothingTwice(g.start, s.where, g.seen, g.removed)
        /\ Underway(g.start, s.where, g.seen, s.out, s.child, Onward(h, s.iter))
    BY <1>3, <1>4, <1>9 DEF StatementInv, ScanInv
  <2> QED
    BY <1>4, <1>7, <2>1 DEF ScanInv
<1>10. ~Scanning(s) => InsertInv(u, g)
  BY <1>3, <1>7 DEF StatementInv, InsertInv
<1>11. StatementInv(k, u, f)
  BY <1>4, <1>5, <1>7, <1>8, <1>9, <1>10 DEF StatementInv, Scanning
<1> QED
  BY <1>2, <1>3, <1>4, <1>11 DEF IInv

(* The executor is done with the first row of its batch ... *)
AppliedTo(u, s) ==
  /\ u.count \in Nat
  /\ u = [s EXCEPT !.out = Tail(s.out),
                   !.pc = IF Len(s.out) = 1 THEN "pull" ELSE "apply",
                   !.count = u.count]

LEMMA AppliedIs ==
  ASSUME NEW s, Typed(s), s.out # <<>>, NEW u, AppliedTo(u, s),
         NEW row, row = Head(s.out)
  PROVE  /\ Typed(u) /\ u.kind = s.kind /\ u.where = s.where
         /\ u.iter = s.iter /\ u.child = s.child
         /\ u.pc \in {"pull", "apply"}
         /\ Split(s.out, row, u.out)
         /\ row \in Row /\ row.rid \in Rid /\ row.tuple \in Tuples
<1>1. /\ s \in [kind : Kinds, pc : States, where : SUBSET Tuples, iter : Row,
                child : Seq(Row), out : Seq(Row), count : Nat]
      /\ \A x \in ToSet(s.child) \cup ToSet(s.out) : x.tuple \in Tuples
  BY DEF Typed
<1>2. PICK rest, n : rest = Tail(s.out) /\ n = Len(s.out)
  OBVIOUS
<1>3. s.out \in Seq(Row)
  BY <1>1
<1>4. row \in Row /\ rest \in Seq(Row) /\ Split(s.out, row, rest)
  BY <1>2, <1>3, TailIs
<1>5. PICK pc \in {"pull", "apply"} :
        /\ u = [s EXCEPT !.out = rest, !.pc = pc, !.count = u.count]
        /\ pc = "apply" => n # 1
  BY <1>2 DEF AppliedTo
<1>6. u.count \in Nat
  BY DEF AppliedTo
<1>7. /\ u.kind = s.kind /\ u.where = s.where /\ u.iter = s.iter
      /\ u.child = s.child /\ u.pc = pc /\ u.out = rest
  BY <1>1, <1>5
<1>8. u \in [kind : Kinds, pc : States, where : SUBSET Tuples, iter : Row,
             child : Seq(Row), out : Seq(Row), count : Nat]
  BY <1>1, <1>4, <1>5, <1>6 DEF States
<1>9. pc = "apply" => rest # <<>>
  <2>1. n \in Nat \ {0} /\ Len(rest) = n - 1
    BY <1>2, <1>3, EmptySeq, HeadTailProperties
  <2>2. n # 1 => Len(rest) # 0
    BY <2>1
  <2>3. Len(<<>>) = 0
    OBVIOUS
  <2> QED
    BY <1>5, <2>2, <2>3
<1>10. ToSet(s.out) = ToSet(rest) \cup {row}
  BY <1>4 DEF Split
<1>11. Typed(u)
  BY <1>1, <1>7, <1>8, <1>9, <1>10 DEF Typed
<1>12. row.rid \in Rid /\ row.tuple \in Tuples
  BY <1>1, <1>4, <1>10 DEF Row, Rid
<1> QED
  BY <1>4, <1>5, <1>7, <1>11, <1>12

(* ... and the ghost has noted what it did. *)
Noted(f, g, r, removed, added) ==
  f = [g EXCEPT !.seen = Append(g.seen, r), !.removed = g.removed \cup removed,
                !.added = added]

OnlyAdds(f, g, removed, added) ==
  /\ f.start = g.start /\ f.added = added
  /\ f.removed = g.removed \cup removed

SlotsStay(k, h) == \A x : IsSlot(h, x) => IsSlot(k, x)

LEMMA NotedIs ==
  ASSUME NEW h, NEW g, GhostTyped(h, g), NEW r \in Rid, NEW removed,
         NEW added \in Seq(Tuples), NEW f, Noted(f, g, r, removed, added),
         NEW k, SlotsStay(k, h)
  PROVE  /\ GhostTyped(k, f) /\ OnlyAdds(f, g, removed, added)
         /\ Joined(f.seen, g.seen, r)
<1>1. /\ g = [start |-> g.start, seen |-> g.seen, removed |-> g.removed,
              added |-> g.added]
      /\ g.seen \in Seq(Rid)
      /\ IsFiniteSet(DOMAIN g.start)
      /\ \A x \in DOMAIN g.start : IsSlot(h, x) /\ g.start[x] \in Tuples
  BY DEF GhostTyped
<1>2. PICK seen : seen = Append(g.seen, r)
  OBVIOUS
<1>3. seen \in Seq(Rid) /\ Joined(seen, g.seen, r)
  BY <1>1, <1>2, AppendIs
<1>4. f = [start |-> g.start, seen |-> seen,
           removed |-> g.removed \cup removed, added |-> added]
  BY <1>1, <1>2 DEF Noted
<1>5. /\ f.start = g.start /\ f.seen = seen /\ f.added = added
      /\ f.removed = g.removed \cup removed
      /\ f = [start |-> f.start, seen |-> f.seen, removed |-> f.removed,
              added |-> f.added]
  BY <1>4
<1>6. GhostTyped(k, f)
  BY <1>1, <1>3, <1>5 DEF GhostTyped, SlotsStay
<1> QED
  BY <1>3, <1>5, <1>6 DEF OnlyAdds

(* DELETE and UPDATE take a row of the table. *)
LEMMA RowOfScan ==
  ASSUME NEW h, Heap(h), NEW s, NEW g, StatementInv(h, s, g), Scanning(s),
         s.pc = "apply", NEW row, row = Head(s.out)
  PROVE  /\ row.rid \in LiveRids(h) /\ IsSlot(h, row.rid)
         /\ row.rid \in Kept(g.start, g.removed)
         /\ row.rid \notin Onward(h, s.iter)
         /\ row.tuple = ReadAt(h, row.rid)
<1>1. Typed(s) /\ Balanced(h, g) /\ ScanInv(h, s, g) /\ s.out # <<>>
  BY DEF StatementInv, Typed
<1>2. PICK rest, ahead : rest = Tail(s.out) /\ ahead = Onward(h, s.iter)
  OBVIOUS
<1>3. s.out \in Seq(Row)
  BY <1>1 DEF Typed
<1>4. Split(s.out, row, rest)
  BY <1>1, <1>2, <1>3, TailIs
<1>5. /\ NothingTwice(g.start, s.where, g.seen, g.removed)
      /\ Underway(g.start, s.where, g.seen, s.out, s.child, ahead)
  BY <1>1, <1>2 DEF ScanInv
<1>6. /\ row.tuple = g.start[row.rid] /\ row.rid \in Kept(g.start, g.removed)
      /\ row.rid \notin ahead
  BY <1>4, <1>5, NextRowIs
<1>7. row.rid \in LiveRids(h) /\ ReadAt(h, row.rid) = g.start[row.rid]
  BY <1>1, <1>6 DEF Balanced, Unharmed
<1>8. IsSlot(h, row.rid)
  BY <1>7, LiveRidsAre DEF LiveAt, Heap
<1> QED
  BY <1>2, <1>6, <1>7, <1>8

(* Its own invariant after that, when the table ahead is as it was. *)
ScanStays(k, h, s, g) ==
  Onward(k, s.iter) = Onward(h, s.iter) /\ ScanIsTrue(k, s.iter, g.start)

LEMMA ScanGoesOn ==
  ASSUME NEW h, NEW s, NEW g, Typed(s), GhostTyped(h, g), ScanInv(h, s, g),
         s.pc = "apply",
         NEW u, AppliedTo(u, s), NEW row, row = Head(s.out),
         NEW f, NEW removed, removed \subseteq {row.rid}, NEW added,
         OnlyAdds(f, g, removed, added), Joined(f.seen, g.seen, row.rid),
         NEW k, ScanStays(k, h, s, g)
  PROVE  ScanInv(k, u, f)
<1>1. s.out # <<>>
  BY DEF Typed
<1>2. /\ u.kind = s.kind /\ u.where = s.where /\ u.iter = s.iter
      /\ u.child = s.child /\ u.pc \in {"pull", "apply"}
      /\ Split(s.out, row, u.out)
  BY <1>1, AppliedIs
<1>3. PICK start, where, seen, gone, out, rest, child, ahead, more, less :
        /\ start = g.start /\ where = s.where /\ seen = g.seen
        /\ gone = g.removed /\ out = s.out /\ rest = u.out
        /\ child = s.child /\ ahead = Onward(h, s.iter)
        /\ more = f.seen /\ less = f.removed
  OBVIOUS
<1>4. /\ NothingTwice(start, where, seen, gone)
      /\ Underway(start, where, seen, out, child, ahead)
  BY <1>3 DEF ScanInv
<1>5. /\ seen \in Seq(Rid) /\ Split(out, row, rest)
      /\ Joined(more, seen, row.rid) /\ less \subseteq gone \cup {row.rid}
  BY <1>2, <1>3 DEF GhostTyped, OnlyAdds
<1>6. Underway(start, where, more, rest, child, ahead)
      /\ NothingTwice(start, where, more, less)
  BY <1>4, <1>5, RowWorkedOff
<1>7. s.kind = "update" => s.child = <<>> /\ s.iter = AtEnd
  BY DEF ScanInv
<1>8. /\ NothingTwice(f.start, u.where, f.seen, f.removed)
      /\ Underway(f.start, u.where, f.seen, u.out, u.child, Onward(k, u.iter))
      /\ ScanIsTrue(k, u.iter, f.start)
  <2>1. f.start = g.start
    BY DEF OnlyAdds
  <2> QED
    BY <1>2, <1>3, <1>6, <2>1 DEF ScanStays
<1> QED
  BY <1>2, <1>7, <1>8 DEF ScanInv

LEMMA InsertRowKeeps ==
  ASSUME IInv, InsertRow
  PROVE  IInv'
<1>1. PICK h, s, g : h = heap /\ s = stmt /\ g = ghost
  OBVIOUS
<1>2. PICK k, u, f : k = heap' /\ u = stmt' /\ f = ghost'
  OBVIOUS
<1>3. PICK row, r, t, none : /\ row = Head(s.out) /\ r = row.rid
                             /\ t = row.tuple /\ none = {}
  OBVIOUS
<1>4. Heap(h) /\ StatementInv(h, s, g) /\ Linear(h)
  BY <1>1 DEF IInv, Heap
<1>5. Typed(s) /\ GhostTyped(h, g) /\ Balanced(h, g)
  BY <1>4 DEF StatementInv
<1>6. s.kind = "insert" /\ s.pc = "apply" /\ s.out # <<>>
  BY <1>1, <1>5 DEF InsertRow, Applying, Typed
<1>7. AppliedTo(u, s)
  <2>1. s.count \in Nat /\ s.count + 1 \in Nat
    BY <1>5 DEF Typed
  <2>2. u = [s EXCEPT !.out = Tail(s.out),
                      !.pc = IF Len(s.out) = 1 THEN "pull" ELSE "apply",
                      !.count = s.count + 1]
    BY <1>1, <1>2 DEF InsertRow, Applied
  <2>3. u.count = s.count + 1
    BY <1>5, <2>2 DEF Typed
  <2> QED
    BY <2>1, <2>2, <2>3 DEF AppliedTo
<1>8. /\ Typed(u) /\ u.kind = "insert" /\ u.iter = s.iter
      /\ u.pc \in {"pull", "apply"}
      /\ r \in Rid /\ t \in Tuples
  BY <1>3, <1>5, <1>6, <1>7, AppliedIs
<1>9. s.iter = AtEnd /\ g.removed = {} /\ ~Scanning(u)
  BY <1>4, <1>6, <1>8 DEF StatementInv, InsertInv, Scanning
<1>10. /\ IsFiniteSet(DOMAIN g.start) /\ g.added \in Seq(Tuples)
       /\ Unharmed(h, g.start, g.removed)
       /\ Counted(h, g.start, g.removed, g.added)
  BY <1>5 DEF GhostTyped, Balanced
<1>11. ASSUME CanInsert(h, t), k = Inserted(h, t),
              Noted(f, g, r, none, g.added \o <<t>>)
       PROVE  Heap(k) /\ StatementInv(k, u, f)
  <2>1. PICK more : more = Append(g.added, t)
    OBVIOUS
  <2>2. more = g.added \o <<t>> /\ more \in Seq(Tuples)
    BY <1>8, <1>10, <2>1, AppendIsConcat, AppendProperties
  <2>3. PICK x : More(k, h, x, t)
    BY <1>4, <1>8, <1>11, InsertedIs
  <2>4. Heap(k) /\ SlotsStay(k, h)
    BY <2>3 DEF More, SlotsStay
  <2>5. Unharmed(k, g.start, g.removed) /\ Counted(k, g.start, g.removed, more)
    BY <1>4, <1>8, <1>10, <2>1, <2>3, BalancedAfterInsert
  <2>6. Noted(f, g, r, none, more)
    BY <1>11, <2>2
  <2>7. GhostTyped(k, f) /\ OnlyAdds(f, g, none, more)
    <3>1. GhostTyped(h, g) /\ r \in Rid /\ more \in Seq(Tuples) /\ SlotsStay(k, h)
      BY <1>5, <1>8, <2>2, <2>4
    <3> QED
      BY <2>6, <3>1, NotedIs
  <2>8. f.removed = g.removed /\ f.start = g.start /\ f.added = more
    BY <1>3, <2>7 DEF OnlyAdds
  <2>9. Balanced(k, f) /\ InsertInv(u, f)
    BY <1>8, <1>9, <2>5, <2>8 DEF Balanced, InsertInv
  <2>10. StatementInv(k, u, f)
    BY <1>8, <1>9, <2>7, <2>9 DEF StatementInv
  <2> QED
    BY <2>4, <2>10
<1>12. ASSUME k = h, Noted(f, g, r, none, g.added \o <<>>)
       PROVE  Heap(k) /\ StatementInv(k, u, f)
  <2>1. g.added \o <<>> = g.added
    BY <1>10, ConcatEmptySeq
  <2>2. Noted(f, g, r, none, g.added)
    BY <1>12, <2>1
  <2>3. GhostTyped(h, f) /\ OnlyAdds(f, g, none, g.added)
    <3>1. SlotsStay(h, h)
      BY DEF SlotsStay
    <3>2. GhostTyped(h, g) /\ r \in Rid /\ g.added \in Seq(Tuples)
      BY <1>5, <1>8, <1>10
    <3> QED
      BY <2>2, <3>1, <3>2, NotedIs
  <2>4. f.removed = g.removed /\ f.start = g.start /\ f.added = g.added
    BY <1>3, <2>3 DEF OnlyAdds
  <2>5. Balanced(h, f) /\ InsertInv(u, f)
    BY <1>8, <1>9, <1>10, <2>4 DEF Balanced, InsertInv
  <2>6. StatementInv(k, u, f)
    BY <1>8, <1>9, <1>12, <2>3, <2>5 DEF StatementInv
  <2> QED
    BY <1>4, <1>12, <2>6
<1>13. \/ /\ CanInsert(h, t) /\ k = Inserted(h, t)
          /\ Noted(f, g, r, none, g.added \o <<t>>)
       \/ k = h /\ Noted(f, g, r, none, g.added \o <<>>)
  BY <1>1, <1>2, <1>3 DEF InsertRow, Note, Noted
<1>14. Heap(k) /\ StatementInv(k, u, f)
  BY <1>11, <1>12, <1>13
<1> QED
  BY <1>2, <1>14 DEF IInv

(* The row is gone: from the table and from what is kept. *)
LEMMA RowRemoved ==
  ASSUME NEW h, Heap(h), NEW s, NEW g, StatementInv(h, s, g), Scanning(s),
         s.pc = "apply", NEW row, row = Head(s.out), row.rid \in Rid,
         NEW k, k = Deleted(h, row.rid),
         NEW less, less = g.removed \cup {row.rid}
  PROVE  /\ Less(k, h, row.rid) /\ Heap(k)
         /\ SlotsStay(k, h)
         /\ Unharmed(k, g.start, less) /\ Counted(k, g.start, less, g.added)
         /\ ScanStays(k, h, s, g)
<1>1. PICK r, iter, start : r = row.rid /\ iter = s.iter /\ start = g.start
  OBVIOUS
<1>2. r \in LiveRids(h) /\ IsSlot(h, r) /\ r \in Kept(start, g.removed)
      /\ r \notin Onward(h, iter)
  BY <1>1, RowOfScan
<1>3. Less(k, h, r)
  BY <1>1, <1>2, DeletedIs
<1>4. Heap(k) /\ SlotsStay(k, h)
  BY <1>3 DEF Less, SlotsStay
<1>5. Unharmed(k, start, less) /\ Counted(k, start, less, g.added)
  <2>1. /\ Linear(h) /\ IsFiniteSet(DOMAIN start) /\ g.added \in Seq(Tuples)
        /\ Unharmed(h, start, g.removed)
        /\ Counted(h, start, g.removed, g.added)
    BY <1>1 DEF StatementInv, GhostTyped, Balanced, Heap
  <2> QED
    BY <1>1, <1>2, <1>3, <2>1, BalancedAfterDelete
<1>6. LiveRids(k) = LiveRids(h) \ {r}
      /\ \A x \in LiveRids(k) : ReadAt(k, x) = ReadAt(h, x)
  BY <1>3 DEF Less
<1>7. Onward(k, iter) = Onward(h, iter)
  <2>1. CASE iter = AtEnd
    BY <2>1 DEF Onward
  <2>2. CASE iter # AtEnd
    BY <1>2, <1>6, <2>2 DEF Onward, From
  <2> QED
    BY <2>1, <2>2
<1>8. ScanIsTrue(k, iter, start)
  <2>1. SUFFICES ASSUME iter # AtEnd
                 PROVE  /\ iter.rid \in LiveRids(k)
                        /\ iter.tuple = ReadAt(k, iter.rid)
                        /\ \A x \in LiveRids(k) :
                             x \in DOMAIN start /\ ReadAt(k, x) = start[x]
    BY DEF ScanIsTrue
  <2>2. ScanIsTrue(h, iter, start)
    BY <1>1 DEF StatementInv, ScanInv
  <2>3. /\ iter.rid \in LiveRids(h) /\ iter.tuple = ReadAt(h, iter.rid)
        /\ \A x \in LiveRids(h) : x \in DOMAIN start /\ ReadAt(h, x) = start[x]
    BY <2>1, <2>2 DEF ScanIsTrue
  <2>4. iter.rid \in Onward(h, iter)
    <3>1. PICK next : next = Advanced(h, iter)
      OBVIOUS
    <3>2. Linear(h)
      BY DEF Heap
    <3> QED
      BY <2>1, <2>3, <3>1, <3>2, AdvancedIs
  <2>5. iter.rid # r
    BY <1>2, <2>4
  <2> QED
    BY <1>6, <2>3, <2>5
<1> QED
  BY <1>1, <1>3, <1>4, <1>5, <1>7, <1>8 DEF ScanStays

LEMMA DeleteRowKeeps ==
  ASSUME IInv, DeleteRow
  PROVE  IInv'
<1>1. PICK h, s, g : h = heap /\ s = stmt /\ g = ghost
  OBVIOUS
<1>2. PICK k, u, f : k = heap' /\ u = stmt' /\ f = ghost'
  OBVIOUS
<1>3. PICK row, r, none, one : /\ row = Head(s.out) /\ r = row.rid
                               /\ none = {} /\ one = {r}
  OBVIOUS
<1>4. Heap(h) /\ StatementInv(h, s, g)
  BY <1>1 DEF IInv
<1>5. s.kind = "delete" /\ s.pc = "apply" /\ Scanning(s)
  BY <1>1 DEF DeleteRow, Applying, Scanning
<1>6. /\ Typed(s) /\ GhostTyped(h, g) /\ Balanced(h, g) /\ ScanInv(h, s, g)
      /\ s.out # <<>>
  BY <1>4, <1>5 DEF StatementInv, Typed
<1>7. AppliedTo(u, s)
  <2>1. s.count \in Nat /\ s.count + 1 \in Nat
    BY <1>6 DEF Typed
  <2>2. u = [s EXCEPT !.out = Tail(s.out),
                      !.pc = IF Len(s.out) = 1 THEN "pull" ELSE "apply",
                      !.count = s.count + 1]
    BY <1>1, <1>2 DEF DeleteRow, Applied
  <2>3. u.count = s.count + 1
    BY <1>6, <2>2 DEF Typed
  <2> QED
    BY <2>1, <2>2, <2>3 DEF AppliedTo
<1>8. /\ Typed(u) /\ u.kind = "delete" /\ u.pc \in {"pull", "apply"}
      /\ row.rid \in Rid /\ Scanning(u)
  BY <1>3, <1>5, <1>6, <1>7, AppliedIs DEF Scanning
<1>9. /\ g.added \in Seq(Tuples) /\ g.added \o <<>> = g.added
      /\ r \in Rid /\ none \subseteq {row.rid} /\ one \subseteq {row.rid}
  BY <1>3, <1>6, <1>8, ConcatEmptySeq DEF GhostTyped
<1>10. ASSUME k = Deleted(h, r), Noted(f, g, r, one, g.added)
       PROVE  Heap(k) /\ StatementInv(k, u, f)
  <2>1. PICK less : less = g.removed \cup {r}
    OBVIOUS
  <2>2. /\ Heap(k) /\ SlotsStay(k, h) /\ ScanStays(k, h, s, g)
        /\ Unharmed(k, g.start, less) /\ Counted(k, g.start, less, g.added)
    BY <1>3, <1>4, <1>5, <1>9, <1>10, <2>1, RowRemoved
  <2>3. /\ GhostTyped(k, f) /\ OnlyAdds(f, g, one, g.added)
        /\ Joined(f.seen, g.seen, r)
    BY <1>6, <1>9, <1>10, <2>2, NotedIs
  <2>4. f.start = g.start /\ f.added = g.added /\ f.removed = less
    BY <1>3, <2>1, <2>3 DEF OnlyAdds
  <2>5. Balanced(k, f)
    BY <2>2, <2>4 DEF Balanced
  <2>6. ScanInv(k, u, f)
    BY <1>3, <1>5, <1>6, <1>7, <1>9, <2>2, <2>3, ScanGoesOn
  <2> QED
    BY <1>8, <2>2, <2>3, <2>5, <2>6 DEF StatementInv
<1>11. ASSUME k = h, Noted(f, g, r, none, g.added)
       PROVE  Heap(k) /\ StatementInv(k, u, f)
  <2>1. SlotsStay(h, h) /\ ScanStays(h, h, s, g)
    BY <1>6 DEF SlotsStay, ScanStays, ScanInv
  <2>2. /\ GhostTyped(h, f) /\ OnlyAdds(f, g, none, g.added)
        /\ Joined(f.seen, g.seen, r)
    BY <1>6, <1>9, <1>11, <2>1, NotedIs
  <2>3. f.start = g.start /\ f.added = g.added /\ f.removed = g.removed
    BY <1>3, <2>2 DEF OnlyAdds
  <2>4. Balanced(h, f)
    BY <1>6, <2>3 DEF Balanced
  <2>5. ScanInv(h, u, f)
    BY <1>3, <1>5, <1>6, <1>7, <1>9, <2>1, <2>2, ScanGoesOn
  <2> QED
    BY <1>4, <1>8, <1>11, <2>2, <2>4, <2>5 DEF StatementInv
<1>12. \/ k = Deleted(h, r) /\ Noted(f, g, r, one, g.added)
       \/ k = h /\ Noted(f, g, r, none, g.added)
  <2>1. \/ k = Deleted(h, r) /\ Noted(f, g, r, one, g.added \o <<>>)
        \/ k = h /\ Noted(f, g, r, none, g.added \o <<>>)
    BY <1>1, <1>2, <1>3 DEF DeleteRow, Note, Noted
  <2> QED
    BY <1>9, <2>1
<1>13. Heap(k) /\ StatementInv(k, u, f)
  BY <1>10, <1>11, <1>12
<1> QED
  BY <1>2, <1>13 DEF IInv

(* An UPDATE that writes has read the whole table: there is no row ahead. *)
LEMMA UpdateRowKeeps ==
  ASSUME IInv, UpdateRow
  PROVE  IInv'
<1>1. PICK h, s, g : h = heap /\ s = stmt /\ g = ghost
  OBVIOUS
<1>2. PICK k, u, f : k = heap' /\ u = stmt' /\ f = ghost'
  OBVIOUS
<1>3. PICK row, r, none, one : /\ row = Head(s.out) /\ r = row.rid
                               /\ none = {} /\ one = {r}
  OBVIOUS
<1>4. PICK new, w, more, less :
        /\ new = NewTuple[row.tuple] /\ w = Deleted(h, r)
        /\ more = Append(g.added, new) /\ less = g.removed \cup {r}
  OBVIOUS
<1>5. Heap(h) /\ StatementInv(h, s, g)
  BY <1>1 DEF IInv
<1>6. s.kind = "update" /\ s.pc = "apply" /\ Scanning(s)
  BY <1>1 DEF UpdateRow, Applying, Scanning
<1>7. /\ Typed(s) /\ GhostTyped(h, g) /\ Balanced(h, g) /\ ScanInv(h, s, g)
      /\ s.out # <<>> /\ s.iter = AtEnd
  BY <1>5, <1>6 DEF StatementInv, Typed, ScanInv
<1>8. AppliedTo(u, s)
  <2>1. s.count \in Nat /\ s.count + 1 \in Nat
    BY <1>7 DEF Typed
  <2>2. PICK n \in Nat :
          u = [s EXCEPT !.out = Tail(s.out),
                        !.pc = IF Len(s.out) = 1 THEN "pull" ELSE "apply",
                        !.count = n]
    BY <1>1, <1>2, <2>1 DEF UpdateRow, Applied
  <2>3. u.count = n
    BY <1>7, <2>2 DEF Typed
  <2> QED
    BY <2>2, <2>3 DEF AppliedTo
<1>9. /\ Typed(u) /\ u.kind = "update" /\ u.pc \in {"pull", "apply"}
      /\ row.rid \in Rid /\ row.tuple \in Tuples /\ Scanning(u)
  BY <1>3, <1>6, <1>7, <1>8, AppliedIs DEF Scanning
<1>10. /\ g.added \in Seq(Tuples) /\ g.added \o <<>> = g.added
       /\ r \in Rid /\ none \subseteq {row.rid} /\ one \subseteq {row.rid}
  BY <1>3, <1>7, <1>9, ConcatEmptySeq DEF GhostTyped
<1>11. new \in Tuples /\ more = g.added \o <<new>> /\ more \in Seq(Tuples)
  <2>1. new \in Tuples
    BY <1>4, <1>9, StatementAssumption
  <2> QED
    BY <1>4, <1>10, <2>1, AppendIsConcat, AppendProperties
<1>12. /\ Heap(w) /\ SlotsStay(w, h)
       /\ Unharmed(w, g.start, less) /\ Counted(w, g.start, less, g.added)
  BY <1>3, <1>4, <1>5, <1>6, <1>9, RowRemoved
<1>13. \A x : ScanStays(x, h, s, g)
  BY <1>7 DEF ScanStays, ScanIsTrue, Onward
<1>14. ASSUME CanInsert(w, new), k = Inserted(w, new), Noted(f, g, r, one, more)
       PROVE  Heap(k) /\ StatementInv(k, u, f)
  <2>1. PICK x : More(k, w, x, new)
    BY <1>11, <1>12, <1>14, InsertedIs
  <2>2. Heap(k) /\ SlotsStay(k, h) /\ ScanStays(k, h, s, g)
    BY <1>12, <1>13, <2>1 DEF More, SlotsStay
  <2>3. Unharmed(k, g.start, less) /\ Counted(k, g.start, less, more)
    <3>1. Linear(w) /\ IsFiniteSet(DOMAIN g.start)
      BY <1>7, <1>12 DEF Heap, GhostTyped
    <3> QED
      BY <1>4, <1>10, <1>11, <1>12, <2>1, <3>1, BalancedAfterInsert
  <2>4. /\ GhostTyped(k, f) /\ OnlyAdds(f, g, one, more)
        /\ Joined(f.seen, g.seen, r)
    BY <1>7, <1>10, <1>11, <1>14, <2>2, NotedIs
  <2>5. f.start = g.start /\ f.added = more /\ f.removed = less
    BY <1>3, <1>4, <2>4 DEF OnlyAdds
  <2>6. Balanced(k, f)
    BY <2>3, <2>5 DEF Balanced
  <2>7. ScanInv(k, u, f)
    BY <1>3, <1>6, <1>7, <1>8, <1>10, <2>2, <2>4, ScanGoesOn
  <2> QED
    BY <1>9, <2>2, <2>4, <2>6, <2>7 DEF StatementInv
<1>15. ASSUME k = w, Noted(f, g, r, one, g.added)
       PROVE  Heap(k) /\ StatementInv(k, u, f)
  <2>1. /\ GhostTyped(w, f) /\ OnlyAdds(f, g, one, g.added)
        /\ Joined(f.seen, g.seen, r)
    BY <1>7, <1>10, <1>12, <1>15, NotedIs
  <2>2. f.start = g.start /\ f.added = g.added /\ f.removed = less
    BY <1>3, <1>4, <2>1 DEF OnlyAdds
  <2>3. Balanced(w, f)
    BY <1>12, <2>2 DEF Balanced
  <2>4. ScanInv(w, u, f)
    <3>1. ScanStays(w, h, s, g)
      BY <1>13
    <3> QED
      BY <1>3, <1>6, <1>7, <1>8, <1>10, <2>1, <3>1, ScanGoesOn
  <2> QED
    BY <1>9, <1>12, <1>15, <2>1, <2>3, <2>4 DEF StatementInv
<1>16. ASSUME k = h, Noted(f, g, r, none, g.added)
       PROVE  Heap(k) /\ StatementInv(k, u, f)
  <2>1. SlotsStay(h, h) /\ ScanStays(h, h, s, g)
    BY <1>13 DEF SlotsStay
  <2>2. /\ GhostTyped(h, f) /\ OnlyAdds(f, g, none, g.added)
        /\ Joined(f.seen, g.seen, r)
    BY <1>7, <1>10, <1>16, <2>1, NotedIs
  <2>3. f.start = g.start /\ f.added = g.added /\ f.removed = g.removed
    BY <1>3, <2>2 DEF OnlyAdds
  <2>4. Balanced(h, f)
    BY <1>7, <2>3 DEF Balanced
  <2>5. ScanInv(h, u, f)
    BY <1>3, <1>6, <1>7, <1>8, <1>10, <2>1, <2>2, ScanGoesOn
  <2> QED
    BY <1>5, <1>9, <1>16, <2>2, <2>4, <2>5 DEF StatementInv
<1>17. \/ /\ CanInsert(w, new) /\ k = Inserted(w, new)
          /\ Noted(f, g, r, one, more)
       \/ k = w /\ Noted(f, g, r, one, g.added)
       \/ k = h /\ Noted(f, g, r, none, g.added)
  <2>1. \/ /\ CanInsert(w, new) /\ k = Inserted(w, new)
           /\ Noted(f, g, r, one, g.added \o <<new>>)
        \/ k = w /\ Noted(f, g, r, one, g.added \o <<>>)
        \/ k = h /\ Noted(f, g, r, none, g.added \o <<>>)
    BY <1>1, <1>2, <1>3, <1>4 DEF UpdateRow, Note, Noted
  <2> QED
    BY <1>10, <1>11, <2>1
<1>18. Heap(k) /\ StatementInv(k, u, f)
  BY <1>14, <1>15, <1>16, <1>17
<1> QED
  BY <1>2, <1>18 DEF IInv

(* A process that ends in insert_tuple leaves the table to be read: nothing *)
(* was lost but the row that the UPDATE had already deleted.               *)
LEMMA TerminateKeeps ==
  ASSUME IInv, Terminate
  PROVE  IInv'
<1>1. PICK h, s, g : h = heap /\ s = stmt /\ g = ghost
  OBVIOUS
<1>2. PICK k, u, f : k = heap' /\ u = stmt' /\ f = ghost'
  OBVIOUS
<1>3. PICK row, r, one : row = Head(s.out) /\ r = row.rid /\ one = {r}
  OBVIOUS
<1>4. Heap(h) /\ StatementInv(h, s, g)
  BY <1>1 DEF IInv
<1>5. Typed(s) /\ GhostTyped(h, g) /\ Balanced(h, g)
  BY <1>4 DEF StatementInv
<1>6. /\ s.pc = "apply" /\ s.kind \in {"insert", "update"} /\ s.out # <<>>
  BY <1>1, <1>5 DEF Terminate, Applying, Typed
<1>7. u = [s EXCEPT !.pc = "terminated"]
  BY <1>1, <1>2 DEF Terminate
<1>8. /\ u.pc = "terminated" /\ u.kind = s.kind /\ u.where = s.where
      /\ u.iter = s.iter /\ u.out = s.out /\ u.child = s.child
      /\ u \in [kind : Kinds, pc : States, where : SUBSET Tuples, iter : Row,
                child : Seq(Row), out : Seq(Row), count : Nat]
  BY <1>5, <1>7 DEF Typed, States
<1>9. Typed(u)
  BY <1>5, <1>8 DEF Typed
<1>10. ASSUME s.kind = "insert", k = h, f = g
       PROVE  Heap(k) /\ StatementInv(k, u, f)
  <2>1. InsertInv(u, g) /\ ~Scanning(u)
    BY <1>4, <1>8, <1>10 DEF StatementInv, InsertInv, Scanning
  <2> QED
    BY <1>4, <1>5, <1>8, <1>9, <1>10, <2>1 DEF StatementInv
<1>11. ASSUME s.kind = "update", k = Deleted(h, r), Noted(f, g, r, one, g.added)
       PROVE  Heap(k) /\ StatementInv(k, u, f)
  <2>1. Scanning(s) /\ Scanning(u) /\ ScanInv(h, s, g) /\ s.iter = AtEnd
    BY <1>4, <1>6, <1>8, <1>11 DEF StatementInv, Scanning, ScanInv
  <2>2. PICK less, rest, ahead : /\ less = g.removed \cup {r}
                                 /\ rest = Tail(s.out)
                                 /\ ahead = Onward(h, s.iter)
    OBVIOUS
  <2>3. s.out \in Seq(Row) /\ g.seen \in Seq(Rid) /\ g.added \in Seq(Tuples)
    BY <1>5 DEF Typed, GhostTyped
  <2>4. Split(s.out, row, rest) /\ row \in Row
    BY <1>3, <1>6, <2>2, <2>3, TailIs
  <2>5. row.rid \in Rid /\ r \in Rid
    BY <1>3, <2>4 DEF Row, Rid
  <2>6. /\ Heap(k) /\ SlotsStay(k, h)
        /\ Unharmed(k, g.start, less) /\ Counted(k, g.start, less, g.added)
    BY <1>3, <1>4, <1>6, <1>11, <2>1, <2>2, <2>5, RowRemoved
  <2>7. /\ GhostTyped(k, f) /\ OnlyAdds(f, g, one, g.added)
        /\ Joined(f.seen, g.seen, r)
    BY <1>5, <1>11, <2>3, <2>5, <2>6, NotedIs
  <2>8. f.start = g.start /\ f.added = g.added /\ f.removed = less
    BY <1>3, <2>2, <2>7 DEF OnlyAdds
  <2>9. Balanced(k, f)
    BY <2>6, <2>8 DEF Balanced
  <2>10. NothingTwice(g.start, s.where, f.seen, less)
    <3>1. /\ NothingTwice(g.start, s.where, g.seen, g.removed)
          /\ Underway(g.start, s.where, g.seen, s.out, s.child, ahead)
      BY <1>6, <2>1, <2>2 DEF ScanInv
    <3>2. PICK start, where, seen, gone, out, child, more :
            /\ start = g.start /\ where = s.where /\ seen = g.seen
            /\ gone = g.removed /\ out = s.out /\ child = s.child
            /\ more = f.seen
      OBVIOUS
    <3>3. /\ NothingTwice(start, where, seen, gone) /\ seen \in Seq(Rid)
          /\ Underway(start, where, seen, out, child, ahead)
          /\ Split(out, row, rest) /\ Joined(more, seen, row.rid)
          /\ less \subseteq gone \cup {row.rid}
      BY <1>3, <2>2, <2>3, <2>4, <2>7, <3>1, <3>2
    <3>4. NothingTwice(start, where, more, less)
      BY <3>3, RowWorkedOff
    <3> QED
      BY <3>2, <3>4
  <2>11. ScanInv(k, u, f)
    BY <1>8, <2>1, <2>8, <2>10 DEF ScanInv, ScanIsTrue
  <2> QED
    BY <1>8, <1>9, <2>1, <2>6, <2>7, <2>9, <2>11 DEF StatementInv
<1>12. \/ s.kind = "insert" /\ k = h /\ f = g
       \/ /\ s.kind = "update" /\ k = Deleted(h, r)
          /\ Noted(f, g, r, one, g.added)
  <2>1. \/ s.kind = "insert" /\ k = h /\ f = g
        \/ /\ s.kind = "update" /\ k = Deleted(h, r)
           /\ Noted(f, g, r, one, g.added \o <<>>)
    BY <1>1, <1>2, <1>3 DEF Terminate, Applying, Note, Noted
  <2>2. g.added \o <<>> = g.added
    BY <1>5, ConcatEmptySeq DEF GhostTyped
  <2> QED
    BY <2>1, <2>2
<1>13. Heap(k) /\ StatementInv(k, u, f)
  BY <1>10, <1>11, <1>12
<1> QED
  BY <1>2, <1>13 DEF IInv

-----------------------------------------------------------------------------
(***************************************************************************)
(* The invariant, and what it says of every statement.                     *)
(***************************************************************************)
LEMMA StepIsGood == IInv /\ [Next]_vars => IInv'
<1> SUFFICES ASSUME IInv, [Next]_vars PROVE IInv'
  OBVIOUS
<1>1. ASSUME NEW list \in ValueLists, StartInsert(list) PROVE IInv'
  BY <1>1, StartInsertKeeps
<1>2. ASSUME NEW kind \in {"delete", "update"}, NEW where \in Predicates,
             StartScan(kind, where)
      PROVE  IInv'
  BY <1>2, StartScanKeeps
<1>3. CASE ScanRow
  BY <1>3, ScanRowKeeps
<1>4. CASE FilterRow
  BY <1>4, FilterRowKeeps
<1>5. CASE Pulled
  BY <1>5, PulledKeeps
<1>6. CASE Finish
  BY <1>6, FinishKeeps
<1>7. CASE InsertRow
  BY <1>7, InsertRowKeeps
<1>8. CASE DeleteRow
  BY <1>8, DeleteRowKeeps
<1>9. CASE UpdateRow
  BY <1>9, UpdateRowKeeps
<1>10. CASE Terminate
  BY <1>10, TerminateKeeps
<1>11. CASE UNCHANGED vars
  <2>1. heap' = heap /\ stmt' = stmt /\ ghost' = ghost
    BY <1>11 DEF vars
  <2> QED
    BY <2>1 DEF IInv
<1> QED
  BY <1>1, <1>2, <1>3, <1>4, <1>5, <1>6, <1>7, <1>8, <1>9, <1>10, <1>11
  DEF Next, Step

(* Through every statement the pages of the table stay one chain in the     *)
(* order of their allocation, with no page fuller than it can be, and each *)
(* row that the WHERE clause selects is in one place on its way from the   *)
(* table to the executor.                                                  *)
THEOREM HeapAndStatementInvariant == Spec => []IInv
<1> QED
  BY InitIsGood, StepIsGood, PTL DEF Spec

(* The table, the executors' state and the rows between them stay what the *)
(* classes declare, whatever calls are refused.                            *)
THEOREM StatementsAreTyped == Spec => []TypeOK
<1>1. IInv => TypeOK
  <2> SUFFICES ASSUME IInv PROVE TypeOK
    OBVIOUS
  <2>1. PICK h, s : h = heap /\ s = stmt
    OBVIOUS
  <2>2. Heap(h) /\ Typed(s)
    BY <2>1 DEF IInv, StatementInv
  <2>3. IsHeap(h)
    BY <2>2, HeapIsWhole
  <2> QED
    BY <2>1, <2>2, <2>3 DEF TypeOK, Typed
<1> QED
  BY <1>1, HeapAndStatementInvariant, PTL

(* insert_tuple links every page it allocates, and nothing unlinks one: a  *)
(* table never loses a page.                                               *)
THEOREM TableChainIsWhole == Spec => []ChainIsWhole
<1>1. IInv => ChainIsWhole
  <2> SUFFICES ASSUME IInv PROVE ChainIsWhole
    OBVIOUS
  <2>1. PICK h : h = heap
    OBVIOUS
  <2>2. WholeChain(h)
    BY <2>1, HeapIsWhole DEF IInv
  <2> QED
    BY <2>1, <2>2 DEF ChainIsWhole
<1> QED
  BY <1>1, HeapAndStatementInvariant, PTL

(* What free_space_map_ says of a page is what the page has, after every    *)
(* insert_tuple and mark_delete.                                           *)
THEOREM FreeSpaceIsTold == Spec => []FreeSpaceMapIsTrue
<1>1. IInv => FreeSpaceMapIsTrue
  <2> SUFFICES ASSUME IInv PROVE FreeSpaceMapIsTrue
    OBVIOUS
  <2>1. PICK h : h = heap
    OBVIOUS
  <2>2. TrueFreeSpace(h)
    BY <2>1, HeapIsWhole DEF IInv
  <2> QED
    BY <2>1, <2>2 DEF FreeSpaceMapIsTrue
<1> QED
  BY <1>1, HeapAndStatementInvariant, PTL

(* No statement loses a row, writes over one or stores one twice: the table *)
(* holds each row it held before, unless the statement removed it, where it *)
(* was, and beyond those exactly the tuples the statement stored, counted.  *)
THEOREM NoRowIsLost == Spec => []TableHoldsWhatWasStored
<1>1. IInv => TableHoldsWhatWasStored
  <2> SUFFICES ASSUME IInv PROVE TableHoldsWhatWasStored
    OBVIOUS
  <2>1. PICK h, now, start, removed, added :
          /\ h = heap /\ now = Contents(h)
          /\ start = ghost.start /\ removed = ghost.removed
          /\ added = ghost.added
    OBVIOUS
  <2>2. Unharmed(h, start, removed) /\ Counted(h, start, removed, added)
    BY <2>1 DEF IInv, StatementInv, Balanced
  <2>3. DOMAIN now = LiveRids(h) /\ \A r \in LiveRids(h) : now[r] = ReadAt(h, r)
    BY <2>1 DEF Contents
  <2>4. \A r \in DOMAIN start \ removed : r \in DOMAIN now /\ now[r] = start[r]
    BY <2>2, <2>3 DEF Unharmed, Kept
  <2>5. ASSUME NEW t \in Tuples
        PROVE  Cardinality({r \in DOMAIN now : now[r] = t})
                 = Cardinality({r \in DOMAIN start \ removed : start[r] = t})
                   + Cardinality({r \in DOMAIN added : added[r] = t})
    <3>1. {r \in DOMAIN now : now[r] = t} = Holding(h, t)
      BY <2>3 DEF Holding
    <3>2. {r \in DOMAIN start \ removed : start[r] = t}
            = StillHeld(start, removed, t)
      BY DEF StillHeld, Kept
    <3>3. {r \in DOMAIN added : added[r] = t} = AddedAt(added, t)
      BY DEF AddedAt
    <3> QED
      BY <2>2, <3>1, <3>2, <3>3 DEF Counted
  <2> QED
    BY <2>1, <2>4, <2>5 DEF TableHoldsWhatWasStored
<1> QED
  BY <1>1, HeapAndStatementInvariant, PTL

(* A DELETE or UPDATE meets each row its WHERE clause selects, once, and no *)
(* other, although it changes the table under its own scan.                *)
THEOREM EveryMatchWorkedOffOnce == Spec => []EachMatchOnce
<1>1. IInv => EachMatchOnce
  <2> SUFFICES ASSUME IInv, stmt.kind \in {"delete", "update"}
               PROVE  LET matches == Matches(ghost.start, stmt.where)
                      IN /\ IsInjective(ghost.seen)
                         /\ ToSet(ghost.seen) \subseteq matches
                         /\ Over => ToSet(ghost.seen) = matches
    BY DEF EachMatchOnce, Matches
  <2>1. PICK h, s, g : h = heap /\ s = stmt /\ g = ghost
    OBVIOUS
  <2>2. ScanInv(h, s, g)
    BY <2>1 DEF IInv, StatementInv, Scanning
  <2>3. IsInjective(g.seen) /\ ToSet(g.seen) \subseteq Matches(g.start, s.where)
    BY <2>2 DEF ScanInv, NothingTwice
  <2>4. ASSUME s.pc = "pull", s.out = <<>>, s.child = <<>>, s.iter = AtEnd
        PROVE  Matches(g.start, s.where) \subseteq ToSet(g.seen)
    <3>1. Underway(g.start, s.where, g.seen, <<>>, <<>>, Onward(h, AtEnd))
      BY <2>2, <2>4 DEF ScanInv
    <3>2. Onward(h, AtEnd) = {} /\ Rids(<<>>) = {}
      BY DEF Onward, Rids, ToSet
    <3> QED
      BY <3>1, <3>2 DEF Underway
  <2> QED
    BY <2>1, <2>3, <2>4 DEF Over, Exhausted
<1> QED
  BY <1>1, HeapAndStatementInvariant, PTL

=============================================================================
