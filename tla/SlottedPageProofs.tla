-------------------------- MODULE SlottedPageProofs --------------------------
(***************************************************************************)
(* Proofs about SlottedPage, for every page size, header and slot size and *)
(* every set of tuples.                                                    *)
(***************************************************************************)
EXTENDS SlottedPage, FiniteSetTheorems, SequenceTheorems,
        WellFoundedInduction, TLAPS

-----------------------------------------------------------------------------
(***************************************************************************)
(* Induction over a set of numbers, which first-order provers can use in   *)
(* place of a predicate.                                                   *)
(***************************************************************************)
LEMMA NatMinimum ==
  ASSUME NEW T \in SUBSET Nat, T # {}
  PROVE  \E m \in T : \A k \in T : m <= k
<1>1. PICK m \in T : \A k \in T : <<k, m>> \notin OpToRel(<, Nat)
  <2>1. IsWellFoundedOn(OpToRel(<, Nat), Nat)
    BY NatLessThanWellFounded
  <2> QED
    BY <2>1, WFMin
<1>2. ASSUME NEW k \in T, k < m PROVE FALSE
  <2>1. PICK p \in Nat \X Nat : p = <<k, m>>
    OBVIOUS
  <2>2. p[1] = k /\ p[2] = m
    BY <2>1
  <2>3. p \in OpToRel(<, Nat)
    BY <1>2, <2>2 DEF OpToRel
  <2> QED
    BY <1>1, <2>1, <2>3
<1> QED
  BY <1>2

LEMMA UpToInduction ==
  ASSUME NEW n \in Nat, NEW S, 0 \in S,
         \A m \in 1 .. n : m - 1 \in S => m \in S
  PROVE  0 .. n \subseteq S
<1> SUFFICES ASSUME (0 .. n) \ S # {}
             PROVE  FALSE
  OBVIOUS
<1>1. PICK m \in (0 .. n) \ S : \A k \in (0 .. n) \ S : m <= k
  <2>1. (0 .. n) \ S \in SUBSET Nat
    OBVIOUS
  <2> QED
    BY <2>1, NatMinimum
<1>2. m \in 1 .. n /\ m - 1 \notin (0 .. n) \ S
  BY <1>1
<1>3. m - 1 \in S
  BY <1>2
<1> QED
  BY <1>1, <1>2, <1>3

-----------------------------------------------------------------------------
(* The running sum of w from c on, as a recursive function. *)
IsSum(s, c, w, n) == s = [i \in 0 .. n |-> IF i = 0 THEN c ELSE s[i - 1] + w[i]]

LEMMA SumExists ==
  ASSUME NEW n \in Nat, NEW c \in Int, NEW w \in [1 .. n -> Int]
  PROVE  \E s \in [0 .. n -> Int] : IsSum(s, c, w, n)
<1> DEFINE Some(m) == \E s \in [0 .. m -> Int] : IsSum(s, c, w, m)
           S == {m \in 0 .. n : Some(m)}
<1>1. Some(0)
  <2> DEFINE s == [i \in 0 .. 0 |-> c]
  <2>1. s \in [0 .. 0 -> Int] /\ IsSum(s, c, w, 0)
    BY DEF IsSum
  <2> QED
    BY <2>1
<1>2. ASSUME NEW m \in 1 .. n, Some(m - 1) PROVE Some(m)
  <2>1. PICK s \in [0 .. (m - 1) -> Int] : IsSum(s, c, w, m - 1)
    BY <1>2
  <2> DEFINE t == [i \in 0 .. m |-> IF i = m THEN s[m - 1] + w[m] ELSE s[i]]
  <2>2. t \in [0 .. m -> Int]
    BY <2>1
  <2>3. ASSUME NEW i \in 0 .. m
        PROVE  t[i] = IF i = 0 THEN c ELSE t[i - 1] + w[i]
    <3>1. CASE i = m
      BY <3>1
    <3>2. CASE i # m
      <4>1. s[i] = IF i = 0 THEN c ELSE s[i - 1] + w[i]
        BY <3>2, <2>1 DEF IsSum
      <4> QED
        BY <3>2, <4>1
    <3> QED
      BY <3>1, <3>2
  <2>4. IsSum(t, c, w, m)
    <3> HIDE DEF t
    <3> QED
      BY <2>2, <2>3 DEF IsSum
  <2> QED
    BY <2>2, <2>4
<1>3. 0 .. n \subseteq S
  <2> HIDE DEF Some
  <2>1. 0 \in S
    BY <1>1
  <2>2. \A m \in 1 .. n : m - 1 \in S => m \in S
    BY <1>2
  <2> HIDE DEF S
  <2> QED
    BY <2>1, <2>2, UpToInduction
<1> QED
  BY <1>3

(* What such a function computes: it starts at c and adds w[i] at i.       *)
Accumulates(s, w, n) == \A i \in 1 .. n : s[i] = s[i - 1] + w[i]

LEMMA SumFacts ==
  ASSUME NEW n \in Nat, NEW c \in Int, NEW w \in [1 .. n -> Int],
         NEW s, IsSum(s, c, w, n)
  PROVE  /\ s \in [0 .. n -> Int]
         /\ s[0] = c
         /\ Accumulates(s, w, n)
<1>1. /\ s[0] = c /\ DOMAIN s = 0 .. n
      /\ Accumulates(s, w, n)
  BY DEF IsSum, Accumulates
<1> DEFINE S == {i \in 0 .. n : s[i] \in Int}
<1>2. 0 \in S
  BY <1>1
<1>3. ASSUME NEW i \in 1 .. n, i - 1 \in S PROVE i \in S
  BY <1>1, <1>3 DEF Accumulates
<1>4. 0 .. n \subseteq S
  <2> HIDE DEF S
  <2> QED
    BY <1>2, <1>3, UpToInduction
<1>5. s = [i \in 0 .. n |-> s[i]]
  BY DEF IsSum
<1> QED
  BY <1>1, <1>4, <1>5

(* Sums of weights that differ at j only: what comes after j is shifted.   *)
Shifted(t, v, s, w, n, j) ==
  \A i \in 0 .. n : t[i] = IF j \in 1 .. i THEN s[i] + v[j] - w[j] ELSE s[i]

LEMMA SumShift ==
  ASSUME NEW n \in Nat, NEW m \in Nat, n <= m, NEW c \in Int,
         NEW w \in [1 .. n -> Int], NEW s, IsSum(s, c, w, n),
         NEW v \in [1 .. m -> Int], NEW t, IsSum(t, c, v, m),
         NEW j \in Nat, \A i \in 1 .. n : i # j => v[i] = w[i]
  PROVE  Shifted(t, v, s, w, n, j)
<1>1. /\ s \in [0 .. n -> Int] /\ s[0] = c
      /\ Accumulates(s, w, n)
  BY SumFacts
<1>2. /\ t \in [0 .. m -> Int] /\ t[0] = c
      /\ Accumulates(t, v, m)
  BY SMTT(30), SumFacts
<1> DEFINE S == {i \in 0 .. n :
                   t[i] = IF j \in 1 .. i THEN s[i] + v[j] - w[j] ELSE s[i]}
<1>3. 0 \in S
  BY <1>1, <1>2
<1>4. ASSUME NEW i \in 1 .. n, i - 1 \in S PROVE i \in S
  <2>1. s[i] = s[i - 1] + w[i] /\ t[i] = t[i - 1] + v[i]
    BY <1>1, <1>2 DEF Accumulates
  <2>2. /\ s[i - 1] \in Int /\ w[i] \in Int /\ v[i] \in Int
        /\ t[i - 1] = IF j \in 1 .. (i - 1) THEN s[i - 1] + v[j] - w[j]
                                            ELSE s[i - 1]
    BY <1>1, <1>4
  <2>3. CASE j = i
    BY <2>1, <2>2, <2>3
  <2>4. CASE j # i /\ j \in 1 .. (i - 1)
    <3>1. w[j] \in Int /\ v[j] \in Int /\ v[i] = w[i]
      BY <2>4
    <3> QED
      BY <2>1, <2>2, <2>4, <3>1
  <2>5. CASE j # i /\ j \notin 1 .. (i - 1)
    BY <2>1, <2>2, <2>5
  <2> QED
    BY <2>3, <2>4, <2>5
<1>5. 0 .. n \subseteq S
  <2> HIDE DEF S
  <2> QED
    BY <1>3, <1>4, UpToInduction
<1> QED
  BY <1>5 DEF Shifted

(* Sums of weights that cancel. *)
Opposite(v, w, n) == \A i \in 1 .. n : v[i] = -w[i]

LEMMA SumOpposite ==
  ASSUME NEW n \in Nat, NEW c \in Int, NEW d \in Int,
         NEW w \in [1 .. n -> Int], NEW s, IsSum(s, c, w, n),
         NEW v \in [1 .. n -> Int], NEW t, IsSum(t, d, v, n),
         Opposite(v, w, n)
  PROVE  s[n] + t[n] = c + d
<1>1. /\ s \in [0 .. n -> Int] /\ s[0] = c
      /\ Accumulates(s, w, n)
  BY SumFacts
<1>2. /\ t \in [0 .. n -> Int] /\ t[0] = d
      /\ Accumulates(t, v, n)
  BY SumFacts
<1> DEFINE S == {i \in 0 .. n : s[i] + t[i] = c + d}
<1>3. 0 \in S
  BY <1>1, <1>2
<1>4. ASSUME NEW i \in 1 .. n, i - 1 \in S PROVE i \in S
  <2>1. /\ s[i - 1] \in Int /\ t[i - 1] \in Int /\ w[i] \in Int
        /\ s[i - 1] + t[i - 1] = c + d
    BY <1>1, <1>2, <1>4
  <2>2. s[i] = s[i - 1] + w[i] /\ t[i] = t[i - 1] + v[i] /\ v[i] = -w[i]
    BY <1>1, <1>2 DEF Accumulates, Opposite
  <2> QED
    BY SMTT(30), <2>1, <2>2
<1>5. 0 .. n \subseteq S
  <2> HIDE DEF S
  <2> QED
    BY <1>3, <1>4, UpToInduction
<1>6. n \in 0 .. n
  OBVIOUS
<1> QED
  BY <1>5, <1>6

(* Sums of weights that are never positive fall. *)
LEMMA SumFalls ==
  ASSUME NEW n \in Nat, NEW c \in Int, NEW w \in [1 .. n -> Int],
         \A i \in 1 .. n : w[i] <= 0, NEW s, IsSum(s, c, w, n)
  PROVE  \A i, j \in 0 .. n : i <= j => s[j] <= s[i]
<1>1. /\ s \in [0 .. n -> Int]
      /\ Accumulates(s, w, n)
  BY SumFacts
<1> DEFINE S == {j \in 0 .. n : \A i \in 0 .. j : s[j] <= s[i]}
<1>2. 0 \in S
  BY <1>1
<1>3. ASSUME NEW j \in 1 .. n, j - 1 \in S PROVE j \in S
  <2>1. s[j] = s[j - 1] + w[j] /\ w[j] \in Int /\ w[j] <= 0
    BY <1>1 DEF Accumulates
  <2>2. s[j - 1] \in Int /\ \A i \in 0 .. (j - 1) : s[i] \in Int /\ s[j - 1] <= s[i]
    BY <1>1, <1>3
  <2>3. s[j] \in Int /\ s[j] <= s[j - 1]
    BY <2>1, <2>2
  <2>4. ASSUME NEW i \in 0 .. j PROVE s[j] <= s[i]
    <3>1. CASE i = j
      BY <2>3, <3>1
    <3>2. CASE i # j
      BY <2>2, <2>3, <3>2
    <3> QED
      BY <3>1, <3>2
  <2> QED
    BY <2>4
<1>4. 0 .. n \subseteq S
  <2> HIDE DEF S
  <2> QED
    BY <1>2, <1>3, UpToInduction
<1> QED
  BY <1>4

-----------------------------------------------------------------------------
Slot == [offset : 0 .. PageSize, length : 0 .. PageSize]

LEMMA FunIsSeq ==
  ASSUME NEW S, NEW n \in Nat, NEW f \in [1 .. n -> S]
  PROVE  f \in Seq(S) /\ Len(f) = n
OBVIOUS

-----------------------------------------------------------------------------
(***************************************************************************)
(* Where compact() puts the tuples: a running sum of the slots' lengths.   *)
(***************************************************************************)
OffsetsOf(s) ==
  LET at[i \in 0 .. Len(s)] ==
        IF i = 0 THEN PageSize ELSE at[i - 1] - s[i].length
  IN at

Steps(s) == [i \in 1 .. Len(s) |-> -s[i].length]

LEMMA SlotTypes ==
  ASSUME NEW s \in Seq(Slot)
  PROVE  /\ Len(s) \in Nat /\ DOMAIN s = 1 .. Len(s)
         /\ Steps(s) \in [1 .. Len(s) -> Int]
         /\ \A i \in 1 .. Len(s) :
              /\ s[i] \in Slot /\ s[i].length \in Nat /\ s[i].offset \in Nat
              /\ Steps(s)[i] = -s[i].length
<1>1. \A i \in 1 .. Len(s) : s[i] \in Slot
  OBVIOUS
<1>2. \A i \in 1 .. Len(s) : s[i].length \in Nat /\ s[i].offset \in Nat
  BY <1>1, LayoutAssumption DEF Slot
<1> QED
  BY <1>1, <1>2 DEF Steps

LEMMA OffsetsAreSums ==
  ASSUME NEW s \in Seq(Slot)
  PROVE  IsSum(OffsetsOf(s), PageSize, Steps(s), Len(s))
<1> DEFINE n == Len(s)
           Good(at) == at = [i \in 0 .. n |->
                               IF i = 0 THEN PageSize
                               ELSE at[i - 1] - s[i].length]
           at == OffsetsOf(s)
<1>0. PageSize \in Int
  BY LayoutAssumption
<1>1. /\ n \in Nat /\ Steps(s) \in [1 .. n -> Int]
      /\ \A i \in 1 .. n : s[i].length \in Nat /\ Steps(s)[i] = -s[i].length
  BY SlotTypes
<1>2. \E t : Good(t)
  <2>1. PICK t \in [0 .. n -> Int] : IsSum(t, PageSize, Steps(s), n)
    BY <1>0, <1>1, SumExists
  <2>2. t[0] = PageSize /\ Accumulates(t, Steps(s), n)
    BY <1>0, <1>1, <2>1, SumFacts
  <2>3. \A i \in 1 .. n : t[i] = t[i - 1] - s[i].length
    BY <1>1, <2>1, <2>2 DEF Accumulates
  <2>4. Good(t)
    BY <2>1, <2>2, <2>3
  <2> QED
    BY <2>4
<1>3. Good(at)
  BY <1>2 DEF OffsetsOf
<1> HIDE DEF at
<1> DEFINE S == {i \in 0 .. n : at[i] \in Int}
<1>4. 0 .. n \subseteq S
  <2>1. 0 \in S
    BY <1>0, <1>1, <1>3
  <2>2. ASSUME NEW i \in 1 .. n, i - 1 \in S PROVE i \in S
    <3>1. at[i] = at[i - 1] - s[i].length
      BY <1>1, <1>3
    <3> QED
      BY <1>1, <2>2, <3>1
  <2> HIDE DEF S
  <2> QED
    BY <1>1, <2>1, <2>2, UpToInduction
<1>5. \A i \in 1 .. n : at[i - 1] \in Int
  BY <1>1, <1>4
<1>6. ASSUME NEW i \in 0 .. n
      PROVE  at[i] = IF i = 0 THEN PageSize ELSE at[i - 1] + Steps(s)[i]
  <2>1. CASE i = 0
    BY <1>1, <1>3, <2>1
  <2>2. CASE i # 0
    <3>1. at[i] = at[i - 1] - s[i].length
      BY <1>1, <1>3, <2>2
    <3>2. /\ at[i - 1] \in Int /\ s[i].length \in Nat
          /\ Steps(s)[i] = -s[i].length
      BY <1>1, <1>5, <2>2
    <3> QED
      BY <2>2, <3>1, <3>2
  <2> QED
    BY <2>1, <2>2
<1>7. at = [i \in 0 .. n |-> at[i]]
  BY <1>3
<1> QED
  BY <1>6, <1>7 DEF IsSum, at

(* The offsets fall from the end of the page, by each slot's length.       *)
LEMMA OffsetFacts ==
  ASSUME NEW s \in Seq(Slot)
  PROVE  /\ OffsetsOf(s) \in [0 .. Len(s) -> Int]
         /\ OffsetsOf(s)[0] = PageSize
         /\ \A i \in 1 .. Len(s) :
              OffsetsOf(s)[i] = OffsetsOf(s)[i - 1] - s[i].length
         /\ \A i, j \in 0 .. Len(s) :
              i <= j => OffsetsOf(s)[j] <= OffsetsOf(s)[i]
<1> DEFINE at == OffsetsOf(s)
<1>1. PageSize \in Int /\ Len(s) \in Nat /\ Steps(s) \in [1 .. Len(s) -> Int]
  BY LayoutAssumption, SlotTypes
<1>2. \A i \in 1 .. Len(s) : Steps(s)[i] = -s[i].length /\ s[i].length \in Nat
  BY SlotTypes
<1>3. IsSum(at, PageSize, Steps(s), Len(s))
  BY OffsetsAreSums
<1> HIDE DEF at
<1>4. at \in [0 .. Len(s) -> Int] /\ at[0] = PageSize /\ Accumulates(at, Steps(s), Len(s))
  BY <1>1, <1>3, SumFacts
<1>5. \A i \in 1 .. Len(s) : at[i] = at[i - 1] - s[i].length
  BY <1>1, <1>2, <1>4 DEF Accumulates
<1>6. \A i, j \in 0 .. Len(s) : i <= j => at[j] <= at[i]
  <2>1. \A i \in 1 .. Len(s) : Steps(s)[i] <= 0
    BY <1>2
  <2> QED
    BY <1>1, <1>3, <2>1, SumFalls
<1> QED
  BY <1>4, <1>5, <1>6 DEF at

(* Changing one slot's length, or adding a slot, moves what follows.       *)
LEMMA OffsetsMove ==
  ASSUME NEW s \in Seq(Slot), NEW u \in Seq(Slot), Len(s) <= Len(u),
         NEW j \in Nat, \A i \in 1 .. Len(s) : i # j => u[i].length = s[i].length
  PROVE  \A i \in 0 .. Len(s) :
           OffsetsOf(u)[i] =
             IF j \in 1 .. i THEN OffsetsOf(s)[i] + s[j].length - u[j].length
                             ELSE OffsetsOf(s)[i]
<1>1. /\ PageSize \in Int /\ Len(s) \in Nat /\ Steps(s) \in [1 .. Len(s) -> Int]
      /\ Len(u) \in Nat /\ Steps(u) \in [1 .. Len(u) -> Int]
  BY LayoutAssumption, SlotTypes
<1>2. /\ IsSum(OffsetsOf(s), PageSize, Steps(s), Len(s))
      /\ IsSum(OffsetsOf(u), PageSize, Steps(u), Len(u))
  BY OffsetsAreSums
<1>3. /\ \A i \in 1 .. Len(s) : Steps(s)[i] = -s[i].length /\ s[i].length \in Nat
      /\ \A i \in 1 .. Len(u) : Steps(u)[i] = -u[i].length /\ u[i].length \in Nat
  BY SlotTypes
<1>4. \A i \in 1 .. Len(s) : i # j => Steps(u)[i] = Steps(s)[i]
  BY SMTT(30), <1>1, <1>3
<1>5. Shifted(OffsetsOf(u), Steps(u), OffsetsOf(s), Steps(s), Len(s), j)
  BY <1>1, <1>2, <1>4, SumShift
<1>6. \A i \in 0 .. Len(s) : OffsetsOf(s)[i] \in Int
  BY OffsetFacts
<1>7. ASSUME NEW i \in 0 .. Len(s), j \in 1 .. i
      PROVE  OffsetsOf(s)[i] + Steps(u)[j] - Steps(s)[j]
               = OffsetsOf(s)[i] + s[j].length - u[j].length
  <2>1. /\ Steps(s)[j] = -s[j].length /\ s[j].length \in Nat
        /\ Steps(u)[j] = -u[j].length /\ u[j].length \in Nat
    BY <1>1, <1>3, <1>7
  <2> QED
    BY <1>6, <2>1
<1> QED
  BY <1>5, <1>7 DEF Shifted

-----------------------------------------------------------------------------
(***************************************************************************)
(* A sound layout: slots s, the free area below free, and bytes by.  Each  *)
(* occupied slot names, above the free area, the bytes of one tuple and    *)
(* nothing else, and no two slots share a byte.                            *)
(***************************************************************************)
Carries(slot, t, by) ==
  /\ slot.length = Size[t]
  /\ \A k \in 0 .. (Size[t] - 1) : by[slot.offset + k] = <<t, k>>

Apart(a, b) == a.offset + a.length <= b.offset \/ b.offset + b.length <= a.offset

Placed(slot, free, by) ==
  /\ free <= slot.offset
  /\ slot.offset + slot.length <= PageSize
  /\ \E t \in Tuples : Carries(slot, t, by)

Sound(s, free, by) ==
  /\ s \in Seq(Slot)
  /\ free \in 0 .. PageSize
  /\ by \in [Positions -> Byte]
  /\ \A i \in DOMAIN s : s[i].length # 0 => Placed(s[i], free, by)
  /\ \A i, j \in DOMAIN s :
       i # j /\ s[i].length # 0 /\ s[j].length # 0 => Apart(s[i], s[j])

LEMMA Sizes == \A t \in Tuples : Size[t] \in Nat /\ Size[t] > 0
BY LayoutAssumption

(* Bytes written outside a slot's extent leave its tuple alone. *)
SameBytes(slot, by, bz) ==
  \A p \in slot.offset .. (slot.offset + slot.length - 1) : bz[p] = by[p]

LEMMA CarriesKept ==
  ASSUME NEW slot \in Slot, NEW t \in Tuples, NEW by, NEW bz,
         Carries(slot, t, by), SameBytes(slot, by, bz)
  PROVE  Carries(slot, t, bz)
<1>1. slot.offset \in Nat /\ slot.length = Size[t] /\ Size[t] \in Nat
  BY Sizes, LayoutAssumption DEF Slot, Carries
<1>2. ASSUME NEW k \in 0 .. (Size[t] - 1)
      PROVE  bz[slot.offset + k] = <<t, k>>
  <2>1. slot.offset + k \in slot.offset .. (slot.offset + slot.length - 1)
    BY <1>1
  <2> QED
    BY <2>1 DEF Carries, SameBytes
<1> QED
  BY <1>1, <1>2 DEF Carries

(* insert_tuple, once there is room: the tuple goes right below the free   *)
(* area's end.                                                             *)
WithSlot(s, j, at, t) ==
  [i \in DOMAIN s \cup {j} |->
     IF i = j THEN [offset |-> at, length |-> Size[t]] ELSE s[i]]
WithBytes(by, at, t) ==
  [p \in Positions |->
     IF p \in at .. (at + Size[t] - 1) THEN <<t, p - at>> ELSE by[p]]

LEMMA PlaceSound ==
  ASSUME NEW s, NEW free, NEW by, Sound(s, free, by),
         NEW t \in Tuples, NEW at \in Nat, at + Size[t] = free,
         NEW j \in 1 .. (Len(s) + 1), j \in DOMAIN s => s[j].length = 0,
         NEW u, u = WithSlot(s, j, at, t), NEW bz, bz = WithBytes(by, at, t)
  PROVE  /\ Sound(u, at, bz)
         /\ Len(u) = IF j \in DOMAIN s THEN Len(s) ELSE Len(s) + 1
         /\ \A i \in DOMAIN s \ {j} : u[i] = s[i]
         /\ j \in DOMAIN u /\ u[j].length = Size[t] /\ Carries(u[j], t, bz)
         /\ \A i \in DOMAIN s \ {j}, v \in Tuples :
              s[i].length # 0 /\ Carries(s[i], v, by) => Carries(u[i], v, bz)
<1>1. /\ s \in Seq(Slot) /\ free \in 0 .. PageSize /\ by \in [Positions -> Byte]
      /\ Len(s) \in Nat /\ DOMAIN s = 1 .. Len(s)
      /\ \A i \in DOMAIN s : s[i] \in Slot /\ s[i].offset \in Nat /\ s[i].length \in Nat
  BY SlotTypes DEF Sound
<1>2. /\ Size[t] \in Nat /\ Size[t] > 0 /\ PageSize \in Nat
      /\ at \in 0 .. PageSize /\ Size[t] \in 0 .. PageSize /\ at + Size[t] <= PageSize
  BY <1>1, Sizes, LayoutAssumption
<1> DEFINE n == IF j \in DOMAIN s THEN Len(s) ELSE Len(s) + 1
<1>3. n \in Nat /\ DOMAIN s \cup {j} = 1 .. n
  BY <1>1
<1>4. [offset |-> at, length |-> Size[t]] \in Slot
  BY <1>2 DEF Slot
<1>5. u \in [1 .. n -> Slot]
  BY <1>1, <1>3, <1>4 DEF WithSlot
<1>6. u \in Seq(Slot) /\ Len(u) = n /\ DOMAIN u = 1 .. n
  BY <1>3, <1>5, FunIsSeq
<1>7. /\ \A i \in DOMAIN s \ {j} : u[i] = s[i]
      /\ u[j].offset = at /\ u[j].length = Size[t]
  BY <1>3 DEF WithSlot
<1>8. bz \in [Positions -> Byte]
  <2>1. ASSUME NEW p \in Positions, p \in at .. (at + Size[t] - 1)
        PROVE  <<t, p - at>> \in Byte
    BY <1>2, <2>1 DEF Byte
  <2> QED
    BY <1>1, <2>1 DEF WithBytes
<1>9. Carries(u[j], t, bz)
  <2>1. ASSUME NEW k \in 0 .. (Size[t] - 1) PROVE bz[at + k] = <<t, k>>
    <3>1. /\ at + k \in Positions /\ at + k \in at .. (at + Size[t] - 1)
          /\ (at + k) - at = k
      BY <1>2 DEF Positions
    <3> QED
      BY <3>1 DEF WithBytes
  <2> QED
    BY <1>7, <2>1 DEF Carries
<1>10. ASSUME NEW i \in DOMAIN s \ {j}, NEW v \in Tuples,
              s[i].length # 0, Carries(s[i], v, by)
       PROVE  Carries(s[i], v, bz)
  <2>1. /\ free <= s[i].offset /\ s[i].offset + s[i].length <= PageSize
        /\ s[i].offset \in Nat /\ s[i].length \in Nat /\ s[i] \in Slot
    BY <1>1, <1>10 DEF Sound, Placed
  <2>2. SameBytes(s[i], by, bz)
    <3>1. PICK a \in Nat, b \in Nat :
                /\ a = s[i].offset /\ b = s[i].length
                /\ at + Size[t] <= a /\ a + b <= PageSize
      BY <2>1
    <3>2. ASSUME NEW p \in a .. (a + b - 1) PROVE bz[p] = by[p]
      <4>1. PICK z \in Nat : z = Size[t]
        BY <1>2
      <4>2. at + z <= a /\ a <= p /\ p <= a + b - 1 /\ p \in Nat
        BY <3>1, <4>1
      <4>3. p <= PageSize - 1 /\ ~(p <= at + z - 1)
        BY SMTT(30), <1>2, <3>1, <4>2
      <4>4. p \in Positions /\ p \notin at .. (at + Size[t] - 1)
        BY <1>2, <4>1, <4>2, <4>3 DEF Positions
      <4> QED
        BY <4>4 DEF WithBytes
    <3> QED
      BY <3>1, <3>2 DEF SameBytes
  <2>3. s[i] \in Slot /\ Carries(s[i], v, by)
    BY <1>10, <2>1
  <2> QED
    BY <2>2, <2>3, CarriesKept
<1>11. ASSUME NEW i \in DOMAIN u, u[i].length # 0
       PROVE  Placed(u[i], at, bz)
  <2>1. CASE i = j
    BY <1>2, <1>7, <1>9, <2>1 DEF Placed
  <2>2. CASE i # j
    <3>1. i \in DOMAIN s \ {j} /\ u[i] = s[i]
      BY <1>3, <1>6, <1>7, <2>2
    <3>2. Placed(s[i], free, by)
      BY <1>11, <3>1 DEF Sound
    <3>3. at <= s[i].offset
      BY <1>1, <1>2, <3>1, <3>2 DEF Placed
    <3>4. PICK v \in Tuples : Carries(s[i], v, by)
      BY <3>2 DEF Placed
    <3>5. Carries(s[i], v, bz)
      BY <1>10, <1>11, <3>1, <3>4
    <3> QED
      BY <3>1, <3>2, <3>3, <3>5 DEF Placed
  <2> QED
    BY <2>1, <2>2
<1>12. ASSUME NEW i \in DOMAIN s \ {j}, s[i].length # 0
       PROVE  Apart(u[j], s[i]) /\ Apart(s[i], u[j])
  <2>1. free <= s[i].offset
    BY <1>12 DEF Sound, Placed
  <2> QED
    BY <1>1, <1>2, <1>7, <2>1 DEF Apart
<1>13. ASSUME NEW i \in DOMAIN u, NEW k \in DOMAIN u, i # k,
              u[i].length # 0, u[k].length # 0
       PROVE  Apart(u[i], u[k])
  <2>1. \A h \in DOMAIN u : h # j => h \in DOMAIN s \ {j} /\ u[h] = s[h]
    BY <1>3, <1>6, <1>7
  <2>2. CASE i = j \/ k = j
    BY <1>12, <1>13, <2>1, <2>2
  <2>3. CASE i # j /\ k # j
    BY <1>13, <2>1, <2>3 DEF Sound
  <2> QED
    BY <2>2, <2>3
<1>14. Sound(u, at, bz)
  BY <1>2, <1>6, <1>8, <1>11, <1>13 DEF Sound
<1> QED
  BY <1>3, <1>6, <1>7, <1>9, <1>10, <1>14

(* delete_tuple. *)
Emptied(s, j) == [s EXCEPT ![j].length = 0]

LEMMA DeleteSound ==
  ASSUME NEW s, NEW free, NEW by, Sound(s, free, by), NEW j \in DOMAIN s,
         NEW u, u = Emptied(s, j)
  PROVE  /\ Sound(u, free, by)
         /\ Len(u) = Len(s) /\ DOMAIN u = DOMAIN s /\ u[j].length = 0
         /\ \A i \in DOMAIN s \ {j} : u[i] = s[i]
<1>1. s \in Seq(Slot) /\ Len(s) \in Nat /\ DOMAIN s = 1 .. Len(s)
  BY SlotTypes DEF Sound
<1>2. s[j] \in Slot /\ 0 \in 0 .. PageSize
  BY <1>1, SlotTypes, LayoutAssumption
<1>3. [s[j] EXCEPT !.length = 0] \in Slot
  BY <1>2 DEF Slot
<1>4. /\ u \in Seq(Slot) /\ Len(u) = Len(s) /\ DOMAIN u = DOMAIN s
      /\ u[j] = [s[j] EXCEPT !.length = 0]
      /\ \A i \in DOMAIN s \ {j} : u[i] = s[i]
  BY <1>1, <1>3 DEF Emptied
<1>5. u[j].length = 0
  BY <1>2, <1>4 DEF Slot
<1> QED
  BY ZenonT(60), <1>4, <1>5 DEF Sound

(* compact(): the slots are packed against the end of the page, and every  *)
(* byte above the free area comes from the slot that now covers it.        *)
PackedSlots(s) ==
  [i \in DOMAIN s |->
     IF s[i].length # 0 THEN [s[i] EXCEPT !.offset = OffsetsOf(s)[i]] ELSE s[i]]
Owner(s, p) ==
  CHOOSE i \in {i \in DOMAIN s : s[i].length # 0} :
    p \in OffsetsOf(s)[i] .. (OffsetsOf(s)[i - 1] - 1)
PackedBytes(s, by) ==
  [p \in Positions |->
     IF p < OffsetsOf(s)[Len(s)] THEN by[p]
     ELSE by[s[Owner(s, p)].offset + (p - OffsetsOf(s)[Owner(s, p)])]]

LEMMA OwnerIs ==
  ASSUME NEW s \in Seq(Slot), NEW i \in DOMAIN s, s[i].length # 0,
         NEW p \in OffsetsOf(s)[i] .. (OffsetsOf(s)[i - 1] - 1)
  PROVE  Owner(s, p) = i
<1> DEFINE at == OffsetsOf(s)
           n == Len(s)
<1>1. n \in Nat /\ DOMAIN s = 1 .. n
  BY SlotTypes
<1>2. at \in [0 .. n -> Int] /\ \A k, m \in 0 .. n : k <= m => at[m] <= at[k]
  BY OffsetFacts
<1> HIDE DEF at, n
<1>3. ASSUME NEW k \in 1 .. n, p \in at[k] .. (at[k - 1] - 1)
      PROVE  k = i
  <2>1. /\ i \in 0 .. n /\ i - 1 \in 0 .. n /\ k \in 0 .. n /\ k - 1 \in 0 .. n
        /\ p \in at[i] .. (at[i - 1] - 1)
    BY <1>1 DEF at
  <2>2. CASE k < i
    <3>1. at[i - 1] <= at[k] /\ at[k] \in Int /\ at[i - 1] \in Int
      BY <1>1, <1>2, <2>1, <2>2
    <3>2. at[k] <= p /\ p <= at[i - 1] - 1 /\ p \in Int
      BY <1>2, <1>3, <2>1
    <3> QED
      BY <3>1, <3>2
  <2>3. CASE i < k
    <3>1. at[k - 1] <= at[i] /\ at[i] \in Int /\ at[k - 1] \in Int
      BY <1>1, <1>2, <2>1, <2>3
    <3>2. at[i] <= p /\ p <= at[k - 1] - 1 /\ p \in Int
      BY <1>2, <1>3, <2>1
    <3> QED
      BY <3>1, <3>2
  <2> QED
    BY <1>1, <2>2, <2>3
<1> DEFINE Holds(k) == p \in at[k] .. (at[k - 1] - 1)
           S == {k \in DOMAIN s : s[k].length # 0}
<1>4. i \in S /\ Holds(i)
  BY DEF at
<1>5. \A k \in S : Holds(k) => k = i
  BY <1>1, <1>3
<1>6. Owner(s, p) = CHOOSE k \in S : Holds(k)
  BY DEF Owner, at
<1> HIDE DEF Holds, S
<1> QED
  BY <1>4, <1>5, <1>6

LEMMA OwnerExists ==
  ASSUME NEW s \in Seq(Slot), NEW p \in Int,
         OffsetsOf(s)[Len(s)] <= p, p < PageSize
  PROVE  \E i \in DOMAIN s :
           /\ s[i].length # 0
           /\ p \in OffsetsOf(s)[i] .. (OffsetsOf(s)[i - 1] - 1)
<1> DEFINE at == OffsetsOf(s)
           n == Len(s)
           T == {i \in 0 .. n : at[i] <= p}
<1>1. /\ n \in Nat /\ DOMAIN s = 1 .. n
      /\ \A i \in 1 .. n : s[i].length \in Nat
  BY SlotTypes
<1>2. /\ at \in [0 .. n -> Int] /\ at[0] = PageSize
      /\ \A i \in 1 .. n : at[i] = at[i - 1] - s[i].length
  BY OffsetFacts
<1>3. n \in T /\ T \in SUBSET Nat
  BY <1>1
<1>4. PICK m \in T : \A k \in T : m <= k
  BY <1>3, NatMinimum
<1> HIDE DEF at, n
<1>5. m \in 1 .. n /\ m - 1 \in 0 .. n
  BY <1>1, <1>2, <1>4, LayoutAssumption
<1>6. ~(at[m - 1] <= p)
  BY <1>4, <1>5
<1>7. at[m - 1] \in Int /\ at[m] \in Int /\ at[m] <= p /\ p < at[m - 1]
  BY <1>2, <1>4, <1>5, <1>6
<1>8. s[m].length # 0 /\ p \in at[m] .. (at[m - 1] - 1)
  BY <1>1, <1>2, <1>5, <1>7
<1> QED
  BY <1>1, <1>5, <1>8 DEF at

LEMMA CompactSound ==
  ASSUME NEW s, NEW free, NEW by, Sound(s, free, by),
         NEW end, end = OffsetsOf(s)[Len(s)], 0 <= end,
         NEW u, u = PackedSlots(s), NEW bz, bz = PackedBytes(s, by)
  PROVE  /\ Sound(u, end, bz)
         /\ Len(u) = Len(s) /\ DOMAIN u = DOMAIN s
         /\ \A i \in DOMAIN s : u[i].length = s[i].length
         /\ \A i \in DOMAIN s, v \in Tuples :
              s[i].length # 0 /\ Carries(s[i], v, by) => Carries(u[i], v, bz)
<1> DEFINE at == OffsetsOf(s)
           n == Len(s)
           Live == {i \in 1 .. n : s[i].length # 0}
<1>1. /\ s \in Seq(Slot) /\ by \in [Positions -> Byte]
      /\ n \in Nat /\ DOMAIN s = 1 .. n
      /\ \A i \in 1 .. n :
           s[i] \in Slot /\ s[i].offset \in Nat /\ s[i].length \in Nat
  BY SlotTypes DEF Sound
<1>2. /\ at \in [0 .. n -> Int] /\ at[0] = PageSize /\ end = at[n]
      /\ \A i \in 1 .. n : at[i] = at[i - 1] - s[i].length
      /\ \A i, j \in 0 .. n : i <= j => at[j] <= at[i]
  BY <1>1, OffsetFacts
<1>3. PageSize \in Nat /\ end \in 0 .. PageSize
  BY <1>1, <1>2, LayoutAssumption
<1>4. \A i \in Live : \A p \in at[i] .. (at[i - 1] - 1) : Owner(s, p) = i
  BY <1>1, OwnerIs
<1>5. \A p \in Positions : p >= end =>
        \E i \in Live : p \in at[i] .. (at[i - 1] - 1)
  <2>1. ASSUME NEW p \in Positions, p >= end
        PROVE  \E i \in Live : p \in at[i] .. (at[i - 1] - 1)
    <3>1. p \in Int /\ p < PageSize /\ end <= p
      BY <1>2, <1>3, <2>1 DEF Positions
    <3>2. PICK i \in DOMAIN s : /\ s[i].length # 0
                                /\ p \in at[i] .. (at[i - 1] - 1)
      BY <1>1, <1>2, <3>1, OwnerExists
    <3> QED
      BY <1>1, <3>2
  <2> QED
    BY <2>1
<1>6. /\ DOMAIN u = 1 .. n
      /\ \A i \in Live : u[i] = [s[i] EXCEPT !.offset = at[i]]
      /\ \A i \in (1 .. n) \ Live : u[i] = s[i]
  BY <1>1 DEF PackedSlots
<1>7. /\ bz = [p \in Positions |-> bz[p]]
      /\ \A p \in Positions : p < end => bz[p] = by[p]
      /\ \A p \in Positions, i \in Live :
           p >= end /\ Owner(s, p) = i => bz[p] = by[s[i].offset + (p - at[i])]
  BY SMTT(30), <1>2, <1>3 DEF PackedBytes, Positions
<1> HIDE DEF at, n, Live
<1>8. ASSUME NEW i \in Live
      PROVE  /\ at[i] \in 0 .. PageSize /\ end <= at[i]
             /\ at[i - 1] = at[i] + s[i].length /\ at[i - 1] <= PageSize
             /\ s[i].length \in Nat /\ s[i].length # 0 /\ s[i].offset \in Nat
             /\ s[i] \in Slot
             /\ u[i] \in Slot /\ u[i].offset = at[i] /\ u[i].length = s[i].length
  <2>1. i \in 1 .. n /\ i \in 0 .. n /\ i - 1 \in 0 .. n /\ n \in 0 .. n /\ 0 \in 0 .. n
    BY <1>1 DEF Live
  <2>2. at[i] \in Int /\ at[i - 1] \in Int /\ at[n] <= at[i] /\ at[i - 1] <= at[0]
    BY <1>1, <1>2, <2>1
  <2>3. s[i] \in Slot /\ s[i].length \in Nat /\ s[i].length # 0 /\ s[i].offset \in Nat
    BY <1>1, <2>1 DEF Live
  <2>4. at[i] \in 0 .. PageSize /\ end <= at[i]
        /\ at[i - 1] = at[i] + s[i].length /\ at[i - 1] <= PageSize
    BY <1>2, <1>3, <2>1, <2>2, <2>3
  <2>5. /\ u[i] \in Slot /\ u[i].offset = at[i] /\ u[i].length = s[i].length
    BY <1>6, <2>3, <2>4 DEF Slot
  <2> QED
    BY <2>3, <2>4, <2>5
<1>9. u \in Seq(Slot) /\ Len(u) = n
  <2>1. \A i \in 1 .. n : u[i] \in Slot
    BY <1>1, <1>6, <1>8
  <2>2. u = [i \in 1 .. n |-> u[i]]
    BY <1>1 DEF PackedSlots
  <2>3. u \in [1 .. n -> Slot]
    BY <2>1, <2>2
  <2> QED
    BY <1>1, <2>3, FunIsSeq
<1>10. \A i \in 1 .. n : u[i].length = s[i].length
  BY <1>6, <1>8
<1>11. ASSUME NEW i \in Live, NEW v \in Tuples, Carries(s[i], v, by)
       PROVE  Carries(u[i], v, bz)
  <2>1. s[i].length = Size[v] /\ Size[v] \in Nat
    BY <1>11, Sizes DEF Carries
  <2>2. ASSUME NEW k \in 0 .. (Size[v] - 1)
        PROVE  bz[at[i] + k] = <<v, k>>
    <3>0. PICK p \in Int : p = at[i] + k
      BY <1>8, <2>1
    <3>1. p \in Positions /\ p >= end /\ p \in at[i] .. (at[i - 1] - 1)
          /\ s[i].offset + (p - at[i]) = s[i].offset + k
      <4>1. /\ at[i] \in 0 .. PageSize /\ end <= at[i]
            /\ at[i - 1] = at[i] + Size[v] /\ at[i - 1] <= PageSize
            /\ s[i].offset \in Nat
        BY <1>8, <2>1
      <4>2. p \in Positions /\ p >= end /\ (p - at[i]) = k
        BY SMTT(30), <1>3, <2>1, <3>0, <4>1 DEF Positions
      <4>3. p \in at[i] .. (at[i - 1] - 1)
        BY <1>3, <2>1, <3>0, <4>1
      <4> QED
        BY <4>2, <4>3
    <3>2. Owner(s, p) = i
      BY <1>4, <3>1
    <3>3. bz[p] = by[s[i].offset + (p - at[i])]
      BY <1>7, <3>1, <3>2
    <3>4. by[s[i].offset + k] = <<v, k>>
      BY <1>11 DEF Carries
    <3> QED
      BY <3>0, <3>1, <3>3, <3>4
  <2> QED
    BY <1>8, <2>1, <2>2 DEF Carries
<1>12. bz \in [Positions -> Byte]
  <2>1. ASSUME NEW p \in Positions PROVE bz[p] \in Byte
    <3>1. CASE p < end
      BY <1>1, <1>7, <3>1
    <3>2. CASE p >= end
      <4>1. PICK i \in Live : p \in at[i] .. (at[i - 1] - 1)
        BY <1>5, <3>2
      <4>2. bz[p] = by[s[i].offset + (p - at[i])]
        BY <1>4, <1>7, <3>2, <4>1
      <4>3. s[i].offset + s[i].length <= PageSize
        BY <1>1 DEF Sound, Placed, Live
      <4>4. s[i].offset + (p - at[i]) \in Positions
        BY SMTT(30), <1>3, <1>8, <4>1, <4>3 DEF Positions
      <4> QED
        BY <1>1, <4>2, <4>4
    <3> QED
      BY <1>3, <3>1, <3>2 DEF Positions
  <2> QED
    BY <1>7, <2>1
<1>13. ASSUME NEW i \in DOMAIN u, u[i].length # 0
       PROVE  Placed(u[i], end, bz)
  <2>1. i \in Live /\ i \in DOMAIN s /\ s[i].length # 0
    BY <1>1, <1>6, <1>10, <1>13 DEF Live
  <2>2. PICK v \in Tuples : Carries(s[i], v, by)
    BY <2>1 DEF Sound, Placed
  <2>3. Carries(u[i], v, bz)
    BY <1>11, <2>1, <2>2
  <2>4. end <= u[i].offset /\ u[i].offset + u[i].length <= PageSize
    BY <1>8, <2>1
  <2> QED
    BY <2>3, <2>4 DEF Placed
<1>14. ASSUME NEW i \in Live, NEW j \in Live, i < j
       PROVE  Apart(u[i], u[j]) /\ Apart(u[j], u[i])
  <2>1. i \in 0 .. n /\ j - 1 \in 0 .. n /\ i <= j - 1
    BY <1>1, <1>14 DEF Live
  <2>2. at[j - 1] <= at[i]
    BY <1>2, <2>1
  <2>3. /\ u[i].offset = at[i]
        /\ u[j].offset = at[j] /\ u[j].length = s[j].length
        /\ at[j - 1] = at[j] + s[j].length
    BY <1>8
  <2> QED
    BY <2>2, <2>3 DEF Apart
<1>15. ASSUME NEW i \in DOMAIN u, NEW j \in DOMAIN u, i # j,
              u[i].length # 0, u[j].length # 0
       PROVE  Apart(u[i], u[j])
  <2>1. i \in Live /\ j \in Live /\ (i < j \/ j < i)
    BY <1>1, <1>6, <1>10, <1>15 DEF Live
  <2> QED
    BY <1>14, <2>1
<1>16. Sound(u, end, bz)
  BY <1>3, <1>9, <1>12, <1>13, <1>15 DEF Sound
<1>17. \A i \in DOMAIN s : s[i].length # 0 => i \in Live
  BY <1>1 DEF Live
<1> QED
  BY <1>1, <1>6, <1>9, <1>10, <1>11, <1>16, <1>17 DEF n

-----------------------------------------------------------------------------
(***************************************************************************)
(* The inductive invariant.  A layout is sound, its slot array ends below  *)
(* the free area, what compact() would leave free is what is free now and  *)
(* what is counted dead, and the occupied slots are counted.               *)
(***************************************************************************)
SlotsEnd(n) == HeaderSize + SlotSize * n
Live(s) == {i \in DOMAIN s : s[i].length # 0}

Layout(s, free, dead, count, by) ==
  /\ Sound(s, free, by)
  /\ SlotsEnd(Len(s)) <= free
  /\ dead \in Nat
  /\ OffsetsOf(s)[Len(s)] = free + dead
  /\ count = Cardinality(Live(s))

IInv == Layout(slots, freePointer, deadSpace, tupleCount, bytes)

LEMMA SlotsEndGrows ==
  \A n \in Nat : /\ SlotsEnd(n) \in Nat
                 /\ SlotsEnd(n + 1) = SlotsEnd(n) + SlotSize
<1> TAKE n \in Nat
<1>1. HeaderSize \in Nat /\ SlotSize \in Nat
  BY LayoutAssumption
<1>2. SlotSize * n \in Nat
  BY <1>1
<1>3. SlotSize * (n + 1) = SlotSize * n + SlotSize
  BY <1>1
<1> QED
  BY <1>1, <1>2, <1>3 DEF SlotsEnd

LEMMA LiveIsFinite ==
  ASSUME NEW s \in Seq(Slot)
  PROVE  /\ IsFiniteSet(Live(s))
         /\ Cardinality(Live(s)) \in 0 .. Len(s)
<1>1. Len(s) \in Nat /\ DOMAIN s = 1 .. Len(s)
  BY SlotTypes
<1>2. IsFiniteSet(1 .. Len(s)) /\ Cardinality(1 .. Len(s)) = Len(s)
  BY <1>1, FS_Interval
<1>3. Live(s) \subseteq 1 .. Len(s)
  BY <1>1 DEF Live
<1>4. IsFiniteSet(Live(s)) /\ Cardinality(Live(s)) <= Cardinality(1 .. Len(s))
  BY <1>2, <1>3, FS_Subset
<1>5. Cardinality(Live(s)) \in Nat
  BY <1>4, FS_CardinalityType
<1> QED
  BY <1>1, <1>2, <1>4, <1>5

LEMMA LayoutTypes ==
  ASSUME NEW s, NEW free, NEW dead, NEW count, NEW by,
         Layout(s, free, dead, count, by)
  PROVE  /\ s \in Seq(Slot) /\ free \in 0 .. PageSize /\ dead \in 0 .. PageSize
         /\ count \in 0 .. Len(s) /\ by \in [Positions -> Byte]
<1>1. /\ s \in Seq(Slot) /\ free \in 0 .. PageSize /\ by \in [Positions -> Byte]
      /\ dead \in Nat /\ PageSize \in Nat
  BY LayoutAssumption DEF Layout, Sound
<1>2. free + dead <= PageSize
  <2>1. 0 \in 0 .. Len(s) /\ Len(s) \in 0 .. Len(s) /\ 0 <= Len(s)
    BY <1>1, SlotTypes
  <2>2. OffsetsOf(s)[Len(s)] <= PageSize
    BY <1>1, <2>1, OffsetFacts
  <2> QED
    BY <2>2 DEF Layout
<1>3. count \in 0 .. Len(s)
  BY <1>1, LiveIsFinite DEF Layout
<1> QED
  BY <1>1, <1>2, <1>3

(* A tuple in an empty or a new slot takes its bytes off what compaction   *)
(* would leave, and counts once; a deleted one gives them back.            *)
LEMMA InsertCounts ==
  ASSUME NEW s \in Seq(Slot), NEW u \in Seq(Slot), NEW j \in 1 .. (Len(s) + 1),
         Len(u) = IF j \in DOMAIN s THEN Len(s) ELSE Len(s) + 1,
         j \in DOMAIN s => s[j].length = 0, u[j].length # 0,
         \A i \in DOMAIN s \ {j} : u[i].length = s[i].length
  PROVE  /\ OffsetsOf(u)[Len(u)] = OffsetsOf(s)[Len(s)] - u[j].length
         /\ Cardinality(Live(u)) = Cardinality(Live(s)) + 1
<1>1. /\ Len(s) \in Nat /\ DOMAIN s = 1 .. Len(s)
      /\ Len(u) \in Nat /\ DOMAIN u = 1 .. Len(u)
      /\ \A i \in 1 .. Len(s) : s[i].length \in Nat
      /\ \A i \in 1 .. Len(u) : u[i].length \in Nat
  BY SlotTypes
<1>2. /\ Len(s) <= Len(u) /\ j \in 1 .. Len(u) /\ j \in Nat
      /\ \A i \in 1 .. Len(s) : i # j => u[i].length = s[i].length
  BY <1>1
<1>3. \A i \in 0 .. Len(s) :
        OffsetsOf(u)[i] =
          IF j \in 1 .. i THEN OffsetsOf(s)[i] + s[j].length - u[j].length
                          ELSE OffsetsOf(s)[i]
  BY <1>2, OffsetsMove
<1>4. /\ OffsetsOf(s)[Len(s)] \in Int /\ OffsetsOf(u)[Len(u)] \in Int
      /\ \A i \in 1 .. Len(u) :
           OffsetsOf(u)[i] = OffsetsOf(u)[i - 1] - u[i].length
  <2>1. Len(s) \in 0 .. Len(s) /\ Len(u) \in 0 .. Len(u)
    BY <1>1
  <2> QED
    BY <2>1, OffsetFacts
<1>5. OffsetsOf(u)[Len(u)] = OffsetsOf(s)[Len(s)] - u[j].length
  <2>1. CASE j \in DOMAIN s
    <3>1. Len(s) \in 0 .. Len(s) /\ j \in 1 .. Len(s)
          /\ s[j].length = 0 /\ u[j].length \in Nat /\ Len(u) = Len(s)
      BY <1>1, <1>2, <2>1
    <3>2. OffsetsOf(u)[Len(s)] = OffsetsOf(s)[Len(s)] + s[j].length - u[j].length
      BY <1>3, <3>1
    <3> QED
      BY <1>4, <3>1, <3>2
  <2>2. CASE j \notin DOMAIN s
    <3>1. /\ Len(u) = Len(s) + 1 /\ j = Len(u) /\ j - 1 = Len(s)
          /\ j \notin 1 .. Len(s) /\ Len(s) \in 0 .. Len(s)
      <4>1. Len(u) = Len(s) + 1
        BY <2>2
      <4>2. j \in Nat /\ j = Len(s) + 1 /\ j \notin 1 .. Len(s)
        BY <1>1, <2>2
      <4> QED
        BY <1>1, <4>1, <4>2
    <3>2. OffsetsOf(u)[Len(s)] = OffsetsOf(s)[Len(s)]
      BY <1>3, <3>1
    <3>3. OffsetsOf(u)[j] = OffsetsOf(u)[j - 1] - u[j].length
      BY <1>2, <1>4
    <3> QED
      BY <3>1, <3>2, <3>3
  <2> QED
    BY <2>1, <2>2
<1>6. Live(u) = Live(s) \cup {j} /\ j \notin Live(s)
  <2>1. DOMAIN u = DOMAIN s \cup {j}
    BY <1>1
  <2> QED
    BY <2>1 DEF Live
<1>7. Cardinality(Live(u)) = Cardinality(Live(s)) + 1
  BY <1>6, LiveIsFinite, FS_AddElement
<1> QED
  BY <1>5, <1>7

LEMMA DeleteCounts ==
  ASSUME NEW s \in Seq(Slot), NEW u \in Seq(Slot), NEW j \in DOMAIN s,
         Len(u) = Len(s), s[j].length # 0, u[j].length = 0,
         \A i \in DOMAIN s \ {j} : u[i].length = s[i].length
  PROVE  /\ OffsetsOf(u)[Len(u)] = OffsetsOf(s)[Len(s)] + s[j].length
         /\ Cardinality(Live(u)) = Cardinality(Live(s)) - 1
<1>1. /\ Len(s) \in Nat /\ DOMAIN s = 1 .. Len(s) /\ DOMAIN u = 1 .. Len(u)
      /\ s[j].length \in Nat
  BY SlotTypes
<1>2. /\ Len(s) <= Len(u) /\ j \in Nat
      /\ \A i \in 1 .. Len(s) : i # j => u[i].length = s[i].length
  BY <1>1
<1>3. \A i \in 0 .. Len(s) :
        OffsetsOf(u)[i] =
          IF j \in 1 .. i THEN OffsetsOf(s)[i] + s[j].length - u[j].length
                          ELSE OffsetsOf(s)[i]
  BY ZenonT(60), <1>2, OffsetsMove
<1>4. OffsetsOf(s)[Len(s)] \in Int
  BY <1>1, OffsetFacts
<1>5. OffsetsOf(u)[Len(u)] = OffsetsOf(s)[Len(s)] + s[j].length
  <2>1. Len(s) \in 0 .. Len(s) /\ j \in 1 .. Len(s)
    BY <1>1
  <2>2. OffsetsOf(u)[Len(s)] = OffsetsOf(s)[Len(s)] + s[j].length - u[j].length
    BY <1>3, <2>1
  <2> QED
    BY <1>1, <1>4, <2>2
<1>6. Live(u) = Live(s) \ {j} /\ j \in Live(s)
  BY <1>1 DEF Live
<1>7. Cardinality(Live(u)) = Cardinality(Live(s)) - 1
  BY <1>6, LiveIsFinite, FS_RemoveElement
<1> QED
  BY <1>5, <1>7

-----------------------------------------------------------------------------
(* The page insert_tuple allocates from: compacted if the room is there    *)
(* only among the dead bytes.                                              *)
LEMMA PackedIs ==
  /\ Packed.slots = PackedSlots(slots)
  /\ Packed.freePointer = OffsetsOf(slots)[Len(slots)]
  /\ Packed.deadSpace = 0
  /\ Packed.bytes = PackedBytes(slots, bytes)
<1>1. PackedOffset = OffsetsOf(slots)
  BY DEF PackedOffset, OffsetsOf
<1>2. Packed.slots = PackedSlots(slots)
  BY <1>1 DEF Packed, PackedSlots, Occupied
<1>3. Packed.freePointer = OffsetsOf(slots)[Len(slots)] /\ Packed.deadSpace = 0
  BY <1>1 DEF Packed
<1>4. Packed.bytes = PackedBytes(slots, bytes)
  BY <1>1 DEF Packed, PackedBytes, Owner, Occupied
<1> QED
  BY <1>2, <1>3, <1>4

LEMMA PreparedSound ==
  ASSUME IInv, NEW t \in Tuples, Fits(t),
         NEW s, s = Prepared(t).slots, NEW free, free = Prepared(t).freePointer,
         NEW dead, dead = Prepared(t).deadSpace, NEW by, by = Prepared(t).bytes
  PROVE  /\ Sound(s, free, by)
         /\ Len(s) = Len(slots) /\ DOMAIN s = DOMAIN slots
         /\ \A i \in DOMAIN slots : s[i].length = slots[i].length
         /\ \A i \in DOMAIN slots, v \in Tuples :
              slots[i].length # 0 /\ Carries(slots[i], v, bytes)
                => Carries(s[i], v, by)
         /\ dead \in Nat /\ free + dead = freePointer + deadSpace
         /\ SlotsEnd(Len(slots)) + SpaceNeeded(t) <= free
<1>1. /\ Sound(slots, freePointer, bytes) /\ slots \in Seq(Slot)
      /\ OffsetsOf(slots)[Len(slots)] = freePointer + deadSpace
      /\ deadSpace \in Nat /\ freePointer \in Nat /\ Len(slots) \in Nat
  BY SlotTypes, LayoutAssumption DEF IInv, Layout, Sound
<1>2. SlotsEnd(Len(slots)) \in Nat /\ SpaceNeeded(t) \in Nat
  BY <1>1, SlotsEndGrows, Sizes, LayoutAssumption DEF SpaceNeeded
<1>3. FreeSpaceRemaining = freePointer - SlotsEnd(Len(slots))
  BY DEF FreeSpaceRemaining, SlotsEnd
<1>4. SlotsEnd(Len(slots)) + SpaceNeeded(t) <= freePointer + deadSpace
  BY <1>1, <1>2, <1>3 DEF Fits, UsableSpace
<1>5. CASE FreeSpaceRemaining < SpaceNeeded(t)
  <2>1. /\ s = PackedSlots(slots) /\ free = OffsetsOf(slots)[Len(slots)]
        /\ dead = 0 /\ by = PackedBytes(slots, bytes)
    BY <1>5, PackedIs DEF Prepared
  <2>2. 0 <= free /\ free + dead = freePointer + deadSpace
    BY <1>1, <2>1
  <2> QED
    BY <1>1, <1>4, <2>1, <2>2, CompactSound
<1>6. CASE ~(FreeSpaceRemaining < SpaceNeeded(t))
  <2>1. s = slots /\ free = freePointer /\ dead = deadSpace /\ by = bytes
    BY <1>6 DEF Prepared, Unpacked
  <2> QED
    BY <1>1, <1>2, <1>3, <1>6, <2>1
<1> QED
  BY <1>5, <1>6

(* The slot the tuple gets: the lowest empty one, else a new one.          *)
LEMMA ReusedSlotIs ==
  ASSUME slots \in Seq(Slot)
  PROVE  /\ ReusedSlot \in 1 .. (Len(slots) + 1)
         /\ ReusedSlot \in DOMAIN slots <=> Reusable # {}
         /\ ReusedSlot \in DOMAIN slots => slots[ReusedSlot].length = 0
<1>1. Len(slots) \in Nat /\ DOMAIN slots = 1 .. Len(slots)
  BY SlotTypes
<1>2. CASE Reusable # {}
  <2>1. Reusable \in SUBSET Nat
    BY <1>1 DEF Reusable
  <2>2. \E m \in Reusable : \A k \in Reusable : m <= k
    BY <1>2, <2>1, NatMinimum
  <2>3. Min(Reusable) \in Reusable
    BY <2>2 DEF Min
  <2>4. ReusedSlot \in Reusable
    BY <1>2, <2>3 DEF ReusedSlot
  <2> QED
    BY <1>1, <1>2, <2>4 DEF Reusable, Occupied
<1>3. CASE Reusable = {}
  BY <1>1, <1>3 DEF ReusedSlot
<1> QED
  BY <1>2, <1>3

LEMMA InsertEffect ==
  ASSUME IInv, NEW t \in Tuples, Insert(t)
  PROVE  /\ IInv'
         /\ Len(slots') = IF Reusable # {} THEN Len(slots) ELSE Len(slots) + 1
         /\ slots'[ReusedSlot].length # 0
         /\ Carries(slots'[ReusedSlot], t, bytes')
         /\ \A i \in DOMAIN slots \ {ReusedSlot} :
              /\ slots'[i].length = slots[i].length
              /\ \A v \in Tuples :
                   slots[i].length # 0 /\ Carries(slots[i], v, bytes)
                     => Carries(slots'[i], v, bytes')
<1>1. PICK s, free, dead, by :
             /\ s = Prepared(t).slots /\ free = Prepared(t).freePointer
             /\ dead = Prepared(t).deadSpace /\ by = Prepared(t).bytes
  OBVIOUS
<1>2. PICK j : j = ReusedSlot
  OBVIOUS
<1>3. PICK at : at = free - Size[t]
  OBVIOUS
<1>4. /\ slots \in Seq(Slot) /\ Len(slots) \in Nat
      /\ DOMAIN slots = 1 .. Len(slots) /\ freePointer \in Nat /\ deadSpace \in Nat
      /\ OffsetsOf(slots)[Len(slots)] = freePointer + deadSpace
      /\ tupleCount = Cardinality(Live(slots))
      /\ Size[t] \in Nat /\ Size[t] > 0 /\ SlotSize \in Nat
  BY SlotTypes, Sizes, LayoutAssumption DEF IInv, Layout, Sound
<1>5. /\ Sound(s, free, by)
      /\ Len(s) = Len(slots) /\ DOMAIN s = DOMAIN slots
      /\ \A i \in DOMAIN slots : s[i].length = slots[i].length
      /\ \A i \in DOMAIN slots, v \in Tuples :
           slots[i].length # 0 /\ Carries(slots[i], v, bytes)
             => Carries(s[i], v, by)
      /\ dead \in Nat /\ free + dead = freePointer + deadSpace
      /\ SlotsEnd(Len(slots)) + SpaceNeeded(t) <= free
  BY <1>1, PreparedSound DEF Insert
<1>6. /\ j \in 1 .. (Len(slots) + 1)
      /\ j \in DOMAIN slots <=> Reusable # {}
      /\ j \in DOMAIN slots => slots[j].length = 0
  BY <1>2, <1>4, ReusedSlotIs
<1>7. SlotsEnd(Len(slots)) \in Nat
      /\ SlotsEnd(Len(slots) + 1) = SlotsEnd(Len(slots)) + SlotSize
  BY <1>4, SlotsEndGrows
<1>8. free \in Nat
  BY LayoutAssumption, <1>5 DEF Sound
<1>9. at \in Nat /\ at + Size[t] = free
  BY <1>3, <1>4, <1>5, <1>7, <1>8 DEF SpaceNeeded
<1>10. /\ slots' = WithSlot(s, j, at, t)
       /\ freePointer' = at /\ deadSpace' = dead /\ tupleCount' = tupleCount + 1
       /\ bytes' = WithBytes(by, at, t)
  BY <1>1, <1>2, <1>3, <1>5 DEF Insert, WithSlot, WithBytes
<1>11. /\ Sound(slots', at, bytes')
       /\ Len(slots') = IF j \in DOMAIN s THEN Len(s) ELSE Len(s) + 1
       /\ \A i \in DOMAIN s \ {j} : slots'[i] = s[i]
       /\ j \in DOMAIN slots' /\ slots'[j].length = Size[t]
       /\ Carries(slots'[j], t, bytes')
       /\ \A i \in DOMAIN s \ {j}, v \in Tuples :
            s[i].length # 0 /\ Carries(s[i], v, by)
              => Carries(slots'[i], v, bytes')
  <2>1. j \in 1 .. (Len(s) + 1) /\ (j \in DOMAIN s => s[j].length = 0)
    BY <1>5, <1>6
  <2> QED
    BY <1>5, <1>9, <1>10, <2>1, PlaceSound
<1>12. Len(slots') = IF j \in DOMAIN slots THEN Len(slots) ELSE Len(slots) + 1
  BY <1>5, <1>11
<1>13. /\ slots' \in Seq(Slot)
       /\ \A i \in DOMAIN slots \ {j} : slots'[i].length = slots[i].length
  BY <1>5, <1>11 DEF Sound
<1>14. /\ OffsetsOf(slots')[Len(slots')] = OffsetsOf(slots)[Len(slots)] - Size[t]
       /\ Cardinality(Live(slots')) = Cardinality(Live(slots)) + 1
  <2>1. slots'[j].length # 0
    BY <1>4, <1>11
  <2> QED
    BY <1>4, <1>6, <1>11, <1>12, <1>13, <2>1, InsertCounts
<1>15. SlotsEnd(Len(slots')) <= at
  BY SMTT(30), <1>4, <1>5, <1>6, <1>7, <1>8, <1>9, <1>12 DEF SpaceNeeded
<1>16. OffsetsOf(slots')[Len(slots')] = at + dead
  <2>1. OffsetsOf(slots)[Len(slots)] = free + dead
    BY <1>4, <1>5
  <2>2. OffsetsOf(slots')[Len(slots')] = (free + dead) - Size[t]
    BY <1>14, <2>1
  <2>3. (free + dead) - Size[t] = at + dead
    <3>1. dead \in Nat
      BY <1>5
    <3>2. Size[t] \in Nat
      BY <1>4
    <3> QED
      BY <1>8, <1>9, <3>1, <3>2
  <2> QED
    BY <2>2, <2>3
<1>17. IInv'
  BY <1>4, <1>5, <1>10, <1>11, <1>14, <1>15, <1>16 DEF IInv, Layout
<1>18. \A i \in DOMAIN slots \ {j}, v \in Tuples :
         slots[i].length # 0 /\ Carries(slots[i], v, bytes)
           => Carries(slots'[i], v, bytes')
  BY <1>5, <1>11
<1> QED
  BY <1>2, <1>4, <1>6, <1>11, <1>12, <1>13, <1>17, <1>18

LEMMA DeleteEffect ==
  ASSUME IInv, NEW j \in DOMAIN slots, Delete(j)
  PROVE  /\ IInv'
         /\ Len(slots') = Len(slots) /\ DOMAIN slots' = DOMAIN slots
         /\ slots'[j].length = 0
         /\ \A i \in DOMAIN slots \ {j} : slots'[i] = slots[i]
         /\ bytes' = bytes
<1>1. /\ Sound(slots, freePointer, bytes) /\ slots \in Seq(Slot)
      /\ SlotsEnd(Len(slots)) <= freePointer
      /\ OffsetsOf(slots)[Len(slots)] = freePointer + deadSpace
      /\ deadSpace \in Nat /\ freePointer \in Nat
      /\ tupleCount = Cardinality(Live(slots))
      /\ slots[j].length \in Nat /\ DOMAIN slots = 1 .. Len(slots)
  <2>1. /\ Sound(slots, freePointer, bytes)
        /\ SlotsEnd(Len(slots)) <= freePointer
        /\ OffsetsOf(slots)[Len(slots)] = freePointer + deadSpace
        /\ deadSpace \in Nat /\ tupleCount = Cardinality(Live(slots))
    BY DEF IInv, Layout
  <2>2. slots \in Seq(Slot) /\ freePointer \in Nat
    BY <2>1, LayoutAssumption DEF Sound
  <2>3. slots[j].length \in Nat /\ DOMAIN slots = 1 .. Len(slots)
    BY <2>2, SlotTypes
  <2> QED
    BY <2>1, <2>2, <2>3
<1>2. /\ slots' = Emptied(slots, j) /\ freePointer' = freePointer
      /\ deadSpace' = deadSpace + slots[j].length
      /\ tupleCount' = tupleCount - 1 /\ bytes' = bytes
      /\ slots[j].length # 0
  BY DEF Delete, Emptied, Occupied
<1>3. /\ Sound(slots', freePointer, bytes)
      /\ Len(slots') = Len(slots) /\ DOMAIN slots' = DOMAIN slots
      /\ slots'[j].length = 0
      /\ \A i \in DOMAIN slots \ {j} : slots'[i] = slots[i]
  BY <1>1, <1>2, DeleteSound
<1>4. slots' \in Seq(Slot)
  BY <1>3 DEF Sound
<1>5. /\ OffsetsOf(slots')[Len(slots')]
           = OffsetsOf(slots)[Len(slots)] + slots[j].length
      /\ Cardinality(Live(slots')) = Cardinality(Live(slots)) - 1
  <2>1. \A i \in DOMAIN slots \ {j} : slots'[i].length = slots[i].length
    BY <1>3
  <2>2. slots \in Seq(Slot) /\ slots[j].length # 0 /\ Len(slots') = Len(slots)
        /\ slots'[j].length = 0
    BY <1>1, <1>2, <1>3
  <2> QED
    BY <1>4, <2>1, <2>2, DeleteCounts
<1>6. /\ deadSpace' \in Nat
      /\ OffsetsOf(slots')[Len(slots')] = freePointer + deadSpace'
  BY <1>1, <1>2, <1>5
<1>7. IInv'
  BY <1>1, <1>2, <1>3, <1>5, <1>6 DEF IInv, Layout
<1> QED
  BY <1>2, <1>3, <1>7

-----------------------------------------------------------------------------
LEMMA InitInv == Init => IInv
<1> SUFFICES ASSUME Init PROVE IInv
  OBVIOUS
<1>1. PageSize \in Nat /\ HeaderSize \in Nat /\ SlotSize \in Nat /\ HeaderSize <= PageSize
  BY LayoutAssumption
<1>2. /\ slots = << >> /\ slots \in Seq(Slot) /\ Len(slots) = 0 /\ DOMAIN slots = {}
      /\ freePointer = PageSize /\ deadSpace = 0 /\ tupleCount = 0
  BY DEF Init
<1>3. bytes \in [Positions -> Byte]
  BY DEF Init, Byte
<1>4. Sound(slots, freePointer, bytes)
  BY <1>1, <1>2, <1>3 DEF Sound
<1>5. SlotsEnd(Len(slots)) <= freePointer
  BY <1>1, <1>2 DEF SlotsEnd
<1>6. OffsetsOf(slots)[Len(slots)] = freePointer + deadSpace
  <2>1. OffsetsOf(slots)[0] = PageSize
    BY <1>2, OffsetFacts
  <2> QED
    BY <1>1, <1>2, <2>1
<1>7. tupleCount = Cardinality(Live(slots))
  BY <1>2, FS_EmptySet DEF Live
<1> QED
  BY <1>2, <1>4, <1>5, <1>6, <1>7 DEF IInv, Layout

LEMMA NextInv == IInv /\ [Next]_vars => IInv'
<1> SUFFICES ASSUME IInv, [Next]_vars PROVE IInv'
  OBVIOUS
<1>1. ASSUME NEW t \in Tuples, Insert(t) PROVE IInv'
  BY <1>1, InsertEffect
<1>2. ASSUME NEW i \in DOMAIN slots, Delete(i) PROVE IInv'
  BY <1>2, DeleteEffect
<1>3. CASE UNCHANGED vars
  BY <1>3 DEF vars, IInv
<1> QED
  BY <1>1, <1>2, <1>3 DEF Next

THEOREM LayoutHolds == Spec => []IInv
BY InitInv, NextInv, PTL DEF Spec

(* A slotted page is always well formed: offsets and lengths stay within   *)
(* the page, and tuple_count_ never exceeds the slots there are.           *)
THEOREM PageIsTyped == Spec => []TypeOK
<1>1. IInv => TypeOK
  <2> SUFFICES ASSUME IInv PROVE TypeOK
    OBVIOUS
  <2>1. Layout(slots, freePointer, deadSpace, tupleCount, bytes)
    BY DEF IInv
  <2> QED
    BY <2>1, LayoutTypes DEF TypeOK, Slot
<1> QED
  BY <1>1, LayoutHolds, PTL

(* insert_tuple, delete_tuple and compact() keep the live tuples apart from *)
(* each other, from the free area and from the slot array, so that the     *)
(* unsigned free_space_remaining() never wraps around.                     *)
THEOREM TuplesStayApart == Spec => []NoOverlap
<1>1. IInv => NoOverlap
  <2> SUFFICES ASSUME IInv PROVE NoOverlap
    OBVIOUS
  <2>1. /\ Sound(slots, freePointer, bytes) /\ SlotsEnd(Len(slots)) <= freePointer
        /\ slots \in Seq(Slot) /\ freePointer \in Nat
    BY LayoutAssumption DEF IInv, Layout, Sound
  <2>2. FreeSpaceRemaining >= 0
    <3>1. SlotsEnd(Len(slots)) \in Nat
      BY <2>1, SlotTypes, SlotsEndGrows
    <3>2. FreeSpaceRemaining = freePointer - SlotsEnd(Len(slots))
      BY DEF FreeSpaceRemaining, SlotsEnd
    <3> QED
      BY <2>1, <3>1, <3>2
  <2>3. \A i \in DOMAIN slots : slots[i].offset \in Nat /\ slots[i].length \in Nat
    BY <2>1, SlotTypes
  <2>4. ASSUME NEW i \in Occupied
        PROVE  Extent(i) \subseteq freePointer .. (PageSize - 1)
    <3>1. /\ freePointer <= slots[i].offset
          /\ slots[i].offset + slots[i].length <= PageSize
          /\ slots[i].offset \in Nat /\ slots[i].length \in Nat
      BY <2>1, <2>3 DEF Sound, Placed, Occupied
    <3>2. PICK a \in Nat, b \in Nat : a = slots[i].offset /\ b = slots[i].length
      BY <3>1
    <3>3. a .. (a + b - 1) \subseteq freePointer .. (PageSize - 1)
      BY SMTT(30), <2>1, <3>1, <3>2, LayoutAssumption
    <3> QED
      BY <3>2, <3>3 DEF Extent
  <2>5. ASSUME NEW i \in Occupied, NEW j \in Occupied, i # j
        PROVE  Extent(i) \cap Extent(j) = {}
    <3>1. /\ Apart(slots[i], slots[j])
          /\ slots[i].offset \in Nat /\ slots[i].length \in Nat
          /\ slots[j].offset \in Nat /\ slots[j].length \in Nat
      BY <2>1, <2>3, <2>5 DEF Sound, Occupied
    <3> QED
      BY <3>1 DEF Extent, Apart
  <2> QED
    BY <2>2, <2>4, <2>5 DEF NoOverlap
<1> QED
  BY <1>1, LayoutHolds, PTL

(* dead_space_ is at every moment exactly what compact() would gain, and   *)
(* tuple_count_ the number of live tuples.                                 *)
THEOREM DeadBytesAreCounted == Spec => []SpaceAccounted
<1>1. PackedOffset = OffsetsOf(slots) /\ Occupied = Live(slots)
  BY DEF PackedOffset, OffsetsOf, Occupied, Live
<1>2. IInv => SpaceAccounted
  BY <1>1 DEF IInv, Layout, SpaceAccounted
<1> QED
  BY <1>2, LayoutHolds, PTL

-----------------------------------------------------------------------------
(***************************************************************************)
(* What the page promises: the rows its slots read as.                     *)
(***************************************************************************)
ReadOf(slot, by) ==
  LET at(k) == by[slot.offset + k] IN
  IF /\ slot.length # 0
     /\ at(0) # Empty
     /\ slot.length = Size[at(0)[1]]
     /\ \A k \in 0 .. (slot.length - 1) : at(k) = <<at(0)[1], k>>
  THEN at(0)[1] ELSE Empty

LEMMA ReadIs ==
  ASSUME NEW slot \in Slot, NEW by
  PROVE  /\ slot.length = 0 => ReadOf(slot, by) = Empty
         /\ \A v \in Tuples : slot.length # 0 /\ Carries(slot, v, by)
              => ReadOf(slot, by) = v
<1>1. slot.length = 0 => ReadOf(slot, by) = Empty
  BY DEF ReadOf
<1>2. ASSUME NEW v \in Tuples, slot.length # 0, Carries(slot, v, by)
      PROVE  ReadOf(slot, by) = v
  <2>1. /\ slot.length = Size[v] /\ Size[v] \in Nat /\ Size[v] > 0
        /\ slot.offset \in Nat
        /\ \A k \in 0 .. (Size[v] - 1) : by[slot.offset + k] = <<v, k>>
    BY <1>2, Sizes, LayoutAssumption DEF Slot, Carries
  <2>2. by[slot.offset + 0] = <<v, 0>>
    BY <2>1
  <2>3. <<v, 0>> # Empty /\ <<v, 0>>[1] = v
    BY LayoutAssumption
  <2> QED
    BY <1>2, <2>1, <2>2, <2>3 DEF ReadOf
<1> QED
  BY <1>1, <1>2

(* The rows of a layout. *)
RowsOf(s, by) == [i \in DOMAIN s |-> ReadOf(s[i], by)]

LEMMA RowsAre ==
  ASSUME NEW s, NEW free, NEW by, Sound(s, free, by),
         NEW r, r = RowsOf(s, by)
  PROVE  /\ r \in Seq(Tuples \cup {Empty}) /\ Len(r) = Len(s)
         /\ DOMAIN r = DOMAIN s
         /\ \A i \in DOMAIN s :
              /\ s[i].length = 0 <=> r[i] = Empty
              /\ s[i].length # 0 => r[i] \in Tuples /\ Carries(s[i], r[i], by)
         /\ \A i \in DOMAIN s, v \in Tuples :
              s[i].length # 0 /\ Carries(s[i], v, by) => r[i] = v
<1>1. s \in Seq(Slot) /\ Len(s) \in Nat /\ DOMAIN s = 1 .. Len(s)
  BY SlotTypes DEF Sound
<1>2. ASSUME NEW i \in DOMAIN s
      PROVE  /\ s[i] \in Slot /\ r[i] = ReadOf(s[i], by)
             /\ s[i].length # 0 => \E v \in Tuples : Carries(s[i], v, by)
  BY <1>1 DEF RowsOf, Sound, Placed
<1>3. ASSUME NEW i \in DOMAIN s
      PROVE  /\ s[i].length = 0 => r[i] = Empty
             /\ s[i].length # 0 => r[i] \in Tuples /\ Carries(s[i], r[i], by)
             /\ \A v \in Tuples :
                  s[i].length # 0 /\ Carries(s[i], v, by) => r[i] = v
  BY <1>2, ReadIs
<1>4. \A i \in DOMAIN s : r[i] = Empty => s[i].length = 0
  BY <1>3, LayoutAssumption
<1>5. r \in [1 .. Len(s) -> Tuples \cup {Empty}]
  <2>1. r = [i \in 1 .. Len(s) |-> r[i]]
    BY <1>1 DEF RowsOf
  <2>2. \A i \in 1 .. Len(s) : r[i] \in Tuples \cup {Empty}
    BY <1>1, <1>3
  <2> QED
    BY <2>1, <2>2
<1>6. r \in Seq(Tuples \cup {Empty}) /\ Len(r) = Len(s) /\ DOMAIN r = DOMAIN s
  BY <1>1, <1>5, FunIsSeq
<1> QED
  BY <1>3, <1>4, <1>6

LEMMA RowsMapped == [i \in DOMAIN slots |-> Read(i)] = RowsOf(slots, bytes)
<1>1. ASSUME NEW i \in DOMAIN slots PROVE Read(i) = ReadOf(slots[i], bytes)
  BY DEF Read, ReadOf, Occupied
<1> QED
  BY <1>1 DEF RowsOf

LEMMA RowsMappedNext ==
  [i \in DOMAIN slots |-> Read(i)]' = RowsOf(slots', bytes')
<1>1. ASSUME NEW i \in DOMAIN slots'
      PROVE  Read(i)' = ReadOf(slots'[i], bytes')
  BY DEF Read, ReadOf, Occupied
<1> QED
  BY <1>1 DEF RowsOf

(* What the abstract page counts: the sizes of the first i rows.           *)
StoredOf(r) ==
  LET sum[i \in 0 .. Len(r)] ==
        IF i = 0 THEN 0
        ELSE sum[i - 1] + (IF r[i] = Empty THEN 0 ELSE Size[r[i]])
  IN sum

LEMMA StoredIs ==
  ASSUME NEW s, NEW free, NEW by, Sound(s, free, by),
         NEW r, r = RowsOf(s, by)
  PROVE  StoredOf(r)[Len(r)] = PageSize - OffsetsOf(s)[Len(s)]
<1> DEFINE n == Len(s)
           w == [i \in 1 .. n |-> s[i].length]
           Good(f) == f = [i \in 0 .. n |->
                             IF i = 0 THEN 0
                             ELSE f[i - 1]
                                    + (IF r[i] = Empty THEN 0 ELSE Size[r[i]])]
<1>1. /\ s \in Seq(Slot) /\ n \in Nat /\ DOMAIN s = 1 .. n /\ Len(r) = n
      /\ Steps(s) \in [1 .. n -> Int]
      /\ \A i \in 1 .. n : s[i].length \in Nat /\ Steps(s)[i] = -s[i].length
  BY SlotTypes, RowsAre DEF Sound
<1>2. \A i \in 1 .. n : (IF r[i] = Empty THEN 0 ELSE Size[r[i]]) = s[i].length
  BY <1>1, RowsAre DEF Carries
<1>3. w \in [1 .. n -> Int] /\ \A i \in 1 .. n : w[i] = s[i].length
  BY <1>1
<1> HIDE DEF w
<1>0. 0 \in Int
  OBVIOUS
<1>4. n \in Nat /\ w \in [1 .. n -> Int]
  BY <1>1, <1>3
<1> HIDE DEF n
<1>5. PICK f \in [0 .. n -> Int] : IsSum(f, 0, w, n)
  BY <1>0, <1>4, SumExists
<1>5a. f[0] = 0 /\ Accumulates(f, w, n)
  BY <1>0, <1>4, <1>5, SumFacts
<1>6. Good(f)
  BY <1>2, <1>3, <1>5, <1>5a DEF Accumulates
<1>7. Good(StoredOf(r))
  BY ZenonT(60), <1>1, <1>6 DEF StoredOf, n
<1>8. IsSum(StoredOf(r), 0, w, n)
  <2> DEFINE g == StoredOf(r)
  <2>1. Good(g)
    BY <1>7
  <2> HIDE DEF g
  <2>2. \A i \in 0 .. n : g[i] = IF i = 0 THEN 0 ELSE g[i - 1] + w[i]
    <3>1. ASSUME NEW i \in 0 .. n, i # 0
          PROVE  g[i] = g[i - 1] + w[i]
      <4>1. i \in 1 .. n
        BY <1>4, <3>1
      <4>2. PICK x : x = IF r[i] = Empty THEN 0 ELSE Size[r[i]]
        OBVIOUS
      <4>3. x = w[i]
        BY <1>2, <1>3, <4>1, <4>2
      <4>4. g[i] = g[i - 1] + x
        BY <2>1, <3>1, <4>2
      <4> QED
        BY <4>3, <4>4
    <3>2. g[0] = 0
      BY <1>4, <2>1
    <3> QED
      BY <3>1, <3>2
  <2>3. g = [i \in 0 .. n |-> g[i]]
    BY <2>1
  <2>4. IsSum(g, 0, w, n)
    BY <2>2, <2>3 DEF IsSum
  <2> QED
    BY <2>4 DEF g
<1>9. OffsetsOf(s)[n] + StoredOf(r)[n] = PageSize + 0
  <2>1. IsSum(OffsetsOf(s), PageSize, Steps(s), n)
    BY <1>1, OffsetsAreSums DEF n
  <2>2. Opposite(w, Steps(s), n)
    BY <1>1, <1>3 DEF Opposite
  <2>3. PageSize \in Int /\ Steps(s) \in [1 .. n -> Int]
    BY <1>1, LayoutAssumption
  <2>4. PICK a, b, v, c, d, m, x :
          /\ a = OffsetsOf(s) /\ b = StoredOf(r) /\ v = Steps(s)
          /\ c = PageSize /\ d = 0 /\ m = n /\ x = w
    OBVIOUS
  <2>5. IsSum(a, c, v, m) /\ IsSum(b, d, x, m) /\ Opposite(x, v, m)
    BY <1>8, <2>1, <2>2, <2>4
  <2>6. /\ c \in Int /\ d \in Int /\ m \in Nat
        /\ v \in [1 .. m -> Int] /\ x \in [1 .. m -> Int]
    BY <1>0, <1>4, <2>3, <2>4
  <2>7. a[m] + b[m] = c + d
    BY SMTT(60), <2>5, <2>6, SumOpposite
  <2> QED
    BY <2>4, <2>7
<1>10. n \in 0 .. n /\ OffsetsOf(s)[n] \in Int /\ StoredOf(r)[n] \in Int
  <2>1. n \in 0 .. n
    BY <1>1
  <2>2. StoredOf(r) \in [0 .. n -> Int]
    BY <1>0, <1>4, <1>8, SumFacts
  <2> QED
    BY <1>1, <2>1, <2>2, OffsetFacts DEF n
<1> QED
  BY <1>1, <1>9, <1>10, LayoutAssumption DEF n

LEMMA RowsFacts ==
  ASSUME IInv
  PROVE  /\ Rows!Slots = DOMAIN slots
         /\ Rows!EmptySlots = Reusable
         /\ Rows!NextSlot = ReusedSlot
         /\ \A t \in Tuples : Rows!HasRoom(t) <=> Fits(t)
<1>1. PICK r : r = [i \in DOMAIN slots |-> Read(i)]
  OBVIOUS
<1>2. r = RowsOf(slots, bytes)
  BY <1>1, RowsMapped
<1>3. /\ Sound(slots, freePointer, bytes) /\ slots \in Seq(Slot)
      /\ OffsetsOf(slots)[Len(slots)] = freePointer + deadSpace
      /\ deadSpace \in Nat /\ freePointer \in Nat
  BY LayoutAssumption DEF IInv, Layout, Sound
<1>4. /\ Len(r) = Len(slots) /\ DOMAIN r = DOMAIN slots
      /\ \A i \in DOMAIN slots : slots[i].length = 0 <=> r[i] = Empty
  BY <1>2, <1>3, RowsAre
<1>5. Len(slots) \in Nat /\ DOMAIN slots = 1 .. Len(slots)
  BY <1>3, SlotTypes
<1>6. Rows!Slots = DOMAIN slots
  BY DEF Rows!Slots
<1>7. Rows!EmptySlots = Reusable
  <2>1. Rows!EmptySlots = {i \in DOMAIN slots : r[i] = Empty}
    BY <1>1, <1>6 DEF Rows!EmptySlots
  <2> QED
    BY <1>4, <2>1 DEF Reusable, Occupied
<1>8. Rows!NextSlot = ReusedSlot
  <2>1. Rows!NextSlot = IF Reusable # {} THEN Min(Reusable) ELSE Len(r) + 1
    BY <1>1, <1>7 DEF Rows!NextSlot, Rows!Min, Min
  <2> QED
    BY <1>4, <2>1 DEF ReusedSlot
<1>9. Rows!Stored[Len(r)] = PageSize - (freePointer + deadSpace)
  <2>1. Rows!Stored = StoredOf(r)
    BY <1>1 DEF Rows!Stored, StoredOf
  <2>2. StoredOf(r)[Len(r)] = PageSize - OffsetsOf(slots)[Len(slots)]
    BY <1>2, <1>3, StoredIs
  <2> QED
    BY <1>3, <2>1, <2>2
<1>10. ASSUME NEW t \in Tuples PROVE Rows!HasRoom(t) <=> Fits(t)
  <2>1. PICK e : e = IF Reusable # {} THEN 0 ELSE SlotSize
    OBVIOUS
  <2>2. PICK used : used = SlotsEnd(Len(slots))
    OBVIOUS
  <2>3. /\ e \in Nat /\ used \in Nat /\ Size[t] \in Nat /\ PageSize \in Nat
        /\ HeaderSize \in Nat /\ SlotSize * Len(slots) \in Nat
    BY <1>5, <2>1, <2>2, Sizes, SlotsEndGrows, LayoutAssumption
  <2>4. Rows!Used = used + (PageSize - (freePointer + deadSpace))
    <3>1. Rows!Used = HeaderSize + SlotSize * Len(r) + Rows!Stored[Len(r)]
      BY <1>1 DEF Rows!Used
    <3> QED
      BY <1>4, <1>9, <2>2, <3>1 DEF SlotsEnd
  <2>5. Rows!HasRoom(t) <=> Rows!Used + Size[t] + e <= PageSize
    BY <1>7, <2>1 DEF Rows!HasRoom
  <2>6. Fits(t) <=> (freePointer - used) + deadSpace >= Size[t] + e
    <3>1. SpaceNeeded(t) = Size[t] + e
      BY <2>1, <2>3 DEF SpaceNeeded
    <3>2. FreeSpaceRemaining = freePointer - used
      BY <2>2 DEF FreeSpaceRemaining, SlotsEnd
    <3> QED
      BY <3>1, <3>2 DEF Fits, UsableSpace
  <2> QED
    BY <1>3, <2>3, <2>4, <2>5, <2>6
<1> QED
  BY <1>6, <1>7, <1>8, <1>10

(* insert_tuple refuses a tuple only if the live tuples, the slots and the *)
(* header leave it no room: dead space alone never turns one away.         *)
THEOREM RefusalIsJustified == Spec => []RefusedOnlyIfFull
<1>1. IInv => RefusedOnlyIfFull
  BY RowsFacts DEF RefusedOnlyIfFull
<1> QED
  BY <1>1, LayoutHolds, PTL

-----------------------------------------------------------------------------
LEMMA InsertMaps ==
  ASSUME IInv, NEW t \in Tuples, Insert(t)
  PROVE  Rows!Insert(t)
<1>1. PICK r : r = [i \in DOMAIN slots |-> Read(i)]
  OBVIOUS
<1>2. PICK q : q = [i \in DOMAIN slots |-> Read(i)]'
  OBVIOUS
<1>3. PICK j : j = ReusedSlot
  OBVIOUS
<1>4. r = RowsOf(slots, bytes) /\ q = RowsOf(slots', bytes')
  BY <1>1, <1>2, RowsMapped, RowsMappedNext
<1>5. /\ IInv'
      /\ Len(slots') = IF Reusable # {} THEN Len(slots) ELSE Len(slots) + 1
      /\ slots'[j].length # 0
      /\ Carries(slots'[j], t, bytes')
      /\ \A i \in DOMAIN slots \ {j} :
           /\ slots'[i].length = slots[i].length
           /\ \A v \in Tuples :
                slots[i].length # 0 /\ Carries(slots[i], v, bytes)
                  => Carries(slots'[i], v, bytes')
  BY <1>3, InsertEffect
<1>6. /\ Sound(slots, freePointer, bytes) /\ slots \in Seq(Slot)
      /\ Sound(slots', freePointer', bytes') /\ slots' \in Seq(Slot)
  BY <1>5 DEF IInv, Layout, Sound
<1>7. /\ Len(slots) \in Nat /\ DOMAIN slots = 1 .. Len(slots)
      /\ DOMAIN slots' = 1 .. Len(slots')
  BY <1>6, SlotTypes
<1>8. /\ j \in 1 .. (Len(slots) + 1)
      /\ j \in DOMAIN slots <=> Reusable # {}
  BY <1>3, <1>6, ReusedSlotIs
<1>9. DOMAIN slots' = DOMAIN slots \cup {j}
  <2>1. CASE Reusable # {}
    BY <1>5, <1>7, <1>8, <2>1
  <2>2. CASE Reusable = {}
    <3>1. j = Len(slots) + 1 /\ Len(slots') = Len(slots) + 1
      BY <1>5, <1>7, <1>8, <2>2
    <3> QED
      BY <1>7, <3>1
  <2> QED
    BY <2>1, <2>2
<1>10. /\ DOMAIN r = DOMAIN slots
       /\ \A i \in DOMAIN slots :
            /\ slots[i].length = 0 <=> r[i] = Empty
            /\ slots[i].length # 0 => r[i] \in Tuples /\ Carries(slots[i], r[i], bytes)
  BY <1>4, <1>6, RowsAre
<1>11. /\ DOMAIN q = DOMAIN slots'
       /\ \A i \in DOMAIN slots' :
            /\ slots'[i].length = 0 <=> q[i] = Empty
            /\ \A v \in Tuples :
                 slots'[i].length # 0 /\ Carries(slots'[i], v, bytes')
                   => q[i] = v
  BY <1>4, <1>6, RowsAre
<1>12. q[j] = t
  BY <1>5, <1>9, <1>11
<1>13. ASSUME NEW i \in DOMAIN slots \ {j} PROVE q[i] = r[i]
  <2>1. i \in DOMAIN slots' /\ slots'[i].length = slots[i].length
    BY <1>5, <1>9
  <2>2. CASE slots[i].length = 0
    BY <1>10, <1>11, <2>1, <2>2
  <2>3. CASE slots[i].length # 0
    <3>1. r[i] \in Tuples /\ Carries(slots[i], r[i], bytes)
      BY <1>10, <2>3
    <3>2. Carries(slots'[i], r[i], bytes')
      BY <1>5, <2>3, <3>1
    <3> QED
      BY <1>11, <2>1, <2>3, <3>1, <3>2
  <2> QED
    BY <2>2, <2>3
<1>14. q = [i \in DOMAIN slots \cup {j} |-> IF i = j THEN t ELSE r[i]]
  <2>1. q = [i \in DOMAIN slots \cup {j} |-> q[i]]
    BY <1>4, <1>9 DEF RowsOf
  <2> QED
    BY <1>12, <1>13, <2>1
<1>15. Rows!HasRoom(t) /\ Rows!Slots = DOMAIN slots /\ Rows!NextSlot = j
  BY <1>3, RowsFacts DEF Insert
<1> QED
  BY <1>1, <1>2, <1>14, <1>15 DEF Rows!Insert

LEMMA DeleteMaps ==
  ASSUME IInv, NEW j \in DOMAIN slots, Delete(j)
  PROVE  Rows!Delete(j)
<1>1. PICK r : r = [i \in DOMAIN slots |-> Read(i)]
  OBVIOUS
<1>2. PICK q : q = [i \in DOMAIN slots |-> Read(i)]'
  OBVIOUS
<1>3. r = RowsOf(slots, bytes) /\ q = RowsOf(slots', bytes')
  BY <1>1, <1>2, RowsMapped, RowsMappedNext
<1>4. /\ IInv' /\ DOMAIN slots' = DOMAIN slots
      /\ slots'[j].length = 0
      /\ \A i \in DOMAIN slots \ {j} : slots'[i] = slots[i]
      /\ bytes' = bytes
  BY DeleteEffect
<1>5. Sound(slots', freePointer', bytes')
  BY <1>4 DEF IInv, Layout
<1>6. q[j] = Empty
  BY <1>3, <1>4, <1>5, RowsAre
<1>7. \A i \in DOMAIN slots \ {j} : q[i] = r[i]
  BY <1>3, <1>4 DEF RowsOf
<1>8. q = [r EXCEPT ![j] = Empty]
  <2>1. q = [i \in DOMAIN slots |-> q[i]] /\ r = [i \in DOMAIN slots |-> r[i]]
    BY <1>3, <1>4 DEF RowsOf
  <2> QED
    BY <1>6, <1>7, <2>1
<1>9. Rows!Slots = DOMAIN slots
  BY RowsFacts
<1> QED
  BY <1>1, <1>2, <1>8, <1>9 DEF Rows!Delete

(* Whatever is inserted, deleted and compacted, a RecordId reads, byte for *)
(* byte, the tuple it was given for until that tuple is deleted.           *)
THEOREM PageImplementsTupleSlots == Spec => ImplementsTupleSlots
<1>1. Init => [i \in DOMAIN slots |-> Read(i)] = << >>
  BY DEF Init
<1>2. IInv /\ [Next]_vars
        => [(\E t \in Tuples : Rows!Insert(t)) \/ (\E i \in Rows!Slots : Rows!Delete(i))]_([i \in DOMAIN slots |-> Read(i)])
  <2> SUFFICES ASSUME IInv, [Next]_vars
               PROVE  [(\E t \in Tuples : Rows!Insert(t)) \/ (\E i \in Rows!Slots : Rows!Delete(i))]_([i \in DOMAIN slots |-> Read(i)])
    OBVIOUS
  <2>1. ASSUME NEW t \in Tuples, Insert(t) PROVE Rows!Insert(t)
    BY <2>1, InsertMaps
  <2>2. ASSUME NEW i \in DOMAIN slots, Delete(i) PROVE Rows!Delete(i) /\ i \in Rows!Slots
    BY <2>2, DeleteMaps, RowsFacts
  <2>3. CASE UNCHANGED vars
    BY <2>3 DEF vars, Read, Occupied
  <2> QED
    BY <2>1, <2>2, <2>3 DEF Next
<1> QED
  BY <1>1, <1>2, LayoutHolds, PTL DEF Spec, ImplementsTupleSlots, Rows!Spec

=============================================================================
