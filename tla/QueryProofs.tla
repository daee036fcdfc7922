----------------------------- MODULE QueryProofs -----------------------------
(***************************************************************************)
(* Proofs about queries: however its rows fall into batches, a query       *)
(* returns the relation it stands for; NULLs stand where ORDER BY puts     *)
(* them; and a tuple's columns read back, up to its first NULL.            *)
(***************************************************************************)
EXTENDS QueryProperties, FiniteSetTheorems, SequenceTheorems,
        WellFoundedInduction, TLAPS

-----------------------------------------------------------------------------
(***************************************************************************)
(* Induction over a set of numbers, which first-order provers can use in   *)
(* place of a predicate.                                                   *)
(***************************************************************************)
LEMMA NatMinimum ==
  ASSUME NEW T \in SUBSET Nat, T # {}
  PROVE  \E m \in T : \A k \in T : m <= k
<1>1. PICK m \in T : \A k \in T : <<k, m>> \notin OpToRel(<, Nat)
  <2>1. IsWellFoundedOn(OpToRel(<, Nat), Nat)
    BY NatLessThanWellFounded
  <2> QED
    BY <2>1, WFMin
<1>2. ASSUME NEW k \in T, k < m PROVE FALSE
  <2>1. PICK p \in Nat \X Nat : p = <<k, m>>
    OBVIOUS
  <2>2. p[1] = k /\ p[2] = m
    BY <2>1
  <2>3. p \in OpToRel(<, Nat)
    BY <1>2, <2>2 DEF OpToRel
  <2> QED
    BY <1>1, <2>1, <2>3
<1> QED
  BY <1>2

LEMMA UpToInduction ==
  ASSUME NEW n \in Nat, NEW S, 0 \in S,
         \A m \in 1 .. n : m - 1 \in S => m \in S
  PROVE  0 .. n \subseteq S
<1> SUFFICES ASSUME (0 .. n) \ S # {}
             PROVE  FALSE
  OBVIOUS
<1>1. PICK m \in (0 .. n) \ S : \A k \in (0 .. n) \ S : m <= k
  <2>1. (0 .. n) \ S \in SUBSET Nat
    OBVIOUS
  <2> QED
    BY <2>1, NatMinimum
<1>2. m \in 1 .. n /\ m - 1 \notin (0 .. n) \ S
  BY <1>1
<1>3. m - 1 \in S
  BY <1>2
<1> QED
  BY <1>1, <1>2, <1>3

-----------------------------------------------------------------------------
(***************************************************************************)
(* Flattening.                                                             *)
(***************************************************************************)
Part(f, s, m) == f = [i \in 1 .. m |-> IF i = 1 THEN s[i] ELSE f[i - 1] \o s[i]]

(* f has in f[i] the first i sequences of s, flattened. *)
Gathers(f, s, n) ==
  /\ n > 0 => f[1] = s[1]
  /\ \A i \in 2 .. n : f[i] = f[i - 1] \o s[i]

LEMMA PartGathers ==
  ASSUME NEW s, NEW m \in Nat, NEW f, Part(f, s, m)
  PROVE  DOMAIN f = 1 .. m /\ Gathers(f, s, m) /\ f = [i \in 1 .. m |-> f[i]]
<1>1. f = [i \in 1 .. m |-> IF i = 1 THEN s[i] ELSE f[i - 1] \o s[i]]
  BY DEF Part
<1>2. DOMAIN f = 1 .. m
  BY <1>1
<1>3. ASSUME m > 0 PROVE f[1] = s[1]
  BY <1>1, <1>3
<1>4. ASSUME NEW i \in 2 .. m PROVE f[i] = f[i - 1] \o s[i]
  <2>1. i \in 1 .. m /\ i # 1
    OBVIOUS
  <2> QED
    BY <1>1, <2>1
<1>5. f = [i \in 1 .. m |-> f[i]]
  BY <1>1, <1>2
<1> QED
  BY <1>2, <1>3, <1>4, <1>5 DEF Gathers

LEMMA RunExists ==
  ASSUME NEW s, NEW n \in Nat
  PROVE  \E f : Part(f, s, n)
<1> DEFINE Some(m) == \E f : Part(f, s, m)
           S == {m \in 0 .. n : Some(m)}
<1>1. Some(0)
  <2>1. PICK f : f = [i \in 1 .. 0 |-> IF i = 1 THEN s[i] ELSE s[i] \o s[i]]
    OBVIOUS
  <2>2. f = [i \in 1 .. 0 |-> IF i = 1 THEN s[i] ELSE f[i - 1] \o s[i]]
    BY <2>1
  <2>3. Part(f, s, 0)
    BY <2>2 DEF Part
  <2> QED
    BY <2>3
<1>2. ASSUME NEW m \in 1 .. n, Some(m - 1) PROVE Some(m)
  <2>1. PICK f : Part(f, s, m - 1)
    BY <1>2
  <2>2. PICK new : new = IF m = 1 THEN s[m] ELSE f[m - 1] \o s[m]
    OBVIOUS
  <2>3. PICK g : g = [i \in 1 .. m |-> IF i = m THEN new ELSE f[i]]
    OBVIOUS
  <2>4. DOMAIN f = 1 .. (m - 1) /\ Gathers(f, s, m - 1)
    BY <2>1, PartGathers
  <2>5. ASSUME NEW i \in 1 .. m PROVE g[i] = IF i = 1 THEN s[i] ELSE g[i - 1] \o s[i]
    <3>1. i # 1 => i - 1 \in 1 .. m /\ i - 1 # m /\ g[i - 1] = f[i - 1]
      BY <2>3
    <3>2. CASE i = m
      BY <2>2, <2>3, <3>1, <3>2
    <3>3. CASE i # m
      <4>1. g[i] = f[i] /\ i <= m - 1
        BY <2>3, <3>3
      <4>2. i = 1 => f[i] = s[i]
        BY <2>4, <4>1 DEF Gathers
      <4>3. i # 1 => f[i] = f[i - 1] \o s[i]
        <5>1. i # 1 => i \in 2 .. (m - 1)
          BY <4>1
        <5> QED
          BY <2>4, <5>1, Zenon DEF Gathers
      <4> QED
        BY <3>1, <4>1, <4>2, <4>3
    <3> QED
      BY <3>2, <3>3
  <2>6. g = [i \in 1 .. m |-> g[i]]
    BY <2>3
  <2>7. [i \in 1 .. m |-> g[i]] = [i \in 1 .. m |-> IF i = 1 THEN s[i] ELSE g[i - 1] \o s[i]]
    BY <2>5
  <2>8. Part(g, s, m)
    BY <2>6, <2>7 DEF Part
  <2> QED
    BY <2>8
<1>3. 0 .. n \subseteq S
  <2> HIDE DEF Some
  <2>1. 0 \in S
    BY <1>1
  <2>2. \A m \in 1 .. n : m - 1 \in S => m \in S
    BY <1>2
  <2> HIDE DEF S
  <2> QED
    BY <2>1, <2>2, UpToInduction
<1> QED
  <2> HIDE DEF Some
  <2>1. Some(n)
    BY <1>3
  <2> QED
    BY <2>1 DEF Some

LEMMA RunGathers ==
  ASSUME NEW T, NEW s \in Seq(Seq(T)), NEW n \in Nat, n = Len(s), NEW f, Part(f, s, n)
  PROVE  f \in [1 .. n -> Seq(T)] /\ Gathers(f, s, n)
<1>2. DOMAIN f = 1 .. n /\ Gathers(f, s, n) /\ f = [i \in 1 .. n |-> f[i]]
  BY PartGathers
<1> DEFINE S == {i \in 0 .. n : i = 0 \/ f[i] \in Seq(T)}
<1>3. 0 \in S
  OBVIOUS
<1>4. ASSUME NEW i \in 1 .. n, i - 1 \in S PROVE i \in S
  <2>1. s[i] \in Seq(T)
    BY ElementOfSeq
  <2>2. ASSUME i = 1 PROVE f[i] \in Seq(T)
    BY <1>2, <2>1, <2>2 DEF Gathers
  <2>3. ASSUME i # 1 PROVE f[i] \in Seq(T)
    <3>1. i \in 2 .. n
      BY <2>3
    <3>2. f[i] = f[i - 1] \o s[i]
      BY <1>2, <3>1 DEF Gathers
    <3>3. f[i - 1] \in Seq(T)
      BY <1>4, <2>3
    <3>4. f[i - 1] \o s[i] \in Seq(T)
      BY <2>1, <3>3, ConcatProperties, Zenon
    <3> QED
      BY <3>2, <3>4, Zenon
  <2>4. f[i] \in Seq(T)
    BY <2>2, <2>3
  <2> QED
    BY <2>4
<1>5. 0 .. n \subseteq S
  <2> HIDE DEF S
  <2> QED
    BY <1>3, <1>4, UpToInduction
<1>6. ASSUME NEW i \in 1 .. n PROVE f[i] \in Seq(T)
  <2>1. i \in S /\ i # 0
    BY <1>5
  <2> QED
    BY <2>1
<1> QED
  BY <1>2, <1>6

LEMMA FlatIs ==
  ASSUME NEW T, NEW s \in Seq(Seq(T))
  PROVE  /\ s = <<>> => Flat(s) = <<>>
         /\ s # <<>> => \E f \in [1 .. Len(s) -> Seq(T)] :
                           Gathers(f, s, Len(s)) /\ Flat(s) = f[Len(s)]
<1>1. CASE s = <<>>
  BY <1>1 DEF Flat, FlattenSeq
<1>2. CASE s # <<>>
  <2>1. PICK n \in Nat : n = Len(s) /\ n # 0
    BY <1>2, EmptySeq
  <2>2. PICK f : f = CHOOSE g : Part(g, s, Len(s))
    OBVIOUS
  <2>3. Part(f, s, n)
    <3>1. \E g : Part(g, s, n)
      BY RunExists
    <3>2. f = CHOOSE g : Part(g, s, n)
      BY <2>1, <2>2
    <3> QED
      BY <3>1, <3>2
  <2>4. Flat(s) = f[Len(s)]
    <3>1. f = CHOOSE g : g = [i \in 1 .. Len(s) |-> IF i = 1 THEN s[i] ELSE g[i - 1] \o s[i]]
      BY <2>2, Zenon DEF Part
    <3>2. Len(s) # 0
      BY <2>1
    <3> QED
      BY <3>1, <3>2, Zenon DEF Flat, FlattenSeq
  <2>5. f \in [1 .. n -> Seq(T)] /\ Gathers(f, s, n)
    BY <2>1, <2>3, RunGathers
  <2> QED
    BY <1>2, <2>1, <2>4, <2>5
<1> QED
  BY <1>1, <1>2

LEMMA PrefixType ==
  ASSUME NEW S, NEW s \in Seq(S), NEW k \in 1 .. Len(s)
  PROVE  SubSeq(s, 1, k - 1) \in Seq(S) /\ SubSeq(s, k + 1, Len(s)) \in Seq(S)
BY SubSeqProperties

LEMMA PrefixIsAppend ==
  ASSUME NEW S, NEW s \in Seq(S), NEW k \in 1 .. Len(s)
  PROVE  SubSeq(s, 1, k) = Append(SubSeq(s, 1, k - 1), s[k])
<1>1. SubSeq(s, 1, k) = SubSeq(s, 1, k - 1) \o <<s[k]>>
  BY SubSeqRecursiveSecond
<1>2. SubSeq(s, 1, k - 1) \in Seq(S) /\ s[k] \in S
  BY PrefixType, ElementOfSeq
<1> QED
  BY <1>1, <1>2, AppendIsConcat, Zenon

LEMMA ConcatType ==
  ASSUME NEW S, NEW s \in Seq(S), NEW t \in Seq(S)
  PROVE  s \o t \in Seq(S)
BY ConcatProperties

LEMMA ConcatAppend ==
  ASSUME NEW S, NEW s \in Seq(S), NEW t \in Seq(S), NEW e \in S
  PROVE  s \o Append(t, e) = Append(s \o t, e)
<1>1. s \o t \in Seq(S)
  BY ConcatType
<1>2. PICK w \in Seq(S) : w = <<e>>
  <2>1. <<e>> \in Seq(S)
    OBVIOUS
  <2> QED
    BY <2>1, Zenon
<1>3. Append(t, e) = t \o w /\ Append(s \o t, e) = (s \o t) \o w
  BY <1>1, <1>2, AppendIsConcat, Zenon
<1>4. (s \o t) \o w = s \o (t \o w)
  BY ConcatAssociative
<1> QED
  BY <1>3, <1>4, Zenon

LEMMA SplitAt ==
  ASSUME NEW S, NEW s \in Seq(S), NEW k \in 0 .. Len(s)
  PROVE  /\ SubSeq(s, 1, k) \in Seq(S) /\ SubSeq(s, k + 1, Len(s)) \in Seq(S)
         /\ s = SubSeq(s, 1, k) \o SubSeq(s, k + 1, Len(s))
<1>1. SubSeq(s, 1, k) \in Seq(S) /\ SubSeq(s, k + 1, Len(s)) \in Seq(S)
  BY SubSeqProperties
<1>2. SubSeq(s, 1, k) \o SubSeq(s, k + 1, Len(s)) = SubSeq(s, 1, Len(s))
  <2>1. 1 \in 1 .. Len(s) + 1 /\ k \in 1 - 1 .. Len(s) /\ Len(s) \in k .. Len(s)
    OBVIOUS
  <2> QED
    BY <2>1, ConcatAdjacentSubSeq, Zenon
<1>3. SubSeq(s, 1, Len(s)) = s
  BY SubSeqFull
<1> QED
  BY <1>1, <1>2, <1>3, Zenon

LEMMA FlatEmpty == Flat(<<>>) = <<>>
BY DEF Flat, FlattenSeq

LEMMA FlatType ==
  ASSUME NEW T, NEW s \in Seq(Seq(T))
  PROVE  Flat(s) \in Seq(T)
<1>1. CASE s = <<>>
  <2>1. Flat(s) = <<>>
    BY <1>1, FlatIs
  <2>2. <<>> \in Seq(T)
    BY EmptySeq
  <2> QED
    BY <2>1, <2>2
<1>2. CASE s # <<>>
  <2>1. Len(s) \in 1 .. Len(s)
    BY <1>2, EmptySeq
  <2> QED
    BY <1>2, <2>1, FlatIs
<1> QED
  BY <1>1, <1>2

LEMMA FlatAppend ==
  ASSUME NEW T, NEW s \in Seq(Seq(T)), NEW b \in Seq(T)
  PROVE  Flat(Append(s, b)) = Flat(s) \o b
<1>1. PICK t \in Seq(Seq(T)) :
        /\ t = Append(s, b) /\ t # <<>> /\ Len(t) = Len(s) + 1
        /\ t[Len(s) + 1] = b /\ \A i \in 1 .. Len(s) : t[i] = s[i]
  <2>1. PICK S : S = Seq(T)
    OBVIOUS
  <2>2. s \in Seq(S) /\ b \in S
    BY <2>1
  <2>3. /\ Append(s, b) \in Seq(S)
        /\ Append(s, b) # <<>> /\ Len(Append(s, b)) = Len(s) + 1
        /\ Append(s, b)[Len(s) + 1] = b
        /\ \A i \in 1 .. Len(s) : Append(s, b)[i] = s[i]
    BY <2>2, AppendProperties
  <2> QED
    BY <2>1, <2>3, Zenon
<1>2. PICK n \in Nat : n = Len(s)
  OBVIOUS
<1>3. PICK g \in [1 .. (n + 1) -> Seq(T)] : Gathers(g, t, n + 1) /\ Flat(t) = g[n + 1]
  <2>1. \E g \in [1 .. Len(t) -> Seq(T)] : Gathers(g, t, Len(t)) /\ Flat(t) = g[Len(t)]
    BY <1>1, FlatIs, Zenon
  <2>2. Len(t) = n + 1
    BY <1>1, <1>2
  <2> QED
    BY <2>1, <2>2, Zenon
<1>4. CASE n = 0
  <2>1. s = <<>> /\ Flat(s) = <<>>
    BY <1>2, <1>4, EmptySeq, FlatIs
  <2>2. Flat(t) = b
    BY <1>1, <1>2, <1>3, <1>4 DEF Gathers
  <2> QED
    BY <1>1, <2>1, <2>2, ConcatEmptySeq
<1>5. CASE n # 0
  <2>1. PICK f \in [1 .. n -> Seq(T)] : Gathers(f, s, n) /\ Flat(s) = f[n]
    BY <1>2, <1>5, EmptySeq, FlatIs
  <2> DEFINE S == {i \in 0 .. n : i = 0 \/ f[i] = g[i]}
  <2>2. 0 \in S
    OBVIOUS
  <2>3. ASSUME NEW i \in 1 .. n, i - 1 \in S PROVE i \in S
    <3>1. t[i] = s[i]
      BY <1>1, <1>2
    <3>2. CASE i = 1
      BY <1>3, <2>1, <3>1, <3>2 DEF Gathers
    <3>3. CASE i # 1
      <4>1. i \in 2 .. n /\ i \in 2 .. (n + 1) /\ f[i - 1] = g[i - 1]
        BY <2>3, <3>3
      <4>2. f[i] = f[i - 1] \o s[i] /\ g[i] = g[i - 1] \o t[i]
        BY <1>3, <2>1, <4>1, Zenon DEF Gathers
      <4>3. f[i] = g[i]
        BY <3>1, <4>1, <4>2, Zenon
      <4> QED
        BY <4>3
    <3> QED
      BY <3>2, <3>3
  <2>4. 0 .. n \subseteq S
    <3> HIDE DEF S
    <3> QED
      BY <2>2, <2>3, UpToInduction
  <2>5. f[n] = g[n]
    BY <1>5, <2>4
  <2>6. g[n + 1] = g[n] \o t[n + 1]
    <3>1. n + 1 \in 2 .. (n + 1) /\ (n + 1) - 1 = n
      BY <1>5
    <3> QED
      BY <1>3, <3>1 DEF Gathers
  <2> QED
    BY <1>1, <1>2, <1>3, <2>1, <2>5, <2>6
<1> QED
  BY <1>4, <1>5

(* One sequence more of a prefix. *)
LEMMA FlatPrefix ==
  ASSUME NEW T, NEW s \in Seq(Seq(T)), NEW k \in 1 .. Len(s)
  PROVE  Flat(SubSeq(s, 1, k)) = Flat(SubSeq(s, 1, k - 1)) \o s[k]
<1>1. PICK t \in Seq(Seq(T)) : t = SubSeq(s, 1, k - 1)
  BY PrefixType, Zenon
<1>2. PICK b \in Seq(T) : b = s[k]
  OBVIOUS
<1>3. SubSeq(s, 1, k) = t \o <<b>>
  BY <1>1, <1>2, SubSeqRecursiveSecond
<1>4. SubSeq(s, 1, k) = Append(t, b)
  BY <1>3, AppendIsConcat
<1> QED
  BY <1>1, <1>2, <1>4, FlatAppend

LEMMA FlatConcat ==
  ASSUME NEW T, NEW s \in Seq(Seq(T)), NEW t \in Seq(Seq(T))
  PROVE  Flat(s \o t) = Flat(s) \o Flat(t)
<1>1. PICK n \in Nat : n = Len(t)
  OBVIOUS
<1> DEFINE First(m) == SubSeq(t, 1, m)
           S == {m \in 0 .. n : Flat(s \o First(m)) = Flat(s) \o Flat(First(m))}
<1>2. 0 \in S
  <2>1. First(0) = <<>>
    BY SubSeqEmpty
  <2>2. s \o <<>> = s
    BY ConcatEmptySeq, Zenon
  <2>3. Flat(<<>>) = <<>>
    BY FlatEmpty
  <2>4. Flat(s) \o <<>> = Flat(s)
    BY FlatType, ConcatEmptySeq, ZenonT(60)
  <2>5. Flat(s \o First(0)) = Flat(s) \o Flat(First(0))
    BY <2>1, <2>2, <2>3, <2>4, Zenon
  <2> QED
    BY <2>5
<1>3. ASSUME NEW m \in 1 .. n, m - 1 \in S PROVE m \in S
  <2>0. m \in 1 .. Len(t)
    BY <1>1
  <2>1. PICK u \in Seq(Seq(T)) : u = First(m - 1)
    BY <2>0, PrefixType, Zenon
  <2>2. PICK b \in Seq(T) : b = t[m]
    BY <2>0, ElementOfSeq, Zenon
  <2>3. First(m) = Append(u, b)
    BY <2>0, <2>1, <2>2, PrefixIsAppend, Zenon
  <2>4. PICK v \in Seq(Seq(T)) : v = s \o u
    <3>1. PICK Q : Q = Seq(T)
      OBVIOUS
    <3>2. s \in Seq(Q) /\ u \in Seq(Q)
      BY <3>1
    <3>3. s \o u \in Seq(Q)
      BY <3>2, ConcatType
    <3> QED
      BY <3>1, <3>3, Zenon
  <2>5. s \o First(m) = Append(v, b)
    <3>1. PICK Q : Q = Seq(T)
      OBVIOUS
    <3>2. s \in Seq(Q) /\ u \in Seq(Q) /\ b \in Q
      BY <3>1
    <3>3. s \o Append(u, b) = Append(s \o u, b)
      BY <3>2, ConcatAppend
    <3> QED
      BY <2>3, <2>4, <3>3, Zenon
  <2>6. Flat(v) = Flat(s) \o Flat(u)
    BY <1>3, <2>1, <2>4
  <2>7. Flat(Append(v, b)) = Flat(v) \o b /\ Flat(Append(u, b)) = Flat(u) \o b
    BY FlatAppend, Zenon
  <2>8. PICK x \in Seq(T), y \in Seq(T) : x = Flat(s) /\ y = Flat(u)
    BY FlatType, Zenon
  <2>9. (Flat(s) \o Flat(u)) \o b = Flat(s) \o (Flat(u) \o b)
    <3>1. (x \o y) \o b = x \o (y \o b)
      BY SMTT(40), ConcatAssociative
    <3> QED
      BY <2>8, <3>1
  <2>10. Flat(s \o First(m)) = Flat(s) \o Flat(First(m))
    BY <2>3, <2>5, <2>6, <2>7, <2>9, Zenon
  <2> QED
    BY <2>10
<1>4. 0 .. n \subseteq S
  <2> HIDE DEF S
  <2> QED
    BY <1>2, <1>3, UpToInduction
<1>5. First(n) = t
  BY <1>1, SubSeqFull, Zenon
<1>6. Flat(s \o First(n)) = Flat(s) \o Flat(First(n))
  <2>1. n \in 0 .. n
    OBVIOUS
  <2> QED
    BY <1>4, <2>1
<1> QED
  BY <1>5, <1>6, Zenon

LEMMA FlatSplit ==
  ASSUME NEW T, NEW s \in Seq(Seq(T)), NEW k \in 0 .. Len(s)
  PROVE  Flat(s) = Flat(SubSeq(s, 1, k)) \o Flat(SubSeq(s, k + 1, Len(s)))
<1>1. /\ SubSeq(s, 1, k) \in Seq(Seq(T)) /\ SubSeq(s, k + 1, Len(s)) \in Seq(Seq(T))
      /\ s = SubSeq(s, 1, k) \o SubSeq(s, k + 1, Len(s))
  BY SplitAt, Zenon
<1>2. Flat(SubSeq(s, 1, k) \o SubSeq(s, k + 1, Len(s)))
        = Flat(SubSeq(s, 1, k)) \o Flat(SubSeq(s, k + 1, Len(s)))
  BY <1>1, FlatConcat, Zenon
<1> QED
  BY <1>1, <1>2, Zenon

(* Sequences of one. *)
LEMMA FlatOfSingles ==
  ASSUME NEW T, NEW s \in Seq(T), NEW ones,
         ones = [i \in 1 .. Len(s) |-> <<s[i]>>]
  PROVE  ones \in Seq(Seq(T)) /\ Flat(ones) = s
<1>1. PICK n \in Nat : n = Len(s)
  OBVIOUS
<1>2. ones \in Seq(Seq(T)) /\ Len(ones) = n
  BY <1>1
<1> DEFINE S == {m \in 0 .. n : Flat(SubSeq(ones, 1, m)) = SubSeq(s, 1, m)}
<1>3. 0 \in S
  <2>1. SubSeq(ones, 1, 0) = <<>> /\ SubSeq(s, 1, 0) = <<>>
    BY SubSeqEmpty
  <2>2. Flat(<<>>) = <<>>
    BY FlatEmpty
  <2>3. Flat(SubSeq(ones, 1, 0)) = SubSeq(s, 1, 0)
    BY <2>1, <2>2, Zenon
  <2> QED
    BY <2>3
<1>4. ASSUME NEW m \in 1 .. n, m - 1 \in S PROVE m \in S
  <2>1. m \in 1 .. Len(ones) /\ m \in 1 .. Len(s) /\ ones[m] = <<s[m]>>
    BY <1>1, <1>2
  <2>2. Flat(SubSeq(ones, 1, m)) = Flat(SubSeq(ones, 1, m - 1)) \o ones[m]
    BY <1>2, <2>1, FlatPrefix, Zenon
  <2>3. SubSeq(s, 1, m) = SubSeq(s, 1, m - 1) \o <<s[m]>>
    BY <2>1, SubSeqRecursiveSecond
  <2>4. Flat(SubSeq(ones, 1, m - 1)) = SubSeq(s, 1, m - 1)
    BY <1>4
  <2>5. Flat(SubSeq(ones, 1, m)) = SubSeq(s, 1, m)
    BY <2>1, <2>2, <2>3, <2>4, Zenon
  <2> QED
    BY <2>5
<1>5. 0 .. n \subseteq S
  <2> HIDE DEF S
  <2> QED
    BY <1>3, <1>4, UpToInduction
<1>6. Flat(SubSeq(ones, 1, n)) = SubSeq(s, 1, n)
  BY <1>5
<1> QED
  BY <1>1, <1>2, <1>6, SubSeqFull

-----------------------------------------------------------------------------
(***************************************************************************)
(* One-byte values.                                                        *)
(***************************************************************************)
ByteTypes == {"TINYINT", "BOOLEAN"}
Cell == MIN("TINYINT") .. (MAX("TINYINT"))

LEMMA ByteLimits ==
  \E h \in Nat : /\ h > 1
                 /\ \A t \in ByteTypes : /\ Half[t] = h /\ Lowest(t) = -h
                                         /\ MIN(t) = 1 - h /\ MAX(t) = h - 1
                 /\ Half["SMALLINT"] \in Nat /\ Half["SMALLINT"] > h
                 /\ Lowest("SMALLINT") = -Half["SMALLINT"]
                 /\ Half["INTEGER"] \in Nat
<1>1. Half["TINYINT"] \in Nat /\ Half["BOOLEAN"] \in Nat /\ Half["SMALLINT"] \in Nat
      /\ Half["INTEGER"] \in Nat
  BY WidthAssumption DEF IntegerTypes
<1>2. PICK h \in Nat, g \in Nat : h = Half["TINYINT"] /\ g = Half["SMALLINT"]
  BY <1>1
<1>3. h > 1 /\ 2 * h <= g /\ Half["BOOLEAN"] = h
  BY <1>2, WidthAssumption, ByteAssumption
<1>4. \A t \in ByteTypes : Half[t] = h
  BY <1>2, <1>3 DEF ByteTypes
<1>5. \A t \in ByteTypes : Lowest(t) = -h /\ MIN(t) = 1 - h /\ MAX(t) = h - 1
  BY <1>4 DEF Lowest, MIN, MAX
<1>6. g > h
  BY <1>3
<1> QED
  BY <1>1, <1>2, <1>3, <1>4, <1>5, <1>6 DEF Lowest

LEMMA ByteIs ==
  ASSUME NEW t \in ByteTypes, NEW n \in Lowest("TINYINT") .. (MAX("TINYINT"))
  PROVE  [type |-> t, null |-> n = Lowest("TINYINT"), raw |-> <<n>>] \in Byte(t)
<1>1. PICK v : v = [type |-> t, null |-> n = Lowest("TINYINT"), raw |-> <<n>>]
  OBVIOUS
<1>2. v.null \in BOOLEAN /\ v.raw = <<n>> /\ v.type = t
  BY <1>1
<1>3. v.null <=> v.raw \in {<<>>, <<Lowest("TINYINT")>>}
  BY <1>1
<1>4. v \in [type : {"TINYINT", "BOOLEAN"}, null : BOOLEAN,
             raw : {<<>>} \union {<<m>> : m \in Lowest("TINYINT") .. (MAX("TINYINT"))}]
  BY <1>1 DEF ByteTypes
<1> QED
  BY <1>1, <1>2, <1>3, <1>4 DEF Bytes, Byte

LEMMA NullByteIs ==
  ASSUME NEW t \in ByteTypes
  PROVE  Uninitialised(t) \in Byte(t)
BY DEF Bytes, Byte, ByteTypes, Uninitialised

LEMMA MadeByte ==
  ASSUME NEW t \in ByteTypes, NEW n \in Lowest("TINYINT") .. (MAX("TINYINT"))
  PROVE  MakeInteger(t, n) \in Byte(t)
<1>1. PICK h \in Nat : Half[t] = h /\ Lowest(t) = Lowest("TINYINT")
  BY ByteLimits DEF ByteTypes
<1>2. MakeInteger(t, n) = [type |-> t, null |-> n = Lowest("TINYINT"), raw |-> <<n>>]
  BY <1>1 DEF MakeInteger, IntegerValue
<1> QED
  BY <1>2, ByteIs

LEMMA NullOfByte ==
  ASSUME NEW t \in ByteTypes
  PROVE  NullOfType(t) \in Byte(t)
<1>1. Lowest(t) \in Lowest("TINYINT") .. (MAX("TINYINT"))
  BY ByteLimits DEF ByteTypes
<1>2. NullOfType(t) = MakeInteger(t, Lowest(t))
  BY DEF NullOfType, ByteTypes, IntegerTypes
<1> QED
  BY <1>1, <1>2, MadeByte

(* A byte that is not NULL. *)
LEMMA ByteFacts ==
  ASSUME NEW v \in Bytes
  PROVE  /\ v.type \in ByteTypes /\ v.null \in BOOLEAN /\ v # Thrown
         /\ ~v.null => /\ v.raw[1] \in Cell
                       /\ v = [type |-> v.type, null |-> FALSE, raw |-> <<v.raw[1]>>]
<1>1. /\ v.type \in ByteTypes /\ v.null \in BOOLEAN
      /\ v = [type |-> v.type, null |-> v.null, raw |-> v.raw]
      /\ v.null <=> v.raw \in {<<>>, <<Lowest("TINYINT")>>}
  BY DEF Bytes, ByteTypes
<1>2. v # Thrown
  BY <1>1 DEF Thrown, ByteTypes
<1>3. ASSUME ~v.null
      PROVE  v.raw[1] \in Cell /\ v = [type |-> v.type, null |-> FALSE, raw |-> <<v.raw[1]>>]
  <2>1. PICK n \in Lowest("TINYINT") .. (MAX("TINYINT")) : v.raw = <<n>>
    BY <1>1, <1>3 DEF Bytes
  <2>2. n # Lowest("TINYINT")
    BY <1>1, <1>3, <2>1
  <2>3. n \in Cell
    BY <2>2, ByteLimits DEF Cell, ByteTypes
  <2>4. v.null = FALSE
    BY <1>1, <1>3
  <2>5. v.raw[1] = n
    BY <2>1
  <2>6. v = [type |-> v.type, null |-> FALSE, raw |-> <<n>>]
    <3>1. PICK t, b, r : t = v.type /\ b = v.null /\ r = v.raw
      OBVIOUS
    <3>2. v = [type |-> t, null |-> b, raw |-> r]
      BY <1>1, <3>1, Zenon
    <3>3. b = FALSE /\ r = <<n>>
      BY <2>1, <2>4, <3>1, Zenon
    <3> QED
      BY <3>1, <3>2, <3>3, Zenon
  <2> QED
    BY <2>3, <2>5, <2>6, Zenon
<1> QED
  BY <1>1, <1>2, <1>3, Zenon

MayThrow(t) == Byte(t) \union {Thrown}

LEMMA TheIsOne ==
  ASSUME NEW S, S # {}
  PROVE  The(S) \in S
BY DEF The

LEMMA WrapStays ==
  ASSUME NEW n \in Int
  PROVE  Wrap("TINYINT", n) \in Lowest("TINYINT") .. (MAX("TINYINT"))
<1>1. PICK h \in Nat : /\ h > 1 /\ Half["TINYINT"] = h
                       /\ Lowest("TINYINT") = -h /\ MAX("TINYINT") = h - 1
  BY ByteLimits DEF ByteTypes
<1>2. Wrap("TINYINT", n) = (-h) + ((n + h) % (2 * h))
  BY <1>1 DEF Wrap
<1>3. (n + h) % (2 * h) \in 0 .. (2 * h - 1)
  BY <1>1
<1> QED
  BY <1>1, <1>2, <1>3

LEMMA WrappedMayThrow ==
  ASSUME NEW n \in Int
  PROVE  /\ MakeInteger("TINYINT", Wrap("TINYINT", n)) \in MayThrow("TINYINT")
         /\ n = Wrap("TINYINT", n) => MakeInteger("TINYINT", n) \in MayThrow("TINYINT")
BY WrapStays, MadeByte DEF MayThrow, ByteTypes

(* The integer operations on two bytes. *)
LEMMA IntegerStays ==
  ASSUME NEW op \in ArithmeticOps, NEW l, NEW r, l.type = "TINYINT", r.type = "TINYINT",
         l.raw[1] \in Int, r.raw[1] \in Int, op \in {"divide", "modulo"} => r.raw[1] # 0
  PROVE  /\ IntegerArith(op, l, r) # {}
         /\ IntegerArith(op, l, r) \subseteq MayThrow("TINYINT")
<1>1. PICK x \in Int, y \in Int : x = l.raw[1] /\ y = r.raw[1]
  OBVIOUS
<1>2. Wider(l.type, r.type) = "TINYINT"
  BY DEF Wider
<1>3. ASSUME NEW n \in Int
      PROVE  MakeInteger("TINYINT", Wrap("TINYINT", n)) \in MayThrow("TINYINT")
  BY WrappedMayThrow
<1>4. ASSUME NEW n \in Int, n = Wrap("TINYINT", n)
      PROVE  MakeInteger("TINYINT", n) \in MayThrow("TINYINT")
  BY <1>4, WrappedMayThrow
<1>5. Thrown \in MayThrow("TINYINT")
  BY DEF MayThrow
<1>6. CASE op = "add"
  <2>1. x + y \in Int
    OBVIOUS
  <2>2. IntegerArith(op, l, r) = AddValue(l, r)
    BY <1>6 DEF IntegerArith
  <2> QED
    BY <1>1, <1>2, <1>3, <1>4, <1>5, <2>1, <2>2 DEF AddValue
<1>7. CASE op = "subtract"
  <2>1. x - y \in Int
    OBVIOUS
  <2>2. IntegerArith(op, l, r) = SubtractValue(l, r)
    BY <1>7 DEF IntegerArith
  <2> QED
    BY <1>1, <1>2, <1>3, <1>4, <1>5, <2>1, <2>2 DEF SubtractValue
<1>8. CASE op = "multiply"
  <2>1. PICK n \in Int : n = x * y
    OBVIOUS
  <2>2. IntegerArith(op, l, r) = MultiplyValue(l, r)
    BY <1>8 DEF IntegerArith
  <2> QED
    BY <1>1, <1>2, <1>3, <1>4, <1>5, <2>1, <2>2 DEF MultiplyValue
<1>9. CASE op = "divide"
  <2>1. PICK n \in Int : n = Quotient(x, y)
    BY <1>1, <1>9 DEF Quotient
  <2>2. IntegerArith(op, l, r) = DivideValue(l, r)
    BY <1>9 DEF IntegerArith
  <2> QED
    BY <1>1, <1>2, <1>3, <1>5, <2>1, <2>2 DEF DivideValue
<1>10. CASE op = "modulo"
  <2>1. PICK n \in Int : n = Remainder(x, y)
    BY <1>1, <1>10 DEF Quotient, Remainder
  <2>2. IntegerArith(op, l, r) = ModuloValue(l, r)
    BY <1>10 DEF IntegerArith
  <2> QED
    BY <1>1, <1>2, <1>3, <1>5, <2>1, <2>2 DEF ModuloValue
<1> QED
  BY <1>6, <1>7, <1>8, <1>9, <1>10 DEF ArithmeticOps

LEMMA ArithmeticStays ==
  ASSUME NEW op \in ArithmeticOps, NEW l \in Byte("TINYINT"), NEW r \in Byte("TINYINT")
  PROVE  PerformArithmetic[<<op, l, r>>] \in MayThrow("TINYINT")
<1>1. /\ l \in Bytes /\ r \in Bytes /\ l.type = "TINYINT" /\ r.type = "TINYINT"
  BY DEF Byte
<1>2. PerformArithmetic[<<op, l, r>>] = The(TinyintArith(op, l, r))
  <2>1. PICK c : c = <<op, l, r>>
    OBVIOUS
  <2>2. c \in ArithmeticOps \X Byte("TINYINT") \X Byte("TINYINT")
        /\ c[1] = op /\ c[2] = l /\ c[3] = r
    BY <2>1
  <2>3. PerformArithmetic[c] = The(TinyintArith(c[1], c[2], c[3]))
    BY <2>2, Zenon DEF PerformArithmetic
  <2> QED
    BY <2>1, <2>2, <2>3, Zenon
<1>3. TinyintArith(op, l, r) # {} /\ TinyintArith(op, l, r) \subseteq MayThrow("TINYINT")
  <2>1. CASE l.null \/ r.null
    <3>1. TinyintArith(op, l, r) = {NullOfType("TINYINT")}
      BY <1>1, <2>1 DEF TinyintArith, Modify, TinyintNull
    <3> QED
      BY <3>1, NullOfByte DEF MayThrow, ByteTypes
  <2>2. CASE ~l.null /\ ~r.null
    <3>1. l.raw[1] \in Int /\ r.raw[1] \in Int
      BY <1>1, <2>2, ByteFacts, ByteLimits DEF Cell, ByteTypes
    <3>2. CASE op \in {"divide", "modulo"} /\ r.raw[1] = 0
      <4>1. TinyintArith(op, l, r) = {Thrown}
        BY <2>2, <3>2 DEF TinyintArith, Modify, IsZero
      <4> QED
        BY <4>1 DEF MayThrow
    <3>3. CASE ~(op \in {"divide", "modulo"} /\ r.raw[1] = 0)
      <4>1. TinyintArith(op, l, r) = IntegerArith(op, l, r)
        BY <1>1, <2>2, <3>3 DEF TinyintArith, Modify, IsZero, Numeric, IntegerTypes
      <4> QED
        BY <1>1, <3>1, <3>3, <4>1, IntegerStays
    <3> QED
      BY <3>2, <3>3
  <2> QED
    BY <2>1, <2>2
<1> QED
  BY <1>2, <1>3, TheIsOne, Zenon

LEMMA BooleanMayThrow ==
  ASSUME NEW c \in {"CmpTrue", "CmpFalse", "CmpNull", "Throw"}
  PROVE  BooleanValue(c) \in MayThrow("BOOLEAN")
<1>1. 0 \in Lowest("TINYINT") .. (MAX("TINYINT")) /\ 1 \in Lowest("TINYINT") .. (MAX("TINYINT"))
  BY ByteLimits DEF ByteTypes
<1>2. MakeInteger("BOOLEAN", 0) \in Byte("BOOLEAN") /\ MakeInteger("BOOLEAN", 1) \in Byte("BOOLEAN")
  BY <1>1, MadeByte DEF ByteTypes
<1>3. NullOfType("BOOLEAN") \in Byte("BOOLEAN")
  BY NullOfByte DEF ByteTypes
<1> QED
  BY <1>2, <1>3 DEF BooleanValue, MayThrow

LEMMA ByteCompare ==
  ASSUME NEW op, NEW l \in Bytes, NEW r \in Bytes
  PROVE  \E c \in {"CmpTrue", "CmpFalse", "CmpNull", "Throw"} : ValueCompare(op, l, r) = {c}
<1>1. l.type \in ByteTypes
  BY ByteFacts
<1>2. CASE l.type = "TINYINT"
  <2>1. ValueCompare(op, l, r) = {TinyintCompare(op, l, r)}
    BY <1>2 DEF ValueCompare
  <2>2. TinyintCompare(op, l, r) \in {"CmpTrue", "CmpFalse", "CmpNull", "Throw"}
    BY DEF TinyintCompare, CompareNumbers, CmpBool
  <2> QED
    BY <2>1, <2>2
<1>3. CASE l.type = "BOOLEAN"
  <2>1. ValueCompare(op, l, r) = {BooleanCompare(op, l, r)}
    BY <1>3 DEF ValueCompare
  <2>2. BooleanCompare(op, l, r) \in {"CmpTrue", "CmpFalse", "CmpNull", "Throw"}
    BY DEF BooleanCompare, CmpBool
  <2> QED
    BY <2>1, <2>2
<1> QED
  BY <1>1, <1>2, <1>3 DEF ByteTypes

LEMMA ComparisonStays ==
  ASSUME NEW op \in Comparisons, NEW l \in Bytes, NEW r \in Bytes
  PROVE  PerformComparison[<<op, l, r>>] \in MayThrow("BOOLEAN")
<1>1. PerformComparison[<<op, l, r>>] = The(EvaluateComparison(op, l, r))
  <2>1. PICK c : c = <<op, l, r>>
    OBVIOUS
  <2>2. c \in Comparisons \X Bytes \X Bytes /\ c[1] = op /\ c[2] = l /\ c[3] = r
    BY <2>1
  <2>3. PerformComparison[c] = The(EvaluateComparison(c[1], c[2], c[3]))
    BY <2>2, Zenon DEF PerformComparison
  <2> QED
    BY <2>1, <2>2, <2>3, Zenon
<1>2. PICK c \in {"CmpTrue", "CmpFalse", "CmpNull", "Throw"} : ValueCompare(op, l, r) = {c}
  BY ByteCompare
<1>3. EvaluateComparison(op, l, r) = {BooleanValue(c)}
  BY <1>2 DEF EvaluateComparison
<1>4. The({BooleanValue(c)}) = BooleanValue(c)
  BY TheIsOne
<1> QED
  BY <1>1, <1>3, <1>4, BooleanMayThrow, Zenon

LEMMA LogicStays ==
  ASSUME NEW op \in {"and", "or"}, NEW l \in Byte("BOOLEAN"), NEW r \in Byte("BOOLEAN")
  PROVE  PerformLogic[<<op, l, r>>] \in MayThrow("BOOLEAN")
<1>1. PerformLogic[<<op, l, r>>] = The(EvaluateLogic(op, l, r))
  <2>1. PICK c : c = <<op, l, r>>
    OBVIOUS
  <2>2. c \in {"and", "or"} \X Byte("BOOLEAN") \X Byte("BOOLEAN")
        /\ c[1] = op /\ c[2] = l /\ c[3] = r
    BY <2>1
  <2>3. PerformLogic[c] = The(EvaluateLogic(c[1], c[2], c[3]))
    BY <2>2, Zenon DEF PerformLogic
  <2> QED
    BY <2>1, <2>2, <2>3, Zenon
<1>2. PICK c : /\ c \in {"CmpTrue", "CmpFalse", "CmpNull", "Throw"}
               /\ EvaluateLogic(op, l, r) = {BooleanValue(c)}
  <2>1. \A v : get_bool_as_cmp_bool(v) \in {"CmpTrue", "CmpFalse", "CmpNull"}
    BY DEF get_bool_as_cmp_bool
  <2>2. PICK x, y : x = get_bool_as_cmp_bool(l) /\ y = get_bool_as_cmp_bool(r)
    OBVIOUS
  <2>3. PICK c : c = CASE (IF op = "and" THEN "CmpFalse" ELSE "CmpTrue") \in {x, y} ->
                              (IF op = "and" THEN "CmpFalse" ELSE "CmpTrue")
                       [] /\ x = (IF op = "and" THEN "CmpTrue" ELSE "CmpFalse")
                          /\ y = (IF op = "and" THEN "CmpTrue" ELSE "CmpFalse") ->
                              (IF op = "and" THEN "CmpTrue" ELSE "CmpFalse")
                       [] OTHER -> "CmpNull"
    OBVIOUS
  <2>4. EvaluateLogic(op, l, r) = {BooleanValue(c)}
    BY <2>2, <2>3 DEF EvaluateLogic
  <2>5. c \in {"CmpTrue", "CmpFalse", "CmpNull"}
    BY <2>1, <2>2, <2>3
  <2> QED
    BY <2>4, <2>5
<1>3. The({BooleanValue(c)}) = BooleanValue(c)
  BY TheIsOne
<1> QED
  BY <1>1, <1>2, <1>3, BooleanMayThrow, Zenon

-----------------------------------------------------------------------------
(***************************************************************************)
(* Tuples.                                                                 *)
(***************************************************************************)
IsSchema(schema) == IsList(schema) /\ \A c \in DOMAIN schema : schema[c] \in ByteTypes
RowsOf(schema) == [nulls : SUBSET (DOMAIN schema), cells : [DOMAIN schema -> Cell]]

LEMMA ListDomain ==
  ASSUME NEW s, IsList(s)
  PROVE  /\ Len(s) \in Nat /\ DOMAIN s = 1 .. Len(s)
         /\ \A T : (\A i \in 1 .. Len(s) : s[i] \in T) => s \in Seq(T)
<1>1. PICK n \in Nat : n = Len(s)
  BY DEF IsList
<1>2. s = [i \in 1 .. n |-> s[i]]
  BY <1>1 DEF IsList
<1>3. DOMAIN s = 1 .. n
  BY <1>2
<1>4. ASSUME NEW T, \A i \in 1 .. Len(s) : s[i] \in T PROVE s \in Seq(T)
  <2>1. s \in [1 .. n -> T]
    BY <1>1, <1>2, <1>4
  <2> QED
    BY <2>1
<1> QED
  BY <1>1, <1>3, <1>4

(* A column that is not NULL reads as the cell it stands in. *)
LEMMA ColumnIs ==
  ASSUME NEW schema, IsSchema(schema), NEW row \in RowsOf(schema), NEW c \in DOMAIN schema
  PROVE  /\ TupleValue(schema, row, c) =
              IF c \in row.nulls THEN Uninitialised(schema[c])
              ELSE [type |-> schema[c], null |-> FALSE, raw |-> <<row.cells[c]>>]
         /\ TupleValue(schema, row, c) \in Byte(schema[c])
<1>1. PICK t \in ByteTypes : t = schema[c]
  BY DEF IsSchema
<1>2. PICK n \in Cell : n = row.cells[c]
  BY DEF RowsOf
<1>3. PICK h \in Nat : /\ h > 1 /\ Half[t] = h /\ Lowest("TINYINT") = -h /\ Lowest(t) = -h
                       /\ MIN("TINYINT") = 1 - h /\ MAX("TINYINT") = h - 1
                       /\ Half["TINYINT"] = h
                       /\ Half["SMALLINT"] > h /\ Lowest("SMALLINT") < -h
                       /\ Half["SMALLINT"] \in Nat
  BY ByteLimits DEF ByteTypes
<1>4. n \in Int /\ n \in Lowest("TINYINT") .. (MAX("TINYINT"))
      /\ n # Lowest(t) /\ n # Lowest("SMALLINT") /\ n # Lowest("TINYINT")
  BY <1>2, <1>3 DEF Cell
<1>5. PICK v : v = [type |-> t, null |-> FALSE, raw |-> <<n>>]
  OBVIOUS
<1>6. Read(v) = {n} /\ v.type = t
  BY <1>5 DEF Read
<1>7. ValueStore(v) = {v}
  <2>1. CASE t = "TINYINT"
    <3>1. ValueStore(v) = {IntegerValue("TINYINT", "SMALLINT", n)}
      BY <1>6, <2>1 DEF ValueStore, TinyintStore, Reload
    <3>2. (n = Lowest("SMALLINT")) = FALSE /\ ~(Half["SMALLINT"] < Half["TINYINT"])
      BY <1>3, <1>4
    <3>3. IntegerValue("TINYINT", "SMALLINT", n) = v
      BY <1>5, <2>1, <3>2 DEF IntegerValue
    <3> QED
      BY <3>1, <3>3
  <2>2. CASE t = "BOOLEAN"
    <3>1. ValueStore(v) = {IntegerValue("BOOLEAN", "BOOLEAN", n)}
      BY <1>6, <2>2 DEF ValueStore, BooleanStore, Reload
    <3>2. (n = Lowest("BOOLEAN")) = FALSE /\ ~(Half["BOOLEAN"] < Half["BOOLEAN"])
      BY <1>3, <1>4, <2>2
    <3>3. IntegerValue("BOOLEAN", "BOOLEAN", n) = v
      BY <1>5, <2>2, <3>2 DEF IntegerValue
    <3> QED
      BY <3>1, <3>3
  <2> QED
    BY <2>1, <2>2 DEF ByteTypes
<1>8. The(ValueStore(v)) = v
  BY <1>7, TheIsOne
<1>9. v \in Byte(t)
  <2>1. (n = Lowest("TINYINT")) = FALSE
    BY <1>4
  <2> QED
    BY <1>4, <1>5, <2>1, ByteIs
<1>10. CASE c \in row.nulls
  <2>1. TupleValue(schema, row, c) = Uninitialised(schema[c])
    BY <1>10 DEF TupleValue
  <2> QED
    BY <1>1, <1>10, <2>1, NullByteIs
<1>11. CASE c \notin row.nulls
  <2>1. TupleValue(schema, row, c) = v
    BY <1>1, <1>2, <1>5, <1>8, <1>11, Zenon DEF TupleValue
  <2> QED
    BY <1>1, <1>2, <1>5, <1>9, <1>11, <2>1, Zenon
<1> QED
  BY <1>10, <1>11

-----------------------------------------------------------------------------
(***************************************************************************)
(* Expressions: a tree yields a value of the type it declares, or throws.  *)
(***************************************************************************)
NodeValue(expr, schema, tuple, f, i) ==
  CASE expr[i].node = "column"   -> TupleValue(schema, tuple, expr[i].index)
    [] expr[i].node = "constant" -> expr[i].value
    [] OTHER -> Perform(expr[i], f[i - expr[i].left], f[i - expr[i].right])

(* f has the values of the first n nodes. *)
Computes(expr, schema, tuple, f, n) ==
  \A i \in 1 .. n : f[i] = NodeValue(expr, schema, tuple, f, i)

LEMMA ChildTyped ==
  ASSUME NEW expr, NEW schema, WellTyped(expr, schema), NEW i \in 1 .. Len(expr),
         expr[i].node \notin {"column", "constant"}
  PROVE  /\ i - expr[i].left \in 1 .. i - 1 /\ i - expr[i].right \in 1 .. i - 1
         /\ i \in Nat
<1>1. i \in DOMAIN expr /\ i \in Nat
  BY ListDomain DEF WellTyped
<1> QED
  BY <1>1, Zenon DEF WellTyped

LEMMA NodeTyped ==
  ASSUME NEW expr, NEW schema, WellTyped(expr, schema), IsSchema(schema),
         NEW tuple \in RowsOf(schema), NEW i \in 1 .. Len(expr), NEW f,
         \A j \in 1 .. i - 1 : f[j] \in MayThrow(expr[j].type)
  PROVE  NodeValue(expr, schema, tuple, f, i) \in MayThrow(expr[i].type)
<1>1. i \in DOMAIN expr /\ i \in Nat
  BY ListDomain DEF WellTyped
<1> DEFINE e == expr[i]
           l == f[i - e.left]
           r == f[i - e.right]
           Operands(t, u) == /\ i - e.left \in 1 .. i - 1 /\ expr[i - e.left].type = t
                             /\ i - e.right \in 1 .. i - 1 /\ expr[i - e.right].type = u
<1>2. \/ e.node = "column" /\ e.index \in DOMAIN schema /\ e.type = schema[e.index]
      \/ e.node = "constant" /\ e.value \in Bytes /\ e.type = e.value.type
      \/ /\ e.node = "arithmetic" /\ e.op \in ArithmeticOps
         /\ e.type = "TINYINT" /\ Operands("TINYINT", "TINYINT")
      \/ /\ e.node = "comparison" /\ e.op \in Comparisons /\ e.type = "BOOLEAN"
         /\ \E t, u \in {"TINYINT", "BOOLEAN"} : Operands(t, u)
      \/ /\ e.node = "logic" /\ e.op \in {"and", "or"}
         /\ e.type = "BOOLEAN" /\ Operands("BOOLEAN", "BOOLEAN")
  BY <1>1, Zenon DEF WellTyped
<1>3. CASE e.node = "column"
  <2>1. NodeValue(expr, schema, tuple, f, i) = TupleValue(schema, tuple, e.index)
    BY <1>3 DEF NodeValue
  <2>2. e.index \in DOMAIN schema /\ e.type = schema[e.index]
    BY <1>2, <1>3
  <2>3. TupleValue(schema, tuple, e.index) \in Byte(schema[e.index])
    BY <2>2, ColumnIs
  <2> QED
    BY <2>1, <2>2, <2>3 DEF MayThrow
<1>4. CASE e.node = "constant"
  <2>1. NodeValue(expr, schema, tuple, f, i) = e.value
    BY <1>4 DEF NodeValue
  <2>2. e.value \in Bytes /\ e.type = e.value.type
    BY <1>2, <1>4
  <2> QED
    BY <2>1, <2>2 DEF MayThrow, Byte
<1>5. CASE e.node \notin {"column", "constant"}
  <2>1. NodeValue(expr, schema, tuple, f, i) = Perform(e, l, r)
    BY <1>5 DEF NodeValue
  <2>2. ASSUME NEW t, NEW u, Operands(t, u) PROVE l \in MayThrow(t) /\ r \in MayThrow(u)
    BY <2>2
  <2>3. CASE Thrown \in {l, r}
    BY <2>1, <2>3 DEF Perform, MayThrow
  <2>4. CASE Thrown \notin {l, r}
    <3>1. ASSUME NEW t, NEW u, Operands(t, u) PROVE l \in Byte(t) /\ r \in Byte(u)
      BY <2>2, <2>4, <3>1 DEF MayThrow
    <3> HIDE DEF l, r, Operands
    <3>2. CASE e.node = "arithmetic"
      <4>1. Perform(e, l, r) = PerformArithmetic[<<e.op, l, r>>]
        BY <2>4, <3>2 DEF Perform
      <4>2. e.op \in ArithmeticOps /\ e.type = "TINYINT" /\ Operands("TINYINT", "TINYINT")
        BY <1>2, <3>2
      <4> QED
        BY <2>1, <3>1, <4>1, <4>2, ArithmeticStays, Zenon
    <3>3. CASE e.node = "comparison"
      <4>1. Perform(e, l, r) = PerformComparison[<<e.op, l, r>>]
        BY <2>4, <3>3 DEF Perform
      <4>2. e.op \in Comparisons /\ e.type = "BOOLEAN"
            /\ \E t, u \in {"TINYINT", "BOOLEAN"} : Operands(t, u)
        BY <1>2, <3>3
      <4>3. l \in Bytes /\ r \in Bytes
        BY <3>1, <4>2 DEF Byte
      <4> QED
        BY <2>1, <4>1, <4>2, <4>3, ComparisonStays, Zenon
    <3>4. CASE e.node = "logic"
      <4>1. Perform(e, l, r) = PerformLogic[<<e.op, l, r>>]
        BY <2>4, <3>4 DEF Perform
      <4>2. e.op \in {"and", "or"} /\ e.type = "BOOLEAN" /\ Operands("BOOLEAN", "BOOLEAN")
        BY <1>2, <3>4
      <4> QED
        BY <2>1, <3>1, <4>1, <4>2, LogicStays, Zenon
    <3> QED
      BY <1>2, <1>5, <3>2, <3>3, <3>4
  <2> QED
    BY <2>3, <2>4
<1> QED
  BY <1>3, <1>4, <1>5

(* A node's value depends on the nodes before it only. *)
LEMMA NodeReadsBefore ==
  ASSUME NEW expr, NEW schema, WellTyped(expr, schema), NEW tuple,
         NEW i \in 1 .. Len(expr), NEW f, NEW g,
         \A j \in 1 .. i - 1 : f[j] = g[j]
  PROVE  NodeValue(expr, schema, tuple, f, i) = NodeValue(expr, schema, tuple, g, i)
<1>1. CASE expr[i].node \in {"column", "constant"}
  BY <1>1 DEF NodeValue
<1>2. CASE expr[i].node \notin {"column", "constant"}
  <2>1. /\ f[i - expr[i].left] = g[i - expr[i].left]
        /\ f[i - expr[i].right] = g[i - expr[i].right]
    BY <1>2, ChildTyped
  <2> QED
    BY <1>2, <2>1 DEF NodeValue
<1> QED
  BY <1>1, <1>2

LEMMA ComputesExists ==
  ASSUME NEW expr, NEW schema, WellTyped(expr, schema), NEW tuple
  PROVE  \E f : f = [i \in DOMAIN expr |-> NodeValue(expr, schema, tuple, f, i)]
<1>1. PICK n \in Nat : n = Len(expr) /\ DOMAIN expr = 1 .. n
  BY ListDomain DEF WellTyped
<1> DEFINE Some(m) == \E f : f = [i \in 1 .. m |-> f[i]] /\ Computes(expr, schema, tuple, f, m)
           S == {m \in 0 .. n : Some(m)}
<1>2. Some(0)
  <2>1. PICK f : f = [i \in 1 .. 0 |-> i]
    OBVIOUS
  <2>2. f = [i \in 1 .. 0 |-> f[i]] /\ Computes(expr, schema, tuple, f, 0)
    BY <2>1 DEF Computes
  <2> QED
    BY <2>2
<1>3. ASSUME NEW m \in 1 .. n, Some(m - 1) PROVE Some(m)
  <2>1. PICK f : f = [i \in 1 .. (m - 1) |-> f[i]] /\ Computes(expr, schema, tuple, f, m - 1)
    BY <1>3
  <2>2. PICK new : new = NodeValue(expr, schema, tuple, f, m)
    OBVIOUS
  <2>3. PICK g : g = [i \in 1 .. m |-> IF i = m THEN new ELSE f[i]]
    OBVIOUS
  <2>4. ASSUME NEW i \in 1 .. m PROVE g[i] = NodeValue(expr, schema, tuple, g, i)
    <3>1. \A j \in 1 .. i - 1 : f[j] = g[j]
      BY <2>3
    <3>2. i \in 1 .. Len(expr)
      BY <1>1
    <3>3. NodeValue(expr, schema, tuple, f, i) = NodeValue(expr, schema, tuple, g, i)
      BY <3>1, <3>2, NodeReadsBefore, Zenon
    <3>4. CASE i = m
      BY <2>2, <2>3, <3>3, <3>4
    <3>5. CASE i # m
      <4>1. i \in 1 .. (m - 1) /\ g[i] = f[i]
        BY <2>3, <3>5
      <4> QED
        BY <2>1, <3>3, <4>1 DEF Computes
    <3> QED
      BY <3>4, <3>5
  <2>5. g = [i \in 1 .. m |-> g[i]]
    BY <2>3
  <2>6. Computes(expr, schema, tuple, g, m)
    BY <2>4 DEF Computes
  <2> QED
    BY <2>5, <2>6
<1>4. 0 .. n \subseteq S
  <2> HIDE DEF Some
  <2>1. 0 \in S
    BY <1>2
  <2>2. \A m \in 1 .. n : m - 1 \in S => m \in S
    BY <1>3
  <2> HIDE DEF S
  <2> QED
    BY <2>1, <2>2, UpToInduction
<1>5. Some(n)
  <2> HIDE DEF Some
  <2> QED
    BY <1>4
<1>6. PICK f : f = [i \in 1 .. n |-> f[i]] /\ Computes(expr, schema, tuple, f, n)
  BY <1>5
<1>7. [i \in 1 .. n |-> f[i]] = [i \in 1 .. n |-> NodeValue(expr, schema, tuple, f, i)]
  BY <1>6 DEF Computes
<1>8. f = [i \in DOMAIN expr |-> NodeValue(expr, schema, tuple, f, i)]
  BY <1>1, <1>6, <1>7, Zenon
<1> QED
  BY <1>8

LEMMA EvaluateTyped ==
  ASSUME NEW expr, NEW schema, WellTyped(expr, schema), IsSchema(schema),
         NEW tuple \in RowsOf(schema)
  PROVE  Evaluate(expr, schema, tuple) \in MayThrow(Last(expr).type)
<1>1. PICK n \in Nat : n = Len(expr) /\ DOMAIN expr = 1 .. n /\ n # 0
  <2>1. Len(expr) \in Nat /\ DOMAIN expr = 1 .. Len(expr)
    BY ListDomain DEF WellTyped
  <2>2. ASSUME Len(expr) = 0 PROVE FALSE
    <3>1. expr = [i \in 1 .. 0 |-> expr[i]]
      BY <2>2 DEF WellTyped, IsList
    <3>2. expr = <<>>
      BY <3>1
    <3> QED
      BY <3>2 DEF WellTyped
  <2> QED
    BY <2>1, <2>2, Zenon
<1>2. PICK f : f = CHOOSE g : g = [i \in DOMAIN expr |-> NodeValue(expr, schema, tuple, g, i)]
  OBVIOUS
<1>3. f = [i \in DOMAIN expr |-> NodeValue(expr, schema, tuple, f, i)]
  BY <1>2, ComputesExists, ZenonT(60)
<1>4. Evaluate(expr, schema, tuple) = f[n]
  BY <1>1, <1>2, Zenon DEF Evaluate, NodeValue
<1> DEFINE S == {m \in 0 .. n : \A j \in 1 .. m : f[j] \in MayThrow(expr[j].type)}
<1>5. 0 \in S
  OBVIOUS
<1>6. ASSUME NEW m \in 1 .. n, m - 1 \in S PROVE m \in S
  <2>1. \A j \in 1 .. m - 1 : f[j] \in MayThrow(expr[j].type)
    BY <1>6
  <2>2. NodeValue(expr, schema, tuple, f, m) \in MayThrow(expr[m].type)
    BY <1>1, <2>1, NodeTyped
  <2>3. f[m] = NodeValue(expr, schema, tuple, f, m)
    BY <1>1, <1>3
  <2>4. \A j \in 1 .. m : j = m \/ j \in 1 .. m - 1
    OBVIOUS
  <2> QED
    BY <2>1, <2>2, <2>3, <2>4
<1>7. 0 .. n \subseteq S
  <2> HIDE DEF S
  <2> QED
    BY <1>5, <1>6, UpToInduction
<1>8. f[n] \in MayThrow(expr[n].type)
  BY <1>1, <1>7
<1> QED
  BY <1>1, <1>4, <1>8 DEF Last

-----------------------------------------------------------------------------
(***************************************************************************)
(* A tuple reads back as what it was made of, up to its first NULL.        *)
(***************************************************************************)
Written(values, n) ==
  [i \in 1 .. n |-> IF values[i].null THEN <<>> ELSE <<values[i].raw[1]>>]

LEMMA ZeroIsCell == 0 \in Cell
BY ByteLimits DEF Cell, ByteTypes

LEMMA WrittenType ==
  ASSUME NEW n \in Nat, NEW values, \A i \in 1 .. n : values[i] \in Bytes
  PROVE  Written(values, n) \in Seq(Seq(Cell)) /\ Flat(Written(values, n)) \in Seq(Cell)
<1>1. ASSUME NEW i \in 1 .. n
      PROVE  (IF values[i].null THEN <<>> ELSE <<values[i].raw[1]>>) \in Seq(Cell)
  <2>1. PICK v \in Bytes : v = values[i]
    OBVIOUS
  <2>2. CASE v.null
    BY <2>1, <2>2, EmptySeq
  <2>3. CASE ~v.null
    <3>1. PICK c \in Cell : c = v.raw[1]
      BY <2>3, ByteFacts
    <3>2. <<c>> \in Seq(Cell)
      OBVIOUS
    <3> QED
      BY <2>1, <2>3, <3>1, <3>2
  <2> QED
    BY <2>2, <2>3
<1>2. PICK S : S = Seq(Cell)
  OBVIOUS
<1>3. Written(values, n) \in Seq(S)
  <2>1. \A i \in 1 .. n : (IF values[i].null THEN <<>> ELSE <<values[i].raw[1]>>) \in S
    BY <1>1, <1>2
  <2>2. Written(values, n) \in [1 .. n -> S]
    BY <2>1 DEF Written
  <2> QED
    BY <2>2
<1>4. Written(values, n) \in Seq(Seq(Cell))
  BY <1>2, <1>3, Zenon
<1> QED
  BY <1>4, FlatType, Zenon

LEMMA TupleIs ==
  ASSUME NEW n \in Nat, NEW values, DOMAIN values = 1 .. n,
         NEW w, w = Flat(Written(values, n))
  PROVE  /\ MakeTuple(values).nulls = {i \in 1 .. n : values[i].null}
         /\ \A i \in 1 .. n : MakeTuple(values).cells[i] = IF i <= Len(w) THEN w[i] ELSE 0
         /\ MakeTuple(values).cells = [i \in 1 .. n |-> MakeTuple(values).cells[i]]
         /\ MakeTuple(values) = [nulls |-> MakeTuple(values).nulls,
                                 cells |-> MakeTuple(values).cells]
<1>1. PICK D : D = DOMAIN values /\ D = 1 .. n
  OBVIOUS
<1>2. w = FlattenSeq([i \in D |-> IF values[i].null THEN <<>> ELSE <<values[i].raw[1]>>])
  BY <1>1, Zenon DEF Flat, Written
<1>3. MakeTuple(values) = [nulls |-> {i \in D : values[i].null},
                           cells |-> [i \in D |-> IF i <= Len(w) THEN w[i] ELSE 0]]
  BY <1>1, <1>2, Zenon DEF MakeTuple
<1>5. /\ MakeTuple(values).nulls = {i \in D : values[i].null}
      /\ MakeTuple(values).cells = [i \in D |-> IF i <= Len(w) THEN w[i] ELSE 0]
  BY <1>3
<1>6. PICK c : c = MakeTuple(values).cells
  OBVIOUS
<1>7. c = [i \in 1 .. n |-> IF i <= Len(w) THEN w[i] ELSE 0]
  BY <1>1, <1>5, <1>6, Zenon
<1>8. c = [i \in 1 .. n |-> c[i]] /\ \A i \in 1 .. n : c[i] = IF i <= Len(w) THEN w[i] ELSE 0
  BY <1>7
<1> QED
  BY <1>1, <1>3, <1>5, <1>6, <1>8, Zenon

LEMMA TupleFits ==
  ASSUME NEW schema, IsSchema(schema), NEW values, FitsSchema(values, schema)
  PROVE  MakeTuple(values) \in RowsOf(schema)
<1>1. PICK n \in Nat : n = Len(schema) /\ DOMAIN schema = 1 .. n /\ DOMAIN values = 1 .. n
  BY ListDomain DEF IsSchema, FitsSchema
<1>2. \A i \in 1 .. n : values[i] \in Bytes
  BY <1>1 DEF FitsSchema
<1>3. PICK w \in Seq(Cell) : w = Flat(Written(values, n))
  BY <1>2, WrittenType
<1>4. PICK c : c = MakeTuple(values).cells
  OBVIOUS
<1>5. /\ \A i \in 1 .. n : c[i] = IF i <= Len(w) THEN w[i] ELSE 0
      /\ c = [i \in 1 .. n |-> c[i]]
  <2>1. /\ \A i \in 1 .. n : MakeTuple(values).cells[i] = IF i <= Len(w) THEN w[i] ELSE 0
        /\ MakeTuple(values).cells = [i \in 1 .. n |-> MakeTuple(values).cells[i]]
    BY <1>1, <1>3, TupleIs
  <2> QED
    BY <1>4, <2>1, Zenon
<1>6. MakeTuple(values).cells \in [1 .. n -> Cell]
  <2>1. \A i \in 1 .. n : c[i] \in Cell
    BY <1>5, ZeroIsCell
  <2> QED
    BY <1>4, <1>5, <2>1
<1>7. MakeTuple(values).nulls \subseteq 1 .. n
  <2>1. MakeTuple(values).nulls = {i \in 1 .. n : values[i].null}
    BY <1>1, TupleIs, Zenon
  <2> QED
    BY <2>1
<1>8. MakeTuple(values) = [nulls |-> MakeTuple(values).nulls, cells |-> MakeTuple(values).cells]
  BY <1>1, TupleIs, Zenon
<1> QED
  BY <1>1, <1>6, <1>7, <1>8 DEF RowsOf

(* Before the first NULL nothing has moved up. *)
LEMMA WrittenInPlace ==
  ASSUME NEW n \in Nat, NEW values, \A i \in 1 .. n : values[i] \in Bytes,
         NEW k \in 1 .. n, \A j \in 1 .. k : ~values[j].null
  PROVE  /\ k <= Len(Flat(Written(values, n)))
         /\ Flat(Written(values, n))[k] = values[k].raw[1]
<1>1. PICK parts \in Seq(Seq(Cell)) : parts = Written(values, n)
  BY WrittenType
<1>2. DOMAIN parts = 1 .. n /\ Len(parts) = n
  BY <1>1 DEF Written
<1>3. PICK raws : raws = [j \in 1 .. k |-> values[j].raw[1]]
  OBVIOUS
<1>4. \A j \in 1 .. k : values[j].raw[1] \in Cell
  BY ByteFacts
<1>5. raws \in Seq(Cell) /\ Len(raws) = k
  BY <1>3, <1>4
<1>6. SubSeq(parts, 1, k) = [j \in 1 .. Len(raws) |-> <<raws[j]>>]
  <2>1. SubSeq(parts, 1, k) = [j \in 1 .. k |-> parts[j]]
    BY <1>2
  <2>2. ASSUME NEW j \in 1 .. k PROVE parts[j] = <<raws[j]>>
    BY <1>1, <1>3 DEF Written
  <2>3. [j \in 1 .. k |-> parts[j]] = [j \in 1 .. k |-> <<raws[j]>>]
    BY <2>2
  <2> QED
    BY <1>5, <2>1, <2>3
<1>7. Flat(SubSeq(parts, 1, k)) = raws
  BY <1>5, <1>6, FlatOfSingles
<1>8. PICK rest \in Seq(Cell) : rest = Flat(SubSeq(parts, k + 1, Len(parts)))
  <2>1. SubSeq(parts, k + 1, Len(parts)) \in Seq(Seq(Cell))
    <3>1. k \in 0 .. Len(parts)
      BY <1>2
    <3> QED
      BY <3>1, SplitAt, Zenon
  <2> QED
    BY <2>1, FlatType, Zenon
<1>9. Flat(parts) = raws \o rest
  <2>1. k \in 0 .. Len(parts)
    BY <1>2
  <2>2. Flat(parts) = Flat(SubSeq(parts, 1, k)) \o Flat(SubSeq(parts, k + 1, Len(parts)))
    BY <2>1, FlatSplit, Zenon
  <2> QED
    BY <1>7, <1>8, <2>2, Zenon
<1>10. Len(raws \o rest) = k + Len(rest) /\ (raws \o rest)[k] = raws[k]
  <2>1. k \in 1 .. Len(raws) + Len(rest) /\ k <= Len(raws)
    BY <1>5
  <2>2. /\ Len(raws \o rest) = Len(raws) + Len(rest)
        /\ (raws \o rest)[k] = IF k <= Len(raws) THEN raws[k] ELSE rest[k - Len(raws)]
    BY <1>5, <2>1, ConcatProperties, Zenon
  <2> QED
    BY <1>5, <2>1, <2>2
<1> QED
  BY <1>1, <1>3, <1>9, <1>10

LEMMA TupleReadsBack ==
  ASSUME NEW schema, IsSchema(schema), NEW values, FitsSchema(values, schema)
  PROVE  ReadsBack(schema, MakeTuple(values), values)
<1>1. PICK n \in Nat : n = Len(schema) /\ DOMAIN schema = 1 .. n /\ DOMAIN values = 1 .. n
  BY ListDomain DEF IsSchema, FitsSchema
<1>2. \A i \in 1 .. n : values[i] \in Bytes /\ values[i].type = schema[i]
  BY <1>1 DEF FitsSchema
<1>3. PICK row \in RowsOf(schema) : row = MakeTuple(values)
  BY TupleFits
<1>5. PICK w \in Seq(Cell) : w = Flat(Written(values, n))
  BY <1>2, WrittenType
<1>6. \A m \in 1 .. n : row.cells[m] = IF m <= Len(w) THEN w[m] ELSE 0
  <2>1. /\ \A m \in 1 .. n : MakeTuple(values).cells[m] = IF m <= Len(w) THEN w[m] ELSE 0
        /\ MakeTuple(values).cells = [m \in 1 .. n |-> MakeTuple(values).cells[m]]
    BY <1>1, <1>5, TupleIs
  <2> QED
    BY <1>3, <2>1, Zenon
<1>7. ASSUME NEW i \in Leading(values)
      PROVE  /\ TupleValue(schema, row, i).null = values[i].null
             /\ ~TupleValue(schema, row, i).null => TupleValue(schema, row, i) = values[i]
  <2>1. i \in 1 .. n /\ \A j \in 1 .. i - 1 : ~values[j].null
    BY <1>1 DEF Leading
  <2>2. PICK v : v = TupleValue(schema, row, i)
    OBVIOUS
  <2>3. i \in row.nulls <=> values[i].null
    <3>1. row.nulls = {m \in 1 .. n : values[m].null}
      BY <1>1, <1>3, TupleIs, Zenon
    <3> QED
      BY <2>1, <3>1
  <2>4. v = IF i \in row.nulls THEN Uninitialised(schema[i])
            ELSE [type |-> schema[i], null |-> FALSE, raw |-> <<row.cells[i]>>]
    BY <1>1, <2>1, <2>2, ColumnIs
  <2>5. values[i].null \in BOOLEAN
    BY <1>2, <2>1, ByteFacts
  <2>6. CASE values[i].null
    <3>1. v.null = TRUE
      BY <2>3, <2>4, <2>6 DEF Uninitialised
    <3>2. values[i].null = TRUE
      BY <2>5, <2>6
    <3> QED
      BY <2>2, <3>1, <3>2, Zenon
  <2>7. CASE ~values[i].null
    <3>1. \A j \in 1 .. i : ~values[j].null
      <4>1. \A j \in 1 .. i : j = i \/ j \in 1 .. i - 1
        BY <2>1
      <4> QED
        BY <2>1, <2>7, <4>1
    <3>2. row.cells[i] = values[i].raw[1]
      <4>1. i <= Len(w) /\ w[i] = values[i].raw[1]
        BY <1>2, <1>5, <2>1, <3>1, WrittenInPlace
      <4> QED
        BY <1>6, <2>1, <4>1
    <3>3. values[i] = [type |-> values[i].type, null |-> FALSE, raw |-> <<values[i].raw[1]>>]
      BY <1>2, <2>1, <2>7, ByteFacts
    <3>4. v = values[i]
      BY <1>2, <2>1, <2>3, <2>4, <2>7, <3>2, <3>3, Zenon
    <3> QED
      BY <2>2, <3>4, Zenon
  <2> QED
    BY <2>6, <2>7
<1> QED
  BY <1>3, <1>7, Zenon DEF ReadsBack

-----------------------------------------------------------------------------
(***************************************************************************)
(* Batches.                                                                *)
(***************************************************************************)
Sized(batches) == \A i \in DOMAIN batches : Len(batches[i]) \in 1 .. BatchSize
FullTo(batches, n) == \A i \in 1 .. n : Len(batches[i]) = BatchSize

LEMMA LesserIs ==
  ASSUME NEW a \in Int, NEW b \in Int
  PROVE  /\ Min({a, b}) = IF a <= b THEN a ELSE b
         /\ Min({a, b}) <= a /\ Min({a, b}) <= b /\ Min({a, b}) \in {a, b}
<1>1. PICK m : m = IF a <= b THEN a ELSE b
  OBVIOUS
<1>2. \A x : (x \in {a, b} /\ \A y \in {a, b} : x =< y) <=> x = m
  BY <1>1
<1>3. Min({a, b}) = m
  BY <1>2 DEF Min
<1> QED
  BY <1>1, <1>3

LEMMA BatchCount ==
  ASSUME NEW n \in Nat, NEW B \in Nat, B # 0
  PROVE  \E m \in Nat : /\ m = (n + B - 1) \div B
                        /\ n <= m * B /\ (m > 0 => (m - 1) * B < n)
<1>1. (n + B - 1) \div B \in Nat
  OBVIOUS
<1>2. PICK m \in Nat : m = (n + B - 1) \div B
  BY <1>1
<1>3. m * B <= n + B - 1 /\ n + B - 1 < (m + 1) * B
  BY <1>2
<1>4. (m + 1) * B = m * B + B /\ (m - 1) * B = m * B - B
  OBVIOUS
<1> QED
  BY <1>2, <1>3, <1>4

(* The scan's batches: all full but the last, and together the table. *)
LEMMA ChunksAre ==
  ASSUME NEW T, NEW rows \in Seq(T)
  PROVE  /\ Chunks(rows) \in Seq(Seq(T)) /\ Flat(Chunks(rows)) = rows
         /\ Sized(Chunks(rows)) /\ FullTo(Chunks(rows), Len(Chunks(rows)) - 1)
<1>1. PICK n \in Nat, B \in Nat : n = Len(rows) /\ B = BatchSize /\ B # 0
  BY QueryAssumption
<1>2. PICK m \in Nat : /\ m = (n + B - 1) \div B
                       /\ n <= m * B /\ (m > 0 => (m - 1) * B < n)
  BY <1>1, BatchCount
<1> DEFINE stop(k) == Min({k * B, n})
<1>3. ASSUME NEW k \in 1 .. m
      PROVE  /\ (k - 1) * B \in Nat /\ (k - 1) * B < n
             /\ stop(k) \in Nat /\ stop(k) <= n
             /\ stop(k) - (k - 1) * B \in 1 .. B
             /\ k < m => stop(k) = k * B
  <2>1. (k - 1) * B <= (m - 1) * B
    OBVIOUS
  <2>2. (k - 1) * B \in Nat /\ k * B \in Nat /\ k * B = (k - 1) * B + B
    OBVIOUS
  <2>3. k < m => k * B <= (m - 1) * B
    OBVIOUS
  <2>4. PICK x \in Nat, y \in Nat : x = k * B /\ y = (k - 1) * B
    BY <2>2
  <2>5. PICK z \in Nat : z = (m - 1) * B
    OBVIOUS
  <2>6. y <= z /\ x = y + B /\ (k < m => x <= z) /\ z < n
    BY <1>2, <2>1, <2>2, <2>3, <2>4, <2>5
  <2>7. Min({x, n}) = IF x <= n THEN x ELSE n
    <3>1. x \in Int /\ n \in Int
      OBVIOUS
    <3> QED
      BY <3>1, LesserIs, Zenon
  <2>8. stop(k) = Min({x, n})
    BY <2>4, Zenon
  <2>9. y \in Nat /\ y < n /\ stop(k) \in Nat /\ stop(k) <= n /\ stop(k) - y \in 1 .. B
        /\ (k < m => stop(k) = x)
    BY <1>1, <2>6, <2>7, <2>8
  <2> QED
    BY <2>4, <2>9, Zenon
<1>4. PICK cs : cs = [k \in 1 .. m |-> SubSeq(rows, (k - 1) * B + 1, stop(k))]
  OBVIOUS
<1>5. Chunks(rows) = cs
  BY <1>1, <1>2, <1>4 DEF Chunks
<1> HIDE DEF stop
<1>6. ASSUME NEW k \in 1 .. m
      PROVE  cs[k] \in Seq(T) /\ Len(cs[k]) = stop(k) - (k - 1) * B
  <2>1. PICK a \in Nat, b \in Nat : a = (k - 1) * B /\ b = stop(k) /\ a < n /\ b <= n /\ a < b
    <3>1. PICK a \in Nat, b \in Nat :
            a = (k - 1) * B /\ b = stop(k) /\ a < n /\ b <= n /\ b - a \in 1 .. B
      BY <1>3, Zenon
    <3> QED
      BY <1>1, <3>1
  <2>2. cs[k] = SubSeq(rows, a + 1, b)
    BY <1>4, <2>1
  <2>3. SubSeq(rows, a + 1, b) \in Seq(T) /\ Len(SubSeq(rows, a + 1, b)) = b - a
    BY <1>1, <2>1, SubSeqProperties
  <2> QED
    BY <2>1, <2>2, <2>3
<1>7. cs \in Seq(Seq(T)) /\ Len(cs) = m /\ DOMAIN cs = 1 .. m
  <2>1. cs \in [1 .. m -> Seq(T)]
    BY <1>4, <1>6
  <2> QED
    BY <2>1
<1>8. Sized(cs) /\ FullTo(cs, m - 1)
  <2>1. \A k \in 1 .. m : Len(cs[k]) \in 1 .. B
    BY <1>3, <1>6
  <2>2. ASSUME NEW k \in 1 .. m - 1 PROVE Len(cs[k]) = B
    <3>1. k \in 1 .. m /\ k < m
      OBVIOUS
    <3>2. k * B - (k - 1) * B = B
      OBVIOUS
    <3> QED
      BY <1>3, <1>6, <3>1, <3>2
  <2> QED
    BY <1>1, <1>7, <2>1, <2>2 DEF Sized, FullTo
<1> DEFINE S == {k \in 0 .. m : k = 0 \/ Flat(SubSeq(cs, 1, k)) = SubSeq(rows, 1, stop(k))}
<1>9. 0 \in S
  OBVIOUS
<1>10. ASSUME NEW k \in 1 .. m, k - 1 \in S PROVE k \in S
  <2>1. Flat(SubSeq(cs, 1, k)) = Flat(SubSeq(cs, 1, k - 1)) \o cs[k]
    BY <1>7, FlatPrefix, Zenon
  <2>2. PICK a \in Nat, b \in Nat : a = (k - 1) * B /\ b = stop(k) /\ a < n /\ b <= n /\ a < b
    <3>1. PICK a \in Nat, b \in Nat :
            a = (k - 1) * B /\ b = stop(k) /\ a < n /\ b <= n /\ b - a \in 1 .. B
      BY <1>3, Zenon
    <3> QED
      BY <1>1, <3>1
  <2>3. cs[k] = SubSeq(rows, a + 1, b)
    BY <1>4, <2>2
  <2>4. Flat(SubSeq(cs, 1, k - 1)) = SubSeq(rows, 1, a)
    <3>1. CASE k = 1
      <4>1. SubSeq(cs, 1, k - 1) = <<>> /\ SubSeq(rows, 1, a) = <<>>
        BY <2>2, <3>1, SubSeqEmpty
      <4> QED
        BY <4>1, FlatEmpty, Zenon
    <3>2. CASE k # 1
      <4>1. k - 1 \in 1 .. m /\ k - 1 < m
        BY <3>2
      <4>2. stop(k - 1) = a
        BY <1>3, <2>2, <4>1
      <4> QED
        BY <1>10, <3>2, <4>2
    <3> QED
      BY <3>1, <3>2
  <2>5. SubSeq(rows, 1, a) \o SubSeq(rows, a + 1, b) = SubSeq(rows, 1, b)
    <3>1. 1 \in 1 .. Len(rows) + 1 /\ a \in 1 - 1 .. Len(rows) /\ b \in a .. Len(rows)
      BY <1>1, <2>2
    <3> QED
      BY <3>1, ConcatAdjacentSubSeq, Zenon
  <2>6. Flat(SubSeq(cs, 1, k)) = SubSeq(rows, 1, stop(k))
    BY <2>1, <2>2, <2>3, <2>4, <2>5, Zenon
  <2> QED
    BY <2>6
<1>11. 0 .. m \subseteq S
  <2> HIDE DEF S
  <2> QED
    BY <1>9, <1>10, UpToInduction
<1>12. Flat(cs) = rows
  <2>1. CASE m = 0
    <3>1. cs = <<>> /\ rows = <<>>
      BY <1>1, <1>2, <1>7, <2>1, EmptySeq
    <3> QED
      BY <3>1, FlatEmpty, Zenon
  <2>2. CASE m # 0
    <3>1. m * B \in Nat
      OBVIOUS
    <3>2. stop(m) = n
      <4>1. PICK x \in Nat : x = m * B
        BY <3>1
      <4>2. Min({x, n}) = n
        <5>1. x \in Int /\ n \in Int
          OBVIOUS
        <5>2. Min({x, n}) = IF x <= n THEN x ELSE n
          BY <5>1, LesserIs, Zenon
        <5> QED
          BY <1>2, <4>1, <5>2
      <4> QED
        BY <4>1, <4>2, Zenon DEF stop
    <3>3. Flat(SubSeq(cs, 1, m)) = SubSeq(rows, 1, n)
      BY <1>11, <2>2, <3>2
    <3>4. SubSeq(cs, 1, m) = cs
      BY <1>7, SubSeqFull, Zenon
    <3> QED
      BY <1>1, <3>3, <3>4, SubSeqFull
  <2> QED
    BY <2>1, <2>2
<1> QED
  BY <1>5, <1>7, <1>8, <1>12

-----------------------------------------------------------------------------
(***************************************************************************)
(* What a filter keeps of a relation.                                      *)
(***************************************************************************)
Keeps(n, tuple) ==
  LET v == Evaluate(n.predicate, n.schema, tuple)
  IN  v # Thrown /\ ~v.null /\ v.raw[1] # 0
KeptPart(n, rows) == [i \in DOMAIN rows |-> IF Keeps(n, rows[i]) THEN <<rows[i]>> ELSE <<>>]
Kept(n, rows) == Flat(KeptPart(n, rows))
ReachOf(n, rows, w) ==
  Min({i \in DOMAIN rows : Keeps(n, rows[i]) /\ Len(Kept(n, SubSeq(rows, 1, i))) >= w}
      \union {Len(rows)})

LEMMA KeptPartType ==
  ASSUME NEW T, NEW n, NEW rows \in Seq(T)
  PROVE  KeptPart(n, rows) \in Seq(Seq(T)) /\ Len(KeptPart(n, rows)) = Len(rows)
<1>1. PICK k \in Nat : k = Len(rows) /\ DOMAIN rows = 1 .. k
  OBVIOUS
<1>2. PICK S : S = Seq(T)
  OBVIOUS
<1>3. \A i \in 1 .. k : (IF Keeps(n, rows[i]) THEN <<rows[i]>> ELSE <<>>) \in Seq(T)
  BY <1>1
<1>4. \A i \in 1 .. k : (IF Keeps(n, rows[i]) THEN <<rows[i]>> ELSE <<>>) \in S
  BY <1>2, <1>3
<1>5. KeptPart(n, rows) \in [1 .. k -> S]
  BY <1>1, <1>4 DEF KeptPart
<1>6. KeptPart(n, rows) \in Seq(S) /\ Len(KeptPart(n, rows)) = k
  BY <1>5
<1> QED
  BY <1>1, <1>2, <1>6, Zenon

LEMMA KeptType ==
  ASSUME NEW T, NEW n, NEW rows \in Seq(T)
  PROVE  Kept(n, rows) \in Seq(T)
BY KeptPartType, FlatType, Zenon DEF Kept

LEMMA KeptEmpty ==
  ASSUME NEW n
  PROVE  Kept(n, <<>>) = <<>>
<1>1. KeptPart(n, <<>>) = <<>>
  BY DEF KeptPart
<1> QED
  BY <1>1, FlatEmpty, Zenon DEF Kept

KeepsEach(n, x, y) == Kept(n, x \o y) = Kept(n, x) \o Kept(n, y)

LEMMA KeptConcat ==
  ASSUME NEW T, NEW n, NEW x \in Seq(T), NEW y \in Seq(T)
  PROVE  KeepsEach(n, x, y)
<1>1. PICK a \in Nat, b \in Nat : a = Len(x) /\ b = Len(y)
  OBVIOUS
<1>2. PICK z \in Seq(T) : z = x \o y
  BY ConcatType
<1>3. Len(z) = a + b /\ \A i \in 1 .. a + b : z[i] = IF i <= a THEN x[i] ELSE y[i - a]
  BY <1>1, <1>2, ConcatProperties
<1>4. PICK S : S = Seq(T)
  OBVIOUS
<1>5. PICK p \in Seq(S), q \in Seq(S), r \in Seq(S) :
        /\ p = KeptPart(n, x) /\ q = KeptPart(n, y) /\ r = KeptPart(n, z)
        /\ Len(p) = Len(x) /\ Len(q) = Len(y) /\ Len(r) = Len(z)
  <2>1. \A s \in Seq(T) : KeptPart(n, s) \in Seq(Seq(T)) /\ Len(KeptPart(n, s)) = Len(s)
    BY KeptPartType
  <2>2. \A s \in Seq(T) : KeptPart(n, s) \in Seq(S) /\ Len(KeptPart(n, s)) = Len(s)
    BY <1>4, <2>1, Zenon
  <2> QED
    BY <2>2, Zenon
<1>6. Len(p) = a /\ Len(q) = b /\ Len(r) = a + b
  BY <1>1, <1>3, <1>5, Zenon
<1>7. \A i \in 1 .. a + b : r[i] = IF i <= a THEN p[i] ELSE q[i - a]
  <2>1. SUFFICES ASSUME NEW i \in 1 .. a + b PROVE r[i] = IF i <= a THEN p[i] ELSE q[i - a]
    OBVIOUS
  <2>2. r[i] = IF Keeps(n, z[i]) THEN <<z[i]>> ELSE <<>>
    BY <1>3, <1>5 DEF KeptPart
  <2>3. CASE i <= a
    <3>1. i \in 1 .. a /\ z[i] = x[i]
      BY <1>3, <2>3
    <3>2. p[i] = IF Keeps(n, x[i]) THEN <<x[i]>> ELSE <<>>
      BY <1>1, <1>5, <3>1 DEF KeptPart
    <3> QED
      BY <2>2, <2>3, <3>1, <3>2
  <2>4. CASE ~(i <= a)
    <3>0. z[i] = IF i <= a THEN x[i] ELSE y[i - a]
      BY <1>3
    <3>1. i - a \in 1 .. b /\ z[i] = y[i - a]
      <4>1. i - a \in 1 .. b
        BY <1>1, <2>4
      <4> QED
        BY <2>4, <3>0, <4>1, Zenon
    <3>2. q[i - a] = IF Keeps(n, y[i - a]) THEN <<y[i - a]>> ELSE <<>>
      BY <1>1, <1>5, <3>1 DEF KeptPart
    <3> QED
      BY <2>2, <2>4, <3>1, <3>2
  <2> QED
    BY <2>3, <2>4
<1>8. /\ p \o q \in Seq(S) /\ Len(p \o q) = a + b
      /\ \A i \in 1 .. a + b : (p \o q)[i] = IF i <= a THEN p[i] ELSE q[i - a]
  BY <1>6, ConcatProperties
<1>9. r = p \o q
  <2>1. \A i \in 1 .. Len(r) : r[i] = (p \o q)[i]
    BY <1>6, <1>7, <1>8
  <2> QED
    BY <1>6, <1>8, <2>1, SeqEqual, Zenon
<1>10. Flat(p \o q) = Flat(p) \o Flat(q)
  BY <1>4, FlatConcat, Zenon
<1> QED
  BY <1>2, <1>5, <1>9, <1>10, Zenon DEF Kept, KeepsEach

LEMMA KeptPrefix ==
  ASSUME NEW T, NEW n, NEW rows \in Seq(T), NEW k \in 1 .. Len(rows)
  PROVE  /\ Kept(n, SubSeq(rows, 1, k - 1)) \in Seq(T) /\ Kept(n, SubSeq(rows, 1, k)) \in Seq(T)
         /\ Len(Kept(n, SubSeq(rows, 1, k))) =
              Len(Kept(n, SubSeq(rows, 1, k - 1))) + IF Keeps(n, rows[k]) THEN 1 ELSE 0
<1>1. PICK x \in Seq(T), y \in Seq(T) : /\ x = SubSeq(rows, 1, k - 1) /\ y = <<rows[k]>>
                                        /\ SubSeq(rows, 1, k) = x \o y
  <2>1. SubSeq(rows, 1, k) = SubSeq(rows, 1, k - 1) \o <<rows[k]>>
    BY SubSeqRecursiveSecond
  <2>2. SubSeq(rows, 1, k - 1) \in Seq(T)
    BY PrefixType
  <2>3. <<rows[k]>> \in Seq(T)
    OBVIOUS
  <2> QED
    BY <2>1, <2>2, <2>3, Zenon
<1>2. KeepsEach(n, x, y)
  BY KeptConcat, Zenon
<1>3. PICK u \in Seq(T), v \in Seq(T) : u = Kept(n, x) /\ v = Kept(n, y)
  BY KeptType
<1>4. Len(u \o v) = Len(u) + Len(v) /\ u \o v \in Seq(T)
  BY ConcatProperties
<1>5. Len(v) = IF Keeps(n, rows[k]) THEN 1 ELSE 0
  <2>1. PICK b \in Seq(T) : b = IF Keeps(n, rows[k]) THEN <<rows[k]>> ELSE <<>>
    <3>1. <<rows[k]>> \in Seq(T) /\ <<>> \in Seq(T)
      OBVIOUS
    <3> QED
      BY <3>1, Zenon
  <2>2. KeptPart(n, y) = <<b>>
    BY <1>1, <2>1 DEF KeptPart
  <2>3. Flat(<<b>>) = b
    <3>1. <<>> \in Seq(Seq(T)) /\ Append(<<>>, b) = <<b>>
      OBVIOUS
    <3>2. Flat(Append(<<>>, b)) = Flat(<<>>) \o b
      BY <3>1, FlatAppend, Zenon
    <3>3. <<>> \o b = b
      BY ConcatEmptySeq
    <3> QED
      BY <3>1, <3>2, <3>3, FlatEmpty, Zenon
  <2>4. v = b
    BY <1>3, <2>2, <2>3, Zenon DEF Kept
  <2> QED
    BY <2>1, <2>4
<1> QED
  BY <1>1, <1>2, <1>3, <1>4, <1>5, Zenon DEF KeepsEach

LEMMA KeptIsShorter ==
  ASSUME NEW T, NEW n, NEW rows \in Seq(T)
  PROVE  Len(Kept(n, rows)) <= Len(rows)
<1>1. PICK k \in Nat : k = Len(rows)
  OBVIOUS
<1> DEFINE size(m) == Len(Kept(n, SubSeq(rows, 1, m)))
           S == {m \in 0 .. k : size(m) \in Nat /\ size(m) <= m}
<1>2. 0 \in S
  <2>1. SubSeq(rows, 1, 0) = <<>>
    BY SubSeqEmpty
  <2>2. Kept(n, SubSeq(rows, 1, 0)) = <<>>
    BY <2>1, KeptEmpty, Zenon
  <2> QED
    BY <2>2
<1>3. ASSUME NEW m \in 1 .. k, m - 1 \in S PROVE m \in S
  <2>1. size(m) = size(m - 1) + IF Keeps(n, rows[m]) THEN 1 ELSE 0
    BY <1>1, KeptPrefix, Zenon
  <2>2. size(m - 1) \in Nat /\ size(m - 1) <= m - 1
    BY <1>3
  <2> HIDE DEF size
  <2> QED
    BY <2>1, <2>2
<1>4. 0 .. k \subseteq S
  <2> HIDE DEF S
  <2> QED
    BY <1>2, <1>3, UpToInduction
<1>5. SubSeq(rows, 1, k) = rows
  BY <1>1, SubSeqFull
<1>6. size(k) <= k
  BY <1>4
<1> QED
  BY <1>1, <1>5, <1>6

(* How far into a batch a filter looks for w > 0 rows: it finds no more    *)
(* than that, and just as many when it stops before the end.               *)
LEMMA ReachIs ==
  ASSUME NEW T, NEW n, NEW rows \in Seq(T), NEW w \in Nat, w # 0
  PROVE  \E r \in 0 .. Len(rows) :
           /\ r = ReachOf(n, rows, w)
           /\ Len(rows) > 0 => r > 0
           /\ Len(Kept(n, SubSeq(rows, 1, r))) <= w
           /\ r < Len(rows) => Len(Kept(n, SubSeq(rows, 1, r))) = w
<1>1. PICK k \in Nat : k = Len(rows) /\ DOMAIN rows = 1 .. k
  OBVIOUS
<1> DEFINE size(m) == Len(Kept(n, SubSeq(rows, 1, m)))
           Full == {i \in 1 .. k : Keeps(n, rows[i]) /\ size(i) >= w}
<1>2. ASSUME NEW m \in 0 .. k PROVE size(m) \in Nat
  <2>1. SubSeq(rows, 1, m) \in Seq(T)
    BY <1>1, SplitAt
  <2>2. Kept(n, SubSeq(rows, 1, m)) \in Seq(T)
    BY <2>1, KeptType
  <2> QED
    BY <2>2
<1>3. size(0) = 0
  <2>1. SubSeq(rows, 1, 0) = <<>>
    BY SubSeqEmpty
  <2>2. Kept(n, SubSeq(rows, 1, 0)) = <<>>
    BY <2>1, KeptEmpty, Zenon
  <2> QED
    BY <2>2
<1>4. ASSUME NEW m \in 1 .. k
      PROVE  size(m) = size(m - 1) + IF Keeps(n, rows[m]) THEN 1 ELSE 0
  BY <1>1, KeptPrefix, Zenon
<1>5. ReachOf(n, rows, w) = Min(Full \union {k})
  BY <1>1, Zenon DEF ReachOf
<1> HIDE DEF size
<1>6. PICK r \in Full \union {k} : \A x \in Full \union {k} : r <= x
  <2>1. Full \union {k} \in SUBSET Nat /\ Full \union {k} # {}
    OBVIOUS
  <2> HIDE DEF Full
  <2> QED
    BY <2>1, NatMinimum
<1>7. Min(Full \union {k}) = r
  <2>1. \A x \in Full \union {k} : (\A y \in Full \union {k} : x =< y) => x = r
    BY <1>6
  <2> HIDE DEF Full
  <2> QED
    BY <1>6, <2>1, Zenon DEF Min
<1> DEFINE S == {m \in 0 .. k : size(m) >= w => \E i \in 1 .. m : i \in Full}
<1>8. 0 \in S
  BY <1>3
<1>9. ASSUME NEW m \in 1 .. k, m - 1 \in S PROVE m \in S
  <2>1. size(m) \in Nat /\ size(m - 1) \in Nat
    BY <1>2
  <2>2. CASE Keeps(n, rows[m])
    BY <2>2
  <2>3. CASE ~Keeps(n, rows[m])
    <3>1. size(m) = size(m - 1)
      BY <1>4, <2>1, <2>3
    <3> QED
      BY <1>9, <3>1
  <2> QED
    BY <2>2, <2>3
<1>10. 0 .. k \subseteq S
  <2> HIDE DEF S
  <2> QED
    BY <1>8, <1>9, UpToInduction
<1>11. r \in 0 .. k /\ (k > 0 => r > 0)
  OBVIOUS
<1>12. size(r) <= w
  <2>1. SUFFICES ASSUME size(r) > w PROVE FALSE
    BY <1>2, <1>11
  <2>2. r \in 1 .. k
    BY <1>3, <1>11, <2>1
  <2>3. size(r - 1) >= w
    BY <1>2, <1>4, <2>1, <2>2
  <2>4. PICK i \in 1 .. r - 1 : i \in Full
    BY <1>10, <2>2, <2>3
  <2> QED
    BY <1>6, <1>11, <2>4
<1>13. r < k => size(r) = w
  <2>1. r < k => r \in Full
    BY <1>6
  <2> QED
    BY <1>2, <1>11, <1>12, <2>1
<1> QED
  BY <1>1, <1>5, <1>7, <1>11, <1>12, <1>13 DEF size

-----------------------------------------------------------------------------
(***************************************************************************)
(* What a projection makes of a relation.                                  *)
(***************************************************************************)
ProjectedBy(n, tuple) ==
  [i \in DOMAIN n.expressions |-> Evaluate(n.expressions[i], n.schema, tuple)]
ProjectBy(n, rows) == [i \in DOMAIN rows |-> MakeTuple(ProjectedBy(n, rows[i]))]

IsProjection(n) ==
  /\ IsSchema(n.schema) /\ IsSchema(n.output) /\ DOMAIN n.expressions = DOMAIN n.output
  /\ \A i \in DOMAIN n.output : /\ WellTyped(n.expressions[i], n.schema)
                                /\ Last(n.expressions[i]).type = n.output[i]

LEMMA ProjectedFits ==
  ASSUME NEW n, IsProjection(n), NEW tuple \in RowsOf(n.schema), ~Throws(ProjectedBy(n, tuple))
  PROVE  FitsSchema(ProjectedBy(n, tuple), n.output)
<1>1. PICK D : D = DOMAIN n.output /\ D = DOMAIN n.expressions
  BY DEF IsProjection
<1>2. PICK vs : vs = ProjectedBy(n, tuple)
  OBVIOUS
<1>3. DOMAIN vs = D /\ \A i \in D : vs[i] = Evaluate(n.expressions[i], n.schema, tuple)
  BY <1>1, <1>2 DEF ProjectedBy
<1>4. \A i \in D : vs[i] # Thrown
  BY <1>2, <1>3 DEF Throws
<1>5. ASSUME NEW i \in D PROVE vs[i] \in Bytes /\ vs[i].type = n.output[i]
  <2>1. Evaluate(n.expressions[i], n.schema, tuple) \in MayThrow(Last(n.expressions[i]).type)
    BY <1>1, EvaluateTyped, Zenon DEF IsProjection
  <2>2. vs[i] \in MayThrow(n.output[i])
    BY <1>1, <1>3, <2>1, Zenon DEF IsProjection
  <2> QED
    BY <1>4, <2>2 DEF MayThrow, Byte
<1> QED
  BY <1>1, <1>2, <1>3, <1>5, Zenon DEF FitsSchema

LEMMA ProjectType ==
  ASSUME NEW n, IsProjection(n), NEW rows \in Seq(RowsOf(n.schema)),
         \A i \in DOMAIN rows : ~Throws(ProjectedBy(n, rows[i]))
  PROVE  ProjectBy(n, rows) \in Seq(RowsOf(n.output)) /\ Len(ProjectBy(n, rows)) = Len(rows)
<1>1. PICK k \in Nat : k = Len(rows) /\ DOMAIN rows = 1 .. k
  OBVIOUS
<1>2. ASSUME NEW i \in 1 .. k PROVE MakeTuple(ProjectedBy(n, rows[i])) \in RowsOf(n.output)
  <2>1. FitsSchema(ProjectedBy(n, rows[i]), n.output)
    BY <1>1, ProjectedFits
  <2> QED
    BY <2>1, TupleFits, Zenon DEF IsProjection
<1>3. ProjectBy(n, rows) \in [1 .. k -> RowsOf(n.output)]
  BY <1>1, <1>2 DEF ProjectBy
<1> QED
  BY <1>1, <1>3

ProjectsEach(n, x, y) == ProjectBy(n, x \o y) = ProjectBy(n, x) \o ProjectBy(n, y)

LEMMA ProjectConcat ==
  ASSUME NEW T, NEW n, NEW x \in Seq(T), NEW y \in Seq(T)
  PROVE  ProjectsEach(n, x, y)
<1>1. PICK a \in Nat, b \in Nat : a = Len(x) /\ b = Len(y)
  OBVIOUS
<1>2. PICK z \in Seq(T) : z = x \o y
  BY ConcatType
<1>3. Len(z) = a + b /\ \A i \in 1 .. a + b : z[i] = IF i <= a THEN x[i] ELSE y[i - a]
  BY <1>1, <1>2, ConcatProperties
<1> DEFINE M(t) == MakeTuple(ProjectedBy(n, t))
           S == {M(x[i]) : i \in 1 .. a} \union {M(y[i]) : i \in 1 .. b}
                  \union {M(z[i]) : i \in 1 .. a + b}
<1>4. /\ ProjectBy(n, x) \in [1 .. a -> S] /\ ProjectBy(n, y) \in [1 .. b -> S]
      /\ ProjectBy(n, z) \in [1 .. a + b -> S]
  BY <1>1, <1>3 DEF ProjectBy
<1>5. PICK p \in Seq(S), q \in Seq(S), r \in Seq(S) :
        /\ p = ProjectBy(n, x) /\ q = ProjectBy(n, y) /\ r = ProjectBy(n, z)
        /\ Len(p) = a /\ Len(q) = b /\ Len(r) = a + b
  <2> HIDE DEF S
  <2> QED
    BY <1>4
<1>6. /\ \A i \in 1 .. a : p[i] = M(x[i])
      /\ \A i \in 1 .. b : q[i] = M(y[i])
      /\ \A i \in 1 .. a + b : r[i] = M(z[i])
  BY <1>1, <1>3, <1>5 DEF ProjectBy
<1> HIDE DEF M, S
<1>7. ASSUME NEW i \in 1 .. a + b PROVE r[i] = IF i <= a THEN p[i] ELSE q[i - a]
  <2>1. r[i] = M(z[i]) /\ z[i] = IF i <= a THEN x[i] ELSE y[i - a]
    BY <1>3, <1>6, Zenon
  <2>2. CASE i <= a
    <3>1. i \in 1 .. a
      BY <2>2
    <3> QED
      BY <1>6, <2>1, <2>2, <3>1, Zenon
  <2>3. CASE ~(i <= a)
    <3>1. i - a \in 1 .. b
      BY <2>3
    <3> QED
      BY <1>6, <2>1, <2>3, <3>1, Zenon
  <2> QED
    BY <2>2, <2>3
<1>8. /\ p \o q \in Seq(S) /\ Len(p \o q) = a + b
      /\ \A i \in 1 .. a + b : (p \o q)[i] = IF i <= a THEN p[i] ELSE q[i - a]
  BY <1>5, ConcatProperties
<1>9. r = p \o q
  <2>1. \A i \in 1 .. a + b : r[i] = (p \o q)[i]
    BY <1>7, <1>8, Zenon
  <2>2. \A i \in 1 .. Len(r) : r[i] = (p \o q)[i]
    BY <1>5, <2>1, Zenon
  <2> QED
    BY <1>5, <1>8, <2>2, SeqEqual, Zenon
<1> QED
  BY <1>2, <1>5, <1>9, Zenon DEF ProjectsEach

-----------------------------------------------------------------------------
(***************************************************************************)
(* Reading batches: what a node has seen and what it has not.              *)
(***************************************************************************)
RestOf(buf, off) == IF off = 0 THEN <<>> ELSE SubSeq(buf, off + 1, Len(buf))
Pulled(ch) == IF ch = <<>> THEN <<>> ELSE Head(ch)
After(ch) == IF ch = <<>> THEN ch ELSE Tail(ch)
IsLeft(gv, ch, c) == c \in 0 .. Len(gv) /\ ch = SubSeq(gv, c + 1, Len(gv))

LEMMA LeftIs ==
  ASSUME NEW S, NEW gv \in Seq(S), NEW ch, NEW c, IsLeft(gv, ch, c)
  PROVE  /\ ch \in Seq(S)
         /\ ch = <<>> <=> c = Len(gv)
         /\ ch # <<>> => /\ c + 1 \in 1 .. Len(gv) /\ Head(ch) = gv[c + 1]
                         /\ IsLeft(gv, Tail(ch), c + 1)
         /\ c \in Nat /\ Len(gv) \in Nat
<1>1. PICK n \in Nat : n = Len(gv)
  OBVIOUS
<1>2. c \in Nat /\ c <= n /\ ch = SubSeq(gv, c + 1, n)
  BY <1>1 DEF IsLeft
<1>3. ch \in Seq(S) /\ Len(ch) = n - c /\ \A i \in 1 .. n - c : ch[i] = gv[c + i]
  BY <1>1, <1>2
<1>4. ch = <<>> <=> c = n
  <2>1. ch = <<>> <=> Len(ch) = 0
    BY <1>3, EmptySeq
  <2>2. Len(ch) = 0 <=> c = n
    BY <1>2, <1>3
  <2> QED
    BY <2>1, <2>2
<1>5. ASSUME ch # <<>>
      PROVE  c + 1 \in 1 .. n /\ Head(ch) = gv[c + 1] /\ Tail(ch) = SubSeq(gv, c + 2, n)
  <2>1. c + 1 \in 1 .. n
    BY <1>2, <1>4, <1>5
  <2>2. Head(ch) = ch[1]
    BY <1>3, <1>5
  <2>3. Head(ch) = gv[c + 1]
    BY <1>2, <1>3, <2>1, <2>2
  <2>4. /\ Tail(ch) \in Seq(S) /\ Len(Tail(ch)) = n - c - 1
        /\ \A i \in 1 .. n - c - 1 : Tail(ch)[i] = ch[i + 1]
    BY SMTT(40), <1>2, <1>3, <1>5, HeadTailProperties
  <2>5. /\ SubSeq(gv, c + 2, n) \in Seq(S) /\ Len(SubSeq(gv, c + 2, n)) = n - c - 1
        /\ \A i \in 1 .. n - c - 1 : SubSeq(gv, c + 2, n)[i] = gv[c + 1 + i]
    BY <1>1, <1>2, <2>1
  <2>6. \A i \in 1 .. Len(Tail(ch)) : Tail(ch)[i] = SubSeq(gv, c + 2, n)[i]
    BY <1>2, <1>3, <2>4, <2>5
  <2>7. Tail(ch) = SubSeq(gv, c + 2, n)
    BY <2>4, <2>5, <2>6, SeqEqual, Zenon
  <2> QED
    BY <2>1, <2>3, <2>7
<1>6. ASSUME ch # <<>> PROVE IsLeft(gv, Tail(ch), c + 1)
  <2>1. c + 2 = (c + 1) + 1 /\ c + 1 \in 0 .. n
    BY <1>2, <1>5, <1>6
  <2>2. Tail(ch) = SubSeq(gv, (c + 1) + 1, n)
    BY <1>5, <1>6, <2>1
  <2> QED
    BY <1>1, <2>1, <2>2 DEF IsLeft
<1> QED
  BY <1>1, <1>2, <1>3, <1>4, <1>5, <1>6

LEMMA PullIs ==
  ASSUME NEW T, NEW gv \in Seq(Seq(T)), Sized(gv), FullTo(gv, Len(gv) - 1),
         NEW ch, NEW c, IsLeft(gv, ch, c)
  PROVE  \E d : /\ IsLeft(gv, After(ch), d)
                /\ Pulled(ch) \in Seq(T) /\ Len(Pulled(ch)) \in 0 .. BatchSize
                /\ ch # <<>> => Len(Pulled(ch)) > 0
                /\ Flat(SubSeq(gv, 1, d)) = Flat(SubSeq(gv, 1, c)) \o Pulled(ch)
                /\ ch # <<>> /\ Len(Pulled(ch)) < BatchSize => After(ch) = <<>>
                /\ d = IF ch = <<>> THEN c ELSE c + 1
<1>1. PICK S : S = Seq(T)
  OBVIOUS
<1>2. gv \in Seq(S)
  BY <1>1
<1>3. /\ ch = <<>> <=> c = Len(gv)
      /\ ch # <<>> => /\ c + 1 \in 1 .. Len(gv) /\ Head(ch) = gv[c + 1]
                      /\ IsLeft(gv, Tail(ch), c + 1)
      /\ c \in Nat /\ Len(gv) \in Nat
  BY <1>2, LeftIs
<1>4. CASE ch = <<>>
  <2>1. Pulled(ch) = <<>> /\ After(ch) = ch
    BY <1>4 DEF Pulled, After
  <2>2. Flat(SubSeq(gv, 1, c)) \o <<>> = Flat(SubSeq(gv, 1, c))
    <3>1. c \in 0 .. Len(gv)
      BY DEF IsLeft
    <3>2. SubSeq(gv, 1, c) \in Seq(Seq(T))
      BY <3>1, SplitAt, Zenon
    <3> QED
      BY <3>2, FlatType, ConcatEmptySeq, Zenon
  <2>3. <<>> \in Seq(T) /\ Len(<<>>) = 0 /\ 0 \in 0 .. BatchSize
    BY QueryAssumption
  <2> QED
    BY <1>4, <2>1, <2>2, <2>3, Zenon
<1>5. CASE ch # <<>>
  <2>1. PICK d \in 1 .. Len(gv) : d = c + 1
    BY <1>3, <1>5
  <2>2. PICK b \in Seq(T) : b = gv[d] /\ Len(b) \in 1 .. BatchSize
    BY <2>1, ElementOfSeq DEF Sized
  <2>3. Pulled(ch) = b /\ After(ch) = Tail(ch)
    BY <1>3, <1>5, <2>1, <2>2 DEF Pulled, After
  <2>4. Flat(SubSeq(gv, 1, d)) = Flat(SubSeq(gv, 1, c)) \o b
    <3>1. d - 1 = c
      BY <1>3, <2>1
    <3>2. Flat(SubSeq(gv, 1, d)) = Flat(SubSeq(gv, 1, d - 1)) \o gv[d]
      BY <2>1, FlatPrefix, Zenon
    <3> QED
      BY <2>2, <3>1, <3>2, Zenon
  <2>5. ASSUME Len(b) < BatchSize PROVE Tail(ch) = <<>>
    <3>1. d = Len(gv)
      <4>1. d \notin 1 .. Len(gv) - 1
        BY <2>2, <2>5, QueryAssumption DEF FullTo
      <4> QED
        BY <1>3, <2>1, <4>1
    <3>2. IsLeft(gv, Tail(ch), d)
      BY <1>3, <1>5, <2>1
    <3> QED
      <4>1. PICK t : t = Tail(ch)
        OBVIOUS
      <4>2. IsLeft(gv, t, d)
        BY <3>2, <4>1, Zenon
      <4>3. t = <<>> <=> d = Len(gv)
        BY <1>2, <4>2, LeftIs
      <4> QED
        BY <3>1, <4>1, <4>3, Zenon
  <2>6. Len(b) \in 0 .. BatchSize /\ Len(b) > 0
    BY <2>2, QueryAssumption
  <2> QED
    BY <1>3, <1>5, <2>1, <2>2, <2>3, <2>4, <2>5, <2>6, Zenon
<1> QED
  BY <1>4, <1>5

(* The node has read gv but for the batches ch and the rest of buf; seen   *)
(* is what it has read.                                                    *)
Reading(gv, ch, buf, off, seen) ==
  \E c : IsLeft(gv, ch, c) /\ Flat(SubSeq(gv, 1, c)) = seen \o RestOf(buf, off)

LEMMA RestType ==
  ASSUME NEW T, NEW buf \in Seq(T), NEW off \in 0 .. Len(buf)
  PROVE  /\ RestOf(buf, off) \in Seq(T)
         /\ Len(RestOf(buf, off)) = IF off = 0 THEN 0 ELSE Len(buf) - off
<1>1. CASE off = 0
  BY <1>1 DEF RestOf
<1>2. CASE off # 0
  <2>1. SubSeq(buf, off + 1, Len(buf)) \in Seq(T)
    BY SplitAt
  <2>2. Len(SubSeq(buf, off + 1, Len(buf))) = Len(buf) - off
    OBVIOUS
  <2> QED
    BY <1>2, <2>1, <2>2 DEF RestOf
<1> QED
  BY <1>1, <1>2

Regroups(a, b, c, d) == (a \o b) \o (c \o d) = (a \o (b \o c)) \o d

LEMMA ConcatFour ==
  ASSUME NEW T, NEW a \in Seq(T), NEW b \in Seq(T), NEW c \in Seq(T), NEW d \in Seq(T)
  PROVE  Regroups(a, b, c, d)
<1>1. PICK x \in Seq(T) : x = a \o b
  BY ConcatType
<1>2. x \o (c \o d) = (x \o c) \o d
  BY SMTT(40), ConcatAssociative
<1>3. (a \o b) \o c = a \o (b \o c)
  BY SMTT(40), ConcatAssociative
<1> QED
  BY <1>1, <1>2, <1>3, Zenon DEF Regroups

ReadsOn(T, gv, ch, buf, off, seen, pulled, k, off2) ==
  /\ pulled \in Seq(T) /\ Len(pulled) \in 0 .. BatchSize /\ off2 \in 0 .. Len(pulled)
  /\ SubSeq(pulled, 1, k) \in Seq(T) /\ RestOf(buf, off) \in Seq(T)
  /\ ch # <<>> => Len(pulled) > 0
  /\ ch # <<>> /\ Len(pulled) < BatchSize => After(ch) = <<>>
  /\ ch = <<>> => pulled = <<>> /\ After(ch) = <<>>
  /\ Reading(gv, After(ch), pulled, off2, seen \o (RestOf(buf, off) \o SubSeq(pulled, 1, k)))

LEMMA ReadOn ==
  ASSUME NEW T, NEW gv \in Seq(Seq(T)), Sized(gv), FullTo(gv, Len(gv) - 1),
         NEW ch, NEW buf \in Seq(T), NEW off \in 0 .. Len(buf), NEW seen \in Seq(T),
         Reading(gv, ch, buf, off, seen),
         NEW pulled, pulled = Pulled(ch), NEW k \in 0 .. Len(pulled), Len(pulled) > 0 => k > 0,
         NEW off2, off2 = IF k < Len(pulled) THEN k ELSE 0
  PROVE  ReadsOn(T, gv, ch, buf, off, seen, pulled, k, off2)
<1>1. PICK c : IsLeft(gv, ch, c) /\ Flat(SubSeq(gv, 1, c)) = seen \o RestOf(buf, off)
  BY DEF Reading
<1>2. PICK d : /\ IsLeft(gv, After(ch), d)
               /\ Pulled(ch) \in Seq(T) /\ Len(Pulled(ch)) \in 0 .. BatchSize
               /\ ch # <<>> => Len(Pulled(ch)) > 0
               /\ Flat(SubSeq(gv, 1, d)) = Flat(SubSeq(gv, 1, c)) \o Pulled(ch)
               /\ ch # <<>> /\ Len(Pulled(ch)) < BatchSize => After(ch) = <<>>
  BY <1>1, PullIs, Zenon
<1>3. pulled \in Seq(T) /\ Len(pulled) \in 0 .. BatchSize
  BY <1>2
<1>4. off2 \in 0 .. Len(pulled)
  BY <1>3
<1>5. PICK rest \in Seq(T) : rest = RestOf(buf, off)
  BY RestType
<1>6. PICK head \in Seq(T), tail \in Seq(T) :
        /\ head = SubSeq(pulled, 1, k) /\ tail = SubSeq(pulled, k + 1, Len(pulled))
        /\ pulled = head \o tail
  <2>1. /\ SubSeq(pulled, 1, k) \in Seq(T) /\ SubSeq(pulled, k + 1, Len(pulled)) \in Seq(T)
        /\ pulled = SubSeq(pulled, 1, k) \o SubSeq(pulled, k + 1, Len(pulled))
    BY <1>3, SplitAt
  <2> QED
    BY <2>1, Zenon
<1>7. RestOf(pulled, off2) = tail
  <2>1. CASE k < Len(pulled)
    <3>1. off2 = k /\ k # 0
      BY <1>3, <2>1
    <3> QED
      BY <1>6, <3>1, Zenon DEF RestOf
  <2>2. CASE ~(k < Len(pulled))
    <3>1. off2 = 0 /\ k = Len(pulled)
      BY <1>3, <2>2
    <3>2. k + 1 > Len(pulled) /\ k + 1 \in Int /\ Len(pulled) \in Int
      BY <1>3, <3>1
    <3>3. SubSeq(pulled, k + 1, Len(pulled)) = <<>>
      BY <3>2, SubSeqEmpty
    <3> QED
      BY <1>6, <3>1, <3>3, Zenon DEF RestOf
  <2> QED
    BY <2>1, <2>2
<1>8. PICK y \in Seq(T) : y = rest \o head
  BY ConcatType
<1>9. Flat(SubSeq(gv, 1, d)) = (seen \o y) \o tail
  <2>1. Regroups(seen, rest, head, tail)
    BY ConcatFour, Zenon
  <2> QED
    BY <1>1, <1>2, <1>5, <1>6, <1>8, <2>1, Zenon DEF Regroups
<1>10. Reading(gv, After(ch), pulled, off2, seen \o (RestOf(buf, off) \o SubSeq(pulled, 1, k)))
  <2>1. Reading(gv, After(ch), pulled, off2, seen \o y)
    BY <1>2, <1>7, <1>9, Zenon DEF Reading
  <2>2. y = RestOf(buf, off) \o SubSeq(pulled, 1, k)
    BY <1>5, <1>6, <1>8, Zenon
  <2> QED
    BY <2>1, <2>2, Zenon
<1>11. ch = <<>> => pulled = <<>> /\ After(ch) = <<>>
  BY DEF Pulled, After
<1> QED
  BY <1>2, <1>3, <1>4, <1>5, <1>6, <1>10, <1>11, Zenon DEF ReadsOn

LEMMA AllRead ==
  ASSUME NEW T, NEW gv \in Seq(Seq(T)), NEW buf, NEW off, NEW seen \in Seq(T),
         Reading(gv, <<>>, buf, off, seen), RestOf(buf, off) = <<>>
  PROVE  seen = Flat(gv)
<1>1. PICK c : IsLeft(gv, <<>>, c) /\ Flat(SubSeq(gv, 1, c)) = seen \o <<>>
  BY DEF Reading
<1>2. PICK S, e : S = Seq(T) /\ e = <<>>
  OBVIOUS
<1>3. gv \in Seq(S) /\ IsLeft(gv, e, c)
  BY <1>1, <1>2, Zenon
<1>4. e = <<>> <=> c = Len(gv)
  BY <1>3, LeftIs
<1>5. SubSeq(gv, 1, c) = gv
  BY <1>2, <1>4, SubSeqFull, Zenon
<1>6. seen \o <<>> = seen
  BY ConcatEmptySeq, Zenon
<1> QED
  BY <1>1, <1>5, <1>6, Zenon

LEMMA ReadingStarts ==
  ASSUME NEW T, NEW gv \in Seq(Seq(T))
  PROVE  Reading(gv, gv, <<>>, 0, <<>>)
<1>1. PICK S : S = Seq(T)
  OBVIOUS
<1>2. gv \in Seq(S)
  BY <1>1
<1>3. IsLeft(gv, gv, 0)
  BY <1>2, SubSeqFull DEF IsLeft
<1>4. SubSeq(gv, 1, 0) = <<>>
  BY SubSeqEmpty
<1>5. <<>> \o <<>> = <<>>
  OBVIOUS
<1>6. Flat(SubSeq(gv, 1, 0)) = <<>> \o RestOf(<<>>, 0)
  BY <1>4, <1>5, FlatEmpty, Zenon DEF RestOf
<1> QED
  BY <1>3, <1>6, Zenon DEF Reading

-----------------------------------------------------------------------------
(***************************************************************************)
(* A filter over batches.                                                  *)
(***************************************************************************)
Idle(ch, buf, off, ba) == ch = <<>> /\ RestOf(buf, off) = <<>> /\ ba = <<>>
Buffers(T, buf, off, ba) ==
  /\ buf \in Seq(T) /\ ba \in Seq(T)
  /\ Len(buf) <= BatchSize /\ off \in 0 .. Len(buf)
  /\ Len(ba) < BatchSize /\ (off # 0 => ba = <<>>)
Delivers(T, ou) == ou \in Seq(Seq(T)) /\ Sized(ou)
FilterStream(n, T, gv, ch, buf, off, ba, ou) ==
  /\ Buffers(T, buf, off, ba)
  /\ Delivers(T, ou)
  /\ FullTo(ou, Len(ou)) \/ (FullTo(ou, Len(ou) - 1) /\ Idle(ch, buf, off, ba))
  /\ \E seen \in Seq(T) : Reading(gv, ch, buf, off, seen) /\ Flat(ou) \o ba = Kept(n, seen)

Slides(a, b, c, d) == (a \o b) \o (c \o d) = a \o ((b \o c) \o d)

LEMMA ConcatSlides ==
  ASSUME NEW T, NEW a \in Seq(T), NEW b \in Seq(T), NEW c \in Seq(T), NEW d \in Seq(T)
  PROVE  Slides(a, b, c, d)
<1>1. PICK x \in Seq(T) : x = c \o d
  BY ConcatType
<1>2. (a \o b) \o x = a \o (b \o x)
  BY SMTT(40), ConcatAssociative
<1>3. (b \o c) \o d = b \o (c \o d)
  BY SMTT(40), ConcatAssociative
<1> QED
  BY <1>1, <1>2, <1>3, Zenon DEF Slides

(* What is there to fill before the next child batch is looked at leaves   *)
(* room in the output.                                                     *)
LEMMA FillingHasRoom ==
  ASSUME NEW T, NEW n, NEW buf, NEW off, NEW ba, Buffers(T, buf, off, ba)
  PROVE  /\ ba \o Kept(n, RestOf(buf, off)) \in Seq(T)
         /\ Len(ba \o Kept(n, RestOf(buf, off))) < BatchSize
<1>1. PICK b \in Seq(T), r \in Seq(T) : b = ba /\ r = RestOf(buf, off)
  BY RestType, Zenon DEF Buffers
<1>2. PICK v \in Seq(T) : v = Kept(n, r)
  BY KeptType, Zenon
<1>3. b \o v \in Seq(T) /\ Len(b \o v) = Len(b) + Len(v)
  BY ConcatProperties
<1>4. Len(v) <= Len(r)
  BY <1>2, KeptIsShorter
<1>5. Len(r) = IF off = 0 THEN 0 ELSE Len(buf) - off
  BY <1>1, RestType, Zenon DEF Buffers
<1>6. Len(b) + Len(v) < BatchSize
  <2>1. Len(b) \in Nat /\ Len(v) \in Nat /\ Len(buf) \in Nat /\ off \in Nat /\ BatchSize \in Nat
    BY QueryAssumption DEF Buffers
  <2>2. CASE off = 0
    BY <1>1, <1>4, <1>5, <2>1, <2>2 DEF Buffers
  <2>3. CASE off # 0
    <3>1. Len(b) = 0
      BY <1>1, <2>3 DEF Buffers
    <3> QED
      BY <1>1, <1>4, <1>5, <2>1, <2>3, <3>1 DEF Buffers
  <2> QED
    BY <2>2, <2>3
<1> QED
  BY <1>1, <1>2, <1>3, <1>6, Zenon

(* One turn reads on and keeps what it should of what it read.             *)
FilterRead(T, n, gv, ch, buf, off, ba, ou, pulled, filled, off2) ==
  /\ filled \in Seq(T) /\ Len(filled) <= BatchSize
  /\ Len(filled) < BatchSize => off2 = 0
  /\ pulled \in Seq(T) /\ Len(pulled) <= BatchSize /\ off2 \in 0 .. Len(pulled)
  /\ ch = <<>> => After(ch) = <<>> /\ RestOf(pulled, off2) = <<>>
  /\ Idle(ch, buf, off, ba) => filled = <<>>
  /\ \E seen \in Seq(T) : /\ Reading(gv, After(ch), pulled, off2, seen)
                          /\ Flat(ou) \o filled = Kept(n, seen)

LEMMA FilterReads ==
  ASSUME NEW T, NEW n, NEW gv \in Seq(Seq(T)), Sized(gv), FullTo(gv, Len(gv) - 1),
         NEW ch, NEW buf, NEW off, NEW ba, NEW ou,
         FilterStream(n, T, gv, ch, buf, off, ba, ou),
         NEW filling, filling = ba \o Kept(n, RestOf(buf, off)),
         NEW pulled, pulled = Pulled(ch),
         NEW k, k = ReachOf(n, pulled, BatchSize - Len(filling)),
         NEW filled, filled = filling \o Kept(n, SubSeq(pulled, 1, k)),
         NEW off2, off2 = IF k < Len(pulled) THEN k ELSE 0
  PROVE  FilterRead(T, n, gv, ch, buf, off, ba, ou, pulled, filled, off2)
<1>1. PICK f \in Seq(T) : f = filling /\ Len(f) < BatchSize
  BY FillingHasRoom, Zenon DEF FilterStream
<1>2. PICK seen \in Seq(T) : Reading(gv, ch, buf, off, seen) /\ Flat(ou) \o ba = Kept(n, seen)
  BY DEF FilterStream
<1>3. /\ buf \in Seq(T) /\ off \in 0 .. Len(buf) /\ ba \in Seq(T) /\ ou \in Seq(Seq(T))
  BY DEF FilterStream, Buffers, Delivers
<1>4. pulled \in Seq(T)
  <2>1. PICK c : IsLeft(gv, ch, c)
    BY <1>2 DEF Reading
  <2>2. Pulled(ch) \in Seq(T)
    BY <2>1, PullIs
  <2> QED
    BY <2>2
<1>5. PICK w \in Nat : w = BatchSize - Len(filling) /\ w # 0
  <2>1. PICK m \in Nat : m = Len(filling) /\ m < BatchSize
    BY <1>1
  <2>2. BatchSize \in Nat
    BY QueryAssumption
  <2>3. BatchSize - m \in Nat /\ BatchSize - m # 0
    BY <2>1, <2>2
  <2> QED
    BY <2>1, <2>3, Zenon
<1>6. /\ k \in 0 .. Len(pulled) /\ (Len(pulled) > 0 => k > 0)
      /\ Len(Kept(n, SubSeq(pulled, 1, k))) <= w
      /\ k < Len(pulled) => Len(Kept(n, SubSeq(pulled, 1, k))) = w
  <2>1. k = ReachOf(n, pulled, w)
    BY <1>5, Zenon
  <2>2. \E r \in 0 .. Len(pulled) :
           /\ r = ReachOf(n, pulled, w)
           /\ Len(pulled) > 0 => r > 0
           /\ Len(Kept(n, SubSeq(pulled, 1, r))) <= w
           /\ r < Len(pulled) => Len(Kept(n, SubSeq(pulled, 1, r))) = w
    BY <1>4, <1>5, ReachIs, Zenon
  <2> QED
    BY <2>1, <2>2, Zenon
<1>7. /\ Len(pulled) \in 0 .. BatchSize /\ off2 \in 0 .. Len(pulled)
      /\ SubSeq(pulled, 1, k) \in Seq(T) /\ RestOf(buf, off) \in Seq(T)
      /\ ch = <<>> => pulled = <<>> /\ After(ch) = <<>>
      /\ Reading(gv, After(ch), pulled, off2, seen \o (RestOf(buf, off) \o SubSeq(pulled, 1, k)))
  <2>1. ReadsOn(T, gv, ch, buf, off, seen, pulled, k, off2)
    BY <1>2, <1>3, <1>6, ReadOn, Zenon
  <2> QED
    BY <2>1, Zenon DEF ReadsOn
<1>8. PICK rest \in Seq(T), head \in Seq(T) :
        rest = RestOf(buf, off) /\ head = SubSeq(pulled, 1, k)
  BY <1>7
<1>9. PICK u \in Seq(T), v \in Seq(T), x \in Seq(T), o \in Seq(T) :
        u = Kept(n, rest) /\ v = Kept(n, head) /\ x = Kept(n, seen) /\ o = Flat(ou)
  BY <1>3, KeptType, FlatType, Zenon
<1>10. filled \in Seq(T) /\ Len(filled) = Len(f) + Len(v)
  <2>1. f \o v \in Seq(T) /\ Len(f \o v) = Len(f) + Len(v)
    BY ConcatProperties
  <2> QED
    BY <1>1, <1>8, <1>9, <2>1, Zenon
<1>11. Len(filled) <= BatchSize /\ (Len(filled) < BatchSize => off2 = 0)
  BY <1>1, <1>5, <1>6, <1>8, <1>9, <1>10, QueryAssumption
<1>12. ASSUME ch = <<>> PROVE RestOf(pulled, off2) = <<>>
  <2>1. off2 = 0
    BY <1>7, <1>12
  <2> QED
    BY <2>1 DEF RestOf
<1>13. ASSUME Idle(ch, buf, off, ba) PROVE filled = <<>>
  <2>1. ba = <<>> /\ rest = <<>> /\ ch = <<>>
    BY <1>8, <1>13 DEF Idle
  <2>2. head = <<>>
    BY <1>6, <1>7, <1>8, <2>1
  <2>3. filling = <<>> \o Kept(n, <<>>) /\ filled = filling \o Kept(n, <<>>)
    BY <1>8, <2>1, <2>2, Zenon
  <2>4. <<>> \o <<>> = <<>>
    OBVIOUS
  <2> QED
    BY <2>3, <2>4, KeptEmpty, Zenon
<1>14. PICK y \in Seq(T) : y = rest \o head
  BY ConcatType
<1>15. PICK z \in Seq(T) : z = seen \o y
  BY ConcatType
<1>16. o \o filled = Kept(n, z)
  <2>0. PICK b \in Seq(T) : b = ba
    BY <1>3
  <2>1. Slides(o, b, u, v)
    BY ConcatSlides, Zenon
  <2>2. Kept(n, y) = u \o v
    <3>1. KeepsEach(n, rest, head)
      BY KeptConcat, Zenon
    <3> QED
      BY <1>9, <1>14, <3>1, Zenon DEF KeepsEach
  <2>3. Kept(n, z) = x \o (u \o v)
    <3>1. KeepsEach(n, seen, y)
      BY KeptConcat, Zenon
    <3> QED
      BY <1>9, <1>15, <2>2, <3>1, Zenon DEF KeepsEach
  <2>4. o \o ba = x /\ filled = (ba \o u) \o v
    BY <1>2, <1>8, <1>9, Zenon
  <2> QED
    BY <2>0, <2>1, <2>3, <2>4, Zenon DEF Slides
<1>17. Reading(gv, After(ch), pulled, off2, z)
  BY <1>7, <1>8, <1>14, <1>15, Zenon
<1>18. Len(pulled) <= BatchSize
  BY <1>7, QueryAssumption
<1> QED
  BY <1>4, <1>7, <1>9, <1>10, <1>11, <1>12, <1>13, <1>16, <1>17, <1>18, Zenon
     DEF FilterRead

LEMMA OneMore ==
  ASSUME NEW S, NEW s \in Seq(S), NEW b \in S
  PROVE  /\ Append(s, b) \in Seq(S) /\ Len(Append(s, b)) = Len(s) + 1 /\ Len(s) \in Nat
         /\ \A i \in 1 .. Len(s) : Append(s, b)[i] = s[i]
         /\ Append(s, b)[Len(s) + 1] = b
BY AppendProperties

LEMMA DeliverAnother ==
  ASSUME NEW T, NEW ou, Delivers(T, ou), NEW b \in Seq(T), Len(b) \in 1 .. BatchSize
  PROVE  Delivers(T, Append(ou, b))
<1>1. PICK S : S = Seq(T)
  OBVIOUS
<1>2. PICK n \in Nat, new \in Seq(S) :
        /\ n = Len(ou) /\ new = Append(ou, b) /\ Len(new) = n + 1
        /\ \A i \in 1 .. n : new[i] = ou[i]
        /\ new[n + 1] = b
  <2>1. ou \in Seq(S) /\ b \in S
    BY <1>1, Zenon DEF Delivers
  <2>2. /\ Append(ou, b) \in Seq(S) /\ Len(Append(ou, b)) = Len(ou) + 1 /\ Len(ou) \in Nat
        /\ \A i \in 1 .. Len(ou) : Append(ou, b)[i] = ou[i]
        /\ Append(ou, b)[Len(ou) + 1] = b
    BY <2>1, OneMore, ZenonT(60)
  <2> QED
    BY <2>2, Zenon
<1>3. ASSUME NEW i \in 1 .. n PROVE Len(new[i]) \in 1 .. BatchSize
  <2>1. i \in DOMAIN ou
    BY <1>1, <1>2 DEF Delivers
  <2> QED
    BY <1>2, <2>1 DEF Delivers, Sized
<1>4. Sized(new)
  <2>1. DOMAIN new = 1 .. n + 1
    BY <1>2
  <2>2. ASSUME NEW i \in 1 .. n + 1 PROVE Len(new[i]) \in 1 .. BatchSize
    <3>1. i = n + 1 \/ i \in 1 .. n
      OBVIOUS
    <3> QED
      BY <1>2, <1>3, <3>1
  <2> QED
    BY <2>1, <2>2 DEF Sized
<1> QED
  BY <1>1, <1>2, <1>4, Zenon DEF Delivers

LEMMA DeliverMore ==
  ASSUME NEW T, NEW ou, Delivers(T, ou), FullTo(ou, Len(ou)),
         NEW b \in Seq(T), Len(b) \in 1 .. BatchSize
  PROVE  /\ Delivers(T, Append(ou, b)) /\ FullTo(Append(ou, b), Len(Append(ou, b)) - 1)
         /\ Len(b) = BatchSize => FullTo(Append(ou, b), Len(Append(ou, b)))
<1>1. PICK S : S = Seq(T)
  OBVIOUS
<1>2. PICK n \in Nat, new \in Seq(S) :
        /\ n = Len(ou) /\ new = Append(ou, b) /\ Len(new) = n + 1
        /\ \A i \in 1 .. n : new[i] = ou[i]
        /\ new[n + 1] = b
  <2>1. ou \in Seq(S) /\ b \in S
    BY <1>1, Zenon DEF Delivers
  <2>2. /\ Append(ou, b) \in Seq(S) /\ Len(Append(ou, b)) = Len(ou) + 1 /\ Len(ou) \in Nat
        /\ \A i \in 1 .. Len(ou) : Append(ou, b)[i] = ou[i]
        /\ Append(ou, b)[Len(ou) + 1] = b
    BY <2>1, OneMore, ZenonT(60)
  <2> QED
    BY <2>2, Zenon
<1>3. \A i \in 1 .. n : Len(new[i]) = BatchSize
  BY <1>2 DEF FullTo
<1>4. Sized(new)
  <2>1. DOMAIN new = 1 .. n + 1
    BY <1>2
  <2>2. ASSUME NEW i \in 1 .. n + 1 PROVE Len(new[i]) \in 1 .. BatchSize
    <3>1. i = n + 1 \/ i \in 1 .. n
      OBVIOUS
    <3> QED
      BY <1>2, <1>3, <3>1, QueryAssumption
  <2> QED
    BY <2>1, <2>2 DEF Sized
<1>5. FullTo(new, n) /\ (Len(b) = BatchSize => FullTo(new, n + 1))
  <2>1. Len(b) = BatchSize => \A i \in 1 .. n + 1 : Len(new[i]) = BatchSize
    <3>1. \A i \in 1 .. n + 1 : i = n + 1 \/ i \in 1 .. n
      OBVIOUS
    <3> QED
      BY <1>2, <1>3, <3>1, Zenon
  <2> QED
    BY <1>3, <2>1 DEF FullTo
<1>6. Len(new) = n + 1 /\ Len(new) - 1 = n
  BY <1>2
<1> QED
  BY <1>1, <1>2, <1>4, <1>5, <1>6, Zenon DEF Delivers

LEMMA FilterGoesOn ==
  ASSUME NEW T, NEW n, NEW gv, NEW ch, NEW buf, NEW off, NEW ba, NEW ou,
         NEW pulled, NEW filled, NEW off2,
         FilterStream(n, T, gv, ch, buf, off, ba, ou),
         FilterRead(T, n, gv, ch, buf, off, ba, ou, pulled, filled, off2)
  PROVE  /\ ch = <<>> /\ filled = <<>> =>
              /\ FilterStream(n, T, gv, After(ch), pulled, off2, <<>>, ou)
              /\ Idle(After(ch), pulled, off2, <<>>)
         /\ filled # <<>> /\ (ch = <<>> \/ Len(filled) >= BatchSize) =>
              FilterStream(n, T, gv, After(ch), pulled, off2, <<>>, Append(ou, filled))
         /\ ch # <<>> /\ Len(filled) < BatchSize =>
              FilterStream(n, T, gv, After(ch), pulled, off2, filled, ou)
<1>1. PICK seen \in Seq(T) : /\ Reading(gv, After(ch), pulled, off2, seen)
                             /\ Flat(ou) \o filled = Kept(n, seen)
  BY DEF FilterRead
<1>2. /\ filled \in Seq(T) /\ Len(filled) <= BatchSize
      /\ Len(filled) < BatchSize => off2 = 0
      /\ pulled \in Seq(T) /\ Len(pulled) <= BatchSize /\ off2 \in 0 .. Len(pulled)
      /\ ch = <<>> => After(ch) = <<>> /\ RestOf(pulled, off2) = <<>>
      /\ Idle(ch, buf, off, ba) => filled = <<>>
  BY DEF FilterRead
<1>3. Delivers(T, ou) /\ (FullTo(ou, Len(ou)) \/ (FullTo(ou, Len(ou) - 1) /\ Idle(ch, buf, off, ba)))
  BY DEF FilterStream
<1>4. <<>> \in Seq(T) /\ Len(<<>>) < BatchSize
  BY QueryAssumption
<1>5. Buffers(T, pulled, off2, <<>>)
  BY <1>2, <1>4, Zenon DEF Buffers
<1>6. ASSUME ch = <<>> PROVE Idle(After(ch), pulled, off2, <<>>)
  BY <1>2, <1>6 DEF Idle
<1>7. ASSUME ch = <<>>, filled = <<>>
      PROVE  FilterStream(n, T, gv, After(ch), pulled, off2, <<>>, ou)
  <2>1. Flat(ou) \o <<>> = Kept(n, seen)
    BY <1>1, <1>7, Zenon
  <2> QED
    BY <1>1, <1>3, <1>5, <1>6, <1>7, <2>1, Zenon DEF FilterStream
<1>8. ASSUME filled # <<>>, ch = <<>> \/ Len(filled) >= BatchSize
      PROVE  FilterStream(n, T, gv, After(ch), pulled, off2, <<>>, Append(ou, filled))
  <2>1. FullTo(ou, Len(ou))
    BY <1>2, <1>3, <1>8
  <2>2. Len(filled) \in 1 .. BatchSize
    <3>1. Len(filled) # 0 /\ Len(filled) \in Nat /\ BatchSize \in Nat
      BY <1>2, <1>8, EmptySeq, QueryAssumption
    <3> QED
      BY <1>2, <3>1
  <2>3. /\ Delivers(T, Append(ou, filled))
        /\ FullTo(Append(ou, filled), Len(Append(ou, filled)) - 1)
        /\ Len(filled) = BatchSize => FullTo(Append(ou, filled), Len(Append(ou, filled)))
    BY <1>2, <1>3, <2>1, <2>2, DeliverMore, Zenon
  <2>4. Flat(Append(ou, filled)) \o <<>> = Kept(n, seen)
    <3>1. Flat(Append(ou, filled)) = Flat(ou) \o filled
      BY <1>2, <1>3, FlatAppend, Zenon DEF Delivers
    <3>2. Flat(Append(ou, filled)) \in Seq(T)
      BY <2>3, FlatType, Zenon DEF Delivers
    <3>3. Flat(Append(ou, filled)) \o <<>> = Flat(Append(ou, filled))
      BY <3>2, ConcatEmptySeq, Zenon
    <3> QED
      BY <1>1, <3>1, <3>3, Zenon
  <2>5. Len(filled) = BatchSize \/ ch = <<>>
    <3>1. PICK m \in Nat : m = Len(filled) /\ m <= BatchSize
      BY <1>2
    <3>2. m >= BatchSize => m = BatchSize
      BY <3>1, QueryAssumption
    <3> QED
      BY <1>8, <3>1, <3>2, Zenon
  <2> QED
    BY <1>1, <1>5, <1>6, <2>3, <2>4, <2>5, Zenon DEF FilterStream
<1>9. ASSUME ch # <<>>, Len(filled) < BatchSize
      PROVE  FilterStream(n, T, gv, After(ch), pulled, off2, filled, ou)
  <2>1. FullTo(ou, Len(ou))
    BY <1>3, <1>9 DEF Idle
  <2>2. Buffers(T, pulled, off2, filled)
    BY <1>2, <1>9, Zenon DEF Buffers
  <2> QED
    BY <1>1, <1>3, <2>1, <2>2, Zenon DEF FilterStream
<1> QED
  BY <1>6, <1>7, <1>8, <1>9, Zenon

-----------------------------------------------------------------------------
(***************************************************************************)
(* A projection over batches.                                              *)
(***************************************************************************)
NoThrow(n, rows) == \A i \in DOMAIN rows : ~Throws(ProjectedBy(n, rows[i]))
ProjectionStream(n, T, gv, ch, buf, off, ou) ==
  /\ Buffers(T, buf, off, <<>>)
  /\ Delivers(RowsOf(n.output), ou)
  /\ FullTo(ou, Len(ou)) \/ (FullTo(ou, Len(ou) - 1) /\ Idle(ch, buf, off, <<>>))
  /\ \E seen \in Seq(T) : /\ Reading(gv, ch, buf, off, seen)
                          /\ Flat(ou) = ProjectBy(n, seen) /\ NoThrow(n, seen)

ProjectionRead(T, gv, ch, buf, off, pulled, reads, off2) ==
  /\ reads \in Seq(T) /\ Len(reads) <= BatchSize
  /\ Len(reads) < BatchSize => Idle(After(ch), pulled, off2, <<>>)
  /\ Buffers(T, pulled, off2, <<>>)
  /\ Idle(ch, buf, off, <<>>) => reads = <<>>
  /\ \A seen \in Seq(T) : Reading(gv, ch, buf, off, seen) =>
                          Reading(gv, After(ch), pulled, off2, seen \o reads)

ProjectionStep(ch, buf, off, pulled, stop, reads, off2) ==
  /\ pulled = Pulled(ch)
  /\ stop = Min({Len(pulled), IF BatchSize > Len(RestOf(buf, off))
                              THEN BatchSize - Len(RestOf(buf, off)) ELSE 1})
  /\ reads = RestOf(buf, off) \o SubSeq(pulled, 1, stop)
  /\ off2 = IF stop < Len(pulled) THEN stop ELSE 0

LEMMA ProjectionReads ==
  ASSUME NEW T, NEW gv \in Seq(Seq(T)), Sized(gv), FullTo(gv, Len(gv) - 1),
         NEW ch, NEW buf, NEW off, Buffers(T, buf, off, <<>>),
         \E seen \in Seq(T) : Reading(gv, ch, buf, off, seen),
         NEW pulled, NEW stop, NEW reads, NEW off2,
         ProjectionStep(ch, buf, off, pulled, stop, reads, off2)
  PROVE  ProjectionRead(T, gv, ch, buf, off, pulled, reads, off2)
<1>1. buf \in Seq(T) /\ off \in 0 .. Len(buf) /\ Len(buf) <= BatchSize
  BY DEF Buffers
<1>2. PICK rest \in Seq(T) : /\ rest = RestOf(buf, off)
                             /\ Len(rest) = IF off = 0 THEN 0 ELSE Len(buf) - off
  <2>1. /\ RestOf(buf, off) \in Seq(T)
        /\ Len(RestOf(buf, off)) = IF off = 0 THEN 0 ELSE Len(buf) - off
    BY <1>1, RestType
  <2> QED
    BY <2>1, Zenon
<1>3. PICK r \in Nat : r = Len(rest) /\ r < BatchSize
  <2>1. PICK a \in Nat : a = Len(buf) /\ off \in 0 .. a /\ a <= BatchSize
    BY <1>1
  <2>2. Len(rest) = IF off = 0 THEN 0 ELSE a - off
    BY <1>2, <2>1, Zenon
  <2>3. Len(rest) \in Nat /\ Len(rest) < BatchSize
    BY <2>1, <2>2, QueryAssumption
  <2> QED
    BY <2>3, Zenon
<1>4. PICK w \in Nat : /\ w = BatchSize - r /\ w > 0
                       /\ w = IF BatchSize > r THEN BatchSize - r ELSE 1
  <2>1. BatchSize - r \in Nat /\ BatchSize - r > 0 /\ BatchSize > r
    BY <1>3, QueryAssumption
  <2> QED
    BY <2>1, Zenon
<1>5. PICK first \in Seq(T) : Reading(gv, ch, buf, off, first)
  OBVIOUS
<1>6. pulled \in Seq(T)
  <2>1. PICK c : IsLeft(gv, ch, c)
    BY <1>5 DEF Reading
  <2>2. Pulled(ch) \in Seq(T)
    BY <2>1, PullIs
  <2> QED
    BY <2>2, Zenon DEF ProjectionStep
<1>7. PICK m \in Nat : m = Len(pulled)
  BY <1>6
<1>8. stop = IF m <= w THEN m ELSE w
  <2>1. m \in Int /\ w \in Int
    OBVIOUS
  <2>2. Min({m, w}) = IF m <= w THEN m ELSE w
    BY <2>1, LesserIs, Zenon
  <2>3. stop = Min({Len(pulled), IF BatchSize > Len(rest) THEN BatchSize - Len(rest) ELSE 1})
    BY <1>2, Zenon DEF ProjectionStep
  <2>4. stop = Min({m, w})
    BY <1>3, <1>4, <1>7, <2>3, Zenon
  <2> QED
    BY <2>2, <2>4, Zenon
<1>9. stop \in 0 .. m /\ (m > 0 => stop > 0) /\ stop <= w
  BY <1>4, <1>8
<1>0. off2 = IF stop < m THEN stop ELSE 0
  BY <1>7, Zenon DEF ProjectionStep
<1>10. ASSUME NEW seen \in Seq(T), Reading(gv, ch, buf, off, seen)
       PROVE  ReadsOn(T, gv, ch, buf, off, seen, pulled, stop, off2)
  <2>1. pulled = Pulled(ch) /\ off2 = IF stop < Len(pulled) THEN stop ELSE 0
    BY DEF ProjectionStep
  <2>2. stop \in 0 .. Len(pulled) /\ (Len(pulled) > 0 => stop > 0)
    BY <1>7, <1>9
  <2> QED
    BY <1>1, <1>10, <2>1, <2>2, ReadOn, Zenon
<1>11. /\ Len(pulled) \in 0 .. BatchSize /\ off2 \in 0 .. Len(pulled)
       /\ SubSeq(pulled, 1, stop) \in Seq(T)
       /\ ch # <<>> => Len(pulled) > 0
       /\ ch # <<>> /\ Len(pulled) < BatchSize => After(ch) = <<>>
       /\ ch = <<>> => pulled = <<>> /\ After(ch) = <<>>
  <2>1. ReadsOn(T, gv, ch, buf, off, first, pulled, stop, off2)
    BY <1>5, <1>10, Zenon
  <2> QED
    BY <2>1, Zenon DEF ReadsOn
<1>12. PICK head \in Seq(T) : head = SubSeq(pulled, 1, stop) /\ Len(head) = stop
  <2>1. Len(SubSeq(pulled, 1, stop)) = stop
    BY <1>6, <1>7, <1>9
  <2> QED
    BY <1>11, <2>1, Zenon
<1>13. reads \in Seq(T) /\ Len(reads) = r + stop
  <2>1. rest \o head \in Seq(T) /\ Len(rest \o head) = Len(rest) + Len(head)
    BY ConcatProperties
  <2> QED
    BY <1>2, <1>3, <1>12, <2>1, Zenon DEF ProjectionStep
<1>14. Len(reads) <= BatchSize
  BY <1>3, <1>4, <1>9, <1>13, QueryAssumption
<1>15. ASSUME Len(reads) < BatchSize PROVE Idle(After(ch), pulled, off2, <<>>)
  <2>1. stop = m /\ m < BatchSize
    BY <1>3, <1>4, <1>8, <1>13, <1>15, QueryAssumption
  <2>2. off2 = 0
    BY <1>0, <2>1
  <2>3. ch # <<>> => After(ch) = <<>>
    BY <1>7, <1>11, <2>1, Zenon
  <2> QED
    BY <1>11, <2>2, <2>3, Zenon DEF Idle, RestOf
<1>16. Buffers(T, pulled, off2, <<>>)
  <2>1. <<>> \in Seq(T) /\ Len(<<>>) < BatchSize /\ Len(pulled) <= BatchSize
    BY <1>11, QueryAssumption
  <2> QED
    BY <1>6, <1>11, <2>1, Zenon DEF Buffers
<1>17. ASSUME Idle(ch, buf, off, <<>>) PROVE reads = <<>>
  <2>0. rest = <<>> /\ pulled = <<>>
    BY <1>2, <1>11, <1>17, Zenon DEF Idle
  <2>1. rest = <<>> /\ m = 0
    BY <1>7, <2>0
  <2>2. r = 0 /\ stop = 0
    BY <1>3, <1>4, <1>8, <2>1
  <2>3. Len(reads) = 0
    BY <1>13, <2>2
  <2> QED
    BY <1>13, <2>3, EmptySeq
<1>18. ASSUME NEW seen \in Seq(T), Reading(gv, ch, buf, off, seen)
       PROVE  Reading(gv, After(ch), pulled, off2, seen \o reads)
  BY <1>10, <1>18, Zenon DEF ReadsOn, ProjectionStep
<1> QED
  BY <1>13, <1>14, <1>15, <1>16, <1>17, <1>18, Zenon DEF ProjectionRead

LEMMA ProjectionGoesOn ==
  ASSUME NEW n, IsProjection(n), NEW T, T = RowsOf(n.schema),
         NEW gv, NEW ch, NEW buf, NEW off, NEW ou, NEW pulled, NEW reads, NEW off2,
         ProjectionStream(n, T, gv, ch, buf, off, ou),
         ProjectionRead(T, gv, ch, buf, off, pulled, reads, off2)
  PROVE  /\ reads = <<>> => /\ ProjectionStream(n, T, gv, After(ch), pulled, off2, ou)
                            /\ Idle(After(ch), pulled, off2, <<>>)
         /\ reads # <<>> /\ NoThrow(n, reads) =>
              ProjectionStream(n, T, gv, After(ch), pulled, off2, Append(ou, ProjectBy(n, reads)))
<1>1. PICK seen \in Seq(T) : /\ Reading(gv, ch, buf, off, seen)
                             /\ Flat(ou) = ProjectBy(n, seen) /\ NoThrow(n, seen)
  BY DEF ProjectionStream
<1>2. /\ reads \in Seq(T) /\ Len(reads) <= BatchSize
      /\ Len(reads) < BatchSize => Idle(After(ch), pulled, off2, <<>>)
      /\ Buffers(T, pulled, off2, <<>>)
      /\ Idle(ch, buf, off, <<>>) => reads = <<>>
      /\ Reading(gv, After(ch), pulled, off2, seen \o reads)
  BY <1>1, Zenon DEF ProjectionRead
<1>3. /\ Delivers(RowsOf(n.output), ou)
      /\ FullTo(ou, Len(ou)) \/ (FullTo(ou, Len(ou) - 1) /\ Idle(ch, buf, off, <<>>))
  BY DEF ProjectionStream
<1>4. ASSUME reads = <<>>
      PROVE  /\ ProjectionStream(n, T, gv, After(ch), pulled, off2, ou)
             /\ Idle(After(ch), pulled, off2, <<>>)
  <2>1. Len(reads) < BatchSize
    BY <1>4, QueryAssumption
  <2>2. seen \o reads = seen
    BY <1>4, ConcatEmptySeq
  <2>3. Reading(gv, After(ch), pulled, off2, seen)
    BY <1>2, <2>2, Zenon
  <2> QED
    BY <1>1, <1>2, <1>3, <2>1, <2>3, Zenon DEF ProjectionStream
<1>5. ASSUME reads # <<>>, NoThrow(n, reads)
      PROVE  ProjectionStream(n, T, gv, After(ch), pulled, off2, Append(ou, ProjectBy(n, reads)))
  <2>1. FullTo(ou, Len(ou))
    BY <1>2, <1>3, <1>5, Zenon
  <2>2. PICK new \in Seq(RowsOf(n.output)) : new = ProjectBy(n, reads) /\ Len(new) = Len(reads)
    BY <1>2, <1>5, ProjectType, Zenon DEF NoThrow
  <2>3. Len(new) \in 1 .. BatchSize
    <3>1. Len(reads) # 0 /\ Len(reads) \in Nat /\ BatchSize \in Nat
      BY <1>2, <1>5, EmptySeq, QueryAssumption
    <3> QED
      BY <1>2, <2>2, <3>1
  <2>4. /\ Delivers(RowsOf(n.output), Append(ou, new))
        /\ FullTo(Append(ou, new), Len(Append(ou, new)) - 1)
        /\ Len(new) = BatchSize => FullTo(Append(ou, new), Len(Append(ou, new)))
    BY <1>3, <2>1, <2>3, DeliverMore, Zenon
  <2>5. Len(new) = BatchSize \/ Idle(After(ch), pulled, off2, <<>>)
    <3>1. PICK m \in Nat : m = Len(reads) /\ m <= BatchSize
      BY <1>2
    <3>2. m < BatchSize \/ m = BatchSize
      BY <3>1, QueryAssumption
    <3> QED
      BY <1>2, <2>2, <3>1, <3>2, Zenon
  <2>6. PICK all \in Seq(T) : all = seen \o reads
    BY <1>2, ConcatType
  <2>7. Flat(Append(ou, new)) = ProjectBy(n, all)
    <3>1. Flat(Append(ou, new)) = Flat(ou) \o new
      BY <1>3, FlatAppend, Zenon DEF Delivers
    <3>2. ProjectsEach(n, seen, reads)
      BY <1>2, ProjectConcat, Zenon
    <3> QED
      BY <1>1, <2>2, <2>6, <3>1, <3>2, Zenon DEF ProjectsEach
  <2>8. NoThrow(n, all)
    <3>1. PICK a \in Nat, b \in Nat : a = Len(seen) /\ b = Len(reads)
      BY <1>2
    <3>2. Len(all) = a + b /\ \A i \in 1 .. a + b : all[i] = IF i <= a THEN seen[i] ELSE reads[i - a]
      BY <1>2, <2>6, <3>1, ConcatProperties
    <3>3. DOMAIN all = 1 .. a + b /\ DOMAIN seen = 1 .. a /\ DOMAIN reads = 1 .. b
      BY <1>2, <3>1, <3>2
    <3>4. ASSUME NEW i \in 1 .. a + b PROVE ~Throws(ProjectedBy(n, all[i]))
      <4>1. CASE i <= a
        <5>1. i \in 1 .. a /\ all[i] = seen[i]
          BY <3>2, <4>1
        <5> QED
          BY <1>1, <3>3, <5>1, Zenon DEF NoThrow
      <4>2. CASE ~(i <= a)
        <5>1. i - a \in 1 .. b
          BY <4>2
        <5>2. all[i] = reads[i - a]
          BY <3>2, <4>2, Zenon
        <5> QED
          BY <1>5, <3>3, <5>1, <5>2, Zenon DEF NoThrow
      <4> QED
        BY <4>1, <4>2
    <3> QED
      BY <3>3, <3>4, Zenon DEF NoThrow
  <2> QED
    BY <1>2, <2>2, <2>4, <2>5, <2>6, <2>7, <2>8, Zenon DEF ProjectionStream
<1> QED
  BY <1>4, <1>5, Zenon

-----------------------------------------------------------------------------
(***************************************************************************)
(* A sort over batches.                                                    *)
(***************************************************************************)
Permuted(rows, sorted) ==
  \E p \in Perms(Len(rows)) : sorted = [i \in DOMAIN rows |-> rows[p[i]]]

LEMMA PermutedType ==
  ASSUME NEW T, NEW rows \in Seq(T), NEW sorted, Permuted(rows, sorted)
  PROVE  sorted \in Seq(T) /\ Len(sorted) = Len(rows)
<1>1. PICK n \in Nat : n = Len(rows) /\ DOMAIN rows = 1 .. n
  OBVIOUS
<1>2. PICK p \in [1 .. n -> 1 .. n] : sorted = [i \in 1 .. n |-> rows[p[i]]]
  BY <1>1 DEF Permuted, Perms
<1>3. sorted \in [1 .. n -> T]
  BY <1>1, <1>2
<1> QED
  BY <1>1, <1>3

LEMMA PermutedBag ==
  ASSUME NEW T, NEW rows \in Seq(T), NEW sorted, Permuted(rows, sorted)
  PROVE  ToBag(sorted) = ToBag(rows)
<1>1. PICK n \in Nat : n = Len(rows) /\ DOMAIN rows = 1 .. n
  OBVIOUS
<1>2. PICK p \in [1 .. n -> 1 .. n] : /\ \A i, j \in 1 .. n : i # j => p[i] # p[j]
                                      /\ sorted = [i \in 1 .. n |-> rows[p[i]]]
  BY <1>1 DEF Permuted, Perms
<1>3. IsFiniteSet(1 .. n)
  BY FS_Interval
<1>4. ASSUME NEW j \in 1 .. n PROVE \E i \in 1 .. n : p[i] = j
  <2>1. p \in Injection(1 .. n, 1 .. n)
    BY <1>2 DEF Injection, IsInjective
  <2>2. p \in Surjection(1 .. n, 1 .. n)
    BY <1>3, <2>1, FS_Injection
  <2> QED
    BY <2>2 DEF Surjection
<1>5. DOMAIN sorted = 1 .. n /\ \A i \in 1 .. n : sorted[i] = rows[p[i]]
  BY <1>2
<1>6. Range(sorted) = Range(rows)
  <2>1. ASSUME NEW x \in Range(sorted) PROVE x \in Range(rows)
    BY <1>1, <1>5 DEF Range
  <2>2. ASSUME NEW x \in Range(rows) PROVE x \in Range(sorted)
    <3>1. PICK j \in 1 .. n : x = rows[j]
      BY <1>1 DEF Range
    <3>2. PICK i \in 1 .. n : p[i] = j
      BY <1>4
    <3>3. sorted[i] = x
      BY <1>5, <3>1, <3>2
    <3> QED
      BY <1>5, <3>3 DEF Range
  <2> QED
    BY <2>1, <2>2
<1>7. ASSUME NEW x
      PROVE  Cardinality({i \in 1 .. n : sorted[i] = x}) = Cardinality({j \in 1 .. n : rows[j] = x})
  <2> DEFINE A == {i \in 1 .. n : sorted[i] = x}
             B == {j \in 1 .. n : rows[j] = x}
             f == [i \in A |-> p[i]]
  <2>1. IsFiniteSet(A)
    BY <1>3, FS_Subset
  <2>2. f \in [A -> B]
    BY <1>5
  <2>3. ASSUME NEW a \in A, NEW b \in A, f[a] = f[b] PROVE a = b
    BY <1>2, <2>3
  <2>4. ASSUME NEW j \in B PROVE \E i \in A : f[i] = j
    <3>1. PICK i \in 1 .. n : p[i] = j
      BY <1>4
    <3> QED
      BY <1>5, <3>1
  <2>5. f \in Bijection(A, B)
    <3> HIDE DEF A, B, f
    <3> QED
      BY <2>2, <2>3, <2>4 DEF Bijection, Injection, Surjection, IsInjective
  <2>6. Cardinality(B) = Cardinality(A)
    <3> HIDE DEF A, B, f
    <3> QED
      BY <2>1, <2>5, FS_Bijection DEF ExistsBijection
  <2> QED
    BY <2>6
<1> DEFINE Count(s, x) == Cardinality({i \in 1 .. n : s[i] = x})
<1>8. \A x : Count(sorted, x) = Count(rows, x)
  BY <1>7
<1>9. /\ ToBag(sorted) = [x \in Range(rows) |-> Count(sorted, x)]
      /\ ToBag(rows) = [x \in Range(rows) |-> Count(rows, x)]
  BY <1>1, <1>5, <1>6, Zenon DEF ToBag
<1> QED
  <2> HIDE DEF Count
  <2> QED
    BY <1>8, <1>9

KeysOf(n, tuple) ==
  [i \in DOMAIN n.order_bys |-> Evaluate(n.order_bys[i].expr, n.schema, tuple)]
Before(n, a, b) ==
  \E k \in DOMAIN n.order_bys :
      /\ Decides(a[k], b[k]) /\ DecidedBefore(n.order_bys[k], a[k], b[k])
      /\ \A m \in 1 .. k - 1 : ~Decides(a[m], b[m])
Sorted(n, rows, sorted) ==
  /\ Permuted(rows, sorted)
  /\ \A i, j \in DOMAIN rows : i < j => ~Before(n, KeysOf(n, sorted[j]), KeysOf(n, sorted[i]))
  /\ \A i \in DOMAIN rows : ~Throws(KeysOf(n, sorted[i]))
SortStream(n, T, gv, ou, en) ==
  /\ Delivers(T, ou) /\ en \in Seq(T)
  /\ FullTo(ou, Len(ou)) \/ (FullTo(ou, Len(ou) - 1) /\ en = <<>>)
  /\ Sorted(n, Flat(gv), Flat(ou) \o en)

Shifts(a, b, c) == (a \o b) \o c = a \o (b \o c)

LEMMA ConcatShifts ==
  ASSUME NEW T, NEW a \in Seq(T), NEW b \in Seq(T), NEW c \in Seq(T)
  PROVE  Shifts(a, b, c)
BY ConcatAssociative DEF Shifts

LEMMA SortStarts ==
  ASSUME NEW T, NEW n, NEW gv \in Seq(Seq(T)), NEW en, Sorted(n, Flat(gv), en)
  PROVE  SortStream(n, T, gv, <<>>, en)
<1>1. en \in Seq(T)
  BY FlatType, PermutedType, Zenon DEF Sorted
<1>2. <<>> \o en = en
  BY <1>1, ConcatEmptySeq
<1>3. Delivers(T, <<>>) /\ FullTo(<<>>, Len(<<>>))
  BY DEF Delivers, Sized, FullTo
<1> QED
  BY <1>1, <1>2, <1>3, FlatEmpty, Zenon DEF SortStream

LEMMA SortGoesOn ==
  ASSUME NEW T, NEW n, NEW gv, NEW ou, NEW en, SortStream(n, T, gv, ou, en),
         NEW k, k = Min({BatchSize, Len(en)})
  PROVE  /\ en = <<>> => SubSeq(en, k + 1, Len(en)) = <<>>
         /\ en # <<>> => SortStream(n, T, gv, Append(ou, SubSeq(en, 1, k)), SubSeq(en, k + 1, Len(en)))
<1>1. /\ Delivers(T, ou) /\ en \in Seq(T)
      /\ FullTo(ou, Len(ou)) \/ (FullTo(ou, Len(ou) - 1) /\ en = <<>>)
      /\ Sorted(n, Flat(gv), Flat(ou) \o en)
  BY DEF SortStream
<1>2. PICK m \in Nat : m = Len(en)
  BY <1>1
<1>3. k = IF BatchSize <= m THEN BatchSize ELSE m
  <2>1. BatchSize \in Int /\ m \in Int
    BY QueryAssumption
  <2>2. Min({BatchSize, m}) = IF BatchSize <= m THEN BatchSize ELSE m
    BY <2>1, LesserIs, Zenon
  <2> QED
    BY <1>2, <2>2, Zenon
<1>4. ASSUME en = <<>> PROVE SubSeq(en, k + 1, Len(en)) = <<>>
  <2>1. m = 0 /\ k = 0
    BY <1>2, <1>3, <1>4, QueryAssumption
  <2> QED
    BY <1>2, <1>4, <2>1, SubSeqEmpty
<1>5. ASSUME en # <<>>
      PROVE  SortStream(n, T, gv, Append(ou, SubSeq(en, 1, k)), SubSeq(en, k + 1, Len(en)))
  <2>1. m > 0
    BY <1>1, <1>2, <1>5, EmptySeq
  <2>2. k \in 1 .. m /\ k <= BatchSize /\ (k < BatchSize => k = m)
    BY <1>3, <2>1, QueryAssumption
  <2>3. PICK head \in Seq(T), tail \in Seq(T) :
          /\ head = SubSeq(en, 1, k) /\ tail = SubSeq(en, k + 1, Len(en))
          /\ en = head \o tail
    <3>1. k \in 0 .. Len(en)
      BY <1>2, <2>2
    <3>2. /\ SubSeq(en, 1, k) \in Seq(T) /\ SubSeq(en, k + 1, Len(en)) \in Seq(T)
          /\ en = SubSeq(en, 1, k) \o SubSeq(en, k + 1, Len(en))
      BY <1>1, <3>1, SplitAt, Zenon
    <3> QED
      BY <3>2, Zenon
  <2>4. Len(head) = k
    BY <1>1, <1>2, <2>2, <2>3
  <2>5. /\ Delivers(T, Append(ou, head))
        /\ FullTo(Append(ou, head), Len(Append(ou, head)) - 1)
        /\ Len(head) = BatchSize => FullTo(Append(ou, head), Len(Append(ou, head)))
    <3>1. Len(head) \in 1 .. BatchSize
      BY <2>2, <2>4, QueryAssumption
    <3> QED
      BY <1>1, <1>5, <3>1, DeliverMore, Zenon
  <2>6. Len(head) = BatchSize \/ tail = <<>>
    <3>1. k = BatchSize \/ k = m
      BY <2>2, QueryAssumption
    <3>2. ASSUME k = m PROVE SubSeq(en, k + 1, Len(en)) = <<>>
      BY <1>2, <3>2, SubSeqEmpty
    <3> QED
      BY <2>3, <2>4, <3>1, <3>2, Zenon
  <2>7. Flat(Append(ou, head)) \o tail = Flat(ou) \o en
    <3>1. Flat(Append(ou, head)) = Flat(ou) \o head
      BY <1>1, FlatAppend, Zenon DEF Delivers
    <3>2. PICK o \in Seq(T) : o = Flat(ou)
      BY <1>1, FlatType, Zenon DEF Delivers
    <3>3. Shifts(o, head, tail)
      BY ConcatShifts, Zenon
    <3> QED
      BY <2>3, <3>1, <3>2, <3>3, Zenon DEF Shifts
  <2> QED
    BY <1>1, <2>3, <2>5, <2>6, <2>7, Zenon DEF SortStream
<1> QED
  BY <1>4, <1>5, Zenon

LEMMA EqualToItself ==
  ASSUME NEW v \in Bytes, ~v.null
  PROVE  ValueCompare("==", v, v) = {"CmpTrue"}
<1>1. v.type \in ByteTypes
  BY ByteFacts
<1>2. CASE v.type = "TINYINT"
  <2>1. ValueCompare("==", v, v) = {CompareNumbers("==", v, v)}
    BY <1>2 DEF ValueCompare, TinyintCompare
  <2>2. v.type \in Numeric
    BY <1>2 DEF Numeric, IntegerTypes
  <2>3. CompareNumbers("==", v, v) = "CmpTrue"
    BY <2>2 DEF CompareNumbers, CmpBool, Holds
  <2> QED
    BY <2>1, <2>3
<1>3. CASE v.type = "BOOLEAN"
  <2>1. ValueCompare("==", v, v) = {BooleanCompare("==", v, v)}
    BY <1>3 DEF ValueCompare
  <2>2. BooleanCompare("==", v, v) = "CmpTrue"
    BY <1>3 DEF BooleanCompare, CmpBool, Holds
  <2> QED
    BY <2>1, <2>2
<1> QED
  BY <1>1, <1>2, <1>3 DEF ByteTypes

IsSort(n) ==
  /\ IsSchema(n.schema) /\ IsList(n.order_bys)
  /\ \A k \in DOMAIN n.order_bys :
        /\ WellTyped(n.order_bys[k].expr, n.schema)
        /\ n.order_bys[k].nulls \in {"DEFAULT", "NULLS_FIRST", "NULLS_LAST"}

LEMMA KeysAreBytes ==
  ASSUME NEW n, IsSort(n), NEW t \in RowsOf(n.schema), ~Throws(KeysOf(n, t))
  PROVE  \A k \in DOMAIN n.order_bys : KeysOf(n, t)[k] \in Bytes
<1>1. PICK D, keys : D = DOMAIN n.order_bys /\ keys = KeysOf(n, t)
  OBVIOUS
<1>2. DOMAIN keys = D /\ \A k \in D : keys[k] = Evaluate(n.order_bys[k].expr, n.schema, t)
  BY <1>1 DEF KeysOf
<1>3. \A k \in D : keys[k] # Thrown
  BY <1>1, <1>2 DEF Throws
<1>4. ASSUME NEW k \in D PROVE keys[k] \in Bytes
  <2>1. keys[k] \in MayThrow(Last(n.order_bys[k].expr).type)
    BY <1>1, <1>2, EvaluateTyped, Zenon DEF IsSort
  <2> QED
    BY <1>3, <2>1 DEF MayThrow, Byte
<1> QED
  BY <1>1, <1>4, Zenon

(* Keys alike in being NULL do not decide; keys that are not do, by the    *)
(* side the query asked for.                                               *)
LEMMA NullsDecide ==
  ASSUME NEW a \in Bytes, NEW b \in Bytes, NEW order,
         order.nulls \in {"DEFAULT", "NULLS_FIRST", "NULLS_LAST"}
  PROVE  /\ a.null = b.null => ~Decides(b, a)
         /\ a.null # b.null => Decides(b, a)
         /\ a.null # b.null /\ ~DecidedBefore(order, b, a) => a.null = NullsAskedFirst(order)
<1>1. a.null \in BOOLEAN /\ b.null \in BOOLEAN
  BY ByteFacts
<1>2. ~b.null => SkipsKey(b, a)
  BY EqualToItself DEF SkipsKey
<1>3. NullsFirst(order) <=> NullsAskedFirst(order)
  BY DEF NullsFirst, NullsAskedFirst
<1>4. NullsAskedFirst(order) \in BOOLEAN
  BY DEF NullsAskedFirst
<1>5. ASSUME a.null # b.null, ~DecidedBefore(order, b, a) PROVE a.null <=> NullsAskedFirst(order)
  <2>1. CASE b.null
    <3>1. ~a.null /\ ~NullsFirst(order)
      BY <1>1, <1>5, <2>1 DEF DecidedBefore
    <3> QED
      BY <1>3, <3>1
  <2>2. CASE ~b.null
    <3>1. a.null
      BY <1>1, <1>5, <2>2
    <3>2. NullsFirst(order)
      BY <1>5, <2>2, <3>1 DEF DecidedBefore
    <3> QED
      BY <1>3, <3>1, <3>2
  <2> QED
    BY <2>1, <2>2
<1>6. a.null = b.null => ~Decides(b, a)
  BY <1>1, <1>2 DEF Decides
<1>7. a.null # b.null => Decides(b, a)
  BY <1>1 DEF Decides
<1> QED
  BY <1>1, <1>4, <1>5, <1>6, <1>7

NullsStand(n, a, b, k) ==
  (/\ \A m \in 1 .. k - 1 : Alike(a[m], b[m])
   /\ a[k].null # b[k].null)
  => a[k].null = NullsAskedFirst(n.order_bys[k])

LEMMA SortedNulls ==
  ASSUME NEW n, IsSort(n), NEW T, T = RowsOf(n.schema), NEW rows \in Seq(T),
         NEW sorted, Sorted(n, rows, sorted),
         NEW i \in DOMAIN sorted, NEW j \in DOMAIN sorted, i < j, NEW k \in DOMAIN n.order_bys
  PROVE  NullsStand(n, KeysOf(n, sorted[i]), KeysOf(n, sorted[j]), k)
<1>1. sorted \in Seq(T) /\ DOMAIN sorted = DOMAIN rows
  BY PermutedType DEF Sorted
<1>2. PICK a, b : a = KeysOf(n, sorted[i]) /\ b = KeysOf(n, sorted[j])
  OBVIOUS
<1>3. sorted[i] \in T /\ sorted[j] \in T
  BY <1>1
<1>4. \A m \in DOMAIN n.order_bys : a[m] \in Bytes /\ b[m] \in Bytes
  <2>1. ~Throws(a) /\ ~Throws(b)
    BY <1>1, <1>2, Zenon DEF Sorted
  <2> QED
    BY <1>2, <1>3, <2>1, KeysAreBytes, Zenon
<1>5. ~Before(n, b, a)
  BY <1>1, <1>2, Zenon DEF Sorted
<1>6. PICK K \in Nat : DOMAIN n.order_bys = 1 .. K
  BY ListDomain DEF IsSort
<1>7. ASSUME \A m \in 1 .. k - 1 : Alike(a[m], b[m]), a[k].null # b[k].null
      PROVE  a[k].null = NullsAskedFirst(n.order_bys[k])
  <2>1. PICK order : order = n.order_bys[k] /\ order.nulls \in {"DEFAULT", "NULLS_FIRST", "NULLS_LAST"}
    BY DEF IsSort
  <2>2. ASSUME NEW m \in 1 .. k - 1 PROVE ~Decides(b[m], a[m])
    <3>1. m \in DOMAIN n.order_bys
      BY <1>6
    <3>2. PICK x \in Bytes, y \in Bytes : x = a[m] /\ y = b[m] /\ x.null = y.null
      <4>1. PICK x \in Bytes, y \in Bytes : x = a[m] /\ y = b[m] /\ Alike(x, y)
        BY <1>4, <1>7, <3>1
      <4>2. x.null \in BOOLEAN /\ y.null \in BOOLEAN
        BY ByteFacts
      <4> QED
        BY <4>1, <4>2 DEF Alike
    <3>3. ~Decides(y, x)
      BY <2>1, <3>2, NullsDecide
    <3> QED
      BY <3>2, <3>3
  <2>3. PICK x \in Bytes, y \in Bytes : x = a[k] /\ y = b[k] /\ x.null # y.null
    BY <1>4, <1>7
  <2>4. Decides(y, x)
    BY <2>1, <2>3, NullsDecide
  <2>5. ~DecidedBefore(order, y, x)
    BY <1>5, <2>1, <2>2, <2>3, <2>4, Zenon DEF Before
  <2>6. x.null = NullsAskedFirst(order)
    BY <2>1, <2>3, <2>5, NullsDecide
  <2> QED
    BY <2>1, <2>3, <2>6
<1> QED
  BY <1>2, <1>7, Zenon DEF NullsStand

-----------------------------------------------------------------------------
(***************************************************************************)
(* A limit over batches.                                                   *)
(***************************************************************************)
Begins(x, y, z, k) == SubSeq((x \o y) \o z, 1, Len(x) + k) = x \o SubSeq(y, 1, k)

IsJoin(u, x, y, a, b) ==
  u = x \o y /\ Len(u) = a + b /\ \A i \in 1 .. a + b : u[i] = IF i <= a THEN x[i] ELSE y[i - a]
IsFront(h, s, m) == h = SubSeq(s, 1, m) /\ Len(h) = m /\ \A i \in 1 .. m : h[i] = s[i]

LEMMA JoinIs ==
  ASSUME NEW T, NEW x \in Seq(T), NEW y \in Seq(T), NEW a, NEW b, a = Len(x), b = Len(y)
  PROVE  \E u \in Seq(T) : IsJoin(u, x, y, a, b)
<1>1. /\ x \o y \in Seq(T) /\ Len(x \o y) = a + b
      /\ \A i \in 1 .. a + b : (x \o y)[i] = IF i <= a THEN x[i] ELSE y[i - a]
  BY ConcatProperties
<1> QED
  BY <1>1, Zenon DEF IsJoin

LEMMA FrontIs ==
  ASSUME NEW T, NEW s \in Seq(T), NEW m \in 0 .. Len(s)
  PROVE  \E h \in Seq(T) : IsFront(h, s, m)
<1>1. SubSeq(s, 1, m) \in Seq(T) /\ Len(SubSeq(s, 1, m)) = m
      /\ \A i \in 1 .. m : SubSeq(s, 1, m)[i] = s[i]
  OBVIOUS
<1> QED
  BY <1>1, Zenon DEF IsFront

LEMMA BeginningOfConcat ==
  ASSUME NEW T, NEW x \in Seq(T), NEW y \in Seq(T), NEW z \in Seq(T), NEW k \in 0 .. Len(y)
  PROVE  Begins(x, y, z, k)
<1>1. PICK a \in Nat, b \in Nat, c \in Nat : a = Len(x) /\ b = Len(y) /\ c = Len(z)
  OBVIOUS
<1>2. PICK u \in Seq(T) : IsJoin(u, x, y, a, b)
  BY <1>1, JoinIs
<1>3. PICK v \in Seq(T) : IsJoin(v, u, z, a + b, c)
  <2>1. Len(u) = a + b
    BY <1>2 DEF IsJoin
  <2> QED
    BY <1>1, <2>1, JoinIs, Zenon
<1>0. k \in 0 .. b /\ a + k \in 0 .. a + b + c
  BY <1>1
<1>4. PICK h \in Seq(T) : IsFront(h, y, k)
  BY <1>1, FrontIs
<1>5. PICK l \in Seq(T) : IsFront(l, v, a + k)
  <2>1. a + k \in 0 .. Len(v)
    BY <1>0, <1>3 DEF IsJoin
  <2> QED
    BY <2>1, FrontIs
<1>6. PICK r \in Seq(T) : IsJoin(r, x, h, a, k)
  <2>1. k = Len(h)
    BY <1>4 DEF IsFront
  <2> QED
    BY <1>1, <2>1, JoinIs
<1>7. ASSUME NEW i \in 1 .. a + k PROVE l[i] = r[i]
  <2>1. l[i] = v[i] /\ r[i] = IF i <= a THEN x[i] ELSE h[i - a]
    BY <1>5, <1>6, Zenon DEF IsFront, IsJoin
  <2>2. i \in 1 .. a + b + c /\ i <= a + b /\ i \in 1 .. a + b
    BY <1>0
  <2>3. v[i] = u[i] /\ u[i] = IF i <= a THEN x[i] ELSE y[i - a]
    BY <1>2, <1>3, <2>2, Zenon DEF IsJoin
  <2>4. CASE i <= a
    BY <2>1, <2>3, <2>4, Zenon
  <2>5. CASE ~(i <= a)
    <3>1. i - a \in 1 .. k
      BY <2>5
    <3>2. h[i - a] = y[i - a]
      BY <1>4, <3>1, Zenon DEF IsFront
    <3> QED
      BY <2>1, <2>3, <2>5, <3>2, Zenon
  <2> QED
    BY <2>4, <2>5
<1>8. l = r
  <2>1. Len(l) = a + k /\ Len(r) = a + k
    BY <1>5, <1>6 DEF IsFront, IsJoin
  <2>2. \A i \in 1 .. Len(l) : l[i] = r[i]
    BY <1>7, <2>1
  <2> QED
    BY <2>1, <2>2, SeqEqual, Zenon
<1> QED
  BY <1>1, <1>2, <1>3, <1>4, <1>5, <1>6, <1>8, Zenon DEF Begins, IsFront, IsJoin

LimitStream(n, T, gv, ch, ou, em) ==
  /\ Delivers(T \union {Garbage}, ou) /\ em \in 0 .. n.limit
  /\ \E c : /\ IsLeft(gv, ch, c)
            /\ Len(Flat(gv)) >= n.limit =>
                 /\ Flat(ou) = SubSeq(Flat(gv), 1, em)
                 /\ em < n.limit => em = Len(Flat(SubSeq(gv, 1, c)))

LimitStep(n, ch, em, fetch, taken) ==
  /\ fetch = Min({BatchSize, n.limit - em})
  /\ taken = [i \in 1 .. fetch |-> IF i <= Len(Pulled(ch)) THEN Pulled(ch)[i] ELSE Garbage]

Fetches(e, L, p, f) == f <= p /\ (e + f < L => f = p)

LEMMA LastFetch ==
  ASSUME NEW B \in Nat, NEW L \in Nat, NEW e \in Nat, NEW p \in Nat,
         e <= L, p < B, e + p >= L, NEW f, f = IF B <= L - e THEN B ELSE L - e
  PROVE  Fetches(e, L, p, f)
BY DEF Fetches

LEMMA LimitGoesOn ==
  ASSUME NEW n, n.limit \in Nat, NEW T, NEW gv \in Seq(Seq(T)), Sized(gv), FullTo(gv, Len(gv) - 1),
         NEW ch, NEW ou, NEW em, LimitStream(n, T, gv, ch, ou, em),
         NEW fetch, NEW taken, LimitStep(n, ch, em, fetch, taken)
  PROVE  /\ ch = <<>> \/ fetch = 0 =>
              LimitStream(n, T, gv, After(ch), ou, em) /\ (After(ch) = <<>> \/ em = n.limit)
         /\ ch # <<>> /\ fetch > 0 =>
              LimitStream(n, T, gv, After(ch), Append(ou, taken), em + fetch)
<1>1. PICK c : /\ IsLeft(gv, ch, c)
               /\ Len(Flat(gv)) >= n.limit =>
                    /\ Flat(ou) = SubSeq(Flat(gv), 1, em)
                    /\ em < n.limit => em = Len(Flat(SubSeq(gv, 1, c)))
  BY DEF LimitStream
<1>2. Delivers(T \union {Garbage}, ou)
  BY DEF LimitStream
<1>3. PICK d : /\ IsLeft(gv, After(ch), d)
               /\ Pulled(ch) \in Seq(T) /\ Len(Pulled(ch)) \in 0 .. BatchSize
               /\ ch # <<>> => Len(Pulled(ch)) > 0
               /\ Flat(SubSeq(gv, 1, d)) = Flat(SubSeq(gv, 1, c)) \o Pulled(ch)
               /\ ch # <<>> /\ Len(Pulled(ch)) < BatchSize => After(ch) = <<>>
               /\ d = IF ch = <<>> THEN c ELSE c + 1
  BY <1>1, PullIs, Zenon
<1>4. PICK L \in Nat, e \in Nat : L = n.limit /\ e = em /\ e <= L
  BY DEF LimitStream
<1>5. fetch = (IF BatchSize <= L - e THEN BatchSize ELSE L - e) /\ fetch \in Nat
  <2>1. BatchSize \in Int /\ L - e \in Int /\ BatchSize \in Nat /\ L - e \in Nat
    BY <1>4, QueryAssumption
  <2>2. Min({BatchSize, L - e}) = IF BatchSize <= L - e THEN BatchSize ELSE L - e
    BY <2>1, LesserIs, Zenon
  <2>3. fetch = IF BatchSize <= L - e THEN BatchSize ELSE L - e
    BY <1>4, <2>2, Zenon DEF LimitStep
  <2> QED
    BY <2>1, <2>3
<1>6. ASSUME ch = <<>> \/ fetch = 0
      PROVE  LimitStream(n, T, gv, After(ch), ou, em) /\ (After(ch) = <<>> \/ em = n.limit)
  <2>1. CASE ch = <<>>
    <3>1. After(ch) = ch
      BY <2>1 DEF After
    <3> QED
      BY <2>1, <3>1, Zenon
  <2>2. CASE fetch = 0
    <3>1. e = L
      BY <1>4, <1>5, <2>2, QueryAssumption
    <3>2. ~(em < n.limit) /\ em \in 0 .. n.limit /\ em = n.limit
      BY <1>4, <3>1
    <3> QED
      BY <1>1, <1>2, <1>3, <3>2, Zenon DEF LimitStream
  <2> QED
    BY <1>6, <2>1, <2>2
<1>7. ASSUME ch # <<>>, fetch > 0
      PROVE  LimitStream(n, T, gv, After(ch), Append(ou, taken), em + fetch)
  <2>1. PICK pulled \in Seq(T), p \in Nat : pulled = Pulled(ch) /\ p = Len(pulled) /\ p <= BatchSize
    BY <1>3
  <2>2. taken = [i \in 1 .. fetch |-> IF i <= p THEN pulled[i] ELSE Garbage]
    BY <2>1, Zenon DEF LimitStep
  <2>3. taken \in Seq(T \union {Garbage}) /\ Len(taken) = fetch
    <3>0. PICK U : U = T \union {Garbage}
      OBVIOUS
    <3>1. PICK f \in Nat : f = fetch /\ U = T \union {Garbage}
      BY <1>5, <3>0
    <3>2. ASSUME NEW i \in 1 .. f PROVE (IF i <= p THEN pulled[i] ELSE Garbage) \in U
      <4>1. i <= p => pulled[i] \in T
        BY <2>1
      <4> QED
        BY <3>1, <4>1, Zenon
    <3>3. taken = [i \in 1 .. f |-> IF i <= p THEN pulled[i] ELSE Garbage]
      BY <2>2, <3>1, Zenon
    <3>4. taken \in [1 .. f -> U]
      BY <3>2, <3>3
    <3>5. taken \in Seq(U) /\ Len(taken) = f
      BY <3>4
    <3> QED
      BY <3>1, <3>5, Zenon
  <2>4. e < L /\ fetch <= BatchSize /\ e + fetch <= L /\ (e + fetch < L => fetch = BatchSize)
    BY <1>4, <1>5, <1>7, QueryAssumption
  <2>5. /\ Append(ou, taken) \in Seq(Seq(T \union {Garbage})) /\ Sized(Append(ou, taken))
        /\ Flat(Append(ou, taken)) = Flat(ou) \o taken
    <3>1. Len(taken) \in 1 .. BatchSize
      BY <1>5, <1>7, <2>3, <2>4, QueryAssumption
    <3>2. Delivers(T \union {Garbage}, Append(ou, taken))
      BY <1>2, <2>3, <3>1, DeliverAnother, Zenon
    <3>3. Flat(Append(ou, taken)) = Flat(ou) \o taken
      BY <1>2, <2>3, FlatAppend, Zenon DEF Delivers
    <3> QED
      BY <3>2, <3>3, Zenon DEF Delivers
  <2>6. ASSUME Len(Flat(gv)) >= n.limit
        PROVE  /\ Flat(Append(ou, taken)) = SubSeq(Flat(gv), 1, e + fetch)
               /\ e + fetch < L => e + fetch = Len(Flat(SubSeq(gv, 1, d)))
    <3>1. d \in 0 .. Len(gv) /\ c \in 0 .. Len(gv)
      BY <1>1, <1>3, Zenon DEF IsLeft
    <3>2. PICK x \in Seq(T), z \in Seq(T), all \in Seq(T) :
            /\ x = Flat(SubSeq(gv, 1, c)) /\ all = Flat(gv)
            /\ all = Flat(SubSeq(gv, 1, d)) \o z
            /\ d = Len(gv) => all = Flat(SubSeq(gv, 1, d))
      <4>1. Flat(gv) = Flat(SubSeq(gv, 1, d)) \o Flat(SubSeq(gv, d + 1, Len(gv)))
        BY <3>1, FlatSplit, Zenon
      <4>2. SubSeq(gv, d + 1, Len(gv)) \in Seq(Seq(T)) /\ SubSeq(gv, 1, c) \in Seq(Seq(T))
        BY <3>1, SplitAt, Zenon
      <4>3. /\ Flat(SubSeq(gv, d + 1, Len(gv))) \in Seq(T) /\ Flat(SubSeq(gv, 1, c)) \in Seq(T)
            /\ Flat(gv) \in Seq(T)
        BY <4>2, FlatType, Zenon
      <4>4. d = Len(gv) => Flat(gv) = Flat(SubSeq(gv, 1, d))
        <5>1. SubSeq(gv, 1, Len(gv)) = gv
          BY SubSeqFull, Zenon
        <5> QED
          BY <5>1, Zenon
      <4> QED
        BY <4>1, <4>3, <4>4, Zenon
    <3>3. PICK y \in Seq(T) : y = x \o pulled /\ Len(y) = Len(x) + p
      BY <2>1, ConcatType, ConcatProperties
    <3>4. y = Flat(SubSeq(gv, 1, d)) /\ all = y \o z
      BY <1>3, <2>1, <3>2, <3>3, Zenon
    <3>5. Len(x) = e
      BY <1>1, <1>4, <2>4, <2>6, <3>2, Zenon
    <3>6. fetch <= p /\ (e + fetch < L => fetch = p)
      <4>1. CASE p = BatchSize
        BY <2>4, <4>1
      <4>2. CASE p # BatchSize
        <5>1. p < BatchSize
          BY <2>1, <4>2, QueryAssumption
        <5>2. After(ch) = <<>>
          BY <1>3, <1>7, <2>1, <5>1, Zenon
        <5>3. d = Len(gv)
          <6>1. PICK S, t : S = Seq(T) /\ t = After(ch)
            OBVIOUS
          <6>2. gv \in Seq(S) /\ IsLeft(gv, t, d)
            BY <1>3, <6>1, Zenon
          <6>3. t = <<>> <=> d = Len(gv)
            BY <6>2, LeftIs
          <6> QED
            BY <5>2, <6>1, <6>3, Zenon
        <5>4. all = y
          BY <3>2, <3>4, <5>3, Zenon
        <5>5. Len(all) >= L
          BY <1>4, <2>6, <3>2, Zenon
        <5>6. e + p >= L
          BY <3>3, <3>5, <5>4, <5>5, Zenon
        <5> QED
          <6>1. PICK B \in Nat : B = BatchSize /\ p < B
            BY <5>1, QueryAssumption
          <6>2. fetch = IF B <= L - e THEN B ELSE L - e
            BY <1>5, <6>1, Zenon
          <6> QED
            <7>1. e <= L /\ p < B /\ e + p >= L
              BY <1>4, <5>6, <6>1
            <7>2. Fetches(e, L, p, fetch)
              BY <6>2, <7>1, LastFetch, Zenon
            <7> QED
              BY <7>2 DEF Fetches
      <4> QED
        BY <4>1, <4>2
    <3>7. taken = SubSeq(pulled, 1, fetch)
      <4>0. fetch \in 0 .. Len(pulled)
        BY <1>5, <2>1, <3>6
      <4>1. PICK h \in Seq(T) : IsFront(h, pulled, fetch)
        BY <4>0, FrontIs
      <4>2. ASSUME NEW i \in 1 .. fetch PROVE taken[i] = h[i]
        <5>1. i <= p
          BY <1>5, <2>1, <3>6
        <5>2. taken[i] = IF i <= p THEN pulled[i] ELSE Garbage
          BY <2>2, Zenon
        <5> QED
          BY <4>1, <5>1, <5>2, Zenon DEF IsFront
      <4>3. taken \in Seq(T \union {Garbage}) /\ h \in Seq(T \union {Garbage})
        BY <2>3, <4>1
      <4>4. \A i \in 1 .. Len(taken) : taken[i] = h[i]
        BY <2>3, <4>2, Zenon
      <4> QED
        BY <2>3, <4>1, <4>3, <4>4, SeqEqual, Zenon DEF IsFront
    <3>8. Flat(ou) = x
      <4>1. Begins(x, pulled, z, 0)
        <5>1. 0 \in 0 .. Len(pulled)
          BY <2>1
        <5> QED
          BY <5>1, BeginningOfConcat, Zenon
      <4>2. SubSeq(pulled, 1, 0) = <<>> /\ x \o <<>> = x
        BY SubSeqEmpty, ConcatEmptySeq
      <4>3. SubSeq(all, 1, Len(x) + 0) = x
        BY <3>3, <3>4, <4>1, <4>2, Zenon DEF Begins
      <4>4. e + 0 = e
        OBVIOUS
      <4> QED
        BY <1>1, <1>4, <2>6, <3>2, <3>5, <4>3, <4>4, Zenon
    <3>9. Begins(x, pulled, z, fetch)
      <4>1. fetch \in 0 .. Len(pulled)
        BY <1>5, <2>1, <3>6
      <4> QED
        BY <4>1, BeginningOfConcat, Zenon
    <3>10. Flat(Append(ou, taken)) = SubSeq(Flat(gv), 1, e + fetch)
      BY <2>5, <3>2, <3>3, <3>4, <3>5, <3>7, <3>8, <3>9, Zenon DEF Begins
    <3>11. e + fetch < L => e + fetch = Len(y)
      BY <3>3, <3>5, <3>6, Zenon
    <3>12. e + fetch < L => e + fetch = Len(Flat(SubSeq(gv, 1, d)))
      BY <3>4, <3>11, Zenon
    <3> QED
      BY <3>10, <3>12, Zenon
  <2>7. em + fetch \in 0 .. n.limit
    BY <1>4, <1>5, <2>4
  <2> QED
    BY <1>3, <1>4, <2>5, <2>6, <2>7, Zenon DEF LimitStream, Delivers
<1> QED
  BY <1>6, <1>7, Zenon

LEMMA LimitEnds ==
  ASSUME NEW n, n.limit \in Nat, NEW T, NEW gv \in Seq(Seq(T)), NEW ch, NEW ou, NEW em,
         LimitStream(n, T, gv, ch, ou, em), ch = <<>> \/ em = n.limit,
         Len(Flat(gv)) >= n.limit
  PROVE  Flat(ou) = SubSeq(Flat(gv), 1, n.limit)
<1>1. PICK c : /\ IsLeft(gv, ch, c)
               /\ Flat(ou) = SubSeq(Flat(gv), 1, em)
               /\ em < n.limit => em = Len(Flat(SubSeq(gv, 1, c)))
  BY DEF LimitStream
<1>2. em \in 0 .. n.limit
  BY DEF LimitStream
<1>3. em = n.limit
  <2>1. SUFFICES ASSUME em # n.limit PROVE FALSE
    OBVIOUS
  <2>2. em < n.limit
    BY <1>2, <2>1
  <2>3. PICK S : S = Seq(T)
    OBVIOUS
  <2>4. gv \in Seq(S)
    BY <2>3
  <2>5. ch = <<>> <=> c = Len(gv)
    BY <1>1, <2>4, LeftIs
  <2>6. SubSeq(gv, 1, c) = gv
    <3>1. SubSeq(gv, 1, Len(gv)) = gv
      BY SubSeqFull, Zenon
    <3> QED
      BY <2>1, <2>5, <3>1, Zenon
  <2>7. em = Len(Flat(gv))
    BY <1>1, <2>2, <2>6, Zenon
  <2> QED
    BY <2>2, <2>7
<1> QED
  BY <1>1, <1>3, Zenon

-----------------------------------------------------------------------------
(***************************************************************************)
(* The groups of an aggregation are a sequence.                            *)
(***************************************************************************)
LEMMA FunctionIsList ==
  ASSUME NEW n \in Nat, NEW f, f = [i \in 1 .. n |-> f[i]]
  PROVE  IsList(f) /\ Len(f) = n /\ DOMAIN f = 1 .. n
<1>1. PICK T : T = {f[i] : i \in 1 .. n}
  OBVIOUS
<1>2. f \in [1 .. n -> T]
  BY <1>1
<1>3. Len(f) = n /\ DOMAIN f = 1 .. n
  BY <1>2
<1> QED
  BY <1>3 DEF IsList

LEMMA ListIsSeq ==
  ASSUME NEW s, IsList(s)
  PROVE  \E T : s \in Seq(T)
<1>1. \A i \in 1 .. Len(s) : s[i] \in {s[j] : j \in 1 .. Len(s)}
  OBVIOUS
<1> QED
  BY <1>1, ListDomain

LEMMA SeqIsList ==
  ASSUME NEW T, NEW s \in Seq(T)
  PROVE  IsList(s)
BY DEF IsList

LEMMA CombinedIsList ==
  ASSUME NEW functions, NEW old, IsList(old), NEW key, NEW args
  PROVE  IsList(InsertCombine(functions, old, key, args))
<1> DEFINE same == {g \in DOMAIN old : SameKey(old[g].key, key)}
           at == IF same = {} THEN Len(old) + 1 ELSE CHOOSE g \in same : TRUE
           fresh == [key |-> key, states |-> [f \in DOMAIN functions |-> FreshState]]
           grown == IF same # {} THEN old ELSE Append(old, fresh)
           changed(s) == [f \in DOMAIN functions |->
                             IF f <= Len(args) THEN Update(functions[f], s[f], args[f]) ELSE s[f]]
<1>1. IsList(grown)
  <2>1. CASE same # {}
    BY <2>1
  <2>2. CASE same = {}
    <3>1. PICK T : old \in Seq(T)
      BY ListIsSeq
    <3>2. old \in Seq(T \union {fresh}) /\ fresh \in T \union {fresh}
      BY <3>1
    <3>3. Append(old, fresh) \in Seq(T \union {fresh})
      BY <3>2, AppendProperties, Zenon
    <3>4. grown = Append(old, fresh)
      BY <2>2
    <3> QED
      BY <3>3, <3>4, SeqIsList, Zenon
  <2> QED
    BY <2>1, <2>2
<1>2. PICK n \in Nat : n = Len(grown) /\ DOMAIN grown = 1 .. n
  BY <1>1, ListDomain, Zenon
<1>3. PICK r : r = InsertCombine(functions, old, key, args)
  OBVIOUS
<1>4. r = [grown EXCEPT ![at].states = changed(@)]
  BY <1>3, Zenon DEF InsertCombine
<1> HIDE DEF grown, at, changed
<1>5. r = [i \in 1 .. n |-> r[i]]
  BY <1>2, <1>4
<1> QED
  BY <1>3, <1>5, FunctionIsList, Zenon

KeyFor(n, tuple) == [i \in DOMAIN n.group_bys |-> Evaluate(n.group_bys[i], n.schema, tuple)]
ArgsFor(n, tuple) == [i \in DOMAIN n.aggregates |-> Evaluate(n.aggregates[i], n.schema, tuple)]
GroupStep(n, rows, old, i) ==
  IF Broken(old) THEN old
  ELSE InsertCombine(n.functions, old, KeyFor(n, rows[i]), ArgsFor(n, rows[i]))
GroupRun(n, rows, f, m) ==
  f = [i \in 0 .. m |-> IF i = 0 THEN <<>> ELSE GroupStep(n, rows, f[i - 1], i)]

LEMMA GroupRunExists ==
  ASSUME NEW n, NEW rows, NEW N \in Nat
  PROVE  \E f : GroupRun(n, rows, f, N)
<1> DEFINE Some(m) == \E f : GroupRun(n, rows, f, m)
           S == {m \in 0 .. N : Some(m)}
<1>1. Some(0)
  <2>1. PICK f : f = [i \in 0 .. 0 |-> <<>>]
    OBVIOUS
  <2>2. [i \in 0 .. 0 |-> <<>>]
          = [i \in 0 .. 0 |-> IF i = 0 THEN <<>> ELSE GroupStep(n, rows, f[i - 1], i)]
    OBVIOUS
  <2>3. GroupRun(n, rows, f, 0)
    BY <2>1, <2>2 DEF GroupRun
  <2> QED
    BY <2>3
<1>2. ASSUME NEW m \in 1 .. N, Some(m - 1) PROVE Some(m)
  <2>1. PICK f : f = [i \in 0 .. m - 1 |-> IF i = 0 THEN <<>> ELSE GroupStep(n, rows, f[i - 1], i)]
    BY <1>2 DEF GroupRun
  <2>2. PICK new : new = GroupStep(n, rows, f[m - 1], m)
    OBVIOUS
  <2>3. PICK g : g = [i \in 0 .. m |-> IF i = m THEN new ELSE f[i]]
    OBVIOUS
  <2>4. ASSUME NEW i \in 0 .. m
        PROVE  g[i] = IF i = 0 THEN <<>> ELSE GroupStep(n, rows, g[i - 1], i)
    <3>1. i # 0 => i - 1 \in 0 .. m /\ i - 1 # m /\ g[i - 1] = f[i - 1]
      BY <2>3
    <3>2. CASE i = m
      <4>1. g[i] = new /\ i # 0
        BY <2>3, <3>2
      <4>2. new = GroupStep(n, rows, f[i - 1], i)
        BY <2>2, <3>2
      <4> QED
        BY <3>1, <4>1, <4>2, Zenon
    <3>3. CASE i # m
      <4>1. i \in 0 .. m - 1 /\ g[i] = f[i]
        BY <2>3, <3>3
      <4>2. f[i] = IF i = 0 THEN <<>> ELSE GroupStep(n, rows, f[i - 1], i)
        BY <2>1, <4>1, Zenon
      <4> QED
        BY <3>1, <4>1, <4>2, Zenon
    <3> QED
      BY <3>2, <3>3
  <2>5. g = [i \in 0 .. m |-> g[i]]
    BY <2>3
  <2>6. [i \in 0 .. m |-> g[i]]
          = [i \in 0 .. m |-> IF i = 0 THEN <<>> ELSE GroupStep(n, rows, g[i - 1], i)]
    BY <2>4, Zenon
  <2>7. GroupRun(n, rows, g, m)
    BY <2>5, <2>6, Zenon DEF GroupRun
  <2> QED
    BY <2>7
<1>3. 0 .. N \subseteq S
  <2> HIDE DEF Some
  <2>1. 0 \in S
    BY <1>1
  <2>2. \A m \in 1 .. N : m - 1 \in S => m \in S
    BY <1>2
  <2> HIDE DEF S
  <2> QED
    BY <2>1, <2>2, UpToInduction
<1> QED
  <2> HIDE DEF Some
  <2>1. Some(N)
    BY <1>3
  <2> QED
    BY <2>1 DEF Some

LEMMA GroupsAreListed ==
  ASSUME NEW rows, Len(rows) \in Nat
  PROVE  IsList(GroupsOf(rows))
<1>0. PICK n : n = node
  OBVIOUS
<1>1. PICK N \in Nat : N = Len(rows) /\ n = node
  BY <1>0
<1>2. PICK f : f = CHOOSE g : GroupRun(node, rows, g, Len(rows))
  OBVIOUS
<1>3. GroupRun(n, rows, f, N)
  BY <1>1, <1>2, GroupRunExists, Zenon
<1>4. IsList(<<>>)
  BY DEF IsList
<1> DEFINE S == {m \in 0 .. N : IsList(f[m])}
<1>5. 0 \in S
  BY <1>3, <1>4 DEF GroupRun
<1>6. ASSUME NEW m \in 1 .. N, m - 1 \in S PROVE m \in S
  <2>1. f[m] = GroupStep(n, rows, f[m - 1], m)
    <3>1. m \in 0 .. N /\ m # 0
      OBVIOUS
    <3> QED
      BY <1>3, <3>1, Zenon DEF GroupRun
  <2>2. IsList(f[m - 1])
    BY <1>6
  <2>3. IsList(GroupStep(n, rows, f[m - 1], m))
    BY <2>2, CombinedIsList, Zenon DEF GroupStep
  <2> QED
    BY <2>1, <2>3
<1>7. 0 .. N \subseteq S
  <2> HIDE DEF S
  <2> QED
    BY <1>5, <1>6, UpToInduction
<1>8. IsList(f[N])
  BY <1>7
<1>9. PICK none : none = [h \in DOMAIN node.functions |-> Uninitialised("INVALID")]
  OBVIOUS
<1>10. GroupsOf(rows) = IF f[N] = <<>> /\ n.group_bys = <<>>
                        THEN InsertCombine(n.functions, <<>>, <<>>, none) ELSE f[N]
  <2>1. GroupsOf(rows) =
          LET all == (CHOOSE g : GroupRun(node, rows, g, Len(rows)))[Len(rows)]
          IN  IF all = <<>> /\ node.group_bys = <<>>
              THEN InsertCombine(node.functions, <<>>, <<>>,
                                 [h \in DOMAIN node.functions |-> Uninitialised("INVALID")])
              ELSE all
    BY Zenon
       DEF GroupsOf, GroupRun, GroupStep, KeyFor, ArgsFor, AggregateKeyOf, AggregateArgs
  <2> QED
    BY <1>1, <1>2, <1>9, <2>1, Zenon
<1> QED
  BY <1>4, <1>8, <1>10, CombinedIsList, Zenon

-----------------------------------------------------------------------------
(***************************************************************************)
(* The invariant: the node that runs has made of what it read what it      *)
(* should have, and the rest is still before it.                           *)
(***************************************************************************)
RowsIn(n, tab) ==
  IF n.kind = "filter" THEN {MakeTuple(tab[i]) : i \in DOMAIN tab} ELSE RowsOf(n.schema)
PlanOK(pl, tab, gv) ==
  /\ Runnable(pl) /\ tab \in Tables
  /\ gv \in Seq(Seq(RowsIn(Head(pl), tab))) /\ Sized(gv) /\ FullTo(gv, Len(gv) - 1)
  /\ Head(pl).kind = "filter" => \A i \in DOMAIN tab : FitsSchema(tab[i], Head(pl).schema)
StatusOK(n, st) ==
  /\ st \in {"init", "running", "done", "failed"}
  /\ st = "init" => n.kind \in {"sort", "aggregate"}
FilterOK(n, T, gv, ch, buf, off, ba, ou, st) ==
  /\ FilterStream(n, T, gv, ch, buf, off, ba, ou)
  /\ st = "done" => Idle(ch, buf, off, ba)
ProjectionOK(n, T, gv, ch, buf, off, ou, st) ==
  /\ ProjectionStream(n, T, gv, ch, buf, off, ou)
  /\ st = "done" => Idle(ch, buf, off, <<>>)
SortOK(n, T, gv, ch, ou, en, st) ==
  /\ st = "init" => ch = gv /\ ou = <<>>
  /\ st # "init" => SortStream(n, T, gv, ou, en)
  /\ st = "done" => en = <<>>
LimitOK(n, T, gv, ch, ou, em, st) ==
  /\ LimitStream(n, T, gv, ch, ou, em)
  /\ st = "done" => ch = <<>> \/ em = n.limit
AggregateOK(gv, ch, ou, en, st) ==
  IsList(ou) /\ IsList(en) /\ (st = "init" => ch = gv)
Works(n, T, gv, ch, buf, off, ba, en, em, ou, st) ==
  /\ n.kind = "filter"     => FilterOK(n, T, gv, ch, buf, off, ba, ou, st)
  /\ n.kind = "projection" => ProjectionOK(n, T, gv, ch, buf, off, ou, st)
  /\ n.kind = "sort"       => SortOK(n, T, gv, ch, ou, en, st)
  /\ n.kind = "limit"      => LimitOK(n, T, gv, ch, ou, em, st)
  /\ n.kind = "aggregate"  => AggregateOK(gv, ch, ou, en, st)
QueryInv ==
  /\ PlanOK(plan, table, given) /\ StatusOK(node, status) /\ Sized(out)
  /\ status # "failed" => Works(node, RowsIn(node, table), given, child, buffer, offset, batch,
                                entries, emitted, out, status)

(* A tree's type is one of the types it is built over. *)
LEMMA TreeTyped ==
  ASSUME NEW expr, NEW schema, IsSchema(schema), WellTyped(expr, schema)
  PROVE  Last(expr).type \in ByteTypes
<1>1. PICK S : expr \in Seq(S)
  BY ListIsSeq DEF WellTyped
<1>2. Len(expr) \in DOMAIN expr /\ expr # <<>>
  BY <1>1 DEF WellTyped
<1>3. PICK i \in DOMAIN expr : i = Len(expr)
  BY <1>2
<1>4. Last(expr) = expr[i]
  BY <1>3 DEF Last
<1>5. \/ expr[i].node = "column" /\ expr[i].index \in DOMAIN schema /\ expr[i].type = schema[expr[i].index]
      \/ expr[i].value \in Bytes /\ expr[i].type = expr[i].value.type
      \/ expr[i].type \in ByteTypes
  BY <1>3 DEF WellTyped, ByteTypes
<1>6. expr[i].value \in Bytes => expr[i].value.type \in ByteTypes
  BY ByteFacts
<1> QED
  BY <1>4, <1>5, <1>6 DEF IsSchema

LEMMA NodeIs ==
  ASSUME NEW pl, Runnable(pl), NEW n, n = Head(pl)
  PROVE  /\ n = pl[1] /\ WellFormed(n) /\ IsSchema(n.schema)
         /\ n.kind = "projection" => IsProjection(n)
         /\ n.kind = "sort" => IsSort(n)
         /\ n.kind = "limit" => n.limit \in Nat
<1>1. PICK S : pl \in Seq(S)
  BY ListIsSeq DEF Runnable
<1>2. pl # <<>> /\ 1 \in DOMAIN pl
  BY <1>1 DEF Runnable
<1>3. n = pl[1]
  BY <1>1, <1>2
<1>4. WellFormed(n)
  BY <1>2, <1>3 DEF Runnable
<1>5. IsSchema(n.schema)
  BY <1>4 DEF WellFormed, IsSchema, ByteTypes
<1>6. ASSUME n.kind = "projection"
      PROVE  IsProjection(n)
  <2>1. /\ IsList(n.output) /\ DOMAIN n.expressions = DOMAIN n.output
        /\ \A i \in DOMAIN n.output : /\ WellTyped(n.expressions[i], n.schema)
                                      /\ Last(n.expressions[i]).type = n.output[i]
    BY <1>4, <1>6 DEF WellFormed
  <2>2. \A i \in DOMAIN n.output : n.output[i] \in ByteTypes
    BY <1>5, <2>1, TreeTyped
  <2> QED
    BY <1>5, <2>1, <2>2 DEF IsProjection, IsSchema
<1>7. n.kind = "sort" => IsSort(n)
  BY <1>4, <1>5 DEF WellFormed, IsSort
<1>8. n.kind = "limit" => n.limit \in Nat
  BY <1>4 DEF WellFormed
<1> QED
  BY <1>3, <1>4, <1>5, <1>6, <1>7, <1>8, Zenon

LEMMA NothingDelivered ==
  ASSUME NEW T
  PROVE  /\ Delivers(T, <<>>) /\ FullTo(<<>>, Len(<<>>)) /\ Len(<<>>) = 0
         /\ Sized(<<>>) /\ IsList(<<>>)
<1>1. <<>> \in Seq(Seq(T)) /\ Len(<<>>) = 0 /\ DOMAIN <<>> = {}
  OBVIOUS
<1>2. Sized(<<>>) /\ FullTo(<<>>, Len(<<>>))
  BY <1>1 DEF Sized, FullTo
<1>3. IsList(<<>>)
  BY <1>1, SeqIsList
<1> QED
  BY <1>1, <1>2, <1>3 DEF Delivers

LEMMA NothingBuffered ==
  ASSUME NEW T
  PROVE  Buffers(T, <<>>, 0, <<>>)
<1>1. BatchSize \in Nat /\ BatchSize > 0
  BY QueryAssumption
<1>2. <<>> \in Seq(T) /\ Len(<<>>) = 0
  OBVIOUS
<1> QED
  BY <1>1, <1>2 DEF Buffers

LEMMA FilterStarts ==
  ASSUME NEW n, NEW T, NEW gv \in Seq(Seq(T))
  PROVE  FilterStream(n, T, gv, gv, <<>>, 0, <<>>, <<>>)
<1>1. Buffers(T, <<>>, 0, <<>>) /\ Delivers(T, <<>>) /\ FullTo(<<>>, Len(<<>>))
  BY NothingBuffered, NothingDelivered
<1>2. Reading(gv, gv, <<>>, 0, <<>>)
  BY ReadingStarts
<1>3. Flat(<<>>) \o <<>> = Kept(n, <<>>)
  BY FlatEmpty, KeptEmpty
<1>4. <<>> \in Seq(T)
  OBVIOUS
<1> QED
  BY <1>1, <1>2, <1>3, <1>4, Zenon DEF FilterStream

LEMMA ProjectionStarts ==
  ASSUME NEW n, NEW T, NEW gv \in Seq(Seq(T))
  PROVE  ProjectionStream(n, T, gv, gv, <<>>, 0, <<>>)
<1>1. Buffers(T, <<>>, 0, <<>>) /\ Delivers(RowsOf(n.output), <<>>) /\ FullTo(<<>>, Len(<<>>))
  BY NothingBuffered, NothingDelivered
<1>2. Reading(gv, gv, <<>>, 0, <<>>)
  BY ReadingStarts
<1>3. Flat(<<>>) = ProjectBy(n, <<>>)
  <2>1. ProjectBy(n, <<>>) = <<>>
    BY SMTT(20) DEF ProjectBy
  <2> QED
    BY <2>1, FlatEmpty
<1>4. NoThrow(n, <<>>)
  BY DEF NoThrow
<1>5. <<>> \in Seq(T)
  OBVIOUS
<1> QED
  BY <1>1, <1>2, <1>3, <1>4, <1>5, Zenon DEF ProjectionStream

LEMMA LimitStarts ==
  ASSUME NEW n, n.limit \in Nat, NEW T, NEW gv \in Seq(Seq(T))
  PROVE  LimitStream(n, T, gv, gv, <<>>, 0)
<1>1. Delivers(T \union {Garbage}, <<>>)
  BY NothingDelivered
<1>2. IsLeft(gv, gv, 0)
  <2>1. PICK S : S = Seq(T)
    OBVIOUS
  <2>2. gv \in Seq(S)
    BY <2>1
  <2> QED
    BY <2>2 DEF IsLeft
<1>3. Flat(<<>>) = SubSeq(Flat(gv), 1, 0)
  <2>1. PICK s \in Seq(T) : s = Flat(gv)
    BY FlatType
  <2>2. SubSeq(s, 1, 0) = <<>>
    OBVIOUS
  <2> QED
    BY <2>1, <2>2, FlatEmpty
<1>4. 0 = Len(Flat(SubSeq(gv, 1, 0)))
  <2>1. PICK S : S = Seq(T)
    OBVIOUS
  <2>2. SubSeq(gv, 1, 0) = <<>>
    <3>1. gv \in Seq(S)
      BY <2>1
    <3> QED
      BY <3>1
  <2>3. Flat(SubSeq(gv, 1, 0)) = <<>>
    BY <2>2, FlatEmpty, Zenon
  <2>4. Len(<<>>) = 0
    OBVIOUS
  <2> QED
    BY <2>3, <2>4, Zenon
<1> QED
  BY <1>1, <1>2, <1>3, <1>4 DEF LimitStream

(* A node starts with everything before it. *)
LEMMA WorksStarts ==
  ASSUME NEW n, WellFormed(n), NEW T, NEW gv \in Seq(Seq(T)), NEW st,
         st = IF n.kind \in {"sort", "aggregate"} THEN "init" ELSE "running"
  PROVE  StatusOK(n, st) /\ Works(n, T, gv, gv, <<>>, 0, <<>>, <<>>, 0, <<>>, st)
<1>1. StatusOK(n, st) /\ st # "done"
  BY DEF StatusOK
<1>2. FilterOK(n, T, gv, gv, <<>>, 0, <<>>, <<>>, st)
  BY <1>1, FilterStarts DEF FilterOK
<1>3. ProjectionOK(n, T, gv, gv, <<>>, 0, <<>>, st)
  BY <1>1, ProjectionStarts DEF ProjectionOK
<1>4. n.kind = "sort" => SortOK(n, T, gv, gv, <<>>, <<>>, st)
  BY <1>1 DEF SortOK
<1>5. n.kind = "limit" => LimitOK(n, T, gv, gv, <<>>, 0, st)
  BY <1>1, LimitStarts DEF LimitOK, WellFormed
<1>6. AggregateOK(gv, gv, <<>>, <<>>, st)
  BY <1>1, NothingDelivered DEF AggregateOK
<1> QED
  BY <1>1, <1>2, <1>3, <1>4, <1>5, <1>6 DEF Works

-----------------------------------------------------------------------------
(***************************************************************************)
(* The operators of the running node are those of any node.                *)
(***************************************************************************)
LEMMA NodeOperators ==
  ASSUME NEW rows, NEW w, NEW tuple, NEW a, NEW b
  PROVE  /\ Selected(rows) = Kept(node, rows) /\ Reach(rows, w) = ReachOf(node, rows, w)
         /\ Projected(tuple) = ProjectedBy(node, tuple) /\ Project(rows) = ProjectBy(node, rows)
         /\ SortKeys(tuple) = KeysOf(node, tuple) /\ GoesBefore(a, b) <=> Before(node, a, b)
<1>1. Selected(rows) = Kept(node, rows)
  BY Zenon DEF Selected, Kept, KeptPart, Passes, Verdict, Keeps
<1>2. Reach(rows, w) = ReachOf(node, rows, w)
  BY Zenon DEF Reach, ReachOf, Selected, Kept, KeptPart, Passes, Verdict, Keeps
<1>3. Projected(tuple) = ProjectedBy(node, tuple)
  BY Zenon DEF Projected, ProjectedBy
<1>4. Project(rows) = ProjectBy(node, rows)
  BY Zenon DEF Project, ProjectBy, Projected, ProjectedBy
<1>5. SortKeys(tuple) = KeysOf(node, tuple)
  BY Zenon DEF SortKeys, KeysOf
<1>6. GoesBefore(a, b) <=> Before(node, a, b)
  BY Zenon DEF GoesBefore, Before
<1> QED
  BY <1>1, <1>2, <1>3, <1>4, <1>5, <1>6, Zenon

LEMMA QueryStarts == Init => QueryInv
<1> SUFFICES ASSUME Init
             PROVE  QueryInv
  OBVIOUS
<1>1. PICK tab \in Tables : tab = table
  BY DEF Init
<1>2. PICK pl \in Plans : pl = plan
  BY DEF Init
<1>3. PICK n : n = Head(pl)
  OBVIOUS
<1>4. Runnable(pl) /\ IsList(tab) /\ \A i \in DOMAIN tab : FitsSchema(tab[i], pl[1].schema)
  BY QueryAssumption
<1>5. n = pl[1] /\ WellFormed(n) /\ IsSchema(n.schema)
  BY <1>3, <1>4, NodeIs
<1>6. PICK T : T = RowsIn(n, tab)
  OBVIOUS
<1>7. PICK rows : rows = [i \in DOMAIN tab |-> MakeTuple(tab[i])]
  OBVIOUS
<1>8. \A i \in DOMAIN tab : FitsSchema(tab[i], n.schema)
  BY <1>4, <1>5
<1>9. \A i \in DOMAIN tab : MakeTuple(tab[i]) \in T
  BY <1>5, <1>6, <1>8, TupleFits, Zenon DEF RowsIn
<1>10. rows \in Seq(T)
  <2>1. PICK k \in Nat : k = Len(tab) /\ DOMAIN tab = 1 .. k
    BY <1>4, ListDomain
  <2>2. rows = [i \in 1 .. k |-> rows[i]] /\ \A i \in 1 .. k : rows[i] \in T
    BY <1>7, <1>9, <2>1
  <2>3. IsList(rows) /\ Len(rows) = k
    BY <2>2, FunctionIsList
  <2> QED
    BY <2>2, <2>3, ListDomain
<1>11. PICK gv \in Seq(Seq(T)) : gv = Chunks(rows)
  BY <1>10, ChunksAre
<1>12. Sized(gv) /\ FullTo(gv, Len(gv) - 1)
  BY <1>10, <1>11, ChunksAre
<1>13. /\ given = gv /\ child = gv /\ buffer = <<>> /\ offset = 0 /\ batch = <<>>
       /\ entries = <<>> /\ emitted = 0 /\ out = <<>>
  BY <1>1, <1>7, <1>11 DEF Init
<1>14. node = n
  BY <1>2, <1>3 DEF node
<1>15. PICK st : st = status
  OBVIOUS
<1>16. st = IF n.kind \in {"sort", "aggregate"} THEN "init" ELSE "running"
  BY <1>2, <1>3, <1>15 DEF Init
<1>17. StatusOK(n, st) /\ Works(n, T, gv, gv, <<>>, 0, <<>>, <<>>, 0, <<>>, st)
  BY <1>5, <1>16, WorksStarts
<1>18. PlanOK(pl, tab, gv)
  BY <1>1, <1>3, <1>4, <1>6, <1>8, <1>12, Zenon DEF PlanOK
<1>19. Sized(<<>>)
  BY NothingDelivered
<1> QED
  BY <1>1, <1>2, <1>6, <1>13, <1>14, <1>15, <1>17, <1>18, <1>19, Zenon DEF QueryInv

-----------------------------------------------------------------------------
(***************************************************************************)
(* The steps of a node keep the invariant.                                 *)
(***************************************************************************)
(* The plan, the table and what the node was given stay.                   *)
Stays == UNCHANGED <<table, plan, given>>

LEMMA NodeStays ==
  ASSUME QueryInv, Stays, StatusOK(node, status'), Sized(out'),
         status' # "failed" => Works(node, RowsIn(node, table), given, child', buffer', offset',
                                     batch', entries', emitted', out', status')
  PROVE  QueryInv'
<1>1. node' = node /\ table' = table /\ plan' = plan /\ given' = given
  BY DEF Stays, node
<1>2. PlanOK(plan, table, given)
  BY DEF QueryInv
<1>3. PICK w : w = Works(node, RowsIn(node, table), given, child', buffer', offset',
                         batch', entries', emitted', out', status')
  OBVIOUS
<1> QED
  BY <1>1, <1>2, Zenon DEF QueryInv

LEMMA QueryIs ==
  ASSUME QueryInv, plan # <<>>
  PROVE  /\ WellFormed(node) /\ node = plan[1] /\ IsSchema(node.schema)
         /\ node.kind = "projection" => IsProjection(node)
         /\ node.kind = "sort" => IsSort(node)
         /\ node.kind = "limit" => node.limit \in Nat
         /\ given \in Seq(Seq(RowsIn(node, table))) /\ Sized(given) /\ FullTo(given, Len(given) - 1)
         /\ Runnable(plan) /\ table \in Tables
         /\ node.kind = "filter" => \A i \in DOMAIN table : FitsSchema(table[i], node.schema)
         /\ node.kind # "filter" => RowsIn(node, table) = RowsOf(node.schema)
         /\ StatusOK(node, status) /\ Sized(out)
         /\ status # "failed" => Works(node, RowsIn(node, table), given, child, buffer, offset,
                                       batch, entries, emitted, out, status)
<1>1. PlanOK(plan, table, given)
  BY DEF QueryInv
<1>2. Runnable(plan) /\ node = Head(plan)
  BY <1>1 DEF PlanOK, node
<1>3. PICK n : n = node
  OBVIOUS
<1>4. PICK pl : pl = plan
  OBVIOUS
<1>5. /\ n = pl[1] /\ WellFormed(n) /\ IsSchema(n.schema)
      /\ n.kind = "projection" => IsProjection(n)
      /\ n.kind = "sort" => IsSort(n)
      /\ n.kind = "limit" => n.limit \in Nat
  BY <1>2, <1>3, <1>4, NodeIs
<1>6. /\ given \in Seq(Seq(RowsIn(node, table))) /\ Sized(given) /\ FullTo(given, Len(given) - 1)
      /\ table \in Tables
      /\ node.kind = "filter" => \A i \in DOMAIN table : FitsSchema(table[i], node.schema)
  BY <1>1, <1>2, Zenon DEF PlanOK
<1>7. node.kind # "filter" => RowsIn(node, table) = RowsOf(node.schema)
  BY Zenon DEF RowsIn
<1>8. StatusOK(node, status) /\ Sized(out)
  BY DEF QueryInv
<1>9. status # "failed" => Works(node, RowsIn(node, table), given, child, buffer, offset,
                                 batch, entries, emitted, out, status)
  BY Zenon DEF QueryInv
<1> QED
  BY <1>2, <1>3, <1>4, <1>5, <1>6, <1>7, <1>8, <1>9, Zenon

(* What a turn of the filter's loop leaves, of a batch pulled and filled.  *)
Turns(ch, ou, pulled, filled, off2) ==
  /\ buffer' = pulled /\ child' = After(ch) /\ offset' = off2
  /\ \/ status' = "failed" /\ out' = ou
     \/ ch = <<>> /\ filled = <<>> /\ status' = "done" /\ out' = ou /\ batch' = <<>>
     \/ /\ filled # <<>> /\ (ch = <<>> \/ Len(filled) >= BatchSize)
        /\ status' = "running" /\ out' = Append(ou, filled) /\ batch' = <<>>
     \/ /\ ch # <<>> /\ Len(filled) < BatchSize
        /\ status' = "running" /\ out' = ou /\ batch' = filled

LEMMA FilterTurnIs ==
  ASSUME FilterTurn
  PROVE  \E filling, pulled, k, filled, off2 :
           /\ filling = batch \o Kept(node, RestOf(buffer, offset))
           /\ pulled = Pulled(child)
           /\ k = ReachOf(node, pulled, BatchSize - Len(filling))
           /\ filled = filling \o Kept(node, SubSeq(pulled, 1, k))
           /\ off2 = IF k < Len(pulled) THEN k ELSE 0
           /\ Turns(child, out, pulled, filled, off2)
<1>1. PICK rest : rest = IF offset = 0 THEN <<>> ELSE SubSeq(buffer, offset + 1, Len(buffer))
  OBVIOUS
<1>2. PICK pulled : pulled = IF child = <<>> THEN <<>> ELSE Head(child)
  OBVIOUS
<1>3. \E filling \in {batch \o Selected(rest)} :
      \E k \in {Reach(pulled, BatchSize - Len(filling))} :
      \E filled \in {filling \o Selected(SubSeq(pulled, 1, k))} :
          /\ buffer' = pulled
          /\ child' = IF child = <<>> THEN child ELSE Tail(child)
          /\ offset' = IF k < Len(pulled) THEN k ELSE 0
          /\ \/ Fail
             \/ child = <<>> /\ filled = <<>> /\ ReturnFalse /\ batch' = <<>>
             \/ /\ filled # <<>> /\ (child = <<>> \/ Len(filled) >= BatchSize)
                /\ Return(filled) /\ batch' = <<>>
             \/ /\ child # <<>> /\ Len(filled) < BatchSize
                /\ batch' = filled /\ UNCHANGED <<out, status>>
  BY <1>1, <1>2, ZenonT(60) DEF FilterTurn
<1>4. PICK filling, k, filled :
          /\ filling = batch \o Selected(rest)
          /\ k = Reach(pulled, BatchSize - Len(filling))
          /\ filled = filling \o Selected(SubSeq(pulled, 1, k))
          /\ buffer' = pulled
          /\ child' = IF child = <<>> THEN child ELSE Tail(child)
          /\ offset' = IF k < Len(pulled) THEN k ELSE 0
          /\ \/ Fail
             \/ child = <<>> /\ filled = <<>> /\ ReturnFalse /\ batch' = <<>>
             \/ /\ filled # <<>> /\ (child = <<>> \/ Len(filled) >= BatchSize)
                /\ Return(filled) /\ batch' = <<>>
             \/ /\ child # <<>> /\ Len(filled) < BatchSize
                /\ batch' = filled /\ UNCHANGED <<out, status>>
  BY <1>3, Zenon
<1>5. PICK off2 : off2 = IF k < Len(pulled) THEN k ELSE 0
  OBVIOUS
<1>6. status = "running"
  BY DEF FilterTurn, Running
<1>7. Turns(child, out, pulled, filled, off2)
  <2>1. buffer' = pulled /\ child' = After(child) /\ offset' = off2
    BY <1>4, <1>5, Zenon DEF After
  <2> QED
    BY <1>4, <1>6, <2>1, Zenon DEF Turns, Fail, Return, ReturnFalse
<1>8. rest = RestOf(buffer, offset) /\ pulled = Pulled(child)
  BY <1>1, <1>2, Zenon DEF RestOf, Pulled
<1>9. /\ filling = batch \o Kept(node, RestOf(buffer, offset))
      /\ k = ReachOf(node, pulled, BatchSize - Len(filling))
      /\ filled = filling \o Kept(node, SubSeq(pulled, 1, k))
  BY <1>4, <1>8, NodeOperators, Zenon
<1> QED
  BY <1>5, <1>7, <1>8, <1>9, Zenon

LEMMA FilterKeeps ==
  ASSUME QueryInv, FilterTurn
  PROVE  QueryInv'
<1>1. plan # <<>> /\ node.kind = "filter" /\ status = "running" /\ Stays
  BY DEF FilterTurn, Running, Stays
<1>2. PICK filling, pulled, k, filled, off2 :
           /\ filling = batch \o Kept(node, RestOf(buffer, offset))
           /\ pulled = Pulled(child)
           /\ k = ReachOf(node, pulled, BatchSize - Len(filling))
           /\ filled = filling \o Kept(node, SubSeq(pulled, 1, k))
           /\ off2 = IF k < Len(pulled) THEN k ELSE 0
           /\ Turns(child, out, pulled, filled, off2)
  BY FilterTurnIs
<1>3. PICK n, ch, buf, off, ba, ou :
         n = node /\ ch = child /\ buf = buffer /\ off = offset /\ ba = batch /\ ou = out
  OBVIOUS
<1>4. PICK T : T = RowsIn(n, table)
  OBVIOUS
<1>5. PICK gv \in Seq(Seq(T)) : gv = given
  BY <1>1, <1>3, <1>4, QueryIs
<1>6. Sized(gv) /\ FullTo(gv, Len(gv) - 1) /\ Sized(ou)
  BY <1>1, <1>3, <1>5, QueryIs
<1>7. Works(n, T, gv, ch, buf, off, ba, entries, emitted, ou, status)
  BY <1>1, <1>3, <1>4, <1>5, QueryIs
<1>8. FilterStream(n, T, gv, ch, buf, off, ba, ou)
  BY <1>1, <1>3, <1>7, Zenon DEF Works, FilterOK
<1>9. FilterRead(T, n, gv, ch, buf, off, ba, ou, pulled, filled, off2)
  BY <1>2, <1>3, <1>6, <1>8, FilterReads, Zenon
<1>10. Turns(ch, ou, pulled, filled, off2)
  BY <1>2, <1>3
<1>11. CASE status' = "failed" /\ out' = ou
  <2>1. StatusOK(node, status') /\ Sized(out')
    BY <1>6, <1>11 DEF StatusOK
  <2> QED
    BY <1>1, <1>11, <2>1, NodeStays
<1>12. ASSUME NEW ou2, NEW ba2, NEW st2 \in {"running", "done"},
              out' = ou2, batch' = ba2, status' = st2,
              FilterStream(n, T, gv, After(ch), pulled, off2, ba2, ou2),
              st2 = "done" => Idle(After(ch), pulled, off2, ba2)
       PROVE  QueryInv'
  <2>1. buffer' = pulled /\ child' = After(ch) /\ offset' = off2
    BY <1>10 DEF Turns
  <2>2. FilterOK(n, T, gv, After(ch), pulled, off2, ba2, ou2, st2)
    BY <1>12, Zenon DEF FilterOK
  <2>3. \A en, em : Works(n, T, gv, After(ch), pulled, off2, ba2, en, em, ou2, st2)
    BY <1>1, <1>3, <2>2 DEF Works
  <2>4. Sized(ou2)
    BY <1>12 DEF FilterStream, Delivers
  <2>5. StatusOK(node, st2)
    BY DEF StatusOK
  <2> QED
    BY <1>1, <1>3, <1>4, <1>5, <1>12, <2>1, <2>3, <2>4, <2>5, NodeStays, Zenon
<1>13. CASE ch = <<>> /\ filled = <<>> /\ status' = "done" /\ out' = ou /\ batch' = <<>>
  <2>1. /\ FilterStream(n, T, gv, After(ch), pulled, off2, <<>>, ou)
        /\ Idle(After(ch), pulled, off2, <<>>)
    BY <1>8, <1>9, <1>13, FilterGoesOn, Zenon
  <2> QED
    BY <1>12, <1>13, <2>1
<1>14. CASE /\ filled # <<>> /\ (ch = <<>> \/ Len(filled) >= BatchSize)
            /\ status' = "running" /\ out' = Append(ou, filled) /\ batch' = <<>>
  <2>1. FilterStream(n, T, gv, After(ch), pulled, off2, <<>>, Append(ou, filled))
    BY <1>8, <1>9, <1>14, FilterGoesOn, Zenon
  <2> QED
    BY <1>12, <1>14, <2>1
<1>15. CASE /\ ch # <<>> /\ Len(filled) < BatchSize
            /\ status' = "running" /\ out' = ou /\ batch' = filled
  <2>1. FilterStream(n, T, gv, After(ch), pulled, off2, filled, ou)
    BY <1>8, <1>9, <1>15, FilterGoesOn, Zenon
  <2> QED
    BY <1>12, <1>15, <2>1
<1> QED
  BY <1>10, <1>11, <1>13, <1>14, <1>15, Zenon DEF Turns

(* What a call of a projection leaves, of a batch pulled and the rows read. *)
Projects(n, ch, ou, pulled, reads, off2) ==
  /\ buffer' = pulled /\ child' = After(ch) /\ offset' = off2
  /\ \/ status' = "failed" /\ out' = ou
     \/ reads = <<>> /\ status' = "done" /\ out' = ou
     \/ /\ reads # <<>> /\ NoThrow(n, reads)
        /\ status' = "running" /\ out' = Append(ou, ProjectBy(n, reads))

LEMMA ProjectionNextIs ==
  ASSUME ProjectionNext
  PROVE  \E pulled, stop, reads, off2 :
           /\ ProjectionStep(child, buffer, offset, pulled, stop, reads, off2)
           /\ Projects(node, child, out, pulled, reads, off2)
<1>1. PICK rest : rest = IF offset = 0 THEN <<>> ELSE SubSeq(buffer, offset + 1, Len(buffer))
  OBVIOUS
<1>2. PICK pulled : pulled = IF child = <<>> THEN <<>> ELSE Head(child)
  OBVIOUS
<1>3. PICK stop :
        stop = Min({Len(pulled), IF BatchSize > Len(rest) THEN BatchSize - Len(rest) ELSE 1})
  OBVIOUS
<1>4. PICK reads : reads = rest \o SubSeq(pulled, 1, stop)
  OBVIOUS
<1>5. PICK off2 : off2 = IF stop < Len(pulled) THEN stop ELSE 0
  OBVIOUS
<1>6. /\ buffer' = pulled
      /\ child' = IF child = <<>> THEN child ELSE Tail(child)
      /\ offset' = off2
      /\ CASE reads = <<>> -> ReturnFalse
           [] \E i \in DOMAIN reads : Throws(Projected(reads[i])) -> Fail
           [] OTHER -> Return(Project(reads))
  BY <1>1, <1>2, <1>3, <1>4, <1>5, ZenonT(60) DEF ProjectionNext
<1>7. status = "running"
  BY DEF ProjectionNext, Running
<1>8. rest = RestOf(buffer, offset) /\ pulled = Pulled(child)
  BY <1>1, <1>2, Zenon DEF RestOf, Pulled
<1>9. ProjectionStep(child, buffer, offset, pulled, stop, reads, off2)
  BY <1>3, <1>4, <1>5, <1>8, Zenon DEF ProjectionStep
<1>10. Projects(node, child, out, pulled, reads, off2)
  <2>1. buffer' = pulled /\ child' = After(child) /\ offset' = off2
    BY <1>6, Zenon DEF After
  <2>2. PICK thrown \in BOOLEAN : thrown <=> \E i \in DOMAIN reads : Throws(Projected(reads[i]))
    OBVIOUS
  <2>3. \/ reads = <<>> /\ ReturnFalse
        \/ Fail
        \/ reads # <<>> /\ ~thrown /\ Return(Project(reads))
    BY <1>6, <2>2
  <2>4. ~thrown => NoThrow(node, reads)
    BY <2>2, NodeOperators, Zenon DEF NoThrow
  <2>5. Project(reads) = ProjectBy(node, reads)
    BY NodeOperators, Zenon
  <2> QED
    BY <1>7, <2>1, <2>3, <2>4, <2>5, Zenon DEF Projects, Fail, Return, ReturnFalse
<1> QED
  BY <1>9, <1>10, Zenon

LEMMA ProjectionKeeps ==
  ASSUME QueryInv, ProjectionNext
  PROVE  QueryInv'
<1>1. plan # <<>> /\ node.kind = "projection" /\ status = "running" /\ Stays
  BY DEF ProjectionNext, Running, Stays
<1>2. PICK pulled, stop, reads, off2 :
           /\ ProjectionStep(child, buffer, offset, pulled, stop, reads, off2)
           /\ Projects(node, child, out, pulled, reads, off2)
  BY ProjectionNextIs
<1>3. PICK n, ch, buf, off, ou :
         n = node /\ ch = child /\ buf = buffer /\ off = offset /\ ou = out
  OBVIOUS
<1>4. PICK T : T = RowsIn(n, table)
  OBVIOUS
<1>5. PICK gv \in Seq(Seq(T)) : gv = given
  BY <1>1, <1>3, <1>4, QueryIs
<1>6. Sized(gv) /\ FullTo(gv, Len(gv) - 1) /\ Sized(ou)
  BY <1>1, <1>3, <1>5, QueryIs
<1>7. IsProjection(n) /\ T = RowsOf(n.schema)
  <2>1. n.kind = "projection" /\ n.kind # "filter"
    BY <1>1, <1>3
  <2> QED
    BY <1>1, <1>3, <1>4, <2>1, QueryIs, Zenon
<1>8. Works(n, T, gv, ch, buf, off, batch, entries, emitted, ou, status)
  BY <1>1, <1>3, <1>4, <1>5, QueryIs
<1>9. ProjectionStream(n, T, gv, ch, buf, off, ou)
  BY <1>1, <1>3, <1>8, Zenon DEF Works, ProjectionOK
<1>10. ProjectionRead(T, gv, ch, buf, off, pulled, reads, off2)
  <2>1. Buffers(T, buf, off, <<>>) /\ \E seen \in Seq(T) : Reading(gv, ch, buf, off, seen)
    BY <1>9, Zenon DEF ProjectionStream
  <2> QED
    BY <1>2, <1>3, <1>6, <2>1, ProjectionReads, Zenon
<1>11. Projects(n, ch, ou, pulled, reads, off2)
  BY <1>2, <1>3
<1>12. CASE status' = "failed" /\ out' = ou
  <2>1. StatusOK(node, status') /\ Sized(out')
    BY <1>6, <1>12 DEF StatusOK
  <2> QED
    BY <1>1, <1>12, <2>1, NodeStays
<1>13. ASSUME NEW ou2, NEW st2 \in {"running", "done"}, out' = ou2, status' = st2,
              ProjectionStream(n, T, gv, After(ch), pulled, off2, ou2),
              st2 = "done" => Idle(After(ch), pulled, off2, <<>>)
       PROVE  QueryInv'
  <2>1. buffer' = pulled /\ child' = After(ch) /\ offset' = off2
    BY <1>11 DEF Projects
  <2>2. ProjectionOK(n, T, gv, After(ch), pulled, off2, ou2, st2)
    BY <1>13, Zenon DEF ProjectionOK
  <2>3. \A ba, en, em : Works(n, T, gv, After(ch), pulled, off2, ba, en, em, ou2, st2)
    BY <1>1, <1>3, <2>2 DEF Works
  <2>4. Sized(ou2)
    BY <1>13 DEF ProjectionStream, Delivers
  <2>5. StatusOK(node, st2)
    BY DEF StatusOK
  <2> QED
    BY <1>1, <1>3, <1>4, <1>5, <1>13, <2>1, <2>3, <2>4, <2>5, NodeStays, Zenon
<1>14. CASE reads = <<>> /\ status' = "done" /\ out' = ou
  <2>1. /\ ProjectionStream(n, T, gv, After(ch), pulled, off2, ou)
        /\ Idle(After(ch), pulled, off2, <<>>)
    BY <1>7, <1>9, <1>10, <1>14, ProjectionGoesOn, Zenon
  <2> QED
    BY <1>13, <1>14, <2>1
<1>15. CASE /\ reads # <<>> /\ NoThrow(n, reads)
            /\ status' = "running" /\ out' = Append(ou, ProjectBy(n, reads))
  <2>1. ProjectionStream(n, T, gv, After(ch), pulled, off2, Append(ou, ProjectBy(n, reads)))
    BY <1>7, <1>9, <1>10, <1>15, ProjectionGoesOn, Zenon
  <2> QED
    BY <1>13, <1>15, <2>1
<1> QED
  BY <1>11, <1>12, <1>14, <1>15, Zenon DEF Projects

LEMMA SortInitSorts ==
  ASSUME SortInit, NEW S, NEW rows \in Seq(S), rows = Flat(child)
  PROVE  status' = "failed" \/ (status' = "running" /\ Sorted(node, rows, entries'))
<1>1. PICK keys : keys = [i \in DOMAIN rows |-> SortKeys(rows[i])]
  OBVIOUS
<1>2. \/ status' = "failed"
      \/ /\ \A i \in DOMAIN rows : ~Throws(keys[i])
         /\ \E p \in Perms(Len(rows)) :
               /\ \A i, j \in DOMAIN rows : i < j => ~GoesBefore(keys[p[j]], keys[p[i]])
               /\ entries' = [i \in DOMAIN rows |-> rows[p[i]]]
         /\ status' = "running"
  BY <1>1, Zenon DEF SortInit
<1>3. PICK en : en = entries'
  OBVIOUS
<1>4. PICK n : n = node
  OBVIOUS
<1>5. ASSUME \A i \in DOMAIN rows : ~Throws(keys[i]), NEW p \in Perms(Len(rows)),
             \A i, j \in DOMAIN rows : i < j => ~GoesBefore(keys[p[j]], keys[p[i]]),
             en = [i \in DOMAIN rows |-> rows[p[i]]]
      PROVE  Sorted(n, rows, en)
  <2>1. Permuted(rows, en)
    BY <1>5 DEF Permuted
  <2>2. \A i \in DOMAIN rows : p[i] \in DOMAIN rows
    BY DEF Perms
  <2>3. \A i \in DOMAIN rows : keys[p[i]] = KeysOf(n, en[i])
    <3> SUFFICES ASSUME NEW i \in DOMAIN rows
                 PROVE  keys[p[i]] = KeysOf(n, en[i])
      OBVIOUS
    <3>1. PICK k \in DOMAIN rows : k = p[i]
      BY <2>2
    <3>2. keys[k] = SortKeys(rows[k]) /\ en[i] = rows[k]
      BY <1>1, <1>5, <3>1
    <3>3. SortKeys(rows[k]) = KeysOf(n, rows[k])
      BY <1>4, Zenon DEF SortKeys, KeysOf
    <3> QED
      BY <3>1, <3>2, <3>3
  <2>4. \A i \in DOMAIN rows : ~Throws(KeysOf(n, en[i]))
    BY <1>5, <2>2, <2>3, Zenon
  <2>5. \A i, j \in DOMAIN rows : i < j => ~Before(n, KeysOf(n, en[j]), KeysOf(n, en[i]))
    <3> SUFFICES ASSUME NEW i \in DOMAIN rows, NEW j \in DOMAIN rows, i < j
                 PROVE  ~Before(n, KeysOf(n, en[j]), KeysOf(n, en[i]))
      OBVIOUS
    <3>1. ~GoesBefore(keys[p[j]], keys[p[i]])
      BY <1>5
    <3>2. ~GoesBefore(KeysOf(n, en[j]), KeysOf(n, en[i]))
      BY <2>3, <3>1, Zenon
    <3> QED
      BY <1>4, <3>2, NodeOperators, Zenon
  <2> QED
    BY <2>1, <2>4, <2>5 DEF Sorted
<1> QED
  BY <1>2, <1>3, <1>4, <1>5, Zenon

LEMMA SortInitKeeps ==
  ASSUME QueryInv, SortInit
  PROVE  QueryInv'
<1>1. plan # <<>> /\ node.kind = "sort" /\ status = "init" /\ Stays
  BY DEF SortInit, Starting, Stays
<1>2. PICK n, ou, en : n = node /\ ou = out /\ en = entries'
  OBVIOUS
<1>3. PICK T : T = RowsIn(n, table)
  OBVIOUS
<1>4. PICK gv \in Seq(Seq(T)) : gv = given
  BY <1>1, <1>2, <1>3, QueryIs
<1>5. Works(n, T, gv, child, buffer, offset, batch, entries, emitted, ou, status)
  BY <1>1, <1>2, <1>3, <1>4, QueryIs
<1>6. child = gv /\ ou = <<>>
  BY <1>1, <1>2, <1>5 DEF Works, SortOK
<1>7. out' = ou
  BY <1>2 DEF SortInit
<1>8. Sized(ou)
  BY <1>6, NothingDelivered
<1>9. PICK rows \in Seq(T) : rows = Flat(gv)
  BY FlatType
<1>10. status' = "failed" \/ (status' = "running" /\ Sorted(n, rows, en))
  BY <1>2, <1>6, <1>9, SortInitSorts, Zenon
<1>11. CASE status' = "failed"
  <2>1. StatusOK(node, status') /\ Sized(out')
    BY <1>7, <1>8, <1>11 DEF StatusOK
  <2> QED
    BY <1>1, <1>11, <2>1, NodeStays
<1>12. CASE status' = "running" /\ Sorted(n, rows, en)
  <2>1. SortStream(n, T, gv, <<>>, en)
    BY <1>9, <1>12, SortStarts, Zenon
  <2>2. \A ch : SortOK(n, T, gv, ch, ou, en, "running")
    BY <1>6, <2>1 DEF SortOK
  <2>3. \A ch, buf, off, ba, em : Works(n, T, gv, ch, buf, off, ba, en, em, ou, "running")
    BY <1>1, <1>2, <2>2 DEF Works
  <2>4. StatusOK(node, status')
    BY <1>12 DEF StatusOK
  <2> QED
    BY <1>1, <1>2, <1>3, <1>4, <1>7, <1>8, <1>12, <2>3, <2>4, NodeStays, Zenon
<1> QED
  BY <1>10, <1>11, <1>12

LEMMA SortNextKeeps ==
  ASSUME QueryInv, SortNext
  PROVE  QueryInv'
<1>1. plan # <<>> /\ node.kind = "sort" /\ status = "running" /\ Stays
  BY DEF SortNext, Running, Stays
<1>2. PICK n, ou, en : n = node /\ ou = out /\ en = entries
  OBVIOUS
<1>3. PICK T : T = RowsIn(n, table)
  OBVIOUS
<1>4. PICK gv \in Seq(Seq(T)) : gv = given
  BY <1>1, <1>2, <1>3, QueryIs
<1>5. Works(n, T, gv, child, buffer, offset, batch, en, emitted, ou, status)
  BY <1>1, <1>2, <1>3, <1>4, QueryIs
<1>6. SortStream(n, T, gv, ou, en)
  BY <1>1, <1>2, <1>5 DEF Works, SortOK
<1>7. PICK k : k = Min({BatchSize, Len(en)})
  OBVIOUS
<1>8. PICK en2 : en2 = SubSeq(en, k + 1, Len(en))
  OBVIOUS
<1>9. /\ IF en = <<>> THEN ReturnFalse ELSE Return(SubSeq(en, 1, k))
      /\ entries' = en2
  BY <1>2, <1>7, <1>8, Zenon DEF SortNext
<1>10. ASSUME NEW ou2, NEW st2 \in {"running", "done"}, out' = ou2, status' = st2,
              SortStream(n, T, gv, ou2, en2), st2 = "done" => en2 = <<>>
       PROVE  QueryInv'
  <2>1. \A ch : SortOK(n, T, gv, ch, ou2, en2, st2)
    BY <1>10, Zenon DEF SortOK
  <2>2. \A ch, buf, off, ba, em : Works(n, T, gv, ch, buf, off, ba, en2, em, ou2, st2)
    BY <1>1, <1>2, <2>1 DEF Works
  <2>3. Sized(ou2)
    BY <1>10 DEF SortStream, Delivers
  <2>4. StatusOK(node, st2)
    BY DEF StatusOK
  <2> QED
    BY <1>1, <1>2, <1>3, <1>4, <1>9, <1>10, <2>2, <2>3, <2>4, NodeStays, Zenon
<1>11. CASE en = <<>>
  <2>1. out' = ou /\ status' = "done"
    BY <1>2, <1>9, <1>11 DEF ReturnFalse
  <2>2. en2 = <<>>
    BY <1>6, <1>7, <1>8, <1>11, SortGoesOn, Zenon
  <2> QED
    BY <1>6, <1>10, <1>11, <2>1, <2>2
<1>12. CASE en # <<>>
  <2>1. out' = Append(ou, SubSeq(en, 1, k)) /\ status' = "running"
    BY <1>1, <1>2, <1>9, <1>12 DEF Return
  <2>2. SortStream(n, T, gv, Append(ou, SubSeq(en, 1, k)), en2)
    BY <1>6, <1>7, <1>8, <1>12, SortGoesOn, Zenon
  <2> QED
    BY <1>10, <2>1, <2>2
<1> QED
  BY <1>11, <1>12

LEMMA LimitKeeps ==
  ASSUME QueryInv, LimitNext
  PROVE  QueryInv'
<1>1. plan # <<>> /\ node.kind = "limit" /\ status = "running" /\ Stays
  BY DEF LimitNext, Running, Stays
<1>2. PICK n, ch, ou, em : n = node /\ ch = child /\ ou = out /\ em = emitted
  OBVIOUS
<1>3. PICK T : T = RowsIn(n, table)
  OBVIOUS
<1>4. PICK gv \in Seq(Seq(T)) : gv = given
  BY <1>1, <1>2, <1>3, QueryIs
<1>5. Sized(gv) /\ FullTo(gv, Len(gv) - 1) /\ Sized(ou) /\ n.limit \in Nat
  BY <1>1, <1>2, <1>4, QueryIs
<1>6. Works(n, T, gv, ch, buffer, offset, batch, entries, em, ou, status)
  BY <1>1, <1>2, <1>3, <1>4, QueryIs
<1>7. LimitStream(n, T, gv, ch, ou, em)
  BY <1>1, <1>2, <1>6 DEF Works, LimitOK
<1>8. PICK fetch : fetch = Min({BatchSize, n.limit - em})
  OBVIOUS
<1>9. PICK taken :
        taken = [i \in 1 .. fetch |-> IF i <= Len(Pulled(ch)) THEN Pulled(ch)[i] ELSE Garbage]
  OBVIOUS
<1>10. LimitStep(n, ch, em, fetch, taken)
  BY <1>8, <1>9 DEF LimitStep
<1>11. /\ \/ (ch = <<>> \/ fetch = 0) /\ ReturnFalse /\ emitted' = em
          \/ ch # <<>> /\ fetch > 0 /\ Return(taken) /\ emitted' = em + fetch
          \/ Fail
       /\ child' = After(ch)
  BY <1>2, <1>8, <1>9, Zenon DEF LimitNext, Pulled, After
<1>12. ASSUME NEW ou2, NEW em2, NEW st2 \in {"running", "done"},
              out' = ou2, status' = st2, emitted' = em2,
              LimitStream(n, T, gv, After(ch), ou2, em2),
              st2 = "done" => After(ch) = <<>> \/ em2 = n.limit
       PROVE  QueryInv'
  <2>1. LimitOK(n, T, gv, After(ch), ou2, em2, st2)
    BY <1>12, Zenon DEF LimitOK
  <2>2. \A buf, off, ba, en : Works(n, T, gv, After(ch), buf, off, ba, en, em2, ou2, st2)
    BY <1>1, <1>2, <2>1 DEF Works
  <2>3. Sized(ou2)
    BY <1>12 DEF LimitStream, Delivers
  <2>4. StatusOK(node, st2)
    BY DEF StatusOK
  <2> QED
    BY <1>1, <1>2, <1>3, <1>4, <1>11, <1>12, <2>2, <2>3, <2>4, NodeStays, Zenon
<1>13. CASE (ch = <<>> \/ fetch = 0) /\ ReturnFalse /\ emitted' = em
  <2>1. out' = ou /\ status' = "done"
    BY <1>2, <1>13 DEF ReturnFalse
  <2>2. LimitStream(n, T, gv, After(ch), ou, em) /\ (After(ch) = <<>> \/ em = n.limit)
    BY <1>5, <1>7, <1>10, <1>13, LimitGoesOn, Zenon
  <2> QED
    BY <1>12, <1>13, <2>1, <2>2
<1>14. CASE ch # <<>> /\ fetch > 0 /\ Return(taken) /\ emitted' = em + fetch
  <2>1. out' = Append(ou, taken) /\ status' = "running"
    BY <1>1, <1>2, <1>14 DEF Return
  <2>2. LimitStream(n, T, gv, After(ch), Append(ou, taken), em + fetch)
    BY <1>5, <1>7, <1>10, <1>14, LimitGoesOn, Zenon
  <2> QED
    BY <1>12, <1>14, <2>1, <2>2
<1>15. CASE Fail
  <2>1. StatusOK(node, status') /\ Sized(out') /\ status' = "failed"
    BY <1>2, <1>5, <1>15 DEF StatusOK, Fail
  <2> QED
    BY <1>1, <2>1, NodeStays
<1> QED
  BY <1>11, <1>13, <1>14, <1>15, Zenon

LEMMA PermutedIsList ==
  ASSUME NEW groups, IsList(groups), NEW p \in Perms(Len(groups)),
         NEW en, en = [i \in DOMAIN groups |-> groups[p[i]]]
  PROVE  IsList(en)
<1>1. PICK m \in Nat : m = Len(groups) /\ DOMAIN groups = 1 .. m
  BY ListDomain
<1>2. en = [i \in 1 .. m |-> en[i]]
  BY <1>1
<1> QED
  BY <1>2, FunctionIsList

LEMMA AggregateInitKeeps ==
  ASSUME QueryInv, AggregateInit
  PROVE  QueryInv'
<1>1. plan # <<>> /\ node.kind = "aggregate" /\ status = "init" /\ Stays
  BY DEF AggregateInit, Starting, Stays
<1>2. PICK n, ou, en : n = node /\ ou = out /\ en = entries'
  OBVIOUS
<1>3. PICK T : T = RowsIn(n, table)
  OBVIOUS
<1>4. PICK gv \in Seq(Seq(T)) : gv = given
  BY <1>1, <1>2, <1>3, QueryIs
<1>5. Sized(ou) /\ Works(n, T, gv, child, buffer, offset, batch, entries, emitted, ou, status)
  BY <1>1, <1>2, <1>3, <1>4, QueryIs
<1>6. child = gv /\ IsList(ou)
  BY <1>1, <1>2, <1>5 DEF Works, AggregateOK
<1>7. out' = ou
  BY <1>2 DEF AggregateInit
<1>8. PICK rows \in Seq(T) : rows = Flat(gv)
  BY FlatType
<1>9. PICK groups : groups = GroupsOf(rows)
  OBVIOUS
<1>10. IsList(groups)
  <2>1. Len(rows) \in Nat
    OBVIOUS
  <2> QED
    BY <1>9, <2>1, GroupsAreListed, Zenon
<1>11. \/ status' = "failed"
       \/ /\ status' = "running"
          /\ \E p \in Perms(Len(groups)) : en = [i \in DOMAIN groups |-> groups[p[i]]]
  <2>1. groups = GroupsOf(Flat(child))
    BY <1>6, <1>8, <1>9, Zenon
  <2>2. PICK g : g = GroupsOf(Flat(child))
    OBVIOUS
  <2>3. PICK unread \in BOOLEAN : unread <=> \E t \in Range(Flat(child)) :
                                    Throws(AggregateKeyOf(t)) \/ Throws(AggregateArgs(t))
    OBVIOUS
  <2>4. \/ status' = "failed"
        \/ /\ \E p \in Perms(Len(g)) : entries' = [i \in DOMAIN g |-> g[p[i]]]
           /\ status' = "running"
    BY <2>2, <2>3, Zenon DEF AggregateInit
  <2> QED
    BY <1>2, <2>1, <2>2, <2>4, ZenonT(60)
<1>12. CASE status' = "failed"
  <2>1. StatusOK(node, status') /\ Sized(out')
    BY <1>5, <1>7, <1>12 DEF StatusOK
  <2> QED
    BY <1>1, <1>12, <2>1, NodeStays
<1>13. CASE /\ status' = "running"
            /\ \E p \in Perms(Len(groups)) : en = [i \in DOMAIN groups |-> groups[p[i]]]
  <2>1. IsList(en)
    BY <1>10, <1>13, PermutedIsList, Zenon
  <2>2. \A ch : AggregateOK(gv, ch, ou, en, "running")
    BY <1>6, <2>1 DEF AggregateOK
  <2>3. \A ch, buf, off, ba, em : Works(n, T, gv, ch, buf, off, ba, en, em, ou, "running")
    BY <1>1, <1>2, <2>2 DEF Works
  <2>4. StatusOK(node, status')
    BY <1>13 DEF StatusOK
  <2> QED
    BY <1>1, <1>2, <1>3, <1>4, <1>5, <1>7, <1>13, <2>3, <2>4, NodeStays, Zenon
<1> QED
  BY <1>11, <1>12, <1>13

LEMMA AggregateNextKeeps ==
  ASSUME QueryInv, AggregateNext
  PROVE  QueryInv'
<1>1. plan # <<>> /\ node.kind = "aggregate" /\ status = "running" /\ Stays
  BY DEF AggregateNext, Running, Stays
<1>2. PICK n, ou, en : n = node /\ ou = out /\ en = entries
  OBVIOUS
<1>3. PICK T : T = RowsIn(n, table)
  OBVIOUS
<1>4. PICK gv : gv = given
  OBVIOUS
<1>5. Sized(ou) /\ Works(n, T, gv, child, buffer, offset, batch, en, emitted, ou, status)
  BY <1>1, <1>2, <1>3, <1>4, QueryIs
<1>6. IsList(ou) /\ IsList(en)
  BY <1>1, <1>2, <1>5 DEF Works, AggregateOK
<1>7. PICK k : k = Min({BatchSize, Len(en)})
  OBVIOUS
<1>8. PICK values, rows : /\ values = [i \in 1 .. k |-> AggregateRow(en[i])]
                          /\ rows = [i \in 1 .. k |-> MakeTuple(values[i])]
  OBVIOUS
<1>9. PICK en2 : en2 = SubSeq(en, k + 1, Len(en))
  OBVIOUS
<1>10. /\ \/ k = 0 /\ ReturnFalse
          \/ Fail
          \/ k # 0 /\ Return(rows)
       /\ entries' = en2
  <2>1. PICK thrown \in BOOLEAN : thrown <=> \E i \in 1 .. k : Throws(values[i])
    OBVIOUS
  <2>2. /\ CASE k = 0 -> ReturnFalse
             [] \E i \in 1 .. k : Throws(values[i]) -> Fail
             [] OTHER -> Return(rows)
        /\ entries' = en2
    BY <1>2, <1>7, <1>8, <1>9, Zenon DEF AggregateNext
  <2> QED
    BY <2>1, <2>2
<1>11. PICK S : en \in Seq(S)
  BY <1>6, ListIsSeq
<1>12. PICK B \in Nat : B = BatchSize /\ B # 0
  BY QueryAssumption
<1>13. PICK L \in Nat : L = Len(en)
  BY <1>11
<1>14. k \in Nat /\ k <= B /\ k <= L
  <2>1. k = Min({B, L})
    BY <1>7, <1>12, <1>13
  <2>2. B \in Int /\ L \in Int
    OBVIOUS
  <2> QED
    BY <2>1, <2>2, LesserIs
<1>15. IsList(en2)
  <2>1. en2 \in Seq(S)
    BY <1>9, <1>11, <1>13, <1>14
  <2> QED
    BY <2>1, SeqIsList
<1>16. ASSUME NEW ou2, NEW st2 \in {"running", "done"}, out' = ou2, status' = st2,
              IsList(ou2), Sized(ou2)
       PROVE  QueryInv'
  <2>1. \A ch : AggregateOK(gv, ch, ou2, en2, st2)
    BY <1>15, <1>16 DEF AggregateOK
  <2>2. \A ch, buf, off, ba, em : Works(n, T, gv, ch, buf, off, ba, en2, em, ou2, st2)
    BY <1>1, <1>2, <2>1 DEF Works
  <2>3. StatusOK(node, st2)
    BY DEF StatusOK
  <2> QED
    BY <1>1, <1>2, <1>3, <1>4, <1>10, <1>16, <2>2, <2>3, NodeStays, Zenon
<1>17. CASE k = 0 /\ ReturnFalse
  <2>1. out' = ou /\ status' = "done"
    BY <1>2, <1>17 DEF ReturnFalse
  <2> QED
    BY <1>5, <1>6, <1>16, <2>1
<1>18. CASE Fail
  <2>1. StatusOK(node, status') /\ Sized(out') /\ status' = "failed"
    BY <1>2, <1>5, <1>18 DEF StatusOK, Fail
  <2> QED
    BY <1>1, <2>1, NodeStays
<1>19. CASE k # 0 /\ Return(rows)
  <2>1. out' = Append(ou, rows) /\ status' = "running"
    BY <1>1, <1>2, <1>19 DEF Return
  <2>2. PICK m \in Nat : m = k /\ m \in 1 .. BatchSize
    BY <1>12, <1>14, <1>19
  <2>3. rows = [i \in 1 .. m |-> rows[i]]
    BY <1>8, <2>2
  <2>4. Len(rows) \in 1 .. BatchSize
    BY <2>2, <2>3, FunctionIsList
  <2>5. IsList(Append(ou, rows)) /\ Sized(Append(ou, rows))
    <3>1. PICK U : ou \in Seq(U)
      BY <1>6, ListIsSeq
    <3>2. PICK V : V = U \union {rows}
      OBVIOUS
    <3>3. PICK s \in Seq(V) : s = ou
      BY <3>1, <3>2
    <3>4. rows \in V
      BY <3>2
    <3>5. PICK a : a = Append(s, rows)
      OBVIOUS
    <3>6. PICK l \in Nat : l = Len(s)
      OBVIOUS
    <3>7. a \in Seq(V) /\ Len(a) = l + 1 /\ a[l + 1] = rows /\ \A i \in 1 .. l : a[i] = s[i]
      BY <3>4, <3>5, <3>6
    <3>8. IsList(a)
      BY <3>7, SeqIsList
    <3>9. DOMAIN s = 1 .. l /\ DOMAIN a = 1 .. l + 1
      BY <3>6, <3>7
    <3>10. \A i \in DOMAIN a : Len(a[i]) \in 1 .. BatchSize
      BY <1>5, <2>4, <3>3, <3>7, <3>9 DEF Sized
    <3> QED
      BY <3>3, <3>5, <3>8, <3>10 DEF Sized
  <2> QED
    BY <1>16, <2>1, <2>5
<1> QED
  BY <1>10, <1>17, <1>18, <1>19

(* -- the node above ------------------------------------------------------- *)
LEMMA WiderRows ==
  ASSUME NEW A, NEW B, \A e \in A : e \in B, NEW x \in Seq(Seq(A))
  PROVE  x \in Seq(Seq(B))
<1>1. \A y \in Seq(A) : y \in Seq(B)
  <2> SUFFICES ASSUME NEW y \in Seq(A)
               PROVE  y \in Seq(B)
    OBVIOUS
  <2>1. IsList(y) /\ \A i \in 1 .. Len(y) : y[i] \in B
    BY SeqIsList
  <2> QED
    BY <2>1, ListDomain
<1>2. PICK S : S = Seq(A)
  OBVIOUS
<1>3. x \in Seq(S)
  BY <1>2
<1>4. IsList(x) /\ \A i \in 1 .. Len(x) : x[i] \in S
  BY <1>3, SeqIsList
<1>5. \A i \in 1 .. Len(x) : x[i] \in Seq(B)
  BY <1>1, <1>2, <1>4, Zenon
<1> QED
  BY <1>4, <1>5, ListDomain, Zenon

LEMMA FullBefore ==
  ASSUME NEW S, NEW x \in Seq(S), FullTo(x, Len(x)) \/ FullTo(x, Len(x) - 1)
  PROVE  FullTo(x, Len(x) - 1)
<1>1. PICK l \in Nat : l = Len(x)
  OBVIOUS
<1> QED
  BY <1>1 DEF FullTo

LEMMA RestIsRunnable ==
  ASSUME NEW pl, Runnable(pl), Len(pl) > 1, NEW a, a = Head(pl), NEW b, b = Head(Tail(pl))
  PROVE  /\ Runnable(Tail(pl)) /\ b = pl[2] /\ WellFormed(b)
         /\ b.schema = Produces(a) /\ a.kind \notin {"limit", "aggregate"}
         /\ b.kind = "filter" => a.kind = "filter"
<1>1. PICK S : pl \in Seq(S)
  BY ListIsSeq DEF Runnable
<1>2. PICK l \in Nat : l = Len(pl) /\ l > 1
  BY <1>1
<1>3. PICK t \in Seq(S) : t = Tail(pl) /\ Len(t) = l - 1 /\ \A k \in 1 .. l - 1 : t[k] = pl[k + 1]
  <2>1. pl # <<>>
    BY DEF Runnable
  <2>2. /\ Tail(pl) \in Seq(S) /\ Len(Tail(pl)) = Len(pl) - 1
        /\ \A k \in 1 .. Len(Tail(pl)) : Tail(pl)[k] = pl[k + 1]
    BY <1>1, <2>1, HeadTailProperties
  <2> QED
    BY <1>2, <2>2
<1>4. a = pl[1] /\ b = pl[2]
  <2>1. t # <<>> /\ 1 \in 1 .. l - 1 /\ 1 + 1 = 2
    BY <1>2, <1>3
  <2>2. Head(t) = t[1] /\ Head(pl) = pl[1]
    BY <1>1, <1>2, <2>1
  <2> QED
    BY <1>3, <2>1, <2>2
<1>5. \A k \in 1 .. l : WellFormed(pl[k])
  <2>1. DOMAIN pl = 1 .. l
    BY <1>1, <1>2
  <2> QED
    BY <2>1 DEF Runnable
<1>6. \A k \in 2 .. l : /\ pl[k].schema = Produces(pl[k - 1])
                        /\ pl[k - 1].kind \notin {"limit", "aggregate"}
                        /\ pl[k].kind = "filter" => pl[k - 1].kind = "filter"
  BY <1>2 DEF Runnable
<1>7. Runnable(t)
  <2>1. IsList(t) /\ t # <<>>
    <3>1. IsList(t)
      BY SeqIsList
    <3>2. Len(t) > 0 /\ Len(<<>>) = 0
      BY <1>2, <1>3
    <3> QED
      BY <3>1, <3>2
  <2>2. \A k \in DOMAIN t : WellFormed(t[k])
    <3>1. DOMAIN t = 1 .. l - 1
      BY <1>2, <1>3
    <3> SUFFICES ASSUME NEW k \in 1 .. l - 1
                 PROVE  WellFormed(t[k])
      BY <3>1
    <3>2. PICK m \in 1 .. l : m = k + 1
      BY <1>2
    <3>3. t[k] = pl[m]
      BY <1>3, <3>2
    <3> QED
      BY <1>5, <3>3
  <2>3. \A k \in 2 .. Len(t) : /\ t[k].schema = Produces(t[k - 1])
                               /\ t[k - 1].kind \notin {"limit", "aggregate"}
                               /\ t[k].kind = "filter" => t[k - 1].kind = "filter"
    <3> SUFFICES ASSUME NEW k \in 2 .. l - 1
                 PROVE  /\ t[k].schema = Produces(t[k - 1])
                        /\ t[k - 1].kind \notin {"limit", "aggregate"}
                        /\ t[k].kind = "filter" => t[k - 1].kind = "filter"
      BY <1>3
    <3>1. PICK m \in 2 .. l : m = k + 1
      BY <1>2
    <3>2. m - 1 = k /\ k \in 1 .. l - 1 /\ k - 1 \in 1 .. l - 1 /\ (k - 1) + 1 = m - 1
      BY <1>2, <3>1
    <3>3. t[k] = pl[m] /\ t[k - 1] = pl[m - 1]
      BY <1>3, <3>1, <3>2
    <3>4. /\ pl[m].schema = Produces(pl[m - 1])
          /\ pl[m - 1].kind \notin {"limit", "aggregate"}
          /\ pl[m].kind = "filter" => pl[m - 1].kind = "filter"
      BY <1>6
    <3> QED
      BY <3>3, <3>4, Zenon
  <2> QED
    BY <2>1, <2>2, <2>3 DEF Runnable
<1>8. /\ pl[2].schema = Produces(pl[1])
      /\ pl[1].kind \notin {"limit", "aggregate"}
      /\ pl[2].kind = "filter" => pl[1].kind = "filter"
  <2>1. 2 \in 2 .. l /\ 2 - 1 = 1
    BY <1>2
  <2> QED
    BY <1>6, <2>1
<1>9. WellFormed(pl[2])
  BY <1>2, <1>5
<1> QED
  BY <1>3, <1>4, <1>7, <1>8, <1>9, Zenon

(* What a node that is done has delivered is what the next one may be given. *)
LEMMA DeliveredFits ==
  ASSUME QueryInv, plan # <<>>, status = "done", node.kind \notin {"limit", "aggregate"},
         NEW b, b.schema = Produces(node), b.kind = "filter" => node.kind = "filter"
  PROVE  /\ out \in Seq(Seq(RowsIn(b, table))) /\ FullTo(out, Len(out) - 1)
         /\ b.kind = "filter" => \A i \in DOMAIN table : FitsSchema(table[i], b.schema)
<1>1. PICK n, ou, tab : n = node /\ ou = out /\ tab = table
  OBVIOUS
<1>2. PICK T : T = RowsIn(n, tab)
  OBVIOUS
<1>3. Works(n, T, given, child, buffer, offset, batch, entries, emitted, ou, status)
  BY <1>1, <1>2, QueryIs
<1>4. WellFormed(n) /\ IsSchema(n.schema)
  BY <1>1, QueryIs
<1>5. n.kind \in {"filter", "projection", "sort"}
  BY <1>1, <1>4 DEF WellFormed
<1>6. CASE n.kind = "filter"
  <2>1. ou \in Seq(Seq(T)) /\ (FullTo(ou, Len(ou)) \/ FullTo(ou, Len(ou) - 1))
    BY <1>3, <1>6, Zenon DEF Works, FilterOK, FilterStream, Delivers
  <2>2. FullTo(ou, Len(ou) - 1)
    BY <2>1, FullBefore, Zenon
  <2>3. \A i \in DOMAIN tab : FitsSchema(tab[i], n.schema)
    BY <1>1, <1>6, QueryIs, Zenon
  <2>4. b.schema = n.schema
    BY <1>1, <1>6 DEF Produces
  <2>5. T = {MakeTuple(tab[i]) : i \in DOMAIN tab}
    BY <1>2, <1>6 DEF RowsIn
  <2>6. \A e \in T : e \in RowsIn(b, tab)
    <3>1. CASE b.kind = "filter"
      BY <2>5, <3>1 DEF RowsIn
    <3>2. CASE b.kind # "filter"
      <4>1. RowsIn(b, tab) = RowsOf(n.schema)
        BY <2>4, <3>2, Zenon DEF RowsIn
      <4>2. \A i \in DOMAIN tab : MakeTuple(tab[i]) \in RowsOf(n.schema)
        BY <1>4, <2>3, TupleFits, Zenon
      <4> QED
        BY <2>5, <4>1, <4>2, Zenon
    <3> QED
      BY <3>1, <3>2
  <2>7. ou \in Seq(Seq(RowsIn(b, tab)))
    BY <2>1, <2>6, WiderRows, Zenon
  <2> QED
    BY <1>1, <2>2, <2>3, <2>4, <2>7, Zenon
<1>7. CASE n.kind = "projection"
  <2>1. ou \in Seq(Seq(RowsOf(n.output))) /\ (FullTo(ou, Len(ou)) \/ FullTo(ou, Len(ou) - 1))
    BY <1>3, <1>7, Zenon DEF Works, ProjectionOK, ProjectionStream, Delivers
  <2>2. FullTo(ou, Len(ou) - 1)
    BY <2>1, FullBefore, Zenon
  <2>3. b.schema = n.output /\ b.kind # "filter"
    BY <1>1, <1>7 DEF Produces
  <2>4. RowsIn(b, tab) = RowsOf(n.output)
    BY <2>3, Zenon DEF RowsIn
  <2> QED
    BY <1>1, <2>1, <2>2, <2>3, <2>4, Zenon
<1>8. CASE n.kind = "sort"
  <2>1. ou \in Seq(Seq(T)) /\ (FullTo(ou, Len(ou)) \/ FullTo(ou, Len(ou) - 1))
    <3>1. SortStream(n, T, given, ou, entries)
      BY <1>3, <1>8 DEF Works, SortOK
    <3> QED
      BY <3>1, Zenon DEF SortStream, Delivers
  <2>2. FullTo(ou, Len(ou) - 1)
    BY <2>1, FullBefore, Zenon
  <2>3. b.schema = n.schema /\ b.kind # "filter"
    BY <1>1, <1>8 DEF Produces
  <2>4. RowsIn(b, tab) = RowsOf(n.schema) /\ T = RowsOf(n.schema)
    <3>1. n.kind # "filter"
      BY <1>8
    <3> QED
      BY <1>2, <2>3, <3>1, Zenon DEF RowsIn
  <2> QED
    BY <1>1, <2>1, <2>2, <2>3, <2>4, Zenon
<1> QED
  BY <1>5, <1>6, <1>7, <1>8

LEMMA NextNodeKeeps ==
  ASSUME QueryInv, NextNode
  PROVE  QueryInv'
<1>1. Runnable(plan)
  BY DEF QueryInv, PlanOK
<1>2. plan # <<>> /\ status = "done" /\ Len(plan) > 1
  BY <1>1 DEF NextNode, Runnable
<1>3. PICK a, b, pl : a = Head(plan) /\ b = Head(Tail(plan)) /\ pl = Tail(plan)
  OBVIOUS
<1>4. a = node
  BY <1>3 DEF node
<1>5. /\ Runnable(pl) /\ b = plan[2] /\ WellFormed(b)
      /\ b.schema = Produces(a) /\ a.kind \notin {"limit", "aggregate"}
      /\ b.kind = "filter" => a.kind = "filter"
  BY <1>1, <1>2, <1>3, RestIsRunnable, Zenon
<1>6. /\ out \in Seq(Seq(RowsIn(b, table))) /\ FullTo(out, Len(out) - 1)
      /\ b.kind = "filter" => \A i \in DOMAIN table : FitsSchema(table[i], b.schema)
  BY <1>2, <1>4, <1>5, DeliveredFits, Zenon
<1>7. Sized(out) /\ table \in Tables
  BY <1>2, QueryIs
<1>8. PICK tab : tab = table
  OBVIOUS
<1>9. PICK T : T = RowsIn(b, tab)
  OBVIOUS
<1>10. PICK gv \in Seq(Seq(T)) : gv = out
  BY <1>6, <1>8, <1>9
<1>11. PICK st : st = status'
  OBVIOUS
<1>12. st = IF b.kind \in {"sort", "aggregate"} THEN "init" ELSE "running"
  BY <1>5, <1>11, Zenon DEF NextNode
<1>13. StatusOK(b, st) /\ Works(b, T, gv, gv, <<>>, 0, <<>>, <<>>, 0, <<>>, st)
  BY <1>5, <1>12, WorksStarts, Zenon
<1>14. PlanOK(pl, tab, gv)
  <2>1. b = Head(pl)
    BY <1>3
  <2>2. gv \in Seq(Seq(RowsIn(Head(pl), tab)))
    BY <1>9, <2>1
  <2>3. /\ Runnable(pl) /\ tab \in Tables /\ Sized(gv) /\ FullTo(gv, Len(gv) - 1)
        /\ Head(pl).kind = "filter" => \A i \in DOMAIN tab : FitsSchema(tab[i], Head(pl).schema)
    BY <1>5, <1>6, <1>7, <1>8, <1>10, <2>1, Zenon
  <2> QED
    BY <2>2, <2>3 DEF PlanOK
<1>15. /\ plan' = pl /\ table' = tab /\ given' = gv /\ child' = gv
       /\ buffer' = <<>> /\ offset' = 0 /\ batch' = <<>>
       /\ entries' = <<>> /\ emitted' = 0 /\ out' = <<>>
  BY <1>3, <1>8, <1>10 DEF NextNode, Fresh
<1>16. node' = b
  BY <1>3, <1>15 DEF node
<1>17. Sized(<<>>)
  BY NothingDelivered
<1> QED
  BY <1>9, <1>11, <1>13, <1>14, <1>15, <1>16, <1>17, Zenon DEF QueryInv

-----------------------------------------------------------------------------
(***************************************************************************)
(* The theorems.                                                           *)
(***************************************************************************)
(* What is running has read a part of what it was given and made of it     *)
(* what it should; the next node is given full batches, but for the last.  *)
THEOREM QueryInvariant == Spec => []QueryInv
<1>1. Init => QueryInv
  BY QueryStarts
<1>2. QueryInv /\ [Next]_vars => QueryInv'
  <2> SUFFICES ASSUME QueryInv, [Next]_vars
               PROVE  QueryInv'
    OBVIOUS
  <2>1. CASE FilterTurn
    BY <2>1, FilterKeeps
  <2>2. CASE ProjectionNext
    BY <2>2, ProjectionKeeps
  <2>3. CASE SortInit
    BY <2>3, SortInitKeeps
  <2>4. CASE SortNext
    BY <2>4, SortNextKeeps
  <2>5. CASE LimitNext
    BY <2>5, LimitKeeps
  <2>6. CASE AggregateInit
    BY <2>6, AggregateInitKeeps
  <2>7. CASE AggregateNext
    BY <2>7, AggregateNextKeeps
  <2>8. CASE NextNode
    BY <2>8, NextNodeKeeps
  <2>9. CASE UNCHANGED vars
    <3>1. /\ Stays /\ child' = child /\ buffer' = buffer /\ offset' = offset /\ batch' = batch
          /\ entries' = entries /\ emitted' = emitted /\ out' = out /\ status' = status
      BY <2>9 DEF vars, Stays
    <3>2. StatusOK(node, status) /\ Sized(out)
      BY DEF QueryInv
    <3>3. status # "failed" => Works(node, RowsIn(node, table), given, child, buffer, offset,
                                     batch, entries, emitted, out, status)
      BY Zenon DEF QueryInv
    <3> QED
      BY <3>1, <3>2, <3>3, NodeStays, Zenon
  <2> QED
    BY <2>1, <2>2, <2>3, <2>4, <2>5, <2>6, <2>7, <2>8, <2>9 DEF Next
<1> QED
  BY <1>1, <1>2, PTL DEF Spec

(* What a node that is done has delivered, of all it was given.            *)
LEMMA FilterEnds ==
  ASSUME NEW n, NEW T, NEW gv \in Seq(Seq(T)), NEW ch, NEW buf, NEW off, NEW ba, NEW ou,
         FilterStream(n, T, gv, ch, buf, off, ba, ou), Idle(ch, buf, off, ba)
  PROVE  Flat(ou) = Kept(n, Flat(gv))
<1>1. ch = <<>> /\ RestOf(buf, off) = <<>> /\ ba = <<>>
  BY DEF Idle
<1>2. PICK seen \in Seq(T) : Reading(gv, ch, buf, off, seen) /\ Flat(ou) \o ba = Kept(n, seen)
  BY Zenon DEF FilterStream
<1>3. seen = Flat(gv)
  BY <1>1, <1>2, AllRead, Zenon
<1>4. PICK o \in Seq(T) : o = Flat(ou)
  BY FlatType, Zenon DEF FilterStream, Delivers
<1>5. o \o <<>> = o
  OBVIOUS
<1> QED
  BY <1>1, <1>2, <1>3, <1>4, <1>5, Zenon

LEMMA ProjectionEnds ==
  ASSUME NEW n, NEW T, NEW gv \in Seq(Seq(T)), NEW ch, NEW buf, NEW off, NEW ou,
         ProjectionStream(n, T, gv, ch, buf, off, ou), Idle(ch, buf, off, <<>>)
  PROVE  Flat(ou) = ProjectBy(n, Flat(gv)) /\ NoThrow(n, Flat(gv))
<1>1. ch = <<>> /\ RestOf(buf, off) = <<>>
  BY DEF Idle
<1>2. PICK seen \in Seq(T) : /\ Reading(gv, ch, buf, off, seen)
                             /\ Flat(ou) = ProjectBy(n, seen) /\ NoThrow(n, seen)
  BY Zenon DEF ProjectionStream
<1>3. seen = Flat(gv)
  BY <1>1, <1>2, AllRead, Zenon
<1> QED
  BY <1>2, <1>3, Zenon

LEMMA SortEnds ==
  ASSUME NEW n, NEW T, NEW gv, NEW ou, SortStream(n, T, gv, ou, <<>>)
  PROVE  Sorted(n, Flat(gv), Flat(ou))
<1>1. Sorted(n, Flat(gv), Flat(ou) \o <<>>)
  BY Zenon DEF SortStream
<1>2. PICK o \in Seq(T) : o = Flat(ou)
  BY FlatType, Zenon DEF SortStream, Delivers
<1>3. o \o <<>> = o
  OBVIOUS
<1> QED
  BY <1>1, <1>2, <1>3, Zenon

LEMMA StreamsAreRelations == QueryInv => StreamIsTheRelation
<1> SUFFICES ASSUME QueryInv
             PROVE  StreamIsTheRelation
  OBVIOUS
<1>1. PICK n, T, gv, ou : n = node /\ T = RowsIn(node, table) /\ gv = given /\ ou = out
  OBVIOUS
<1>2. ASSUME plan # <<>>, status = "done"
      PROVE  /\ gv \in Seq(Seq(T))
             /\ n.kind = "limit" => n.limit \in Nat
             /\ Works(n, T, gv, child, buffer, offset, batch, entries, emitted, ou, "done")
  BY <1>1, <1>2, QueryIs
<1>3. Done("filter") => Output = Selected(Input)
  <2> SUFFICES ASSUME Done("filter")
               PROVE  Output = Selected(Input)
    OBVIOUS
  <2>1. plan # <<>> /\ status = "done" /\ n.kind = "filter"
    BY <1>1 DEF Done
  <2>2. gv \in Seq(Seq(T)) /\ FilterOK(n, T, gv, child, buffer, offset, batch, ou, "done")
    BY <1>2, <2>1 DEF Works
  <2>3. FilterStream(n, T, gv, child, buffer, offset, batch, ou) /\ Idle(child, buffer, offset, batch)
    BY <2>2 DEF FilterOK
  <2>4. Flat(ou) = Kept(n, Flat(gv))
    BY <2>2, <2>3, FilterEnds
  <2> QED
    BY <1>1, <2>4, NodeOperators, Zenon DEF Output, Input
<1>4. Done("projection") => Output = Project(Input)
  <2> SUFFICES ASSUME Done("projection")
               PROVE  Output = Project(Input)
    OBVIOUS
  <2>1. plan # <<>> /\ status = "done" /\ n.kind = "projection"
    BY <1>1 DEF Done
  <2>2. gv \in Seq(Seq(T)) /\ ProjectionOK(n, T, gv, child, buffer, offset, ou, "done")
    BY <1>2, <2>1 DEF Works
  <2>3. ProjectionStream(n, T, gv, child, buffer, offset, ou) /\ Idle(child, buffer, offset, <<>>)
    BY <2>2 DEF ProjectionOK
  <2>4. Flat(ou) = ProjectBy(n, Flat(gv))
    BY <2>2, <2>3, ProjectionEnds
  <2> QED
    BY <1>1, <2>4, NodeOperators, Zenon DEF Output, Input
<1>5. Done("sort") => ToBag(Output) = ToBag(Input)
  <2> SUFFICES ASSUME Done("sort")
               PROVE  ToBag(Output) = ToBag(Input)
    OBVIOUS
  <2>1. plan # <<>> /\ status = "done" /\ n.kind = "sort"
    BY <1>1 DEF Done
  <2>2. gv \in Seq(Seq(T)) /\ SortOK(n, T, gv, child, ou, entries, "done")
    BY <1>2, <2>1 DEF Works
  <2>3. SortStream(n, T, gv, ou, <<>>)
    BY <2>2 DEF SortOK
  <2>4. PICK rows \in Seq(T) : rows = Flat(gv)
    BY <2>2, FlatType
  <2>5. Permuted(rows, Flat(ou))
    BY <2>3, <2>4, SortEnds, Zenon DEF Sorted
  <2>6. ToBag(Flat(ou)) = ToBag(rows)
    BY <2>5, PermutedBag, Zenon
  <2> QED
    BY <1>1, <2>4, <2>6, Zenon DEF Output, Input
<1>6. Done("limit") /\ Len(Input) >= node.limit => Output = SubSeq(Input, 1, node.limit)
  <2> SUFFICES ASSUME Done("limit"), Len(Input) >= node.limit
               PROVE  Output = SubSeq(Input, 1, node.limit)
    OBVIOUS
  <2>1. plan # <<>> /\ status = "done" /\ n.kind = "limit"
    BY <1>1 DEF Done
  <2>2. /\ gv \in Seq(Seq(T)) /\ n.limit \in Nat
        /\ LimitOK(n, T, gv, child, ou, emitted, "done")
    BY <1>2, <2>1 DEF Works
  <2>3. LimitStream(n, T, gv, child, ou, emitted) /\ (child = <<>> \/ emitted = n.limit)
    BY <2>2 DEF LimitOK
  <2>4. Len(Flat(gv)) >= n.limit
    BY <1>1 DEF Input
  <2>5. Flat(ou) = SubSeq(Flat(gv), 1, n.limit)
    BY <2>2, <2>3, <2>4, LimitEnds, Zenon
  <2> QED
    BY <1>1, <2>5, Zenon DEF Output, Input
<1>7. \A b \in Range(out) : Len(b) \in 1 .. BatchSize
  <2>1. Sized(out)
    BY DEF QueryInv
  <2> QED
    BY <2>1 DEF Sized, Range
<1> QED
  BY <1>3, <1>4, <1>5, <1>6, <1>7, Zenon DEF StreamIsTheRelation

(* However the rows fall into batches, Filter, Projection, Sort and Limit  *)
(* return the relation they stand for: for every table, plan and batch     *)
(* size, the rows that pass in order, each row projected once, each row    *)
(* once, the first of enough rows, in batches no longer than asked for.    *)
THEOREM StreamsReturnRelations == Spec => []StreamIsTheRelation
<1>1. Spec => []QueryInv
  BY QueryInvariant
<1>2. QueryInv => StreamIsTheRelation
  BY StreamsAreRelations
<1> QED
  BY <1>1, <1>2, PTL

LEMMA NullsStandWhereOrdered == QueryInv => NullsWhereOrdered
<1> SUFFICES ASSUME QueryInv, Done("sort")
             PROVE  NullsWhereOrdered
  BY DEF NullsWhereOrdered
<1>1. PICK n, T, gv, ou : n = node /\ T = RowsIn(node, table) /\ gv = given /\ ou = out
  OBVIOUS
<1>2. plan # <<>> /\ status = "done" /\ n.kind = "sort" /\ n.kind # "filter"
  BY <1>1 DEF Done
<1>3. /\ gv \in Seq(Seq(T)) /\ IsSort(n)
      /\ Works(n, T, gv, child, buffer, offset, batch, entries, emitted, ou, "done")
  BY <1>1, <1>2, QueryIs
<1>4. T = RowsOf(n.schema)
  BY <1>1, <1>2, QueryIs, Zenon
<1>5. SortStream(n, T, gv, ou, <<>>)
  BY <1>2, <1>3 DEF Works, SortOK
<1>6. PICK rows \in Seq(T) : rows = Flat(gv)
  BY <1>3, FlatType
<1>7. PICK sorted : sorted = Flat(ou)
  OBVIOUS
<1>8. Sorted(n, rows, sorted)
  BY <1>5, <1>6, <1>7, SortEnds, Zenon
<1>9. ASSUME NEW i \in DOMAIN sorted, NEW j \in DOMAIN sorted, NEW k \in DOMAIN n.order_bys,
             NEW a, a = SortKeys(sorted[i]), NEW b, b = SortKeys(sorted[j]),
             i < j, \A m \in 1 .. k - 1 : Alike(a[m], b[m]), a[k].null # b[k].null
      PROVE  a[k].null = NullsAskedFirst(n.order_bys[k])
  <2>1. NullsStand(n, KeysOf(n, sorted[i]), KeysOf(n, sorted[j]), k)
    BY <1>3, <1>4, <1>8, <1>9, SortedNulls, Zenon
  <2>2. a = KeysOf(n, sorted[i]) /\ b = KeysOf(n, sorted[j])
    BY <1>1, <1>9, Zenon DEF SortKeys, KeysOf
  <2>3. NullsStand(n, a, b, k)
    BY <2>1, <2>2, Zenon
  <2> QED
    BY <1>9, <2>3, Zenon DEF NullsStand
<1>10. Output = sorted
  BY <1>1, <1>7 DEF Output
<1>11. ASSUME NEW i \in DOMAIN Output, NEW j \in DOMAIN Output, NEW k \in DOMAIN node.order_bys,
              i < j,
              \A m \in 1 .. k - 1 : Alike(SortKeys(Output[i])[m], SortKeys(Output[j])[m]),
              SortKeys(Output[i])[k].null # SortKeys(Output[j])[k].null
       PROVE  SortKeys(Output[i])[k].null = NullsAskedFirst(node.order_bys[k])
  <2>1. PICK a, b : a = SortKeys(Output[i]) /\ b = SortKeys(Output[j])
    OBVIOUS
  <2>2. /\ i \in DOMAIN sorted /\ j \in DOMAIN sorted /\ k \in DOMAIN n.order_bys
        /\ a = SortKeys(sorted[i]) /\ b = SortKeys(sorted[j])
    BY <1>1, <1>10, <2>1
  <2>3. (\A m \in 1 .. k - 1 : Alike(a[m], b[m])) /\ a[k].null # b[k].null
    BY <1>11, <2>1, Zenon
  <2>4. a[k].null = NullsAskedFirst(n.order_bys[k])
    BY <1>9, <1>11, <2>2, <2>3
  <2> QED
    BY <1>1, <2>1, <2>4, Zenon
<1> QED
  BY <1>11, Zenon DEF NullsWhereOrdered

(* For every table, sort keys and batch size: of two rows alike on the     *)
(* earlier sort keys, just one of which is NULL in the next, the NULL      *)
(* stands on the side SortComparator was asked for, although its test for  *)
(* equal keys compares a value with itself.                                *)
THEOREM NullsStandOnTheirSide == Spec => []NullsWhereOrdered
<1>1. Spec => []QueryInv
  BY QueryInvariant
<1>2. QueryInv => NullsWhereOrdered
  BY NullsStandWhereOrdered
<1> QED
  BY <1>1, <1>2, PTL

LEMMA ColumnsRead == QueryInv => ColumnsReadBack
<1> SUFFICES ASSUME QueryInv
             PROVE  ColumnsReadBack
  OBVIOUS
<1>1. PICK n, T, gv, ou, tab :
        n = node /\ T = RowsIn(node, table) /\ gv = given /\ ou = out /\ tab = table
  OBVIOUS
<1>2. ASSUME plan # <<>>, status = "done"
      PROVE  /\ gv \in Seq(Seq(T))
             /\ IsSchema(n.schema)
             /\ n.kind = "projection" => IsProjection(n)
             /\ n.kind = "filter" => \A i \in DOMAIN tab : FitsSchema(tab[i], n.schema)
             /\ n.kind # "filter" => T = RowsOf(n.schema)
             /\ Works(n, T, gv, child, buffer, offset, batch, entries, emitted, ou, "done")
  BY <1>1, <1>2, QueryIs, Zenon
<1>3. ASSUME Done("projection"), NEW i \in DOMAIN Output
      PROVE  ReadsBack(node.output, Output[i], Projected(Input[i]))
  <2>1. plan # <<>> /\ status = "done" /\ n.kind = "projection" /\ n.kind # "filter"
    BY <1>1, <1>3 DEF Done
  <2>2. gv \in Seq(Seq(T)) /\ T = RowsOf(n.schema) /\ IsProjection(n)
    BY <1>2, <2>1
  <2>3. ProjectionStream(n, T, gv, child, buffer, offset, ou) /\ Idle(child, buffer, offset, <<>>)
    BY <1>2, <2>1 DEF Works, ProjectionOK
  <2>4. PICK rows \in Seq(T) : rows = Flat(gv)
    BY <2>2, FlatType
  <2>5. Output = ProjectBy(n, rows) /\ NoThrow(n, rows)
    <3>1. Flat(ou) = ProjectBy(n, Flat(gv)) /\ NoThrow(n, Flat(gv))
      BY <2>2, <2>3, ProjectionEnds
    <3> QED
      BY <1>1, <2>4, <3>1, Zenon DEF Output
  <2>6. i \in DOMAIN rows /\ Output[i] = MakeTuple(ProjectedBy(n, rows[i]))
    BY <1>3, <2>5 DEF ProjectBy
  <2>7. PICK t \in RowsOf(n.schema) : t = rows[i]
    BY <2>2, <2>4, <2>6
  <2>8. ~Throws(ProjectedBy(n, t))
    BY <2>5, <2>6, <2>7, Zenon DEF NoThrow
  <2>9. FitsSchema(ProjectedBy(n, t), n.output)
    BY <2>2, <2>8, ProjectedFits, Zenon
  <2>10. IsSchema(n.output)
    BY <2>2 DEF IsProjection
  <2>11. ReadsBack(n.output, MakeTuple(ProjectedBy(n, t)), ProjectedBy(n, t))
    BY <2>9, <2>10, TupleReadsBack, Zenon
  <2>12. Projected(Input[i]) = ProjectedBy(n, t)
    BY <1>1, <2>4, <2>7, NodeOperators, Zenon DEF Input
  <2> QED
    BY <1>1, <2>6, <2>7, <2>11, <2>12, Zenon
<1>4. ASSUME Done("filter"), NEW t \in Range(Output)
      PROVE  \E i \in DOMAIN tab : t = MakeTuple(tab[i]) /\ ReadsBack(n.schema, t, tab[i])
  <2>1. plan # <<>> /\ status = "done" /\ n.kind = "filter"
    BY <1>1, <1>4 DEF Done
  <2>2. FilterStream(n, T, gv, child, buffer, offset, batch, ou)
    BY <1>2, <2>1 DEF Works, FilterOK
  <2>3. PICK o \in Seq(T) : o = Flat(ou)
    BY <2>2, FlatType, Zenon DEF FilterStream, Delivers
  <2>4. t \in Range(o)
    BY <1>1, <1>4, <2>3 DEF Output
  <2>5. t \in T
    BY <2>4 DEF Range
  <2>6. T = {MakeTuple(tab[i]) : i \in DOMAIN tab}
    BY <1>1, <2>1 DEF RowsIn
  <2>7. PICK i \in DOMAIN tab : t = MakeTuple(tab[i])
    BY <2>5, <2>6
  <2>8. IsSchema(n.schema) /\ FitsSchema(tab[i], n.schema)
    BY <1>2, <2>1
  <2>9. ReadsBack(n.schema, MakeTuple(tab[i]), tab[i])
    BY <2>8, TupleReadsBack, Zenon
  <2> QED
    BY <2>7, <2>9, Zenon
<1> QED
  BY <1>1, <1>3, <1>4, Zenon DEF ColumnsReadBack

(* For every schema of one-byte columns, every row and every projection:   *)
(* Tuple::value returns what the constructor was given, up to and          *)
(* including the first NULL, of the table's rows and of projected rows.    *)
THEOREM ColumnsReadBackAlways == Spec => []ColumnsReadBack
<1>1. Spec => []QueryInv
  BY QueryInvariant
<1>2. QueryInv => ColumnsReadBack
  BY ColumnsRead
<1> QED
  BY <1>1, <1>2, PTL

=============================================================================
