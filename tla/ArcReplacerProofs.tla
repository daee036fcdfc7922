-------------------------- MODULE ArcReplacerProofs --------------------------
(***************************************************************************)
(* What the methods of ArcReplacer preserve, and the invariants of the     *)
(* replacer in the hands of the buffer pool, for every number of frames    *)
(* and every set of pages.  The lemmas are about the replacer's state as a *)
(* value, so that ArcBufferPoolProofs can use them too.  The inductive     *)
(* invariant is ArcInv of the replacer's state, and that both live lists   *)
(* are in the order of the last accesses.                                  *)
(***************************************************************************)
EXTENDS ArcDriver, FiniteSetTheorems, SequenceTheorems, WellFoundedInduction, TLAPS

-----------------------------------------------------------------------------
(***************************************************************************)
(* Induction over a set of numbers, which first-order provers can use in   *)
(* place of a predicate.                                                   *)
(***************************************************************************)
LEMMA NatMinimum ==
  ASSUME NEW T \in SUBSET Nat, T # {}
  PROVE  \E m \in T : \A k \in T : m <= k
<1>1. PICK m \in T : \A k \in T : <<k, m>> \notin OpToRel(<, Nat)
  <2>1. IsWellFoundedOn(OpToRel(<, Nat), Nat)
    BY NatLessThanWellFounded
  <2> QED
    BY <2>1, WFMin
<1>2. ASSUME NEW k \in T, k < m PROVE FALSE
  <2>1. PICK p \in Nat \X Nat : p = <<k, m>>
    OBVIOUS
  <2>2. p[1] = k /\ p[2] = m
    BY <2>1
  <2>3. p \in OpToRel(<, Nat)
    BY <1>2, <2>2 DEF OpToRel
  <2> QED
    BY <1>1, <2>1, <2>3
<1> QED
  BY <1>2

LEMMA UpToInduction ==
  ASSUME NEW n \in Nat, NEW S, 0 \in S,
         \A m \in 1 .. n : m - 1 \in S => m \in S
  PROVE  0 .. n \subseteq S
<1> SUFFICES ASSUME (0 .. n) \ S # {}
             PROVE  FALSE
  OBVIOUS
<1>1. PICK m \in (0 .. n) \ S : \A k \in (0 .. n) \ S : m <= k
  <2>1. (0 .. n) \ S \in SUBSET Nat
    OBVIOUS
  <2> QED
    BY <2>1, NatMinimum
<1>2. m \in 1 .. n /\ m - 1 \notin (0 .. n) \ S
  BY <1>1
<1>3. m - 1 \in S
  BY <1>2
<1> QED
  BY <1>1, <1>2, <1>3

-----------------------------------------------------------------------------
(* s lists the set D, each element once. *)
Lists(s, D) == s \in Seq(D) /\ IsInjective(s) /\ ToSet(s) = D

LEMMA ListFacts ==
  ASSUME NEW s, NEW D, Lists(s, D)
  PROVE  /\ Len(s) \in Nat /\ DOMAIN s = 1 .. Len(s)
         /\ \A i \in 1 .. Len(s) : s[i] \in D
         /\ \A x \in D : \E i \in 1 .. Len(s) : s[i] = x
         /\ \A i, j \in 1 .. Len(s) : s[i] = s[j] => i = j
         /\ IsFiniteSet(D) /\ Cardinality(D) = Len(s)
<1>1. /\ Len(s) \in Nat /\ DOMAIN s = 1 .. Len(s)
      /\ s \in [1 .. Len(s) -> D]
  BY DEF Lists
<1>2. /\ \A i \in 1 .. Len(s) : s[i] \in D
      /\ \A x \in D : \E i \in 1 .. Len(s) : s[i] = x
      /\ \A i, j \in 1 .. Len(s) : s[i] = s[j] => i = j
  BY <1>1 DEF Lists, ToSet, IsInjective
<1>3. ExistsBijection(1 .. Len(s), D)
  <2>1. s \in Bijection(1 .. Len(s), D)
    BY <1>1, <1>2 DEF Bijection, Injection, Surjection, IsInjective
  <2> QED
    BY <2>1 DEF ExistsBijection
<1>4. IsFiniteSet(D) /\ Cardinality(D) = Len(s)
  BY <1>1, <1>3, FS_NatBijection, FS_CountingElements
<1> QED
  BY <1>1, <1>2, <1>4

LEMMA ListMade ==
  ASSUME NEW D, NEW n \in Nat, NEW s \in [1 .. n -> D],
         \A x \in D : \E i \in 1 .. n : s[i] = x,
         \A i, j \in 1 .. n : s[i] = s[j] => i = j
  PROVE  Lists(s, D)
<1>1. s \in Seq(D) /\ DOMAIN s = 1 .. n
  OBVIOUS
<1>2. \A i \in 1 .. n : s[i] \in D
  OBVIOUS
<1> QED
  BY <1>1, <1>2 DEF Lists, IsInjective, ToSet

LEMMA ListEmpty ==
  /\ Lists(<< >>, {})
  /\ \A s, D : Lists(s, D) => (s = << >> <=> D = {})
<1>1. Lists(<< >>, {})
  BY DEF Lists, IsInjective, ToSet
<1>2. ASSUME NEW s, NEW D, Lists(s, D) PROVE s = << >> <=> D = {}
  <2>1. CASE s = << >>
    <3>1. Len(s) = 0
      BY <2>1
    <3> QED
      BY <1>2, <2>1, <3>1, ListFacts
  <2>2. CASE D = {}
    <3>1. Len(s) = 0 /\ s \in Seq(D)
      BY <1>2, <2>2, ListFacts, FS_EmptySet DEF Lists
    <3> QED
      BY <2>2, <3>1, EmptySeq
  <2> QED
    BY <2>1, <2>2
<1> QED
  BY <1>1, <1>2

LEMMA ListPush ==
  ASSUME NEW s, NEW D, Lists(s, D), NEW x, x \notin D
  PROVE  Lists(<<x>> \o s, D \cup {x})
<1> DEFINE E == D \cup {x}
           t == <<x>> \o s
           n == Len(s)
<1>1. /\ n \in Nat /\ DOMAIN s = 1 .. n
      /\ \A i \in 1 .. n : s[i] \in D
      /\ \A y \in D : \E i \in 1 .. n : s[i] = y
      /\ \A i, j \in 1 .. n : s[i] = s[j] => i = j
  BY ListFacts
<1>2. s \in Seq(E) /\ <<x>> \in Seq(E)
  <2>1. s \in Seq(D)
    BY DEF Lists
  <2> QED
    BY <2>1
<1>3. /\ t \in Seq(E) /\ Len(t) = n + 1
      /\ t[1] = x /\ \A i \in 1 .. n : t[i + 1] = s[i]
  BY <1>1, <1>2, ConcatProperties
<1>4. t \in [1 .. (n + 1) -> E]
  <2>1. t \in [1 .. Len(t) -> E]
    BY <1>3, LenProperties
  <2> QED
    BY <1>3, <2>1
<1> HIDE DEF t
<1>5. ASSUME NEW i \in 1 .. (n + 1)
      PROVE  \/ i = 1 /\ t[i] = x
             \/ i - 1 \in 1 .. n /\ t[i] = s[i - 1]
  BY <1>1, <1>3
<1>6. \A y \in E : \E i \in 1 .. (n + 1) : t[i] = y
  <2>1. ASSUME NEW y \in D PROVE \E i \in 1 .. (n + 1) : t[i] = y
    <3>1. PICK i \in 1 .. n : s[i] = y
      BY <1>1
    <3>2. i + 1 \in 1 .. (n + 1) /\ t[i + 1] = y
      BY <1>1, <1>3, <3>1
    <3> QED
      BY <3>2
  <2>2. 1 \in 1 .. (n + 1) /\ t[1] = x
    BY <1>1, <1>3
  <2> QED
    BY <2>1, <2>2
<1>7. \A i, j \in 1 .. (n + 1) : t[i] = t[j] => i = j
  BY <1>1, <1>5
<1>8. n + 1 \in Nat
  BY <1>1
<1>9. Lists(t, E)
  BY <1>4, <1>6, <1>7, <1>8, ListMade
<1> QED
  BY <1>9 DEF t

LEMMA ListFront ==
  ASSUME NEW s, NEW D, Lists(s, D), s # << >>
  PROVE  Last(s) \in D /\ Lists(Front(s), D \ {Last(s)})
<1> DEFINE n == Len(s)
           t == Front(s)
           E == D \ {Last(s)}
<1>1. /\ n \in Nat /\ DOMAIN s = 1 .. n
      /\ \A i \in 1 .. n : s[i] \in D
      /\ \A y \in D : \E i \in 1 .. n : s[i] = y
      /\ \A i, j \in 1 .. n : s[i] = s[j] => i = j
  BY ListFacts
<1>2. n \in 1 .. n /\ n - 1 \in Nat
  <2>1. s \in Seq(D)
    BY DEF Lists
  <2> QED
    BY <2>1, EmptySeq
<1>3. t = [i \in 1 .. (n - 1) |-> s[i]]
  BY <1>1, <1>2 DEF Front
<1>4. Last(s) = s[n]
  BY DEF Last
<1>0. PICK m \in Nat : m = n - 1
  BY <1>2
<1> HIDE DEF n, t, E
<1>5. t \in [1 .. m -> E]
  BY <1>0, <1>1, <1>2, <1>3, <1>4 DEF E
<1>6. ASSUME NEW y \in E PROVE \E i \in 1 .. m : t[i] = y
  <2>1. PICK i \in 1 .. n : s[i] = y
    BY <1>1, <1>6 DEF E
  <2>2. i \in 1 .. m
    BY <1>0, <1>2, <1>4, <1>6, <2>1 DEF E
  <2> QED
    BY <1>0, <1>3, <2>1, <2>2
<1>7. \A i, j \in 1 .. m : t[i] = t[j] => i = j
  BY <1>0, <1>1, <1>2, <1>3
<1>8. Lists(t, E)
  <2>1. t \in Seq(E) /\ DOMAIN t = 1 .. m
    BY <1>5
  <2> QED
    BY <1>5, <1>6, <1>7, <2>1 DEF Lists, IsInjective, ToSet
<1> QED
  BY <1>1, <1>2, <1>4, <1>8 DEF t, E

LEMMA ListAppend ==
  ASSUME NEW s, NEW D, Lists(s, D), NEW x, x \notin D
  PROVE  Lists(Append(s, x), D \cup {x})
<1> DEFINE E == D \cup {x}
           t == Append(s, x)
           n == Len(s)
<1>1. /\ n \in Nat /\ DOMAIN s = 1 .. n
      /\ \A i \in 1 .. n : s[i] \in D
      /\ \A y \in D : \E i \in 1 .. n : s[i] = y
      /\ \A i, j \in 1 .. n : s[i] = s[j] => i = j
  BY ListFacts
<1>2. s \in Seq(E) /\ x \in E
  <2>1. s \in Seq(D)
    BY DEF Lists
  <2> QED
    BY <2>1
<1>3. /\ t \in Seq(E) /\ Len(t) = n + 1
      /\ t[n + 1] = x /\ \A i \in 1 .. n : t[i] = s[i]
  BY <1>1, <1>2, AppendProperties
<1>4. DOMAIN t = 1 .. (n + 1)
  BY <1>3, LenProperties
<1> HIDE DEF t
<1>5. ASSUME NEW i \in 1 .. (n + 1)
      PROVE  \/ i = n + 1 /\ t[i] = x
             \/ i \in 1 .. n /\ t[i] = s[i]
  BY <1>1, <1>3
<1>6. \A y \in E : \E i \in 1 .. (n + 1) : t[i] = y
  <2>1. ASSUME NEW y \in D PROVE \E i \in 1 .. (n + 1) : t[i] = y
    <3>1. PICK i \in 1 .. n : s[i] = y
      BY <1>1
    <3>2. i \in 1 .. (n + 1) /\ t[i] = y
      BY <1>1, <1>3, <3>1
    <3> QED
      BY <3>2
  <2>2. (n + 1) \in 1 .. (n + 1) /\ t[n + 1] = x
    BY <1>1, <1>3
  <2> QED
    BY <2>1, <2>2
<1>7. \A i, j \in 1 .. (n + 1) : t[i] = t[j] => i = j
  BY <1>1, <1>5
<1>8. \A i \in 1 .. (n + 1) : t[i] \in E
  BY <1>1, <1>5
<1>9. Lists(t, E)
  <2>1. ToSet(t) = E
    BY <1>4, <1>6, <1>8 DEF ToSet
  <2>2. IsInjective(t)
    BY <1>4, <1>7 DEF IsInjective
  <2> QED
    BY <1>3, <2>1, <2>2 DEF Lists
<1> QED
  BY <1>9 DEF t

-----------------------------------------------------------------------------
(***************************************************************************)
(* Kept: what stays of a list, in its order.                               *)
(***************************************************************************)
Before(s, x, y) == \E i, j \in DOMAIN s : i < j /\ s[i] = x /\ s[j] = y

KeptUpTo(s, T) ==
  LET upTo[i \in 0 .. Len(s)] ==
        IF i = 0 THEN <<>>
        ELSE IF s[i] \in T THEN Append(upTo[i - 1], s[i]) ELSE upTo[i - 1]
  IN upTo

KeepsTo(f, s, T, n) ==
  /\ f[0] = << >>
  /\ \A i \in 1 .. n :
       f[i] = IF s[i] \in T THEN Append(f[i - 1], s[i]) ELSE f[i - 1]

LEMMA KeepsExists ==
  ASSUME NEW D, NEW s \in Seq(D), NEW T
  PROVE  \E f : DOMAIN f = 0 .. Len(s) /\ f = [i \in 0 .. Len(s) |-> f[i]]
                /\ KeepsTo(f, s, T, Len(s))
<1> DEFINE n == Len(s)
           Some(m) == \E f : DOMAIN f = 0 .. m /\ f = [i \in 0 .. m |-> f[i]]
                             /\ KeepsTo(f, s, T, m)
           S == {m \in 0 .. n : Some(m)}
<1>0. n \in Nat
  OBVIOUS
<1> HIDE DEF n
<1>1. Some(0)
  <2> DEFINE f == [i \in 0 .. 0 |-> << >>]
  <2>1. DOMAIN f = 0 .. 0 /\ f = [i \in 0 .. 0 |-> f[i]] /\ f[0] = << >>
    OBVIOUS
  <2>2. KeepsTo(f, s, T, 0)
    BY <2>1 DEF KeepsTo
  <2> QED
    BY <2>1, <2>2
<1>2. ASSUME NEW m \in 1 .. n, Some(m - 1) PROVE Some(m)
  <2>1. PICK f : KeepsTo(f, s, T, m - 1)
    BY <1>2
  <2> DEFINE x == IF s[m] \in T THEN Append(f[m - 1], s[m]) ELSE f[m - 1]
             g == [i \in 0 .. m |-> IF i = m THEN x ELSE f[i]]
  <2>2. /\ DOMAIN g = 0 .. m /\ g = [i \in 0 .. m |-> g[i]]
        /\ g[m] = x /\ \A i \in 0 .. (m - 1) : g[i] = f[i]
    BY <1>0
  <2> HIDE DEF g
  <2>3. g[0] = << >>
    <3>1. 0 \in 0 .. (m - 1)
      BY <1>0
    <3> QED
      BY <2>1, <2>2, <3>1 DEF KeepsTo
  <2>4. ASSUME NEW i \in 1 .. m
        PROVE  g[i] = IF s[i] \in T THEN Append(g[i - 1], s[i]) ELSE g[i - 1]
    <3>0. g[i - 1] = f[i - 1]
      <4>1. i - 1 \in 0 .. (m - 1)
        BY <1>0
      <4> QED
        BY <2>2, <4>1
    <3>1. CASE i = m
      BY <2>2, <3>0, <3>1
    <3>2. CASE i # m
      <4>0. i \in 1 .. (m - 1) /\ i \in 0 .. (m - 1)
        BY <1>0, <3>2
      <4>1. i \in 1 .. (m - 1) /\ g[i] = f[i]
        BY <2>2, <4>0
      <4>2. f[i] = IF s[i] \in T THEN Append(f[i - 1], s[i]) ELSE f[i - 1]
        BY <2>1, <4>1 DEF KeepsTo
      <4> QED
        BY <3>0, <4>1, <4>2
    <3> QED
      BY <3>1, <3>2
  <2>5. KeepsTo(g, s, T, m)
    BY <2>3, <2>4 DEF KeepsTo
  <2> QED
    BY <2>2, <2>5
<1>3. 0 .. n \subseteq S
  <2>1. 0 \in S
    BY <1>0, <1>1
  <2>2. ASSUME NEW m \in 1 .. n, m - 1 \in S PROVE m \in S
    BY <1>0, <1>2, <2>2
  <2> HIDE DEF S
  <2> QED
    BY <1>0, <2>1, <2>2, UpToInduction
<1>4. n \in 0 .. n
  BY <1>0
<1> QED
  BY <1>3, <1>4 DEF n

LEMMA KeptIs ==
  ASSUME NEW D, NEW s \in Seq(D), NEW T
  PROVE  /\ KeepsTo(KeptUpTo(s, T), s, T, Len(s))
         /\ Kept(s, T) = KeptUpTo(s, T)[Len(s)]
<1> DEFINE n == Len(s)
           Good(f) == f = [i \in 0 .. n |->
                             IF i = 0 THEN << >>
                             ELSE IF s[i] \in T THEN Append(f[i - 1], s[i])
                                                ELSE f[i - 1]]
<1>0. n \in Nat
  OBVIOUS
<1>1. PICK f : f = [i \in 0 .. n |-> f[i]] /\ KeepsTo(f, s, T, n)
  BY KeepsExists
<1>2. Good(f)
  BY <1>0, <1>1 DEF KeepsTo
<1>3. Good(KeptUpTo(s, T))
  BY <1>2 DEF KeptUpTo
<1>4. KeepsTo(KeptUpTo(s, T), s, T, n)
  <2> DEFINE g == KeptUpTo(s, T)
  <2>1. Good(g)
    BY <1>3
  <2> HIDE DEF g
  <2>2. g[0] = << >>
    BY <1>0, <2>1
  <2>3. ASSUME NEW i \in 1 .. n
        PROVE  g[i] = IF s[i] \in T THEN Append(g[i - 1], s[i]) ELSE g[i - 1]
    <3>1. i \in 0 .. n /\ i # 0
      BY <1>0
    <3> QED
      BY <2>1, <3>1
  <2>4. KeepsTo(g, s, T, n)
    BY <2>2, <2>3 DEF KeepsTo
  <2> QED
    BY <2>4 DEF g
<1>5. Kept(s, T) = KeptUpTo(s, T)[Len(s)]
  BY DEF Kept, KeptUpTo
<1> QED
  BY <1>4, <1>5

(* What is kept is a list of the elements that are in T, in the order they *)
(* had.                                                                    *)
LEMMA ListKept ==
  ASSUME NEW s, NEW D, Lists(s, D), NEW T
  PROVE  /\ Lists(Kept(s, T), D \cap T)
         /\ \A x, y \in D \cap T : Before(Kept(s, T), x, y) => Before(s, x, y)
<1> DEFINE n == Len(s)
           f == KeptUpTo(s, T)
           First(i) == {s[j] : j \in 1 .. i}
           Ordered(i) == \A x, y : Before(f[i], x, y) =>
                           \E j, k \in 1 .. i : j < k /\ s[j] = x /\ s[k] = y
           S == {i \in 0 .. n : Lists(f[i], First(i) \cap T) /\ Ordered(i)}
<1>1. /\ n \in Nat /\ DOMAIN s = 1 .. n /\ s \in Seq(D)
      /\ \A i \in 1 .. n : s[i] \in D
      /\ \A y \in D : \E i \in 1 .. n : s[i] = y
      /\ \A i, j \in 1 .. n : s[i] = s[j] => i = j
  BY ListFacts DEF Lists
<1>2. KeepsTo(f, s, T, n) /\ Kept(s, T) = f[n]
  BY <1>1, KeptIs
<1> HIDE DEF n, f
<1>3. 0 \in S
  <2>1. f[0] = << >> /\ First(0) \cap T = {} /\ 0 \in 0 .. n
    BY <1>1, <1>2 DEF KeepsTo
  <2>2. Lists(f[0], First(0) \cap T)
    BY <2>1, ListEmpty
  <2>3. Ordered(0)
    BY <2>1 DEF Before
  <2> QED
    BY <2>1, <2>2, <2>3
<1>4. ASSUME NEW i \in 1 .. n, i - 1 \in S PROVE i \in S
  <2>1. /\ f[i] = IF s[i] \in T THEN Append(f[i - 1], s[i]) ELSE f[i - 1]
        /\ Lists(f[i - 1], First(i - 1) \cap T) /\ Ordered(i - 1)
    BY <1>2, <1>4 DEF KeepsTo
  <2>2. First(i) = First(i - 1) \cup {s[i]} /\ s[i] \notin First(i - 1)
    <3>1. 1 .. i = (1 .. (i - 1)) \cup {i} /\ i \notin 1 .. (i - 1)
          /\ 1 .. (i - 1) \subseteq 1 .. n
      BY <1>1
    <3>2. First(i) = First(i - 1) \cup {s[i]}
      BY <3>1
    <3>3. \A j \in 1 .. (i - 1) : s[j] # s[i]
      BY <1>1, <3>1
    <3> QED
      BY <3>2, <3>3
  <2>3. CASE s[i] \in T
    <3> DEFINE t == f[i - 1]
               E == First(i - 1) \cap T
    <3>1. f[i] = Append(t, s[i]) /\ Lists(t, E) /\ s[i] \notin E
      BY <2>1, <2>2, <2>3
    <3>2. First(i) \cap T = E \cup {s[i]}
      BY <2>2, <2>3
    <3> HIDE DEF E, t
    <3>3. Lists(f[i], First(i) \cap T)
      BY <3>1, <3>2, ListAppend
    <3>4. /\ Len(t) \in Nat /\ DOMAIN t = 1 .. Len(t)
          /\ \A j \in 1 .. Len(t) : t[j] \in E
      BY <3>1, ListFacts
    <3>5. /\ DOMAIN f[i] = 1 .. (Len(t) + 1) /\ f[i][Len(t) + 1] = s[i]
          /\ \A j \in 1 .. Len(t) : f[i][j] = t[j]
      <4>1. t \in Seq(E \cup {s[i]})
        BY <3>1 DEF Lists
      <4> QED
        BY <3>1, <4>1, AppendProperties, LenProperties
    <3>6. ASSUME NEW x, NEW y, Before(f[i], x, y)
          PROVE  \E j, k \in 1 .. i : j < k /\ s[j] = x /\ s[k] = y
      <4>1. PICK j, k \in 1 .. (Len(t) + 1) : j < k /\ f[i][j] = x /\ f[i][k] = y
        BY <3>5, <3>6 DEF Before
      <4>2. j \in 1 .. Len(t) /\ x = t[j]
        BY <3>4, <3>5, <4>1
      <4>3. CASE k \in 1 .. Len(t)
        <5>1. Before(t, x, y)
          BY <3>4, <3>5, <4>1, <4>2, <4>3 DEF Before
        <5>2. PICK a, b \in 1 .. (i - 1) : a < b /\ s[a] = x /\ s[b] = y
          BY <2>1, <5>1 DEF t
        <5> QED
          BY <1>1, <5>2
      <4>4. CASE k \notin 1 .. Len(t)
        <5>1. k = Len(t) + 1 /\ y = s[i]
          BY <3>4, <3>5, <4>1, <4>4
        <5>2. x \in First(i - 1)
          BY <3>4, <4>2 DEF E
        <5>3. PICK a \in 1 .. (i - 1) : s[a] = x
          BY <5>2
        <5>4. a \in 1 .. i /\ i \in 1 .. i /\ a < i
          BY <1>1
        <5> QED
          BY <5>1, <5>3, <5>4
      <4> QED
        BY <4>3, <4>4
    <3> QED
      BY <1>1, <3>3, <3>6
  <2>4. CASE s[i] \notin T
    <3>1. f[i] = f[i - 1] /\ First(i) \cap T = First(i - 1) \cap T
      BY <2>1, <2>2, <2>4
    <3>2. \A j \in 1 .. (i - 1) : j \in 1 .. i
      BY <1>1
    <3>3. Ordered(i)
      BY <2>1, <3>1, <3>2
    <3>4. Lists(f[i], First(i) \cap T)
      <4> HIDE DEF First
      <4> QED
        BY <2>1, <3>1
    <3>5. i \in 0 .. n
      BY <1>1
    <3> HIDE DEF First, Ordered
    <3> QED
      BY <3>3, <3>4, <3>5
  <2> QED
    BY <2>3, <2>4
<1>5. n \in S
  <2>1. n \in 0 .. n
    BY <1>1
  <2> HIDE DEF S
  <2>2. 0 .. n \subseteq S
    BY <1>1, <1>3, <1>4, UpToInduction
  <2> QED
    BY <2>1, <2>2
<1>6. First(n) = D
  BY <1>1
<1>7. ASSUME NEW x, NEW y, Before(f[n], x, y) PROVE Before(s, x, y)
  <2>1. Ordered(n)
    BY <1>5
  <2>2. \E j, k \in 1 .. n : j < k /\ s[j] = x /\ s[k] = y
    BY <1>7, <2>1
  <2> QED
    BY <1>1, <2>2 DEF Before
<1> QED
  BY <1>2, <1>5, <1>6, <1>7

LEMMA ListWithout ==
  ASSUME NEW s, NEW D, Lists(s, D), NEW x
  PROVE  Lists(Without(s, x), D \ {x})
<1>1. ToSet(s) = D
  BY DEF Lists
<1>2. Lists(Kept(s, D \ {x}), D \cap (D \ {x}))
  BY ListKept
<1>3. D \cap (D \ {x}) = D \ {x}
  OBVIOUS
<1> QED
  BY <1>1, <1>2, <1>3 DEF Without

LEMMA ListGrows ==
  ASSUME NEW s, NEW D, Lists(s, D), NEW t, NEW x, x \notin D,
         Lists(t, D \cup {x})
  PROVE  Len(t) = Len(s) + 1
<1>1. IsFiniteSet(D) /\ Cardinality(D) = Len(s) /\ Len(s) \in Nat
  BY ListFacts
<1>2. Cardinality(D \cup {x}) = Len(t)
  BY ListFacts
<1> QED
  BY <1>1, <1>2, FS_AddElement

LEMMA ListShrinks ==
  ASSUME NEW s, NEW D, Lists(s, D), NEW t, NEW x \in D, Lists(t, D \ {x})
  PROVE  Len(t) = Len(s) - 1
<1>1. IsFiniteSet(D) /\ Cardinality(D) = Len(s) /\ Len(s) \in Nat
  BY ListFacts
<1>2. Cardinality(D \ {x}) = Len(t)
  BY ListFacts
<1> QED
  BY <1>1, <1>2, FS_RemoveElement

LEMMA ListSame ==
  ASSUME NEW s, NEW D, Lists(s, D), NEW t, Lists(t, D)
  PROVE  Len(t) = Len(s)
BY ListFacts

-----------------------------------------------------------------------------
(***************************************************************************)
(* The invariant of the replacer.  Besides what ListsMatchMaps, VictimFound *)
(* and Bounded say, no two frames hold the same page: evicting one would   *)
(* make the other's page a ghost.                                          *)
(***************************************************************************)
IsArc(a) ==
  a = [mru |-> a.mru, mfu |-> a.mfu,
       mruGhost |-> a.mruGhost, mfuGhost |-> a.mfuGhost,
       alive |-> a.alive, ghost |-> a.ghost,
       size |-> a.size, target |-> a.target]

AliveMaps == UNION {[D -> Status] : D \in SUBSET Frames}
GhostMaps == UNION {[D -> {MRU, MFU}] : D \in SUBSET PageIds}
On(a, l) == {f \in DOMAIN a.alive : a.alive[f].list = l}
GhostsOf(a, l) == {p \in DOMAIN a.ghost : a.ghost[p] = l}

Shaped(a) ==
  /\ IsArc(a)
  /\ a.alive \in AliveMaps
  /\ a.ghost \in GhostMaps
  /\ a.target \in 0 .. Capacity

Linked(a) ==
  /\ Lists(a.mru, On(a, MRU))
  /\ Lists(a.mfu, On(a, MFU))
  /\ Lists(a.mruGhost, GhostsOf(a, MRU))
  /\ Lists(a.mfuGhost, GhostsOf(a, MFU))

Apart(a) ==
  /\ \A f \in DOMAIN a.alive : a.alive[f].page \notin DOMAIN a.ghost
  /\ \A f, g \in DOMAIN a.alive : a.alive[f].page = a.alive[g].page => f = g

Counted(a) == a.size = Cardinality(Evictable(a))

ArcInv(a) == Shaped(a) /\ Linked(a) /\ Apart(a) /\ Counted(a) /\ Bounded(a)

LEMMA CapacityIsNat == Capacity \in Nat
BY ArcAssumption, FS_CardinalityType DEF Capacity

LEMMA AliveFacts ==
  ASSUME NEW m \in AliveMaps
  PROVE  /\ DOMAIN m \subseteq Frames /\ IsFiniteSet(DOMAIN m)
         /\ m = [f \in DOMAIN m |-> m[f]]
         /\ \A f \in DOMAIN m :
              /\ m[f] \in Status /\ m[f].page \in PageIds
              /\ m[f].evictable \in BOOLEAN /\ m[f].list \in {MRU, MFU}
<1>1. PICK D \in SUBSET Frames : m \in [D -> Status]
  BY DEF AliveMaps
<1>2. DOMAIN m = D /\ m = [f \in D |-> m[f]] /\ \A f \in D : m[f] \in Status
  BY <1>1
<1>3. IsFiniteSet(D)
  BY ArcAssumption, FS_Subset
<1> QED
  BY <1>2, <1>3 DEF Status

LEMMA AliveMade ==
  ASSUME NEW D \in SUBSET Frames, NEW m, m = [f \in D |-> m[f]],
         \A f \in D : m[f] \in Status
  PROVE  m \in AliveMaps
<1>1. m \in [D -> Status]
  OBVIOUS
<1> QED
  BY <1>1 DEF AliveMaps

LEMMA PromoteFields ==
  ASSUME NEW a, Shaped(a), NEW f \in DOMAIN a.alive, NEW b, b = Promote(a, f)
  PROVE  /\ Shaped(b)
         /\ b.mru = IF a.alive[f].list = MRU THEN Without(a.mru, f) ELSE a.mru
         /\ b.mfu = IF a.alive[f].list = MRU THEN <<f>> \o a.mfu
                    ELSE <<f>> \o Without(a.mfu, f)
         /\ b.mruGhost = a.mruGhost /\ b.mfuGhost = a.mfuGhost
         /\ b.ghost = a.ghost /\ b.size = a.size
         /\ DOMAIN b.alive = DOMAIN a.alive
         /\ b.alive[f].page = a.alive[f].page
         /\ b.alive[f].evictable = a.alive[f].evictable
         /\ b.alive[f].list = MFU
         /\ \A g \in DOMAIN a.alive \ {f} : b.alive[g] = a.alive[g]
<1>1. /\ IsArc(a) /\ a.alive \in AliveMaps
      /\ a.ghost \in GhostMaps /\ a.target \in 0 .. Capacity
  BY DEF Shaped
<1>2. /\ IsArc(b)
      /\ b.mru = IF a.alive[f].list = MRU THEN Without(a.mru, f) ELSE a.mru
      /\ b.mfu = IF a.alive[f].list = MRU THEN <<f>> \o a.mfu
                 ELSE <<f>> \o Without(a.mfu, f)
      /\ b.mruGhost = a.mruGhost /\ b.mfuGhost = a.mfuGhost
      /\ b.ghost = a.ghost /\ b.size = a.size /\ b.target = a.target
      /\ b.alive = [a.alive EXCEPT ![f].list = MFU]
  BY <1>1 DEF IsArc, Promote
<1>3. /\ DOMAIN b.alive = DOMAIN a.alive
      /\ b.alive = [g \in DOMAIN a.alive |-> b.alive[g]]
      /\ b.alive[f] = [a.alive[f] EXCEPT !.list = MFU]
      /\ \A g \in DOMAIN a.alive \ {f} : b.alive[g] = a.alive[g]
  BY <1>1, <1>2, AliveFacts
<1>4. a.alive[f] \in Status
  BY <1>1, AliveFacts
<1>5. /\ b.alive[f].page = a.alive[f].page
      /\ b.alive[f].evictable = a.alive[f].evictable
      /\ b.alive[f].list = MFU
      /\ b.alive[f] \in Status
  BY <1>3, <1>4 DEF Status
<1>6. b.alive \in AliveMaps
  <2>1. DOMAIN a.alive \subseteq Frames /\ \A g \in DOMAIN a.alive : a.alive[g] \in Status
    BY <1>1, AliveFacts
  <2>2. \A g \in DOMAIN a.alive : b.alive[g] \in Status
    BY <2>1, <1>3, <1>5
  <2> QED
    BY <2>1, <2>2, <1>3, AliveMade
<1>7. Shaped(b)
  BY <1>1, <1>2, <1>6 DEF Shaped
<1> QED
  BY <1>2, <1>3, <1>5, <1>7

-----------------------------------------------------------------------------
(***************************************************************************)
(* The two maps when an entry comes or goes.                               *)
(***************************************************************************)
LEMMA AliveErased ==
  ASSUME NEW a, a.alive \in AliveMaps, NEW f, NEW b,
         DOMAIN b.alive = DOMAIN a.alive \ {f},
         b.alive = [g \in DOMAIN b.alive |-> b.alive[g]],
         \A g \in DOMAIN a.alive \ {f} : b.alive[g] = a.alive[g]
  PROVE  /\ b.alive \in AliveMaps
         /\ DOMAIN b.alive = DOMAIN a.alive \ {f}
         /\ \A g \in DOMAIN a.alive \ {f} : b.alive[g] = a.alive[g]
         /\ \A l : On(b, l) = On(a, l) \ {f}
         /\ Evictable(b) = Evictable(a) \ {f}
<1>1. /\ DOMAIN b.alive = DOMAIN a.alive \ {f}
      /\ b.alive = [g \in DOMAIN a.alive \ {f} |-> b.alive[g]]
      /\ \A g \in DOMAIN a.alive \ {f} : b.alive[g] = a.alive[g]
  OBVIOUS
<1>2. b.alive \in AliveMaps
  <2>1. (DOMAIN a.alive \ {f}) \in SUBSET Frames
    BY AliveFacts
  <2>2. \A x \in (DOMAIN a.alive \ {f}) : b.alive[x] \in Status
    BY <1>1, AliveFacts
  <2>3. b.alive = [x \in (DOMAIN a.alive \ {f}) |-> b.alive[x]]
    BY <1>1
  <2> QED
    BY <2>1, <2>2, <2>3, AliveMade
<1>3. \A l : On(b, l) = On(a, l) \ {f}
  BY <1>1 DEF On
<1>4. Evictable(b) = Evictable(a) \ {f}
  BY <1>1 DEF Evictable
<1> QED
  BY <1>1, <1>2, <1>3, <1>4

LEMMA AlivePut ==
  ASSUME NEW a, a.alive \in AliveMaps, NEW f \in Frames \ DOMAIN a.alive,
         NEW entry \in Status, NEW b,
         DOMAIN b.alive = DOMAIN a.alive \cup {f},
         b.alive = [g \in DOMAIN b.alive |-> b.alive[g]],
         b.alive[f] = entry,
         \A g \in DOMAIN a.alive : b.alive[g] = a.alive[g]
  PROVE  /\ b.alive \in AliveMaps
         /\ DOMAIN b.alive = DOMAIN a.alive \cup {f}
         /\ b.alive[f] = entry
         /\ \A g \in DOMAIN a.alive : b.alive[g] = a.alive[g]
         /\ \A l : On(b, l) = IF entry.list = l THEN On(a, l) \cup {f}
                                                 ELSE On(a, l)
         /\ Evictable(b) = IF entry.evictable THEN Evictable(a) \cup {f}
                                              ELSE Evictable(a)
<1>1. /\ DOMAIN b.alive = DOMAIN a.alive \cup {f}
      /\ b.alive = [g \in DOMAIN a.alive \cup {f} |-> b.alive[g]]
      /\ b.alive[f] = entry
      /\ \A g \in DOMAIN a.alive : b.alive[g] = a.alive[g]
  OBVIOUS
<1>2. b.alive \in AliveMaps
  <2>1. (DOMAIN a.alive \cup {f}) \in SUBSET Frames
    BY AliveFacts
  <2>2. \A x \in (DOMAIN a.alive \cup {f}) : b.alive[x] \in Status
    BY <1>1, AliveFacts
  <2>3. b.alive = [x \in (DOMAIN a.alive \cup {f}) |-> b.alive[x]]
    BY <1>1
  <2> QED
    BY <2>1, <2>2, <2>3, AliveMade
<1>3. \A l : On(b, l) = IF entry.list = l THEN On(a, l) \cup {f} ELSE On(a, l)
  BY <1>1 DEF On
<1>4. Evictable(b) = IF entry.evictable THEN Evictable(a) \cup {f}
                                         ELSE Evictable(a)
  BY <1>1 DEF Evictable
<1> QED
  BY <1>1, <1>2, <1>3, <1>4

LEMMA GhostFacts ==
  ASSUME NEW m \in GhostMaps
  PROVE  /\ DOMAIN m \subseteq PageIds /\ m = [p \in DOMAIN m |-> m[p]]
         /\ \A p \in DOMAIN m : m[p] \in {MRU, MFU}
<1>1. PICK D \in SUBSET PageIds : m \in [D -> {MRU, MFU}]
  BY DEF GhostMaps
<1> QED
  BY <1>1

LEMMA GhostMade ==
  ASSUME NEW D \in SUBSET PageIds, NEW m, m = [p \in D |-> m[p]],
         \A p \in D : m[p] \in {MRU, MFU}
  PROVE  m \in GhostMaps
<1>1. m \in [D -> {MRU, MFU}]
  OBVIOUS
<1> QED
  BY <1>1 DEF GhostMaps

LEMMA GhostErased ==
  ASSUME NEW a, a.ghost \in GhostMaps, NEW p, NEW b,
         DOMAIN b.ghost = DOMAIN a.ghost \ {p},
         b.ghost = [q \in DOMAIN b.ghost |-> b.ghost[q]],
         \A q \in DOMAIN a.ghost \ {p} : b.ghost[q] = a.ghost[q]
  PROVE  /\ b.ghost \in GhostMaps
         /\ DOMAIN b.ghost = DOMAIN a.ghost \ {p}
         /\ \A l : GhostsOf(b, l) = GhostsOf(a, l) \ {p}
<1>1. /\ DOMAIN b.ghost = DOMAIN a.ghost \ {p}
      /\ b.ghost = [q \in DOMAIN a.ghost \ {p} |-> b.ghost[q]]
      /\ \A q \in DOMAIN a.ghost \ {p} : b.ghost[q] = a.ghost[q]
  OBVIOUS
<1>2. b.ghost \in GhostMaps
  <2>1. (DOMAIN a.ghost \ {p}) \in SUBSET PageIds
    BY GhostFacts
  <2>2. \A x \in (DOMAIN a.ghost \ {p}) : b.ghost[x] \in {MRU, MFU}
    BY <1>1, GhostFacts
  <2>3. b.ghost = [x \in (DOMAIN a.ghost \ {p}) |-> b.ghost[x]]
    BY <1>1
  <2> QED
    BY <2>1, <2>2, <2>3, GhostMade
<1>3. \A l : GhostsOf(b, l) = GhostsOf(a, l) \ {p}
  BY <1>1 DEF GhostsOf
<1> QED
  BY <1>1, <1>2, <1>3

LEMMA GhostPut ==
  ASSUME NEW a, a.ghost \in GhostMaps, NEW p \in PageIds \ DOMAIN a.ghost,
         NEW live \in {MRU, MFU}, NEW b,
         DOMAIN b.ghost = DOMAIN a.ghost \cup {p},
         b.ghost = [q \in DOMAIN b.ghost |-> b.ghost[q]],
         b.ghost[p] = live,
         \A q \in DOMAIN a.ghost : b.ghost[q] = a.ghost[q]
  PROVE  /\ b.ghost \in GhostMaps
         /\ DOMAIN b.ghost = DOMAIN a.ghost \cup {p}
         /\ \A l : GhostsOf(b, l) = IF live = l THEN GhostsOf(a, l) \cup {p}
                                                ELSE GhostsOf(a, l)
<1>1. /\ DOMAIN b.ghost = DOMAIN a.ghost \cup {p}
      /\ b.ghost = [q \in DOMAIN a.ghost \cup {p} |-> b.ghost[q]]
      /\ b.ghost[p] = live
      /\ \A q \in DOMAIN a.ghost : b.ghost[q] = a.ghost[q]
  OBVIOUS
<1>2. b.ghost \in GhostMaps
  <2>1. (DOMAIN a.ghost \cup {p}) \in SUBSET PageIds
    BY GhostFacts
  <2>2. \A x \in (DOMAIN a.ghost \cup {p}) : b.ghost[x] \in {MRU, MFU}
    BY <1>1, GhostFacts
  <2>3. b.ghost = [x \in (DOMAIN a.ghost \cup {p}) |-> b.ghost[x]]
    BY <1>1
  <2> QED
    BY <2>1, <2>2, <2>3, GhostMade
<1>3. \A l : GhostsOf(b, l) = IF live = l THEN GhostsOf(a, l) \cup {p}
                                          ELSE GhostsOf(a, l)
  BY <1>1 DEF GhostsOf
<1> QED
  BY <1>1, <1>2, <1>3

(* The lengths of the lists of a linked replacer are numbers, and no list  *)
(* of frames is longer than the number of live ones.                       *)
LEMMA LinkedFacts ==
  ASSUME NEW a, Shaped(a), Linked(a)
  PROVE  /\ Len(a.mru) \in Nat /\ Len(a.mfu) \in Nat
         /\ Len(a.mruGhost) \in Nat /\ Len(a.mfuGhost) \in Nat
         /\ IsFiniteSet(DOMAIN a.alive)
         /\ Cardinality(DOMAIN a.alive) = Len(a.mru) + Len(a.mfu)
         /\ Cardinality(DOMAIN a.alive) <= Capacity
<1>1. /\ Len(a.mru) \in Nat /\ Len(a.mfu) \in Nat
      /\ Len(a.mruGhost) \in Nat /\ Len(a.mfuGhost) \in Nat
      /\ IsFiniteSet(On(a, MRU)) /\ Cardinality(On(a, MRU)) = Len(a.mru)
      /\ IsFiniteSet(On(a, MFU)) /\ Cardinality(On(a, MFU)) = Len(a.mfu)
  BY ListFacts DEF Linked
<1>2. a.alive \in AliveMaps
  BY DEF Shaped
<1>3. /\ IsFiniteSet(DOMAIN a.alive) /\ DOMAIN a.alive \subseteq Frames
      /\ \A f \in DOMAIN a.alive : a.alive[f].list \in {MRU, MFU}
  BY <1>2, AliveFacts
<1>4. /\ DOMAIN a.alive = On(a, MRU) \cup On(a, MFU)
      /\ On(a, MRU) \cap On(a, MFU) = {}
  BY <1>3 DEF On, MRU, MFU
<1>5. Cardinality(DOMAIN a.alive) = Len(a.mru) + Len(a.mfu)
  <2>1. Cardinality(On(a, MRU) \cap On(a, MFU)) = 0
    BY <1>4, FS_EmptySet
  <2>2. Cardinality(On(a, MRU) \cup On(a, MFU)) = Len(a.mru) + Len(a.mfu) - 0
    BY <1>1, <2>1, FS_Union
  <2> QED
    BY <1>1, <1>4, <2>2
<1>6. Cardinality(DOMAIN a.alive) <= Capacity
  BY <1>3, ArcAssumption, FS_Subset DEF Capacity
<1> QED
  BY <1>1, <1>3, <1>5, <1>6

(* The lengths of the four lists, as numbers, and the bounds on them. *)
Sizes(a, t1, t2, b1, b2) ==
  /\ t1 = Len(a.mru) /\ t2 = Len(a.mfu)
  /\ b1 = Len(a.mruGhost) /\ b2 = Len(a.mfuGhost)
Fits(t1, t2, b1, b2) ==
  t1 + b1 <= Capacity /\ t1 + t2 + b1 + b2 <= 2 * Capacity

LEMMA HasSizes ==
  ASSUME NEW a, Linked(a)
  PROVE  \E t1, t2, b1, b2 \in Nat : Sizes(a, t1, t2, b1, b2)
BY ListFacts DEF Linked, Sizes

LEMMA BoundedIs ==
  ASSUME NEW a, NEW t1, NEW t2, NEW b1, NEW b2, Sizes(a, t1, t2, b1, b2)
  PROVE  Bounded(a) <=> Fits(t1, t2, b1, b2)
BY DEF Bounded, Sizes, Fits

-----------------------------------------------------------------------------
(***************************************************************************)
(* record_access on a live frame, set_evictable, remove.                   *)
(***************************************************************************)
LEMMA PromoteKeeps ==
  ASSUME NEW a, ArcInv(a), NEW f \in DOMAIN a.alive, NEW b, b = Promote(a, f)
  PROVE  /\ ArcInv(b)
         /\ DOMAIN b.alive = DOMAIN a.alive /\ b.ghost = a.ghost
         /\ \A g \in DOMAIN a.alive : b.alive[g].page = a.alive[g].page
         /\ Evictable(b) = Evictable(a)
<1>1. Shaped(a) /\ Linked(a) /\ Apart(a) /\ Counted(a) /\ Bounded(a)
  BY DEF ArcInv
<1>2. /\ Shaped(b)
      /\ b.mru = IF a.alive[f].list = MRU THEN Without(a.mru, f) ELSE a.mru
      /\ b.mfu = IF a.alive[f].list = MRU THEN <<f>> \o a.mfu
                 ELSE <<f>> \o Without(a.mfu, f)
      /\ b.mruGhost = a.mruGhost /\ b.mfuGhost = a.mfuGhost
      /\ b.ghost = a.ghost /\ b.size = a.size
      /\ DOMAIN b.alive = DOMAIN a.alive
      /\ b.alive[f].page = a.alive[f].page
      /\ b.alive[f].evictable = a.alive[f].evictable
      /\ b.alive[f].list = MFU
      /\ \A g \in DOMAIN a.alive \ {f} : b.alive[g] = a.alive[g]
  BY <1>1, PromoteFields
<1>3. \A g \in DOMAIN a.alive : /\ b.alive[g].page = a.alive[g].page
                                /\ b.alive[g].evictable = a.alive[g].evictable
  BY <1>2
<1>4. Evictable(b) = Evictable(a)
  BY <1>2, <1>3 DEF Evictable
<1>5. /\ Lists(a.mru, On(a, MRU)) /\ Lists(a.mfu, On(a, MFU))
      /\ Lists(b.mruGhost, GhostsOf(b, MRU))
      /\ Lists(b.mfuGhost, GhostsOf(b, MFU))
  BY <1>1, <1>2 DEF Linked, GhostsOf
<1>6. a.alive[f].list \in {MRU, MFU}
  BY <1>1, AliveFacts DEF Shaped
<1>7. /\ Lists(b.mru, On(b, MRU)) /\ Lists(b.mfu, On(b, MFU))
      /\ \/ Len(b.mru) = Len(a.mru) - 1 /\ Len(b.mfu) = Len(a.mfu) + 1
         \/ Len(b.mru) = Len(a.mru) /\ Len(b.mfu) = Len(a.mfu)
  <2>1. CASE a.alive[f].list = MRU
    <3>1. f \in On(a, MRU) /\ f \notin On(a, MFU)
      BY <2>1 DEF On, MRU, MFU
    <3>2. On(b, MRU) = On(a, MRU) \ {f} /\ On(b, MFU) = On(a, MFU) \cup {f}
      BY <1>2, <2>1 DEF On, MRU, MFU
    <3>3. b.mru = Without(a.mru, f) /\ b.mfu = <<f>> \o a.mfu
      BY <1>2, <2>1
    <3>4. Lists(b.mru, On(b, MRU))
      BY <1>5, <3>2, <3>3, ListWithout
    <3>5. Lists(b.mfu, On(b, MFU))
      BY <1>5, <3>1, <3>2, <3>3, ListPush
    <3>6. Len(b.mru) = Len(a.mru) - 1
      BY <1>5, <3>1, <3>2, <3>4, ListShrinks
    <3>7. Len(b.mfu) = Len(a.mfu) + 1
      BY <1>5, <3>1, <3>2, <3>5, ListGrows
    <3> QED
      BY <3>4, <3>5, <3>6, <3>7
  <2>2. CASE a.alive[f].list = MFU
    <3>1. f \in On(a, MFU) /\ f \notin On(a, MFU) \ {f}
      BY <2>2 DEF On
    <3>2. On(b, MRU) = On(a, MRU) /\ On(b, MFU) = (On(a, MFU) \ {f}) \cup {f}
          /\ On(b, MFU) = On(a, MFU)
      BY <1>2, <2>2 DEF On, MRU, MFU
    <3>3. b.mru = a.mru /\ b.mfu = <<f>> \o Without(a.mfu, f)
      BY <1>2, <2>2 DEF MRU, MFU
    <3>4. Lists(b.mru, On(b, MRU))
      BY <1>5, <3>2, <3>3
    <3>5. Lists(b.mfu, On(b, MFU))
      <4>1. Lists(Without(a.mfu, f), On(a, MFU) \ {f})
        BY <1>5, ListWithout
      <4> QED
        BY <4>1, <3>1, <3>2, <3>3, ListPush
    <3>6. Len(b.mfu) = Len(a.mfu)
      BY <1>5, <3>2, <3>5, ListSame
    <3> QED
      BY <3>3, <3>4, <3>5, <3>6
  <2> QED
    BY <1>6, <2>1, <2>2
<1>8. Linked(b)
  BY <1>5, <1>7 DEF Linked
<1>9. Apart(b)
  BY <1>1, <1>2, <1>3 DEF Apart
<1>10. Counted(b)
  BY <1>1, <1>2, <1>4 DEF Counted
<1>11. Bounded(b)
  <2>1. PICK t1, t2, b1, b2 \in Nat : Sizes(a, t1, t2, b1, b2)
    BY <1>1, HasSizes
  <2>2. PICK s1, s2, c1, c2 \in Nat : Sizes(b, s1, s2, c1, c2)
    BY <1>8, HasSizes
  <2>3. /\ c1 = b1 /\ c2 = b2
        /\ \/ s1 = t1 - 1 /\ s2 = t2 + 1
           \/ s1 = t1 /\ s2 = t2
    BY <1>2, <1>7, <2>1, <2>2 DEF Sizes
  <2>4. Fits(t1, t2, b1, b2)
    BY <1>1, <2>1, BoundedIs
  <2>5. Fits(s1, s2, c1, c2)
    BY <2>3, <2>4, CapacityIsNat DEF Fits
  <2> QED
    BY <2>2, <2>5, BoundedIs
<1> QED
  BY <1>2, <1>3, <1>4, <1>8, <1>9, <1>10, <1>11 DEF ArcInv

LEMMA SetEvictableKeeps ==
  ASSUME NEW a, ArcInv(a), NEW f, NEW e \in BOOLEAN,
         NEW b, b = SetEvictable(a, f, e)
  PROVE  /\ ArcInv(b)
         /\ DOMAIN b.alive = DOMAIN a.alive
         /\ b.mru = a.mru /\ b.mfu = a.mfu
         /\ \A g \in DOMAIN a.alive : b.alive[g].page = a.alive[g].page
         /\ Evictable(b) = IF e THEN Evictable(a) \cup ({f} \cap DOMAIN a.alive)
                                ELSE Evictable(a) \ {f}
<1>1. Shaped(a) /\ Linked(a) /\ Apart(a) /\ Counted(a) /\ Bounded(a)
  BY DEF ArcInv
<1>2. CASE f \notin DOMAIN a.alive \/ a.alive[f].evictable = e
  <2>1. b = a
    BY <1>2 DEF SetEvictable
  <2>2. Evictable(b) = IF e THEN Evictable(a) \cup ({f} \cap DOMAIN a.alive)
                            ELSE Evictable(a) \ {f}
    BY <1>2, <2>1 DEF Evictable
  <2> QED
    BY <2>1, <2>2
<1>3. CASE f \in DOMAIN a.alive /\ a.alive[f].evictable # e
  <2>1. /\ IsArc(a) /\ a.alive \in AliveMaps
        /\ a.ghost \in GhostMaps /\ a.target \in 0 .. Capacity
    BY <1>1 DEF Shaped
  <2>2. /\ IsArc(b)
        /\ b.mru = a.mru /\ b.mfu = a.mfu
        /\ b.mruGhost = a.mruGhost /\ b.mfuGhost = a.mfuGhost
        /\ b.ghost = a.ghost /\ b.target = a.target
        /\ b.size = IF e THEN a.size + 1 ELSE a.size - 1
        /\ b.alive = [a.alive EXCEPT ![f].evictable = e]
    BY <1>3, <2>1 DEF IsArc, SetEvictable
  <2>3. /\ DOMAIN b.alive = DOMAIN a.alive
        /\ b.alive = [g \in DOMAIN a.alive |-> b.alive[g]]
        /\ b.alive[f] = [a.alive[f] EXCEPT !.evictable = e]
        /\ \A g \in DOMAIN a.alive \ {f} : b.alive[g] = a.alive[g]
    BY <1>3, <2>1, <2>2, AliveFacts
  <2>4. a.alive[f] \in Status
    BY <1>3, <2>1, AliveFacts
  <2>5. /\ b.alive[f].page = a.alive[f].page
        /\ b.alive[f].evictable = e
        /\ b.alive[f].list = a.alive[f].list
        /\ b.alive[f] \in Status
    BY <2>3, <2>4 DEF Status
  <2>6. b.alive \in AliveMaps
    <3>1. /\ DOMAIN a.alive \subseteq Frames
          /\ \A g \in DOMAIN a.alive : a.alive[g] \in Status
      BY <2>1, AliveFacts
    <3>2. \A g \in DOMAIN a.alive : b.alive[g] \in Status
      BY <3>1, <2>3, <2>5
    <3> QED
      BY <3>1, <3>2, <2>3, AliveMade
  <2>7. Shaped(b)
    BY <2>1, <2>2, <2>6 DEF Shaped
  <2>8. \A g \in DOMAIN a.alive : /\ b.alive[g].page = a.alive[g].page
                                  /\ b.alive[g].list = a.alive[g].list
    BY <2>3, <2>5
  <2>9. Linked(b)
    <3>1. On(b, MRU) = On(a, MRU) /\ On(b, MFU) = On(a, MFU)
      BY <2>3, <2>8 DEF On
    <3>2. GhostsOf(b, MRU) = GhostsOf(a, MRU) /\ GhostsOf(b, MFU) = GhostsOf(a, MFU)
      BY <2>2 DEF GhostsOf
    <3> QED
      BY <1>1, <2>2, <3>1, <3>2 DEF Linked
  <2>10. Apart(b)
    BY <1>1, <2>2, <2>3, <2>8 DEF Apart
  <2>11. IsFiniteSet(Evictable(a))
    <3>1. IsFiniteSet(DOMAIN a.alive)
      BY <2>1, AliveFacts
    <3> QED
      BY <3>1, FS_Subset DEF Evictable
  <2>12. CASE e
    <3>1. Evictable(b) = Evictable(a) \cup {f} /\ f \notin Evictable(a)
      BY ZenonT(60), <1>3, <2>3, <2>5, <2>12 DEF Evictable
    <3>2. Counted(b)
      BY <1>1, <2>2, <2>11, <2>12, <3>1, FS_AddElement DEF Counted
    <3>3. Bounded(b)
      BY <1>1, <2>2 DEF Bounded
    <3> QED
      BY ZenonT(60), <1>3, <2>2, <2>3, <2>7, <2>8, <2>9, <2>10, <2>12, <3>1, <3>2, <3>3
      DEF ArcInv
  <2>13. CASE ~e
    <3>1. Evictable(b) = Evictable(a) \ {f} /\ f \in Evictable(a)
      <4>1. a.alive[f].evictable
        BY <1>3, <2>4, <2>13 DEF Status
      <4> QED
        BY <1>3, <2>3, <2>5, <2>13, <4>1 DEF Evictable
    <3>2. Counted(b)
      BY <1>1, <2>2, <2>11, <2>13, <3>1, FS_RemoveElement DEF Counted
    <3>3. Bounded(b)
      BY <1>1, <2>2 DEF Bounded
    <3> QED
      BY <1>3, <2>2, <2>3, <2>7, <2>8, <2>9, <2>10, <2>13, <3>1, <3>2, <3>3
      DEF ArcInv
  <2> QED
    BY <2>12, <2>13
<1> QED
  BY <1>2, <1>3

(* What unpin_page does to a frame whose last pin is gone. *)
Released(a, f) == SetEvictable(a, f, TRUE)

LEMMA ReleaseKeeps ==
  ASSUME NEW a, ArcInv(a), NEW f, NEW b, b = Released(a, f)
  PROVE  /\ ArcInv(b)
         /\ DOMAIN b.alive = DOMAIN a.alive
         /\ b.mru = a.mru /\ b.mfu = a.mfu
         /\ \A g \in DOMAIN a.alive : b.alive[g].page = a.alive[g].page
         /\ Evictable(b) = Evictable(a) \cup ({f} \cap DOMAIN a.alive)
<1>1. PICK e \in BOOLEAN : e = TRUE
  OBVIOUS
<1>2. b = SetEvictable(a, f, e) /\ ArcInv(a)
  BY <1>1 DEF Released
<1>3. /\ ArcInv(b)
      /\ DOMAIN b.alive = DOMAIN a.alive
      /\ b.mru = a.mru /\ b.mfu = a.mfu
      /\ \A g \in DOMAIN a.alive : b.alive[g].page = a.alive[g].page
      /\ Evictable(b) = IF e THEN Evictable(a) \cup ({f} \cap DOMAIN a.alive)
                             ELSE Evictable(a) \ {f}
  BY <1>2, SetEvictableKeeps
<1> QED
  BY <1>1, <1>3

LEMMA RemovedKeeps ==
  ASSUME NEW a, ArcInv(a), NEW f \in Evictable(a), NEW b, b = Removed(a, f)
  PROVE  /\ ArcInv(b)
         /\ DOMAIN b.alive = DOMAIN a.alive \ {f}
         /\ \A g \in DOMAIN b.alive : b.alive[g].page = a.alive[g].page
         /\ \A l : On(b, l) = On(a, l) \ {f}
         /\ b.mru = a.mru \/ b.mru = Without(a.mru, f)
         /\ b.mfu = a.mfu \/ b.mfu = Without(a.mfu, f)
         /\ Evictable(b) = Evictable(a) \ {f}
<1>1. Shaped(a) /\ Linked(a) /\ Apart(a) /\ Counted(a) /\ Bounded(a)
  BY DEF ArcInv
<1>2. /\ IsArc(a) /\ a.alive \in AliveMaps
      /\ a.ghost \in GhostMaps /\ a.target \in 0 .. Capacity
  BY <1>1 DEF Shaped
<1>3. f \in DOMAIN a.alive
  BY DEF Evictable
<1>4. /\ IsArc(b)
      /\ b.mru = IF a.alive[f].list = MRU THEN Without(a.mru, f) ELSE a.mru
      /\ b.mfu = IF a.alive[f].list = MFU THEN Without(a.mfu, f) ELSE a.mfu
      /\ b.mruGhost = a.mruGhost /\ b.mfuGhost = a.mfuGhost
      /\ b.ghost = a.ghost /\ b.target = a.target /\ b.size = a.size - 1
      /\ b.alive = Erase(a.alive, f)
  BY <1>2, <1>3 DEF IsArc, Removed
<1>5. /\ b.alive \in AliveMaps
      /\ DOMAIN b.alive = DOMAIN a.alive \ {f}
      /\ \A g \in DOMAIN a.alive \ {f} : b.alive[g] = a.alive[g]
      /\ \A l : On(b, l) = On(a, l) \ {f}
      /\ Evictable(b) = Evictable(a) \ {f}
  <2>1. /\ DOMAIN b.alive = DOMAIN a.alive \ {f}
        /\ b.alive = [g \in DOMAIN b.alive |-> b.alive[g]]
        /\ \A g \in DOMAIN a.alive \ {f} : b.alive[g] = a.alive[g]
    BY <1>4 DEF Erase
  <2> QED
    BY <1>2, <2>1, AliveErased
<1>6. Shaped(b)
  BY <1>2, <1>4, <1>5 DEF Shaped
<1>7. a.alive[f].list \in {MRU, MFU}
  BY <1>2, <1>3, AliveFacts
<1>8. /\ Lists(a.mru, On(a, MRU)) /\ Lists(a.mfu, On(a, MFU))
      /\ Lists(b.mruGhost, GhostsOf(b, MRU))
      /\ Lists(b.mfuGhost, GhostsOf(b, MFU))
  BY <1>1, <1>4 DEF Linked, GhostsOf
<1>9. /\ Lists(b.mru, On(b, MRU)) /\ Lists(b.mfu, On(b, MFU))
      /\ \/ Len(b.mru) = Len(a.mru) - 1 /\ Len(b.mfu) = Len(a.mfu)
         \/ Len(b.mru) = Len(a.mru) /\ Len(b.mfu) = Len(a.mfu) - 1
  <2>1. CASE a.alive[f].list = MRU
    <3>1. f \in On(a, MRU) /\ On(a, MFU) \ {f} = On(a, MFU)
      BY <1>3, <2>1 DEF On, MRU, MFU
    <3>2. On(b, MRU) = On(a, MRU) \ {f} /\ On(b, MFU) = On(a, MFU)
      BY <1>5, <3>1
    <3>3. b.mru = Without(a.mru, f) /\ b.mfu = a.mfu
      BY <1>4, <2>1 DEF MRU, MFU
    <3>4. Lists(b.mru, On(b, MRU)) /\ Lists(b.mfu, On(b, MFU))
      BY <1>8, <3>2, <3>3, ListWithout
    <3>5. Len(b.mru) = Len(a.mru) - 1
      BY <1>8, <3>1, <3>2, <3>4, ListShrinks
    <3> QED
      BY <3>3, <3>4, <3>5
  <2>2. CASE a.alive[f].list = MFU
    <3>1. f \in On(a, MFU) /\ On(a, MRU) \ {f} = On(a, MRU)
      BY <1>3, <2>2 DEF On, MRU, MFU
    <3>2. On(b, MFU) = On(a, MFU) \ {f} /\ On(b, MRU) = On(a, MRU)
      BY <1>5, <3>1
    <3>3. b.mfu = Without(a.mfu, f) /\ b.mru = a.mru
      BY <1>4, <2>2 DEF MRU, MFU
    <3>4. Lists(b.mru, On(b, MRU)) /\ Lists(b.mfu, On(b, MFU))
      BY <1>8, <3>2, <3>3, ListWithout
    <3>5. Len(b.mfu) = Len(a.mfu) - 1
      BY <1>8, <3>1, <3>2, <3>4, ListShrinks
    <3> QED
      BY <3>3, <3>4, <3>5
  <2> QED
    BY <1>7, <2>1, <2>2
<1>10. Linked(b)
  BY <1>8, <1>9 DEF Linked
<1>11. Apart(b)
  BY <1>1, <1>4, <1>5 DEF Apart
<1>12. Counted(b)
  <2>1. IsFiniteSet(Evictable(a))
    <3>1. IsFiniteSet(DOMAIN a.alive)
      BY <1>2, AliveFacts
    <3> QED
      BY <3>1, FS_Subset DEF Evictable
  <2> QED
    BY <1>1, <1>4, <1>5, <2>1, FS_RemoveElement DEF Counted
<1>13. Bounded(b)
  <2>1. PICK t1, t2, b1, b2 \in Nat : Sizes(a, t1, t2, b1, b2)
    BY <1>1, HasSizes
  <2>2. PICK s1, s2, c1, c2 \in Nat : Sizes(b, s1, s2, c1, c2)
    BY <1>10, HasSizes
  <2>3. /\ c1 = b1 /\ c2 = b2
        /\ \/ s1 = t1 - 1 /\ s2 = t2
           \/ s1 = t1 /\ s2 = t2 - 1
    BY <1>4, <1>9, <2>1, <2>2 DEF Sizes
  <2>4. Fits(t1, t2, b1, b2)
    BY <1>1, <2>1, BoundedIs
  <2>5. Fits(s1, s2, c1, c2)
    BY <2>3, <2>4, CapacityIsNat DEF Fits
  <2> QED
    BY <2>2, <2>5, BoundedIs
<1>14. /\ \A g \in DOMAIN b.alive : b.alive[g].page = a.alive[g].page
       /\ b.mru = a.mru \/ b.mru = Without(a.mru, f)
       /\ b.mfu = a.mfu \/ b.mfu = Without(a.mfu, f)
  BY <1>4, <1>5
<1> QED
  BY <1>5, <1>6, <1>10, <1>11, <1>12, <1>13, <1>14 DEF ArcInv

-----------------------------------------------------------------------------
(***************************************************************************)
(* record_access on a frame that was not live.                             *)
(***************************************************************************)
LEMMA AdaptedIsTarget ==
  ASSUME NEW a, a.target \in 0 .. Capacity, Len(a.mruGhost) \in Nat,
         Len(a.mfuGhost) \in Nat, NEW live
  PROVE  Adapted(a, live) \in 0 .. Capacity
<1>1. PICK b1 \in Nat, b2 \in Nat, t \in Nat :
        b1 = Len(a.mruGhost) /\ b2 = Len(a.mfuGhost) /\ t = a.target
        /\ t <= Capacity
  BY CapacityIsNat
<1> DEFINE up == NotBelow1(b2 \div NotBelow1(b1))
           down == NotBelow1(b1 \div NotBelow1(b2))
<1>2. ASSUME NEW m \in Nat, NEW n \in Nat
      PROVE  NotBelow1(m \div NotBelow1(n)) \in Nat
  <2>1. PICK d \in Nat : d = NotBelow1(n) /\ d >= 1
    BY DEF NotBelow1
  <2>2. m \div d \in Nat
    BY <2>1
  <2> QED
    BY <2>1, <2>2 DEF NotBelow1
<1>3. up \in Nat /\ down \in Nat
  BY <1>2
<1>4. Adapted(a, live) = IF live = MRU THEN Smaller(t + up, Capacity)
                         ELSE IF t > down THEN t - down ELSE 0
  BY <1>1 DEF Adapted
<1> HIDE DEF up, down
<1> QED
  BY <1>1, <1>3, <1>4, CapacityIsNat DEF Smaller

LEMMA ResurrectKeeps ==
  ASSUME NEW a, ArcInv(a), NEW f \in Frames \ DOMAIN a.alive,
         NEW page \in DOMAIN a.ghost, NEW b, b = Resurrect(a, f, page)
  PROVE  /\ ArcInv(b)
         /\ DOMAIN b.alive = DOMAIN a.alive \cup {f}
         /\ b.alive[f].page = page
         /\ \A g \in DOMAIN a.alive : b.alive[g].page = a.alive[g].page
         /\ \A l : On(b, l) = IF l = MFU THEN On(a, l) \cup {f} ELSE On(a, l)
         /\ b.mru = a.mru /\ b.mfu = <<f>> \o a.mfu
         /\ Evictable(b) = Evictable(a)
<1> DEFINE entry == [page |-> page, evictable |-> FALSE, list |-> MFU]
           live == a.ghost[page]
<1>1. Shaped(a) /\ Linked(a) /\ Apart(a) /\ Counted(a) /\ Bounded(a)
  BY DEF ArcInv
<1>2. /\ IsArc(a) /\ a.alive \in AliveMaps
      /\ a.ghost \in GhostMaps /\ a.target \in 0 .. Capacity
  BY <1>1 DEF Shaped
<1>3. live \in {MRU, MFU} /\ page \in PageIds
  BY <1>2, GhostFacts
<1>4. /\ IsArc(b)
      /\ b.target = Adapted(a, live)
      /\ b.mruGhost = IF live = MRU THEN Without(a.mruGhost, page)
                                    ELSE a.mruGhost
      /\ b.mfuGhost = IF live = MFU THEN Without(a.mfuGhost, page)
                                    ELSE a.mfuGhost
      /\ b.ghost = Erase(a.ghost, page)
      /\ b.mru = a.mru /\ b.mfu = <<f>> \o a.mfu
      /\ b.alive = Put(a.alive, f, entry)
      /\ b.size = a.size
  BY <1>2 DEF IsArc, Resurrect
<1>5. entry \in Status /\ entry.list = MFU /\ ~entry.evictable
      /\ entry.page = page
  BY <1>3 DEF Status
<1> HIDE DEF entry
<1>6. /\ b.alive \in AliveMaps
      /\ DOMAIN b.alive = DOMAIN a.alive \cup {f}
      /\ b.alive[f] = entry
      /\ \A g \in DOMAIN a.alive : b.alive[g] = a.alive[g]
      /\ \A l : On(b, l) = IF entry.list = l THEN On(a, l) \cup {f}
                                             ELSE On(a, l)
      /\ Evictable(b) = IF entry.evictable THEN Evictable(a) \cup {f}
                                           ELSE Evictable(a)
  <2>1. /\ DOMAIN b.alive = DOMAIN a.alive \cup {f}
        /\ b.alive = [g \in DOMAIN b.alive |-> b.alive[g]]
        /\ b.alive[f] = entry
        /\ \A g \in DOMAIN a.alive : b.alive[g] = a.alive[g]
    BY <1>4 DEF Put
  <2> QED
    BY <1>2, <1>5, <2>1, AlivePut
<1>7. /\ b.ghost \in GhostMaps
      /\ DOMAIN b.ghost = DOMAIN a.ghost \ {page}
      /\ \A l : GhostsOf(b, l) = GhostsOf(a, l) \ {page}
  <2>1. /\ DOMAIN b.ghost = DOMAIN a.ghost \ {page}
        /\ b.ghost = [q \in DOMAIN b.ghost |-> b.ghost[q]]
        /\ \A q \in DOMAIN a.ghost \ {page} : b.ghost[q] = a.ghost[q]
    BY <1>4 DEF Erase
  <2> QED
    BY <1>2, <2>1, GhostErased
<1>8. b.target \in 0 .. Capacity
  BY <1>1, <1>2, <1>4, LinkedFacts, AdaptedIsTarget
<1>9. Shaped(b)
  BY <1>4, <1>6, <1>7, <1>8 DEF Shaped
<1>10. /\ Lists(a.mru, On(a, MRU)) /\ Lists(a.mfu, On(a, MFU))
       /\ Lists(a.mruGhost, GhostsOf(a, MRU))
       /\ Lists(a.mfuGhost, GhostsOf(a, MFU))
  BY <1>1 DEF Linked
<1>11. /\ Lists(b.mru, On(b, MRU)) /\ Len(b.mru) = Len(a.mru)
       /\ Lists(b.mfu, On(b, MFU)) /\ Len(b.mfu) = Len(a.mfu) + 1
  <2>1. On(b, MRU) = On(a, MRU) /\ On(b, MFU) = On(a, MFU) \cup {f}
        /\ f \notin On(a, MFU)
    BY <1>5, <1>6 DEF MRU, MFU, On
  <2>2. Lists(b.mru, On(b, MRU)) /\ Lists(b.mfu, On(b, MFU))
    BY <1>4, <1>10, <2>1, ListPush
  <2>3. Len(b.mfu) = Len(a.mfu) + 1
    BY SMTT(30), <1>10, <2>1, <2>2, ListGrows
  <2> QED
    BY <1>4, <2>2, <2>3
<1>12. /\ Lists(b.mruGhost, GhostsOf(b, MRU))
       /\ Lists(b.mfuGhost, GhostsOf(b, MFU))
       /\ \/ Len(b.mruGhost) = Len(a.mruGhost) - 1
             /\ Len(b.mfuGhost) = Len(a.mfuGhost)
          \/ Len(b.mruGhost) = Len(a.mruGhost)
             /\ Len(b.mfuGhost) = Len(a.mfuGhost) - 1
  <2>1. CASE live = MRU
    <3>1. /\ page \in GhostsOf(a, MRU)
          /\ GhostsOf(b, MRU) = GhostsOf(a, MRU) \ {page}
          /\ GhostsOf(b, MFU) = GhostsOf(a, MFU)
      <4>1. page \in GhostsOf(a, MRU) /\ page \notin GhostsOf(a, MFU)
        BY <2>1 DEF GhostsOf, MRU, MFU
      <4> QED
        BY <1>7, <4>1
    <3>2. b.mruGhost = Without(a.mruGhost, page) /\ b.mfuGhost = a.mfuGhost
      BY <1>4, <2>1 DEF MRU, MFU
    <3>3. Lists(b.mruGhost, GhostsOf(b, MRU))
          /\ Lists(b.mfuGhost, GhostsOf(b, MFU))
      BY <1>10, <3>1, <3>2, ListWithout
    <3>4. Len(b.mruGhost) = Len(a.mruGhost) - 1
      BY <1>10, <3>1, <3>3, ListShrinks
    <3> QED
      BY <3>2, <3>3, <3>4
  <2>2. CASE live = MFU
    <3>1. /\ page \in GhostsOf(a, MFU)
          /\ GhostsOf(b, MFU) = GhostsOf(a, MFU) \ {page}
          /\ GhostsOf(b, MRU) = GhostsOf(a, MRU)
      <4>1. page \in GhostsOf(a, MFU) /\ page \notin GhostsOf(a, MRU)
        BY <2>2 DEF GhostsOf, MRU, MFU
      <4> QED
        BY <1>7, <4>1
    <3>2. b.mfuGhost = Without(a.mfuGhost, page) /\ b.mruGhost = a.mruGhost
      BY <1>4, <2>2 DEF MRU, MFU
    <3>3. Lists(b.mruGhost, GhostsOf(b, MRU))
          /\ Lists(b.mfuGhost, GhostsOf(b, MFU))
      BY <1>10, <3>1, <3>2, ListWithout
    <3>4. Len(b.mfuGhost) = Len(a.mfuGhost) - 1
      BY <1>10, <3>1, <3>3, ListShrinks
    <3> QED
      BY <3>2, <3>3, <3>4
  <2> QED
    BY <1>3, <2>1, <2>2
<1>13. Linked(b)
  BY <1>11, <1>12 DEF Linked
<1>14. Apart(b)
  BY <1>1, <1>5, <1>6, <1>7 DEF Apart
<1>15. Counted(b)
  BY <1>1, <1>4, <1>5, <1>6 DEF Counted
<1>16. Bounded(b)
  <2>1. PICK t1, t2, b1, b2 \in Nat : Sizes(a, t1, t2, b1, b2)
    BY <1>1, HasSizes
  <2>2. PICK s1, s2, c1, c2 \in Nat : Sizes(b, s1, s2, c1, c2)
    BY <1>13, HasSizes
  <2>3. /\ s1 = t1 /\ s2 = t2 + 1
        /\ \/ c1 = b1 - 1 /\ c2 = b2
           \/ c1 = b1 /\ c2 = b2 - 1
    BY <1>11, <1>12, <2>1, <2>2 DEF Sizes
  <2>4. Fits(t1, t2, b1, b2)
    BY <1>1, <2>1, BoundedIs
  <2>5. Fits(s1, s2, c1, c2)
    BY <2>3, <2>4, CapacityIsNat DEF Fits
  <2> QED
    BY <2>2, <2>5, BoundedIs
<1>17. /\ b.alive[f].page = page
       /\ \A g \in DOMAIN a.alive : b.alive[g].page = a.alive[g].page
       /\ \A l : On(b, l) = IF l = MFU THEN On(a, l) \cup {f} ELSE On(a, l)
       /\ Evictable(b) = Evictable(a)
  BY <1>5, <1>6
<1> QED
  BY <1>4, <1>6, <1>9, <1>13, <1>14, <1>15, <1>16, <1>17 DEF ArcInv

(* The ghosts are trimmed just enough for one more page to be remembered.  *)
Room(t1, t2, b1, b2) ==
  t1 + b1 + 1 <= Capacity /\ t1 + t2 + b1 + b2 + 1 <= 2 * Capacity
HasRoom(a) ==
  \E t1, t2, b1, b2 \in Nat : Sizes(a, t1, t2, b1, b2) /\ Room(t1, t2, b1, b2)

LEMMA TrimmedKeeps ==
  ASSUME NEW a, ArcInv(a), NEW f \in Frames \ DOMAIN a.alive,
         NEW b, b = Trimmed(a)
  PROVE  /\ ArcInv(b) /\ HasRoom(b)
         /\ b.alive = a.alive /\ b.mru = a.mru /\ b.mfu = a.mfu
         /\ DOMAIN b.ghost \subseteq DOMAIN a.ghost
<1>1. Shaped(a) /\ Linked(a) /\ Apart(a) /\ Counted(a) /\ Bounded(a)
  BY DEF ArcInv
<1>2. /\ IsArc(a) /\ a.alive \in AliveMaps
      /\ a.ghost \in GhostMaps /\ a.target \in 0 .. Capacity
  BY <1>1 DEF Shaped
<1>3. PICK t1, t2, b1, b2 \in Nat : Sizes(a, t1, t2, b1, b2)
  BY <1>1, HasSizes
<1>4. Fits(t1, t2, b1, b2)
  BY <1>1, <1>3, BoundedIs
<1>5. t1 + t2 + 1 <= Capacity
  <2>1. IsFiniteSet(DOMAIN a.alive) /\ Cardinality(DOMAIN a.alive) = t1 + t2
    BY <1>1, <1>3, LinkedFacts DEF Sizes
  <2>2. DOMAIN a.alive \cup {f} \subseteq Frames
    BY <1>2, AliveFacts
  <2>3. Cardinality(DOMAIN a.alive \cup {f}) = t1 + t2 + 1
    BY <2>1, FS_AddElement
  <2> QED
    BY <2>2, <2>3, ArcAssumption, FS_Subset DEF Capacity
<1>6. /\ Lists(a.mruGhost, GhostsOf(a, MRU))
      /\ Lists(a.mfuGhost, GhostsOf(a, MFU))
  BY <1>1 DEF Linked
<1>7. (a.mruGhost = << >> => b1 = 0) /\ (a.mfuGhost = << >> => b2 = 0)
  BY <1>3 DEF Sizes
<1>8. Trimmed(a) =
        IF t1 + b1 = Capacity
        THEN IF a.mruGhost = << >> THEN a
             ELSE [a EXCEPT !.mruGhost = Front(@),
                            !.ghost = Erase(@, Last(a.mruGhost))]
        ELSE IF t1 + b1 < Capacity /\ t1 + b1 + t2 + b2 >= 2 * Capacity
                /\ a.mfuGhost # << >>
             THEN [a EXCEPT !.mfuGhost = Front(@),
                            !.ghost = Erase(@, Last(a.mfuGhost))]
             ELSE a
  BY <1>3 DEF Trimmed, Sizes
<1>9. CASE t1 + b1 = Capacity
  <2> DEFINE p == Last(a.mruGhost)
  <2>1. a.mruGhost # << >>
    BY <1>5, <1>7, <1>9, CapacityIsNat
  <2>2. b = [a EXCEPT !.mruGhost = Front(@), !.ghost = Erase(@, p)]
    BY <1>8, <1>9, <2>1
  <2>3. /\ IsArc(b)
        /\ b.mru = a.mru /\ b.mfu = a.mfu /\ b.alive = a.alive
        /\ b.size = a.size /\ b.target = a.target
        /\ b.mfuGhost = a.mfuGhost
        /\ b.mruGhost = Front(a.mruGhost) /\ b.ghost = Erase(a.ghost, p)
    BY <1>2, <2>2 DEF IsArc
  <2>4. p \in GhostsOf(a, MRU)
        /\ Lists(b.mruGhost, GhostsOf(a, MRU) \ {p})
    BY <1>6, <2>1, <2>3, ListFront
  <2> HIDE DEF p
  <2>5. /\ b.ghost \in GhostMaps
        /\ DOMAIN b.ghost = DOMAIN a.ghost \ {p}
        /\ \A l : GhostsOf(b, l) = GhostsOf(a, l) \ {p}
    <3>1. /\ DOMAIN b.ghost = DOMAIN a.ghost \ {p}
          /\ b.ghost = [q \in DOMAIN b.ghost |-> b.ghost[q]]
          /\ \A q \in DOMAIN a.ghost \ {p} : b.ghost[q] = a.ghost[q]
      BY <2>3 DEF Erase
    <3> QED
      BY <1>2, <3>1, GhostErased
  <2>6. Shaped(b)
    BY <1>2, <2>3, <2>5 DEF Shaped
  <2>7. Linked(b)
    <3>1. p \notin GhostsOf(a, MFU)
      BY <2>4 DEF GhostsOf, MRU, MFU
    <3>2. /\ GhostsOf(b, MRU) = GhostsOf(a, MRU) \ {p}
          /\ GhostsOf(b, MFU) = GhostsOf(a, MFU)
      BY <2>5, <3>1
    <3>3. On(b, MRU) = On(a, MRU) /\ On(b, MFU) = On(a, MFU)
      BY <2>3 DEF On
    <3> QED
      BY <1>1, <2>3, <2>4, <3>2, <3>3 DEF Linked
  <2>8. Apart(b) /\ Counted(b)
    BY <1>1, <2>3, <2>5 DEF Apart, Counted, Evictable
  <2>9. PICK s1, s2, c1, c2 \in Nat : Sizes(b, s1, s2, c1, c2)
    BY <2>7, HasSizes
  <2>10. s1 = t1 /\ s2 = t2 /\ c1 = b1 - 1 /\ c2 = b2
    <3>1. Len(b.mruGhost) = Len(a.mruGhost) - 1
      BY <1>6, <2>4, ListShrinks
    <3> QED
      BY <1>3, <2>3, <2>9, <3>1 DEF Sizes
  <2>11. Fits(s1, s2, c1, c2) /\ Room(s1, s2, c1, c2)
    BY <1>4, <2>10, CapacityIsNat DEF Fits, Room
  <2>12. Bounded(b) /\ HasRoom(b)
    BY <2>9, <2>11, BoundedIs DEF HasRoom
  <2> QED
    BY <2>3, <2>5, <2>6, <2>7, <2>8, <2>12 DEF ArcInv
<1>10. CASE /\ t1 + b1 # Capacity
            /\ t1 + b1 < Capacity /\ t1 + b1 + t2 + b2 >= 2 * Capacity
            /\ a.mfuGhost # << >>
  <2> DEFINE p == Last(a.mfuGhost)
  <2>2. b = [a EXCEPT !.mfuGhost = Front(@), !.ghost = Erase(@, p)]
    BY <1>8, <1>10
  <2>3. /\ IsArc(b)
        /\ b.mru = a.mru /\ b.mfu = a.mfu /\ b.alive = a.alive
        /\ b.size = a.size /\ b.target = a.target
        /\ b.mruGhost = a.mruGhost
        /\ b.mfuGhost = Front(a.mfuGhost) /\ b.ghost = Erase(a.ghost, p)
    BY <1>2, <2>2 DEF IsArc
  <2>4. p \in GhostsOf(a, MFU)
        /\ Lists(b.mfuGhost, GhostsOf(a, MFU) \ {p})
    BY <1>6, <1>10, <2>3, ListFront
  <2> HIDE DEF p
  <2>5. /\ b.ghost \in GhostMaps
        /\ DOMAIN b.ghost = DOMAIN a.ghost \ {p}
        /\ \A l : GhostsOf(b, l) = GhostsOf(a, l) \ {p}
    <3>1. /\ DOMAIN b.ghost = DOMAIN a.ghost \ {p}
          /\ b.ghost = [q \in DOMAIN b.ghost |-> b.ghost[q]]
          /\ \A q \in DOMAIN a.ghost \ {p} : b.ghost[q] = a.ghost[q]
      BY <2>3 DEF Erase
    <3> QED
      BY <1>2, <3>1, GhostErased
  <2>6. Shaped(b)
    BY <1>2, <2>3, <2>5 DEF Shaped
  <2>7. Linked(b)
    <3>1. p \notin GhostsOf(a, MRU)
      BY <2>4 DEF GhostsOf, MRU, MFU
    <3>2. /\ GhostsOf(b, MFU) = GhostsOf(a, MFU) \ {p}
          /\ GhostsOf(b, MRU) = GhostsOf(a, MRU)
      BY <2>5, <3>1
    <3>3. On(b, MRU) = On(a, MRU) /\ On(b, MFU) = On(a, MFU)
      BY <2>3 DEF On
    <3> QED
      BY <1>1, <2>3, <2>4, <3>2, <3>3 DEF Linked
  <2>8. Apart(b) /\ Counted(b)
    BY <1>1, <2>3, <2>5 DEF Apart, Counted, Evictable
  <2>9. PICK s1, s2, c1, c2 \in Nat : Sizes(b, s1, s2, c1, c2)
    BY <2>7, HasSizes
  <2>10. s1 = t1 /\ s2 = t2 /\ c1 = b1 /\ c2 = b2 - 1
    <3>1. Len(b.mfuGhost) = Len(a.mfuGhost) - 1
      BY <1>6, <2>4, ListShrinks
    <3> QED
      BY <1>3, <2>3, <2>9, <3>1 DEF Sizes
  <2>11. Fits(s1, s2, c1, c2) /\ Room(s1, s2, c1, c2)
    BY <1>4, <1>10, <2>10, CapacityIsNat DEF Fits, Room
  <2>12. Bounded(b) /\ HasRoom(b)
    BY <2>9, <2>11, BoundedIs DEF HasRoom
  <2> QED
    BY <2>3, <2>5, <2>6, <2>7, <2>8, <2>12 DEF ArcInv
<1>11. CASE /\ t1 + b1 # Capacity
            /\ ~(/\ t1 + b1 < Capacity /\ t1 + b1 + t2 + b2 >= 2 * Capacity
                 /\ a.mfuGhost # << >>)
  <2>1. b = a
    BY <1>8, <1>11
  <2>2. Room(t1, t2, b1, b2)
    BY <1>4, <1>5, <1>7, <1>11, CapacityIsNat DEF Fits, Room
  <2> QED
    BY <1>3, <2>1, <2>2 DEF HasRoom
<1> QED
  BY <1>9, <1>10, <1>11

LEMMA EnterKeeps ==
  ASSUME NEW a, ArcInv(a), NEW f \in Frames \ DOMAIN a.alive,
         NEW page \in PageIds, page \notin DOMAIN a.ghost,
         \A g \in DOMAIN a.alive : a.alive[g].page # page,
         NEW b, b = Enter(a, f, page)
  PROVE  /\ ArcInv(b)
         /\ DOMAIN b.alive = DOMAIN a.alive \cup {f}
         /\ b.alive[f].page = page
         /\ \A g \in DOMAIN a.alive : b.alive[g].page = a.alive[g].page
         /\ \A l : On(b, l) = IF l = MRU THEN On(a, l) \cup {f} ELSE On(a, l)
         /\ b.mru = <<f>> \o a.mru /\ b.mfu = a.mfu
         /\ Evictable(b) = Evictable(a)
<1> DEFINE entry == [page |-> page, evictable |-> FALSE, list |-> MRU]
<1>1. PICK c : c = Trimmed(a)
  OBVIOUS
<1>2. /\ ArcInv(c) /\ HasRoom(c)
      /\ c.alive = a.alive /\ c.mru = a.mru /\ c.mfu = a.mfu
      /\ DOMAIN c.ghost \subseteq DOMAIN a.ghost
  BY <1>1, TrimmedKeeps
<1>3. Shaped(c) /\ Linked(c) /\ Apart(c) /\ Counted(c) /\ Bounded(c)
  BY <1>2 DEF ArcInv
<1>4. /\ IsArc(c) /\ c.alive \in AliveMaps
      /\ c.ghost \in GhostMaps /\ c.target \in 0 .. Capacity
  BY <1>3 DEF Shaped
<1>5. b = [c EXCEPT !.mru = <<f>> \o @, !.alive = Put(@, f, entry)]
  BY <1>1 DEF Enter
<1>6. /\ IsArc(b)
      /\ b.mru = <<f>> \o c.mru /\ b.mfu = c.mfu
      /\ b.mruGhost = c.mruGhost /\ b.mfuGhost = c.mfuGhost
      /\ b.ghost = c.ghost /\ b.size = c.size /\ b.target = c.target
      /\ b.alive = Put(c.alive, f, entry)
  BY <1>4, <1>5 DEF IsArc
<1>7. entry \in Status /\ entry.list = MRU /\ ~entry.evictable
      /\ entry.page = page
  BY DEF Status
<1> HIDE DEF entry
<1>8. /\ b.alive \in AliveMaps
      /\ DOMAIN b.alive = DOMAIN c.alive \cup {f}
      /\ b.alive[f] = entry
      /\ \A g \in DOMAIN c.alive : b.alive[g] = c.alive[g]
      /\ \A l : On(b, l) = IF entry.list = l THEN On(c, l) \cup {f}
                                             ELSE On(c, l)
      /\ Evictable(b) = IF entry.evictable THEN Evictable(c) \cup {f}
                                           ELSE Evictable(c)
  <2>1. /\ DOMAIN b.alive = DOMAIN c.alive \cup {f}
        /\ b.alive = [g \in DOMAIN b.alive |-> b.alive[g]]
        /\ b.alive[f] = entry
        /\ \A g \in DOMAIN c.alive : b.alive[g] = c.alive[g]
    BY <1>2, <1>6 DEF Put
  <2>2. f \in Frames \ DOMAIN c.alive
    BY <1>2
  <2> QED
    BY <1>4, <1>7, <2>1, <2>2, AlivePut
<1>9. Shaped(b)
  BY <1>4, <1>6, <1>8 DEF Shaped
<1>10. /\ Lists(c.mru, On(c, MRU)) /\ Lists(c.mfu, On(c, MFU))
       /\ Lists(b.mruGhost, GhostsOf(b, MRU))
       /\ Lists(b.mfuGhost, GhostsOf(b, MFU))
  BY <1>3, <1>6 DEF Linked, GhostsOf
<1>11. /\ Lists(b.mru, On(b, MRU)) /\ Len(b.mru) = Len(c.mru) + 1
       /\ Lists(b.mfu, On(b, MFU)) /\ Len(b.mfu) = Len(c.mfu)
  <2>1. On(b, MFU) = On(c, MFU) /\ On(b, MRU) = On(c, MRU) \cup {f}
        /\ f \notin On(c, MRU)
    BY <1>2, <1>7, <1>8 DEF MRU, MFU, On
  <2>2. Lists(b.mru, On(b, MRU)) /\ Lists(b.mfu, On(b, MFU))
    BY <1>6, <1>10, <2>1, ListPush
  <2>3. Len(b.mru) = Len(c.mru) + 1
    BY <1>10, <2>1, <2>2, ListGrows
  <2> QED
    BY <1>6, <2>2, <2>3
<1>12. Linked(b)
  BY <1>10, <1>11 DEF Linked
<1>13. Apart(b)
  BY <1>2, <1>3, <1>6, <1>7, <1>8 DEF Apart
<1>14. Counted(b)
  BY <1>3, <1>6, <1>7, <1>8 DEF Counted
<1>15. Bounded(b)
  <2>1. PICK t1, t2, b1, b2 \in Nat :
          Sizes(c, t1, t2, b1, b2) /\ Room(t1, t2, b1, b2)
    BY <1>2 DEF HasRoom
  <2>2. PICK s1, s2, c1, c2 \in Nat : Sizes(b, s1, s2, c1, c2)
    BY <1>12, HasSizes
  <2>3. s1 = t1 + 1 /\ s2 = t2 /\ c1 = b1 /\ c2 = b2
    BY <1>6, <1>11, <2>1, <2>2 DEF Sizes
  <2>4. Fits(s1, s2, c1, c2)
    BY <2>1, <2>3, CapacityIsNat DEF Fits, Room
  <2> QED
    BY <2>2, <2>4, BoundedIs
<1>16. /\ b.alive[f].page = page
       /\ \A g \in DOMAIN a.alive : b.alive[g].page = a.alive[g].page
       /\ \A l : On(b, l) = IF l = MRU THEN On(a, l) \cup {f} ELSE On(a, l)
       /\ Evictable(b) = Evictable(a)
  BY <1>2, <1>7, <1>8 DEF On, Evictable
<1> QED
  BY <1>2, <1>6, <1>8, <1>9, <1>12, <1>13, <1>14, <1>15, <1>16 DEF ArcInv

-----------------------------------------------------------------------------
(***************************************************************************)
(* evict.                                                                  *)
(***************************************************************************)
LiveList(a, l) == IF l = MRU THEN a.mru ELSE a.mfu

LEMMA CandidatesList ==
  ASSUME NEW a, Linked(a), NEW l \in {MRU, MFU}
  PROVE  /\ Lists(LiveList(a, l), On(a, l))
         /\ Lists(Candidates(a, LiveList(a, l)), On(a, l) \cap Evictable(a))
         /\ \A x, y \in On(a, l) \cap Evictable(a) :
              Before(Candidates(a, LiveList(a, l)), x, y)
                => Before(LiveList(a, l), x, y)
<1>1. PICK s, D, T : s = LiveList(a, l) /\ D = On(a, l) /\ T = Evictable(a)
  OBVIOUS
<1>2. Lists(s, D)
  BY <1>1 DEF Linked, LiveList, MRU, MFU
<1>3. Candidates(a, s) = Kept(s, T)
  BY <1>1 DEF Candidates
<1>4. /\ Lists(Kept(s, T), D \cap T)
      /\ \A x, y \in D \cap T : Before(Kept(s, T), x, y) => Before(s, x, y)
  BY <1>2, ListKept
<1> QED
  BY <1>1, <1>2, <1>3, <1>4

(* evict() returns an evictable frame of the list it chose, behind every   *)
(* other one there, and std::nullopt only when no frame is evictable.      *)
LEMMA VictimFacts ==
  ASSUME NEW a, ArcInv(a)
  PROVE  /\ VictimList(a) \in {MRU, MFU}
         /\ Victim(a) = NoFrame <=> Evictable(a) = {}
         /\ Victim(a) # NoFrame =>
              /\ Victim(a) \in Evictable(a) /\ Victim(a) \in Frames
              /\ Victim(a) \in On(a, VictimList(a))
              /\ \A g \in On(a, VictimList(a)) \cap Evictable(a) :
                   g # Victim(a) =>
                     Before(LiveList(a, VictimList(a)), g, Victim(a))
<1>1. Shaped(a) /\ Linked(a) /\ Counted(a) /\ a.alive \in AliveMaps
  BY DEF ArcInv, Shaped
<1>2. VictimList(a) \in {MRU, MFU}
  BY DEF VictimList
<1>3. PICK l \in {MRU, MFU} : l = VictimList(a)
  BY <1>2
<1>4. PICK c, C : c = Candidates(a, LiveList(a, l))
                  /\ C = On(a, l) \cap Evictable(a)
  OBVIOUS
<1>5. Lists(c, C) /\ \A x, y \in C : Before(c, x, y)
                                       => Before(LiveList(a, l), x, y)
  BY <1>1, <1>4, CandidatesList
<1>6. Victim(a) = IF a.size = 0 \/ c = << >> THEN NoFrame ELSE Last(c)
  BY <1>3, <1>4 DEF Victim, LiveList
<1>7. a.size = 0 <=> Evictable(a) = {}
  <2>1. IsFiniteSet(Evictable(a))
    <3>1. IsFiniteSet(DOMAIN a.alive)
      BY <1>1, AliveFacts
    <3> QED
      BY <3>1, FS_Subset DEF Evictable
  <2> QED
    BY <1>1, <2>1, FS_EmptySet DEF Counted
<1>8. c = << >> => Evictable(a) = {}
  <2>1. /\ Candidates(a, a.mru) = << >> <=> On(a, MRU) \cap Evictable(a) = {}
        /\ Candidates(a, a.mfu) = << >> <=> On(a, MFU) \cap Evictable(a) = {}
    <3>1. /\ Lists(Candidates(a, LiveList(a, MRU)), On(a, MRU) \cap Evictable(a))
          /\ Lists(Candidates(a, LiveList(a, MFU)), On(a, MFU) \cap Evictable(a))
      BY <1>1, CandidatesList
    <3>2. LiveList(a, MRU) = a.mru /\ LiveList(a, MFU) = a.mfu
      BY DEF LiveList, MRU, MFU
    <3>3. PICK c1, c2 : c1 = Candidates(a, a.mru) /\ c2 = Candidates(a, a.mfu)
      OBVIOUS
    <3>4. /\ Lists(c1, On(a, MRU) \cap Evictable(a))
          /\ Lists(c2, On(a, MFU) \cap Evictable(a))
      BY <3>1, <3>2, <3>3
    <3> QED
      BY <3>3, <3>4, ListEmpty
  <2>2. c = << >> => Candidates(a, a.mru) = << >> /\ Candidates(a, a.mfu) = << >>
    BY <1>3, <1>4 DEF VictimList, LiveList, MRU, MFU
  <2>3. Evictable(a) \subseteq On(a, MRU) \cup On(a, MFU)
    BY <1>1, AliveFacts DEF Evictable, On
  <2> QED
    BY <2>1, <2>2, <2>3
<1>9. ASSUME Evictable(a) # {}
      PROVE  Victim(a) = Last(c) /\ c # << >>
  BY <1>6, <1>7, <1>8, <1>9
<1>10. ASSUME Evictable(a) # {}
       PROVE  /\ Last(c) \in C
              /\ \A g \in C : g # Last(c) => Before(c, g, Last(c))
  <2>1. c # << >>
    BY <1>9, <1>10
  <2>2. Last(c) \in C
    BY <1>5, <2>1, ListFront
  <2>3. ASSUME NEW g \in C, g # Last(c) PROVE Before(c, g, Last(c))
    <3>1. PICK n \in Nat : n = Len(c) /\ DOMAIN c = 1 .. n
      BY <1>5, ListFacts
    <3>2. PICK i \in 1 .. n : c[i] = g
      BY <1>5, <3>1, ListFacts
    <3>3. i < n /\ n \in 1 .. n /\ c[n] = Last(c)
      BY <2>3, <3>1, <3>2 DEF Last
    <3> QED
      BY <3>1, <3>2, <3>3 DEF Before
  <2> QED
    BY <2>2, <2>3
<1>11. Evictable(a) \subseteq Frames /\ NoFrame \notin Frames
  BY <1>1, AliveFacts, ArcAssumption DEF Evictable
<1>12. CASE Evictable(a) = {}
  BY <1>2, <1>6, <1>7, <1>12
<1>13. CASE Evictable(a) # {}
  <2>1. /\ Victim(a) \in C
        /\ \A g \in C : g # Victim(a) => Before(c, g, Victim(a))
    BY <1>9, <1>10, <1>13
  <2>2. \A g \in C : g # Victim(a) => Before(LiveList(a, l), g, Victim(a))
    BY <1>5, <2>1
  <2> QED
    BY <1>2, <1>3, <1>4, <1>11, <1>13, <2>1, <2>2
<1> QED
  BY <1>12, <1>13

LEMMA DemotedKeeps ==
  ASSUME NEW a, ArcInv(a), NEW f, f = Victim(a), f # NoFrame,
         NEW b, b = Demoted(a, f)
  PROVE  /\ ArcInv(b)
         /\ DOMAIN b.alive = DOMAIN a.alive \ {f}
         /\ \A g \in DOMAIN b.alive : b.alive[g].page = a.alive[g].page
         /\ \A l : On(b, l) = On(a, l) \ {f}
         /\ b.mru = a.mru \/ b.mru = Without(a.mru, f)
         /\ b.mfu = a.mfu \/ b.mfu = Without(a.mfu, f)
         /\ Evictable(b) = Evictable(a) \ {f}
<1> DEFINE page == a.alive[f].page
<1>1. Shaped(a) /\ Linked(a) /\ Apart(a) /\ Counted(a) /\ Bounded(a)
  BY DEF ArcInv
<1>2. /\ IsArc(a) /\ a.alive \in AliveMaps
      /\ a.ghost \in GhostMaps /\ a.target \in 0 .. Capacity
  BY <1>1 DEF Shaped
<1>3. PICK live \in {MRU, MFU} : live = VictimList(a)
  BY VictimFacts
<1>4. f \in Evictable(a) /\ f \in On(a, live) /\ f \in DOMAIN a.alive
  BY <1>3, VictimFacts DEF Evictable
<1>5. page \in PageIds \ DOMAIN a.ghost
  BY <1>1, <1>2, <1>4, AliveFacts DEF Apart
<1>6. /\ IsArc(b)
      /\ b.alive = Erase(a.alive, f) /\ b.size = a.size - 1
      /\ b.ghost = Put(a.ghost, page, live) /\ b.target = a.target
      /\ b.mru = IF live = MRU THEN Without(a.mru, f) ELSE a.mru
      /\ b.mfu = IF live = MRU THEN a.mfu ELSE Without(a.mfu, f)
      /\ b.mruGhost = IF live = MRU THEN <<page>> \o a.mruGhost
                                    ELSE a.mruGhost
      /\ b.mfuGhost = IF live = MRU THEN a.mfuGhost
                                    ELSE <<page>> \o a.mfuGhost
  BY <1>2, <1>3 DEF IsArc, Demoted
<1> HIDE DEF page
<1>7. /\ b.alive \in AliveMaps
      /\ DOMAIN b.alive = DOMAIN a.alive \ {f}
      /\ \A g \in DOMAIN a.alive \ {f} : b.alive[g] = a.alive[g]
      /\ \A l : On(b, l) = On(a, l) \ {f}
      /\ Evictable(b) = Evictable(a) \ {f}
  <2>1. /\ DOMAIN b.alive = DOMAIN a.alive \ {f}
        /\ b.alive = [g \in DOMAIN b.alive |-> b.alive[g]]
        /\ \A g \in DOMAIN a.alive \ {f} : b.alive[g] = a.alive[g]
    BY <1>6 DEF Erase
  <2> QED
    BY <1>2, <2>1, AliveErased
<1>8. /\ b.ghost \in GhostMaps
      /\ DOMAIN b.ghost = DOMAIN a.ghost \cup {page}
      /\ \A l : GhostsOf(b, l) = IF live = l THEN GhostsOf(a, l) \cup {page}
                                             ELSE GhostsOf(a, l)
  <2>1. /\ DOMAIN b.ghost = DOMAIN a.ghost \cup {page}
        /\ b.ghost = [q \in DOMAIN b.ghost |-> b.ghost[q]]
        /\ b.ghost[page] = live
        /\ \A q \in DOMAIN a.ghost : b.ghost[q] = a.ghost[q]
    BY <1>5, <1>6 DEF Put
  <2> QED
    BY <1>2, <1>5, <2>1, GhostPut
<1>9. Shaped(b)
  BY <1>2, <1>6, <1>7, <1>8 DEF Shaped
<1>10. /\ Lists(a.mru, On(a, MRU)) /\ Lists(a.mfu, On(a, MFU))
       /\ Lists(a.mruGhost, GhostsOf(a, MRU))
       /\ Lists(a.mfuGhost, GhostsOf(a, MFU))
       /\ page \notin GhostsOf(a, MRU) /\ page \notin GhostsOf(a, MFU)
  BY <1>1, <1>5 DEF Linked, GhostsOf
<1>11. /\ Linked(b)
       /\ \/ /\ Len(b.mru) = Len(a.mru) - 1 /\ Len(b.mfu) = Len(a.mfu)
             /\ Len(b.mruGhost) = Len(a.mruGhost) + 1
             /\ Len(b.mfuGhost) = Len(a.mfuGhost)
          \/ /\ Len(b.mru) = Len(a.mru) /\ Len(b.mfu) = Len(a.mfu) - 1
             /\ Len(b.mruGhost) = Len(a.mruGhost)
             /\ Len(b.mfuGhost) = Len(a.mfuGhost) + 1
  <2>1. CASE live = MRU
    <3>1. /\ f \in On(a, MRU) /\ On(b, MRU) = On(a, MRU) \ {f}
          /\ On(b, MFU) = On(a, MFU)
          /\ GhostsOf(b, MRU) = GhostsOf(a, MRU) \cup {page}
          /\ GhostsOf(b, MFU) = GhostsOf(a, MFU)
      <4>1. f \in On(a, MRU) /\ f \notin On(a, MFU)
        BY <1>4, <2>1 DEF On, MRU, MFU
      <4> QED
        BY <1>7, <1>8, <2>1, <4>1 DEF MRU, MFU
    <3>2. /\ b.mru = Without(a.mru, f) /\ b.mfu = a.mfu
          /\ b.mruGhost = <<page>> \o a.mruGhost /\ b.mfuGhost = a.mfuGhost
      BY <1>6, <2>1
    <3>3. Lists(b.mru, On(b, MRU))
      BY <1>10, <3>1, <3>2, ListWithout
    <3>4. Lists(b.mruGhost, GhostsOf(b, MRU))
      BY <1>10, <3>1, <3>2, ListPush
    <3>5. Len(b.mru) = Len(a.mru) - 1
      BY <1>10, <3>1, <3>3, ListShrinks
    <3>6. Len(b.mruGhost) = Len(a.mruGhost) + 1
      BY <1>10, <3>1, <3>4, ListGrows
    <3>7. Linked(b)
      BY <1>10, <3>1, <3>2, <3>3, <3>4 DEF Linked
    <3> QED
      BY <3>2, <3>5, <3>6, <3>7
  <2>2. CASE live = MFU
    <3>1. /\ f \in On(a, MFU) /\ On(b, MFU) = On(a, MFU) \ {f}
          /\ On(b, MRU) = On(a, MRU)
          /\ GhostsOf(b, MFU) = GhostsOf(a, MFU) \cup {page}
          /\ GhostsOf(b, MRU) = GhostsOf(a, MRU)
      <4>1. f \in On(a, MFU) /\ f \notin On(a, MRU)
        BY <1>4, <2>2 DEF On, MRU, MFU
      <4> QED
        BY <1>7, <1>8, <2>2, <4>1 DEF MRU, MFU
    <3>2. /\ b.mfu = Without(a.mfu, f) /\ b.mru = a.mru
          /\ b.mfuGhost = <<page>> \o a.mfuGhost /\ b.mruGhost = a.mruGhost
      BY <1>6, <2>2 DEF MRU, MFU
    <3>3. Lists(b.mfu, On(b, MFU))
      BY <1>10, <3>1, <3>2, ListWithout
    <3>4. Lists(b.mfuGhost, GhostsOf(b, MFU))
      BY <1>10, <3>1, <3>2, ListPush
    <3>5. Len(b.mfu) = Len(a.mfu) - 1
      BY <1>10, <3>1, <3>3, ListShrinks
    <3>6. Len(b.mfuGhost) = Len(a.mfuGhost) + 1
      BY <1>10, <3>1, <3>4, ListGrows
    <3>7. Linked(b)
      BY <1>10, <3>1, <3>2, <3>3, <3>4 DEF Linked
    <3> QED
      BY <3>2, <3>5, <3>6, <3>7
  <2> QED
    BY <2>1, <2>2
<1>12. Apart(b)
  BY <1>1, <1>4, <1>7, <1>8 DEF Apart, page
<1>13. Counted(b)
  <2>1. IsFiniteSet(Evictable(a))
    <3>1. IsFiniteSet(DOMAIN a.alive)
      BY <1>2, AliveFacts
    <3> QED
      BY <3>1, FS_Subset DEF Evictable
  <2> QED
    BY <1>1, <1>4, <1>6, <1>7, <2>1, FS_RemoveElement DEF Counted
<1>14. Bounded(b)
  <2>1. PICK t1, t2, b1, b2 \in Nat : Sizes(a, t1, t2, b1, b2)
    BY <1>1, HasSizes
  <2>2. PICK s1, s2, c1, c2 \in Nat : Sizes(b, s1, s2, c1, c2)
    BY <1>11, HasSizes
  <2>3. \/ s1 = t1 - 1 /\ s2 = t2 /\ c1 = b1 + 1 /\ c2 = b2
        \/ s1 = t1 /\ s2 = t2 - 1 /\ c1 = b1 /\ c2 = b2 + 1
    BY <1>11, <2>1, <2>2 DEF Sizes
  <2>4. Fits(t1, t2, b1, b2)
    BY <1>1, <2>1, BoundedIs
  <2>5. Fits(s1, s2, c1, c2)
    BY <2>3, <2>4, CapacityIsNat DEF Fits
  <2> QED
    BY <2>2, <2>5, BoundedIs
<1>15. /\ \A g \in DOMAIN b.alive : b.alive[g].page = a.alive[g].page
       /\ b.mru = a.mru \/ b.mru = Without(a.mru, f)
       /\ b.mfu = a.mfu \/ b.mfu = Without(a.mfu, f)
  BY <1>6, <1>7
<1>16. Linked(b)
  BY <1>11
<1>17. ArcInv(b)
  BY <1>9, <1>12, <1>13, <1>14, <1>16 DEF ArcInv
<1> QED
  BY <1>7, <1>15, <1>17

-----------------------------------------------------------------------------
(***************************************************************************)
(* The order of a list: what is pushed comes before the rest, what is      *)
(* taken out leaves the rest as it was.                                    *)
(***************************************************************************)
LEMMA OrderFacts ==
  ASSUME NEW s, NEW D, Lists(s, D)
  PROVE  /\ \A x, y : Before(s, x, y) => x \in D /\ y \in D /\ x # y
                                         /\ ~Before(s, y, x)
         /\ \A x, y \in D : x # y => Before(s, x, y) \/ Before(s, y, x)
<1>1. PICK n \in Nat : n = Len(s) /\ DOMAIN s = 1 .. n
  BY ListFacts
<1>2. /\ \A i \in 1 .. n : s[i] \in D
      /\ \A x \in D : \E i \in 1 .. n : s[i] = x
      /\ \A i, j \in 1 .. n : s[i] = s[j] => i = j
  BY <1>1, ListFacts
<1>3. ASSUME NEW x, NEW y, Before(s, x, y)
      PROVE  x \in D /\ y \in D /\ x # y /\ ~Before(s, y, x)
  <2>1. PICK i, j \in 1 .. n : i < j /\ s[i] = x /\ s[j] = y
    BY <1>1, <1>3 DEF Before
  <2>2. ASSUME NEW k \in 1 .. n, NEW m \in 1 .. n, k < m, s[k] = y, s[m] = x
        PROVE  FALSE
    <3>1. k = j /\ m = i
      BY <1>2, <2>1, <2>2
    <3> QED
      BY <2>1, <2>2, <3>1
  <2>3. ~Before(s, y, x)
    BY <1>1, <2>2 DEF Before
  <2>4. x # y
    BY <1>2, <2>1
  <2> QED
    BY <1>2, <2>1, <2>3, <2>4
<1>4. ASSUME NEW x \in D, NEW y \in D, x # y
      PROVE  Before(s, x, y) \/ Before(s, y, x)
  <2>1. PICK i, j \in 1 .. n : s[i] = x /\ s[j] = y
    BY <1>2
  <2>2. i < j \/ j < i
    BY <1>4, <2>1
  <2> QED
    BY <1>1, <2>1, <2>2 DEF Before
<1> QED
  BY <1>3, <1>4

LEMMA OrderPush ==
  ASSUME NEW s, NEW D, Lists(s, D), NEW x, x \notin D
  PROVE  \A y, z : Before(<<x>> \o s, y, z)
                     <=> z \in D /\ (y = x \/ Before(s, y, z))
<1>0. PICK n \in Nat : n = Len(s) /\ DOMAIN s = 1 .. n
  BY ListFacts
<1>1. /\ \A i \in 1 .. n : s[i] \in D
      /\ \A y \in D : \E i \in 1 .. n : s[i] = y
      /\ s \in Seq(D)
  BY <1>0, ListFacts DEF Lists
<1>2. PICK t : t = <<x>> \o s
  OBVIOUS
<1>3. /\ DOMAIN t = 1 .. (n + 1)
      /\ t[1] = x /\ \A i \in 1 .. n : t[i + 1] = s[i]
  <2>1. s \in Seq(D \cup {x}) /\ <<x>> \in Seq(D \cup {x})
    BY <1>1
  <2>2. t \in Seq(D \cup {x}) /\ Len(t) = n + 1
    BY <1>0, <1>2, <2>1, ConcatProperties
  <2>3. DOMAIN t = 1 .. (n + 1)
    BY <2>2, LenProperties
  <2>4. t[1] = x /\ \A i \in 1 .. n : t[i + 1] = s[i]
    BY <1>0, <1>2, <2>1, ConcatProperties
  <2> QED
    BY <2>3, <2>4
<1>4. ASSUME NEW y, NEW z, Before(t, y, z)
      PROVE  z \in D /\ (y = x \/ Before(s, y, z))
  <2>1. PICK i, j \in 1 .. (n + 1) : i < j /\ t[i] = y /\ t[j] = z
    BY <1>3, <1>4 DEF Before
  <2>2. PICK k \in 1 .. n : j = k + 1
    <3>1. j - 1 \in 1 .. n /\ j = (j - 1) + 1
      BY <2>1
    <3> QED
      BY <3>1
  <2>3. z = s[k] /\ z \in D
    BY <1>1, <1>3, <2>1, <2>2
  <2>4. CASE i = 1
    BY <1>3, <2>1, <2>3, <2>4
  <2>5. CASE i # 1
    <3>1. PICK m \in 1 .. n : i = m + 1 /\ m < k
      <4>1. i - 1 \in 1 .. n /\ i = (i - 1) + 1 /\ i - 1 < k
        BY <2>1, <2>2, <2>5
      <4> QED
        BY <4>1
    <3>2. y = s[m]
      BY <1>3, <2>1, <3>1
    <3>3. Before(s, y, z)
      BY <1>0, <2>3, <3>1, <3>2 DEF Before
    <3> QED
      BY <2>3, <3>3
  <2> QED
    BY <2>4, <2>5
<1>5. ASSUME NEW z \in D PROVE Before(t, x, z)
  <2>1. PICK k \in 1 .. n : s[k] = z
    BY <1>1
  <2>2. 1 \in 1 .. (n + 1) /\ k + 1 \in 1 .. (n + 1) /\ 1 < k + 1
    BY <1>0
  <2>3. t[1] = x /\ t[k + 1] = z
    BY <1>3, <2>1
  <2> QED
    BY <1>3, <2>2, <2>3 DEF Before
<1>6. ASSUME NEW y, NEW z, Before(s, y, z) PROVE Before(t, y, z)
  <2>1. PICK i, j \in 1 .. n : i < j /\ s[i] = y /\ s[j] = z
    BY <1>0, <1>6 DEF Before
  <2>2. i + 1 \in 1 .. (n + 1) /\ j + 1 \in 1 .. (n + 1) /\ i + 1 < j + 1
    BY <2>1
  <2>3. t[i + 1] = y /\ t[j + 1] = z
    BY <1>3, <2>1
  <2> QED
    BY <1>3, <2>2, <2>3 DEF Before
<1> QED
  BY <1>2, <1>4, <1>5, <1>6

LEMMA OrderWithout ==
  ASSUME NEW s, NEW D, Lists(s, D), NEW x
  PROVE  \A y, z : Before(Without(s, x), y, z)
                     <=> Before(s, y, z) /\ y # x /\ z # x
<1>1. PICK t : t = Without(s, x)
  OBVIOUS
<1>2. Lists(t, D \ {x})
  BY <1>1, ListWithout
<1>3. \A y, z \in D \ {x} : Before(t, y, z) => Before(s, y, z)
  <2>1. ToSet(s) = D /\ D \cap (D \ {x}) = D \ {x}
    BY DEF Lists
  <2>2. t = Kept(s, D \ {x})
    BY <1>1, <2>1 DEF Without
  <2>3. \A y, z \in D \cap (D \ {x}) : Before(Kept(s, D \ {x}), y, z)
                                         => Before(s, y, z)
    BY ListKept
  <2> QED
    BY <2>1, <2>2, <2>3
<1>4. ASSUME NEW y, NEW z, Before(t, y, z)
      PROVE  Before(s, y, z) /\ y # x /\ z # x
  <2>1. y \in D \ {x} /\ z \in D \ {x}
    BY <1>2, <1>4, OrderFacts
  <2> QED
    BY <1>3, <1>4, <2>1
<1>5. ASSUME NEW y, NEW z, Before(s, y, z), y # x, z # x
      PROVE  Before(t, y, z)
  <2>1. y \in D \ {x} /\ z \in D \ {x} /\ y # z /\ ~Before(s, z, y)
    BY <1>5, OrderFacts
  <2>2. Before(t, y, z) \/ Before(t, z, y)
    BY <1>2, <2>1, OrderFacts
  <2> QED
    BY <1>3, <2>1, <2>2
<1> QED
  BY <1>1, <1>4, <1>5

(* One list turned into another by an access to f: f is in front, or       *)
(* absent, and the others are as they were.                                *)
Fronted(s, t, f) ==
  \A x, y : Before(t, x, y) => y # f /\ (x = f \/ Before(s, x, y))

LEMMA FrontedFacts ==
  ASSUME NEW s, NEW D, Lists(s, D), NEW f
  PROVE  /\ f \notin D => Fronted(s, s, f) /\ Fronted(s, <<f>> \o s, f)
         /\ Fronted(s, Without(s, f), f)
         /\ Fronted(s, <<f>> \o Without(s, f), f)
<1>1. f \notin D => Fronted(s, s, f)
  BY OrderFacts DEF Fronted
<1>2. f \notin D => Fronted(s, <<f>> \o s, f)
  BY OrderPush DEF Fronted
<1>3. Fronted(s, Without(s, f), f)
  BY OrderWithout DEF Fronted
<1>4. Fronted(s, <<f>> \o Without(s, f), f)
  <2>1. PICK t : t = Without(s, f)
    OBVIOUS
  <2>2. Lists(t, D \ {f}) /\ f \notin D \ {f}
    BY <2>1, ListWithout
  <2>3. \A y, z : Before(<<f>> \o t, y, z)
                    <=> z \in D \ {f} /\ (y = f \/ Before(t, y, z))
    BY <2>2, OrderPush
  <2>4. Fronted(s, t, f)
    BY <1>3, <2>1
  <2>5. Fronted(s, <<f>> \o t, f)
    BY <2>3, <2>4 DEF Fronted
  <2> QED
    BY <2>1, <2>5
<1> QED
  BY <1>1, <1>2, <1>3, <1>4

-----------------------------------------------------------------------------
(***************************************************************************)
(* What fetch_page and new_page do to a frame, and what the state says of  *)
(* itself.                                                                 *)
(***************************************************************************)
LEMMA RecordAccessKeeps ==
  ASSUME NEW a, ArcInv(a), NEW f \in Frames, NEW page \in PageIds,
         f \in DOMAIN a.alive \/ \A g \in DOMAIN a.alive : a.alive[g].page # page,
         NEW b, b = RecordAccess(a, f, page)
  PROVE  /\ ArcInv(b)
         /\ DOMAIN b.alive = DOMAIN a.alive \cup {f}
         /\ b.alive[f].page = IF f \in DOMAIN a.alive THEN a.alive[f].page
                                                      ELSE page
         /\ \A g \in DOMAIN a.alive \ {f} : b.alive[g].page = a.alive[g].page
         /\ Evictable(b) = Evictable(a)
         /\ Fronted(a.mru, b.mru, f) /\ Fronted(a.mfu, b.mfu, f)
<1>1. Shaped(a) /\ Linked(a)
  BY DEF ArcInv
<1>2. Lists(a.mru, On(a, MRU)) /\ Lists(a.mfu, On(a, MFU))
  BY <1>1 DEF Linked
<1>3. CASE f \in DOMAIN a.alive
  <2>1. b = Promote(a, f)
    BY <1>3 DEF RecordAccess
  <2>2. /\ ArcInv(b)
        /\ DOMAIN b.alive = DOMAIN a.alive
        /\ \A g \in DOMAIN a.alive : b.alive[g].page = a.alive[g].page
        /\ Evictable(b) = Evictable(a)
    BY <1>3, <2>1, PromoteKeeps
  <2>3. /\ b.mru = IF a.alive[f].list = MRU THEN Without(a.mru, f) ELSE a.mru
        /\ b.mfu = IF a.alive[f].list = MRU THEN <<f>> \o a.mfu
                   ELSE <<f>> \o Without(a.mfu, f)
    BY <1>1, <1>3, <2>1, PromoteFields
  <2>4. /\ a.alive[f].list = MRU => f \notin On(a, MFU)
        /\ a.alive[f].list # MRU => f \notin On(a, MRU)
    BY DEF On, MRU, MFU
  <2>5. Fronted(a.mru, b.mru, f)
    BY <1>2, <2>3, <2>4, FrontedFacts
  <2>6. Fronted(a.mfu, b.mfu, f)
    BY <1>2, <2>3, <2>4, FrontedFacts
  <2>7. DOMAIN a.alive \cup {f} = DOMAIN a.alive
    BY <1>3
  <2> QED
    BY <1>3, <2>2, <2>5, <2>6, <2>7
<1>4. CASE f \notin DOMAIN a.alive
  <2>1. f \in Frames \ DOMAIN a.alive /\ f \notin On(a, MRU)
        /\ f \notin On(a, MFU)
    BY <1>4 DEF On
  <2>2. CASE page \in DOMAIN a.ghost
    <3>1. b = Resurrect(a, f, page)
      BY <1>4, <2>2 DEF RecordAccess
    <3>2. /\ ArcInv(b)
          /\ DOMAIN b.alive = DOMAIN a.alive \cup {f}
          /\ b.alive[f].page = page
          /\ \A g \in DOMAIN a.alive : b.alive[g].page = a.alive[g].page
          /\ b.mru = a.mru /\ b.mfu = <<f>> \o a.mfu
          /\ Evictable(b) = Evictable(a)
      BY <2>1, <2>2, <3>1, ResurrectKeeps
    <3>3. Fronted(a.mru, b.mru, f) /\ Fronted(a.mfu, b.mfu, f)
      BY <1>2, <2>1, <3>2, FrontedFacts
    <3> QED
      BY <1>4, <3>2, <3>3
  <2>3. CASE page \notin DOMAIN a.ghost
    <3>1. b = Enter(a, f, page)
      BY <1>4, <2>3 DEF RecordAccess
    <3>2. /\ ArcInv(b)
          /\ DOMAIN b.alive = DOMAIN a.alive \cup {f}
          /\ b.alive[f].page = page
          /\ \A g \in DOMAIN a.alive : b.alive[g].page = a.alive[g].page
          /\ b.mru = <<f>> \o a.mru /\ b.mfu = a.mfu
          /\ Evictable(b) = Evictable(a)
      BY <1>4, <2>1, <2>3, <3>1, EnterKeeps
    <3>3. Fronted(a.mru, b.mru, f) /\ Fronted(a.mfu, b.mfu, f)
      BY <1>2, <2>1, <3>2, FrontedFacts
    <3> QED
      BY <1>4, <3>2, <3>3
  <2> QED
    BY <2>2, <2>3
<1> QED
  BY <1>3, <1>4

LEMMA AccessKeeps ==
  ASSUME NEW a, ArcInv(a), NEW f \in Frames, NEW page \in PageIds,
         f \in DOMAIN a.alive \/ \A g \in DOMAIN a.alive : a.alive[g].page # page,
         NEW b, b = AccessPinned(a, f, page)
  PROVE  /\ ArcInv(b)
         /\ DOMAIN b.alive = DOMAIN a.alive \cup {f}
         /\ b.alive[f].page = IF f \in DOMAIN a.alive THEN a.alive[f].page
                                                      ELSE page
         /\ \A g \in DOMAIN a.alive \ {f} : b.alive[g].page = a.alive[g].page
         /\ Evictable(b) = Evictable(a) \ {f}
         /\ Fronted(a.mru, b.mru, f) /\ Fronted(a.mfu, b.mfu, f)
<1>1. PICK c : c = RecordAccess(a, f, page)
  OBVIOUS
<1>2. /\ ArcInv(c)
      /\ DOMAIN c.alive = DOMAIN a.alive \cup {f}
      /\ c.alive[f].page = IF f \in DOMAIN a.alive THEN a.alive[f].page
                                                   ELSE page
      /\ \A g \in DOMAIN a.alive \ {f} : c.alive[g].page = a.alive[g].page
      /\ Evictable(c) = Evictable(a)
      /\ Fronted(a.mru, c.mru, f) /\ Fronted(a.mfu, c.mfu, f)
  BY <1>1, RecordAccessKeeps
<1>3. b = SetEvictable(c, f, FALSE)
  BY <1>1 DEF AccessPinned
<1>4. /\ ArcInv(b)
      /\ DOMAIN b.alive = DOMAIN c.alive
      /\ b.mru = c.mru /\ b.mfu = c.mfu
      /\ \A g \in DOMAIN c.alive : b.alive[g].page = c.alive[g].page
      /\ Evictable(b) = Evictable(c) \ {f}
  <2>1. PICK e \in BOOLEAN : e = FALSE
    OBVIOUS
  <2>2. b = SetEvictable(c, f, e) /\ ArcInv(c)
    BY <1>2, <1>3, <2>1
  <2>3. /\ ArcInv(b)
        /\ DOMAIN b.alive = DOMAIN c.alive
        /\ b.mru = c.mru /\ b.mfu = c.mfu
        /\ \A g \in DOMAIN c.alive : b.alive[g].page = c.alive[g].page
        /\ Evictable(b) = IF e THEN Evictable(c) \cup ({f} \cap DOMAIN c.alive)
                               ELSE Evictable(c) \ {f}
    BY <2>2, SetEvictableKeeps
  <2> QED
    BY <2>1, <2>3
<1>5. b.alive[f].page = c.alive[f].page
      /\ \A g \in DOMAIN a.alive \ {f} : b.alive[g].page = c.alive[g].page
  BY <1>2, <1>4
<1> QED
  BY <1>2, <1>4, <1>5

LEMMA EmptyArcInv == ArcInv(EmptyArc)
<1>1. /\ EmptyArc.alive = << >> /\ EmptyArc.ghost = << >>
      /\ EmptyArc.mru = << >> /\ EmptyArc.mfu = << >>
      /\ EmptyArc.mruGhost = << >> /\ EmptyArc.mfuGhost = << >>
      /\ EmptyArc.size = 0 /\ EmptyArc.target = 0 /\ IsArc(EmptyArc)
  BY DEF EmptyArc, IsArc
<1>2. PICK a : a = EmptyArc
  OBVIOUS
<1>3. /\ DOMAIN a.alive = {} /\ DOMAIN a.ghost = {}
      /\ Evictable(a) = {} /\ On(a, MRU) = {} /\ On(a, MFU) = {}
      /\ GhostsOf(a, MRU) = {} /\ GhostsOf(a, MFU) = {}
  <2>1. DOMAIN a.alive = {} /\ DOMAIN a.ghost = {}
    BY <1>1, <1>2
  <2> QED
    BY <2>1 DEF Evictable, On, GhostsOf
<1>4. a.alive \in AliveMaps /\ a.ghost \in GhostMaps
  <2>1. a.alive = [f \in {} |-> a.alive[f]] /\ a.ghost = [f \in {} |-> a.ghost[f]]
    BY <1>1, <1>2
  <2>2. {} \in SUBSET Frames /\ {} \in SUBSET PageIds
    OBVIOUS
  <2> QED
    BY <2>1, <2>2, AliveMade, GhostMade
<1>5. Shaped(a)
  BY <1>1, <1>2, <1>4, CapacityIsNat DEF Shaped
<1>6. Linked(a)
  BY <1>1, <1>2, <1>3, ListEmpty DEF Linked
<1>7. Apart(a)
  BY <1>3 DEF Apart
<1>8. Counted(a)
  BY <1>1, <1>2, <1>3, FS_EmptySet DEF Counted
<1>9. Bounded(a)
  <2>1. Sizes(a, 0, 0, 0, 0)
    BY <1>1, <1>2 DEF Sizes
  <2>2. Fits(0, 0, 0, 0)
    BY CapacityIsNat DEF Fits
  <2> QED
    BY <2>1, <2>2, BoundedIs
<1> QED
  BY <1>2, <1>5, <1>6, <1>7, <1>8, <1>9 DEF ArcInv

(* What ArcInv says in the words of ArcReplacer. *)
LEMMA ArcInvShows ==
  ASSUME NEW a, ArcInv(a)
  PROVE  ListsMatchMaps(a) /\ VictimFound(a) /\ Bounded(a)
<1>1. Shaped(a) /\ Linked(a) /\ Apart(a) /\ Counted(a) /\ Bounded(a)
  BY DEF ArcInv
<1>2. ListsMatchMaps(a)
  BY <1>1 DEF ListsMatchMaps, Linked, Lists, On, GhostsOf, Apart
<1>3. VictimFound(a)
  <2>1. a.size > 0 => Evictable(a) # {}
    BY <1>1, FS_EmptySet DEF Counted
  <2> QED
    BY <1>1, <2>1, VictimFacts DEF VictimFound, Counted, Evictable
<1> QED
  BY <1>1, <1>2, <1>3

-----------------------------------------------------------------------------
(***************************************************************************)
(* The steps of ArcDriver.                                                 *)
(***************************************************************************)
InOrder(a, r) ==
  /\ Lists(r, DOMAIN a.alive)
  /\ \A x, y : Before(a.mru, x, y) => Before(r, x, y)
  /\ \A x, y : Before(a.mfu, x, y) => Before(r, x, y)

IInv == ArcInv(arc) /\ InOrder(arc, recency)

LEMMA AccessInOrder ==
  ASSUME NEW a, NEW b, ArcInv(b), NEW D, NEW r, Lists(r, D), NEW f,
         DOMAIN b.alive = D \cup {f},
         Fronted(a.mru, b.mru, f), Fronted(a.mfu, b.mfu, f),
         \A x, y : Before(a.mru, x, y) => Before(r, x, y),
         \A x, y : Before(a.mfu, x, y) => Before(r, x, y),
         NEW s, s = <<f>> \o Without(r, f)
  PROVE  InOrder(b, s)
<1>1. PICK t : t = Without(r, f)
  OBVIOUS
<1>2. PICK E : E = D \ {f}
  OBVIOUS
<1>3. Lists(t, E) /\ f \notin E
  BY <1>2, <1>1, ListWithout
<1>4. s = <<f>> \o t
  BY <1>1
<1>5. /\ Lists(<<f>> \o t, E \cup {f})
       /\ \A y, z : Before(<<f>> \o t, y, z)
                      <=> z \in E /\ (y = f \/ Before(t, y, z))
  BY <1>3, ListPush, OrderPush
<1>6. Lists(s, DOMAIN b.alive)
  <2>1. Lists(s, E \cup {f})
    BY <1>4, <1>5
  <2>2. E \cup {f} = DOMAIN b.alive
    BY <1>2
  <2> QED
    BY <2>1, <2>2
<1>7. \A y, z : Before(s, y, z) <=> z \in E /\ (y = f \/ Before(t, y, z))
  BY <1>4, <1>5
<1>8. \A y, z : Before(t, y, z) <=> Before(r, y, z) /\ y # f /\ z # f
  BY <1>1, OrderWithout
<1>9. Lists(b.mru, On(b, MRU)) /\ Lists(b.mfu, On(b, MFU))
  BY DEF ArcInv, Linked
<1>10. ASSUME NEW x, NEW y, Before(b.mru, x, y) PROVE Before(s, x, y)
  <2>1. y # f /\ (x = f \/ Before(a.mru, x, y))
    BY <1>10 DEF Fronted
  <2>2. y \in E
    BY <1>2, <1>9, <1>10, <2>1, OrderFacts DEF On
  <2> QED
    BY <1>7, <1>8, <2>1, <2>2
<1>11. ASSUME NEW x, NEW y, Before(b.mfu, x, y) PROVE Before(s, x, y)
  <2>1. y # f /\ (x = f \/ Before(a.mfu, x, y))
    BY <1>11 DEF Fronted
  <2>2. y \in E
    BY <1>2, <1>9, <1>11, <2>1, OrderFacts DEF On
  <2> QED
    BY <1>7, <1>8, <2>1, <2>2
<1> QED
  BY <1>6, <1>10, <1>11 DEF InOrder

(* A frame that leaves the replacer leaves the order of the others alone.  *)
LEMMA LossKeepsOrder ==
  ASSUME NEW a, ArcInv(a), NEW b, NEW f, NEW r,
         \A x, y : Before(a.mru, x, y) => Before(r, x, y),
         \A x, y : Before(a.mfu, x, y) => Before(r, x, y),
         b.mru = a.mru \/ b.mru = Without(a.mru, f),
         b.mfu = a.mfu \/ b.mfu = Without(a.mfu, f)
  PROVE  /\ \A x, y : Before(b.mru, x, y) => Before(r, x, y)
         /\ \A x, y : Before(b.mfu, x, y) => Before(r, x, y)
<1>1. Lists(a.mru, On(a, MRU)) /\ Lists(a.mfu, On(a, MFU))
  BY DEF ArcInv, Linked
<1>2. \A x, y : Before(Without(a.mru, f), x, y) => Before(a.mru, x, y)
  BY <1>1, OrderWithout
<1>3. \A x, y : Before(Without(a.mfu, f), x, y) => Before(a.mfu, x, y)
  BY <1>1, OrderWithout
<1> QED
  BY <1>2, <1>3

LEMMA InitIsGood == ArcInit => IInv
<1>1. ASSUME ArcInit PROVE IInv
  <2>1. PICK a, r : a = arc /\ r = recency
    OBVIOUS
  <2>2. ArcInv(a)
    BY <1>1, <2>1, EmptyArcInv DEF ArcInit
  <2>3. r = << >> /\ a.mru = << >> /\ a.mfu = << >> /\ DOMAIN a.alive = {}
    BY <1>1, <2>1 DEF ArcInit, EmptyArc
  <2>4. \A x, y : ~Before(<< >>, x, y)
    BY DEF Before
  <2>5. InOrder(a, r)
    BY <2>3, <2>4, ListEmpty DEF InOrder
  <2> QED
    BY <2>1, <2>2, <2>5 DEF IInv
<1> QED
  BY <1>1

LEMMA StepIsGood == IInv /\ [ArcNext]_arcVars => IInv'
<1> SUFFICES ASSUME IInv, [ArcNext]_arcVars PROVE IInv'
  OBVIOUS
<1>1. PICK a, r, b, s : a = arc /\ r = recency /\ b = arc' /\ s = recency'
  OBVIOUS
<1>2. ArcInv(a) /\ InOrder(a, r)
  BY <1>1 DEF IInv
<1>3. /\ Lists(r, DOMAIN a.alive)
      /\ \A x, y : Before(a.mru, x, y) => Before(r, x, y)
      /\ \A x, y : Before(a.mfu, x, y) => Before(r, x, y)
  BY <1>2 DEF InOrder
<1>4. /\ a.alive \in AliveMaps /\ Apart(a)
      /\ DOMAIN a.alive \subseteq Frames
      /\ \A f \in DOMAIN a.alive : a.alive[f].page \in PageIds
                                   /\ a.alive[f].evictable \in BOOLEAN
  BY <1>2, AliveFacts DEF ArcInv, Shaped
<1>5. ASSUME NEW f \in Frames, Hit(f) PROVE ArcInv(b) /\ InOrder(b, s)
  <2>1. f \in DOMAIN a.alive /\ a.alive[f].page \in PageIds
    BY <1>1, <1>4, <1>5 DEF Hit
  <2>2. PICK page \in PageIds : page = a.alive[f].page
    BY <2>1
  <2>3. b = AccessPinned(a, f, page) /\ s = <<f>> \o Without(r, f)
    BY <1>1, <1>5, <2>2 DEF Hit, Accessed
  <2>4. /\ ArcInv(b) /\ DOMAIN b.alive = DOMAIN a.alive \cup {f}
        /\ Fronted(a.mru, b.mru, f) /\ Fronted(a.mfu, b.mfu, f)
    BY <1>2, <2>1, <2>3, AccessKeeps
  <2> QED
    BY <1>3, <2>3, <2>4, AccessInOrder
<1>6. ASSUME NEW f \in Frames, NEW page \in PageIds, Fill(f, page)
      PROVE  ArcInv(b) /\ InOrder(b, s)
  <2>1. /\ \A g \in DOMAIN a.alive : a.alive[g].page # page
        /\ b = AccessPinned(a, f, page) /\ s = <<f>> \o Without(r, f)
    BY <1>1, <1>6 DEF Fill, Accessed, CachedPages
  <2>2. /\ ArcInv(b) /\ DOMAIN b.alive = DOMAIN a.alive \cup {f}
        /\ Fronted(a.mru, b.mru, f) /\ Fronted(a.mfu, b.mfu, f)
    BY <1>2, <2>1, AccessKeeps
  <2> QED
    BY <1>3, <2>1, <2>2, AccessInOrder
<1>7. ASSUME NEW f \in Frames, NEW page \in PageIds, Replace(f, page)
      PROVE  ArcInv(b) /\ InOrder(b, s)
  <2>1. /\ \A g \in DOMAIN a.alive : a.alive[g].page # page
        /\ Victim(a) = f /\ f # NoFrame
        /\ s = <<f>> \o Without(r, f)
    BY <1>1, <1>7, ArcAssumption DEF Replace, Accessed, CachedPages
  <2>2. PICK c : c = Demoted(a, f)
    OBVIOUS
  <2>3. b = AccessPinned(c, f, page)
    BY <1>1, <1>7, <2>2 DEF Replace
  <2>4. /\ ArcInv(c) /\ DOMAIN c.alive = DOMAIN a.alive \ {f}
        /\ \A g \in DOMAIN c.alive : c.alive[g].page = a.alive[g].page
        /\ c.mru = a.mru \/ c.mru = Without(a.mru, f)
        /\ c.mfu = a.mfu \/ c.mfu = Without(a.mfu, f)
    BY <1>2, <2>1, <2>2, DemotedKeeps
  <2>5. \A g \in DOMAIN c.alive : c.alive[g].page # page
    BY <2>1, <2>4
  <2>6. /\ ArcInv(b) /\ DOMAIN b.alive = DOMAIN c.alive \cup {f}
        /\ Fronted(c.mru, b.mru, f) /\ Fronted(c.mfu, b.mfu, f)
    BY <2>3, <2>4, <2>5, AccessKeeps
  <2>7. /\ \A x, y : Before(c.mru, x, y) => Before(r, x, y)
        /\ \A x, y : Before(c.mfu, x, y) => Before(r, x, y)
    BY <1>2, <1>3, <2>4, LossKeepsOrder
  <2>8. DOMAIN b.alive = DOMAIN a.alive \cup {f}
    BY <2>4, <2>6
  <2> QED
    BY <1>3, <2>1, <2>6, <2>7, <2>8, AccessInOrder
<1>8. ASSUME NEW f \in Frames, Unpinned(f) PROVE ArcInv(b) /\ InOrder(b, s)
  <2>1. b = Released(a, f) /\ s = r
    BY <1>1, <1>8 DEF Unpinned, Released
  <2>2. /\ ArcInv(b) /\ DOMAIN b.alive = DOMAIN a.alive
        /\ b.mru = a.mru /\ b.mfu = a.mfu
    BY <1>2, <2>1, ReleaseKeeps
  <2> QED
    BY <1>3, <2>1, <2>2 DEF InOrder
<1>9. ASSUME NEW f \in Frames, Deleted(f) PROVE ArcInv(b) /\ InOrder(b, s)
  <2>1. f \in Evictable(a) /\ b = Removed(a, f) /\ s = Without(r, f)
    BY <1>1, <1>4, <1>9 DEF Deleted, RemoveTerminates, Evictable
  <2>2. /\ ArcInv(b) /\ DOMAIN b.alive = DOMAIN a.alive \ {f}
        /\ b.mru = a.mru \/ b.mru = Without(a.mru, f)
        /\ b.mfu = a.mfu \/ b.mfu = Without(a.mfu, f)
    BY <1>2, <2>1, RemovedKeeps
  <2>3. /\ \A x, y : Before(b.mru, x, y) => Before(r, x, y)
        /\ \A x, y : Before(b.mfu, x, y) => Before(r, x, y)
    BY <1>2, <1>3, <2>2, LossKeepsOrder
  <2>4. Lists(s, DOMAIN b.alive)
    BY <1>3, <2>1, <2>2, ListWithout
  <2>5. \A x, y : Before(s, x, y) <=> Before(r, x, y) /\ x # f /\ y # f
    BY <1>3, <2>1, OrderWithout
  <2>6. Lists(b.mru, On(b, MRU)) /\ Lists(b.mfu, On(b, MFU))
    BY <2>2 DEF ArcInv, Linked
  <2>7. /\ \A x, y : Before(b.mru, x, y) => x # f /\ y # f
        /\ \A x, y : Before(b.mfu, x, y) => x # f /\ y # f
    BY <2>2, <2>6, OrderFacts DEF On
  <2> QED
    BY <2>2, <2>3, <2>4, <2>5, <2>7 DEF InOrder
<1>10. ASSUME UNCHANGED arcVars PROVE ArcInv(b) /\ InOrder(b, s)
  BY <1>1, <1>2, <1>10 DEF arcVars
<1>11. ArcInv(b) /\ InOrder(b, s)
  BY <1>5, <1>6, <1>7, <1>8, <1>9, <1>10 DEF ArcNext
<1> QED
  BY <1>1, <1>11 DEF IInv

(* The lists, the maps and the order of the accesses agree in every        *)
(* reachable state.                                                        *)
THEOREM ReplacerInvariant == ArcSpec => []IInv
BY InitIsGood, StepIsGood, PTL DEF ArcSpec

-----------------------------------------------------------------------------
LEMMA SeqOfFewer ==
  ASSUME NEW s, NEW D, NEW E, Lists(s, D), D \subseteq E
  PROVE  s \in Seq(E)
<1>1. PICK n \in Nat : s \in [1 .. n -> D]
  BY DEF Lists
<1> QED
  BY <1>1

(* alive_map_, ghost_map_, curr_size_ and mru_target_size_ stay in their   *)
(* ranges: the counter never wraps below 0, the target never exceeds the   *)
(* number of frames.                                                       *)
THEOREM ReplacerIsTyped == ArcSpec => []ArcTypeOK
<1>1. IInv => ArcTypeOK
  <2> SUFFICES ASSUME IInv PROVE ArcTypeOK
    OBVIOUS
  <2>1. PICK a : a = arc
    OBVIOUS
  <2>2. ArcInv(a)
    BY <2>1 DEF IInv
  <2>3. Shaped(a) /\ Linked(a) /\ Counted(a)
    BY <2>2 DEF ArcInv
  <2>4. /\ a.alive \in AliveMaps /\ a.ghost \in GhostMaps
        /\ a.target \in 0 .. Capacity
    BY <2>3 DEF Shaped
  <2>5. /\ DOMAIN a.alive \subseteq Frames
        /\ \A f \in DOMAIN a.alive : a.alive[f] \in Status
        /\ DOMAIN a.ghost \subseteq PageIds
    BY <2>4, AliveFacts, GhostFacts
  <2>6. /\ On(a, MRU) \subseteq Frames /\ On(a, MFU) \subseteq Frames
        /\ GhostsOf(a, MRU) \subseteq PageIds
        /\ GhostsOf(a, MFU) \subseteq PageIds
        /\ Evictable(a) \subseteq Frames
    BY <2>5 DEF On, GhostsOf, Evictable
  <2>7. /\ Lists(a.mru, On(a, MRU)) /\ Lists(a.mfu, On(a, MFU))
        /\ Lists(a.mruGhost, GhostsOf(a, MRU))
        /\ Lists(a.mfuGhost, GhostsOf(a, MFU))
    BY <2>3 DEF Linked
  <2>8. a.mru \in Seq(Frames) /\ a.mfu \in Seq(Frames)
        /\ a.mruGhost \in Seq(PageIds) /\ a.mfuGhost \in Seq(PageIds)
    BY <2>6, <2>7, SeqOfFewer
  <2>9. a.size \in 0 .. Capacity
    <3>1. /\ Cardinality(Evictable(a)) <= Capacity
          /\ IsFiniteSet(Evictable(a))
      BY <2>6, ArcAssumption, FS_Subset DEF Capacity
    <3>2. Cardinality(Evictable(a)) \in Nat
      BY <3>1, FS_CardinalityType
    <3> QED
      BY <2>3, <3>1, <3>2, CapacityIsNat DEF Counted
  <2> QED
    BY <2>1, <2>4, <2>5, <2>8, <2>9 DEF ArcTypeOK
<1> QED
  BY <1>1, ReplacerInvariant, PTL

(* The four lists and the two maps never disagree, so no iterator kept in  *)
(* a map is looked for on a list that does not have it.                    *)
THEOREM ListsAndMapsStayTogether == ArcSpec => []ListsAndMapsAgree
<1>1. IInv => ListsAndMapsAgree
  BY ArcInvShows DEF IInv, ListsAndMapsAgree
<1> QED
  BY <1>1, ReplacerInvariant, PTL

(* curr_size_ is the number of evictable frames, and evict() finds one     *)
(* whenever there is one.                                                  *)
THEOREM EvictNeverGivesUpEarly == ArcSpec => []EvictFindsAVictim
<1>1. IInv => EvictFindsAVictim
  BY ArcInvShows DEF IInv, EvictFindsAVictim
<1> QED
  BY <1>1, ReplacerInvariant, PTL

(* The ghost lists are trimmed before they outgrow the bounds of ARC.      *)
THEOREM MetadataStaysBounded == ArcSpec => []MetadataIsBounded
<1>1. IInv => MetadataIsBounded
  BY ArcInvShows DEF IInv, MetadataIsBounded
<1> QED
  BY <1>1, ReplacerInvariant, PTL

LEMMA PositionFollowsOrder ==
  ASSUME NEW D, Lists(recency, D), NEW f, NEW g, Before(recency, f, g)
  PROVE  Position(f) < Position(g)
<1>1. PICK n \in Nat : n = Len(recency) /\ DOMAIN recency = 1 .. n
  BY ListFacts
<1>2. \A i, j \in 1 .. n : recency[i] = recency[j] => i = j
  BY <1>1, ListFacts
<1>3. PICK i, j \in 1 .. n : i < j /\ recency[i] = f /\ recency[j] = g
  BY <1>1 DEF Before
<1>4. Position(f) = i /\ Position(g) = j
  BY <1>1, <1>2, <1>3 DEF Position
<1> QED
  BY <1>3, <1>4

(* The list whose turn it is: MRU while it holds more frames than its       *)
(* target, MFU otherwise.                                                  *)
Preferred(a) == IF Cardinality(On(a, MRU)) > a.target THEN MRU ELSE MFU

(* evict() leaves the list whose turn it is only when nothing there can    *)
(* go.                                                                     *)
LEMMA VictimListIs ==
  ASSUME NEW a, ArcInv(a)
  PROVE  VictimList(a) # Preferred(a) => On(a, Preferred(a)) \cap Evictable(a) = {}
<1>1. Linked(a)
  BY DEF ArcInv
<1>2. Cardinality(On(a, MRU)) = Len(a.mru)
  <2>1. Lists(a.mru, On(a, MRU))
    BY <1>1 DEF Linked
  <2> QED
    BY <2>1, ListFacts
<1>3. /\ Lists(Candidates(a, LiveList(a, MRU)), On(a, MRU) \cap Evictable(a))
      /\ Lists(Candidates(a, LiveList(a, MFU)), On(a, MFU) \cap Evictable(a))
  BY <1>1, CandidatesList
<1>4. LiveList(a, MRU) = a.mru /\ LiveList(a, MFU) = a.mfu
  BY DEF LiveList, MRU, MFU
<1>5. PICK c1, c2 : c1 = Candidates(a, a.mru) /\ c2 = Candidates(a, a.mfu)
  OBVIOUS
<1>6. /\ Lists(c1, On(a, MRU) \cap Evictable(a))
      /\ Lists(c2, On(a, MFU) \cap Evictable(a))
  BY <1>3, <1>4, <1>5
<1>7. /\ c1 = << >> <=> On(a, MRU) \cap Evictable(a) = {}
      /\ c2 = << >> <=> On(a, MFU) \cap Evictable(a) = {}
  BY <1>6, ListEmpty
<1>8. CASE Len(a.mru) > a.target
  <2>1. Preferred(a) = MRU
    BY <1>2, <1>8 DEF Preferred
  <2>2. VictimList(a) = IF c1 # << >> THEN MRU ELSE MFU
    BY <1>5, <1>8 DEF VictimList
  <2> QED
    BY <1>7, <2>1, <2>2
<1>9. CASE ~(Len(a.mru) > a.target)
  <2>1. Preferred(a) = MFU
    BY <1>2, <1>9 DEF Preferred
  <2>2. VictimList(a) = IF c2 # << >> THEN MFU ELSE MRU
    BY <1>5, <1>9 DEF VictimList
  <2> QED
    BY <1>7, <2>1, <2>2
<1> QED
  BY <1>8, <1>9

(* evict() turns to MRU when MRU holds more frames than its target and to  *)
(* MFU otherwise, leaves that list only when nothing on it can go, and     *)
(* takes the least recently accessed of the frames that can.               *)
THEOREM OldestGoesFirst == ArcSpec => []VictimIsLeastRecentlyUsed
<1>1. ASSUME IInv, Victim(arc) # NoFrame
      PROVE  arc.alive[Victim(arc)].list # Preferred(arc)
               => {f \in On(arc, Preferred(arc)) : arc.alive[f].evictable} = {}
  <2>1. PICK a : a = arc
    OBVIOUS
  <2>2. ArcInv(a) /\ Victim(a) # NoFrame
    BY <1>1, <2>1 DEF IInv
  <2>3. Victim(a) \in On(a, VictimList(a))
    BY <2>2, VictimFacts
  <2>4. a.alive[Victim(a)].list = VictimList(a)
    BY <2>3 DEF On
  <2>5. VictimList(a) # Preferred(a) => On(a, Preferred(a)) \cap Evictable(a) = {}
    BY <2>2, VictimListIs
  <2>6. {f \in On(a, Preferred(a)) : a.alive[f].evictable}
          \subseteq On(a, Preferred(a)) \cap Evictable(a)
    BY DEF On, Evictable
  <2> QED
    BY <2>1, <2>4, <2>5, <2>6
<1>2. ASSUME IInv, Victim(arc) # NoFrame,
             NEW f \in DOMAIN arc.alive, arc.alive[f].evictable,
             arc.alive[f].list = arc.alive[Victim(arc)].list
      PROVE  Position(f) <= Position(Victim(arc))
  <2>1. PICK a, r, v, l : a = arc /\ r = recency /\ v = Victim(arc)
                          /\ l = VictimList(arc)
    OBVIOUS
  <2>2. ArcInv(a) /\ Lists(r, DOMAIN a.alive)
        /\ (\A x, y : Before(a.mru, x, y) => Before(r, x, y))
        /\ (\A x, y : Before(a.mfu, x, y) => Before(r, x, y))
    BY <1>2, <2>1 DEF IInv, InOrder
  <2>3. /\ v \in On(a, l) /\ v \in Evictable(a)
        /\ \A g \in On(a, l) \cap Evictable(a) :
             g # v => Before(LiveList(a, l), g, v)
    BY <1>2, <2>1, <2>2, VictimFacts
  <2>4. f \in On(a, l) \cap Evictable(a)
    BY <1>2, <2>1, <2>3 DEF On, Evictable
  <2>5. CASE f = v
    <3>1. PICK n \in Nat : n = Len(r) /\ DOMAIN r = 1 .. n
      BY <2>2, ListFacts
    <3>2. PICK i \in 1 .. n : r[i] = f
      BY <2>1, <2>2, <3>1, ListFacts
    <3>3. Position(f) \in 1 .. n
      BY <2>1, <3>1, <3>2 DEF Position
    <3> QED
      BY <2>1, <2>5, <3>3
  <2>6. CASE f # v
    <3>1. Before(r, f, v)
      BY <2>2, <2>3, <2>4, <2>6 DEF LiveList
    <3>2. PICK i, j \in DOMAIN r : i < j /\ r[i] = f /\ r[j] = v
      BY <3>1 DEF Before
    <3>3. Position(f) < Position(v)
      BY <2>1, <2>2, <3>1, PositionFollowsOrder
    <3>4. Position(f) \in Nat /\ Position(v) \in Nat
      <4>1. DOMAIN r = 1 .. Len(r) /\ Len(r) \in Nat
        BY <2>2, ListFacts
      <4> QED
        BY <2>1, <3>2, <4>1 DEF Position
    <3> QED
      BY <2>1, <3>3, <3>4
  <2> QED
    BY <2>5, <2>6
<1>3. IInv => VictimIsLeastRecentlyUsed
  BY <1>1, <1>2 DEF VictimIsLeastRecentlyUsed, Preferred, On
<1> QED
  BY <1>3, ReplacerInvariant, PTL

=============================================================================
