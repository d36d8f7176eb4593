---------------------------- MODULE GenesisProofs ---------------------------
(***************************************************************************)
(* Proofs about the importer, for any archives, any number of tables' rows *)
(* and tenants, any size of a chunk, and any number of faults and          *)
(* repetitions.                                                            *)
(*                                                                         *)
(* First the mapping.  Each of its loops over the rows of a table is a     *)
(* function that has the maps after each row (Iterates): what a row adds   *)
(* or keeps is a lemma about the body of the loop, and that every row does *)
(* follows by induction over a set of numbers of rows (SetInduction).      *)
(* Then the import, which writes the plan that the mapping makes.          *)
(***************************************************************************)
EXTENDS Genesis, TLAPS, WellFoundedInduction, SequenceTheorems

-----------------------------------------------------------------------------
(* Induction over numbers, and the loops.                                  *)

\* A set of numbers has a least one: < is well-founded on them.
LEMMA NoDescent ==
    ASSUME NEW T, T \subseteq Nat, T # {}
    PROVE \E m \in T : \A k \in T : m <= k
<1> DEFINE R == OpToRel(<, Nat)
<1>1. IsWellFoundedOn(R, Nat)
  BY NatLessThanWellFounded
<1>2. \A x, y \in Nat : x < y => <<x, y>> \in R
  <2>1. SUFFICES ASSUME NEW x \in Nat, NEW y \in Nat, x < y PROVE <<x, y>> \in R
    OBVIOUS
  <2>2. <<x, y>>[1] = x /\ <<x, y>>[2] = y /\ <<x, y>> \in Nat \X Nat
    OBVIOUS
  <2> QED BY <2>1, <2>2, Zenon DEF OpToRel
<1> HIDE DEF R
<1>3. PICK m \in T : \A y \in T : <<y, m>> \notin R
  BY <1>1, WFMin, Zenon
<1>4. ASSUME NEW k \in T PROVE m <= k
  <2>1. k \in Nat /\ m \in Nat
    OBVIOUS
  <2>2. ~(k < m)
    BY <1>2, <1>3, <2>1, Zenon
  <2> QED BY <2>1, <2>2
<1> QED BY <1>4

\* Induction over the numbers of which something has been shown.
LEMMA SetInduction ==
    ASSUME NEW S, 0 \in S, \A n \in Nat : n \in S => n + 1 \in S
    PROVE  Nat \subseteq S
<1>1. SUFFICES ASSUME Nat \ S # {} PROVE FALSE
  OBVIOUS
<1>2. PICK m \in Nat \ S : \A k \in Nat \ S : m <= k
  BY <1>1, NoDescent
<1>3. m - 1 \in Nat /\ m - 1 \in S
  BY <1>2
<1> QED BY <1>2, <1>3

\* The first and the last row of those that a map would keep.
LEMMA EarliestIs ==
    ASSUME NEW S, S \subseteq Nat, S # {}
    PROVE  Earliest(S) \in S /\ \A k \in S : Earliest(S) <= k
<1>1. \E m \in S : \A k \in S : m <= k
  BY NoDescent
<1> QED BY <1>1, Zenon DEF Earliest

LEMMA LatestIs ==
    ASSUME NEW N \in Nat, NEW S, S \subseteq 1 .. N, S # {}
    PROVE  Latest(S) \in S /\ \A k \in S : k <= Latest(S)
<1> DEFINE T == {n \in Nat : \A k \in S : k <= n}
<1>1. N \in T
  OBVIOUS
<1>2. PICK m \in T : \A k \in T : m <= k
  <2>1. T \subseteq Nat /\ T # {}
    BY <1>1
  <2> HIDE DEF T
  <2> QED BY <2>1, NoDescent
<1>3. m \in S
  <2>1. SUFFICES ASSUME m \notin S PROVE FALSE
    OBVIOUS
  <2>2. \A k \in S : k <= m - 1
    BY <1>2, <2>1
  <2>3. m - 1 \in Nat
    <3>1. PICK k \in S : TRUE
      OBVIOUS
    <3>2. k \in 1 .. N /\ k <= m - 1 /\ m \in Nat
      BY <2>2, <3>1, <1>2
    <3> QED BY <3>2
  <2>4. m - 1 \in T
    BY <2>2, <2>3
  <2>5. m <= m - 1
    BY <1>2, <2>4
  <2> QED BY <2>3, <2>5, <1>2
<1>4. \E k \in S : \A l \in S : l <= k
  BY <1>2, <1>3
<1> QED BY <1>4, Zenon DEF Latest

\* The maps after each row of a loop.
Iterates(archive, name, t, maps, after) ==
    /\ after[0] = maps
    /\ \A i \in 1 .. Len(Table(archive, name, t)) :
          after[i] = MapRow(archive, name, t, after[i - 1], i)
    /\ Each(archive, name, t, maps) = after[Len(Table(archive, name, t))]

\* A loop ends with the maps after its last row.
LEMMA EachStep ==
    ASSUME NEW archive, NEW name, NEW t, NEW maps, Len(Table(archive, name, t)) \in Nat
    PROVE  \E after : Iterates(archive, name, t, maps, after)
<1> DEFINE N == Len(Table(archive, name, t))
           Is(f, n) == f = [i \in 0 .. n |-> IF i = 0 THEN maps
                                             ELSE MapRow(archive, name, t, f[i - 1], i)]
           S == {n \in Nat : \E f : Is(f, n)}
           After == CHOOSE f : Is(f, N)
<1>1. N \in S
  <2>1. 0 \in S
    <3>1. Is([i \in 0 .. 0 |-> maps], 0)
      OBVIOUS
    <3> QED BY <3>1
  <2>2. ASSUME NEW n \in Nat, n \in S PROVE n + 1 \in S
    <3>1. PICK f : Is(f, n)
      BY <2>2
    <3> DEFINE g == [i \in 0 .. n + 1 |-> IF i <= n THEN f[i] ELSE MapRow(archive, name, t, f[n], n + 1)]
    <3>2. ASSUME NEW i \in 0 .. n + 1
          PROVE  g[i] = IF i = 0 THEN maps ELSE MapRow(archive, name, t, g[i - 1], i)
      <4>1. CASE i = 0
        BY <4>1, <3>1
      <4>2. CASE i \in 1 .. n
        <5>1. i \in 0 .. n /\ i - 1 \in 0 .. n + 1 /\ i - 1 <= n /\ i <= n
          BY <4>2
        <5>2. g[i] = f[i] /\ g[i - 1] = f[i - 1]
          BY <5>1
        <5>3. f[i] = MapRow(archive, name, t, f[i - 1], i)
          BY <3>1, <5>1, <4>2
        <5> QED BY <5>2, <5>3, <4>2
      <4>3. CASE i = n + 1
        BY <4>3
      <4> QED BY <4>1, <4>2, <4>3
    <3>3. Is(g, n + 1)
      BY <3>2
    <3>4. \E h : Is(h, n + 1)
      BY <3>3
    <3>5. n + 1 \in Nat
      OBVIOUS
    <3> QED BY <3>4, <3>5, Zenon
  <2>3. Nat \subseteq S
    <3> HIDE DEF S
    <3> QED BY <2>1, <2>2, SetInduction
  <2>4. N \in Nat
    OBVIOUS
  <2> HIDE DEF S, N
  <2> QED BY <2>3, <2>4
<1>2. Each(archive, name, t, maps) = After[N]
  BY DEF Each
<1>3. Is(After, N)
  <2>1. \E f : Is(f, N)
    BY <1>1
  <2> QED BY <2>1, Zenon
<1>4. N \in Nat
  OBVIOUS
<1> HIDE DEF After, N
<1>5. After[0] = maps
  BY <1>3, <1>4
<1>6. \A i \in 1 .. N : After[i] = MapRow(archive, name, t, After[i - 1], i)
  BY <1>3, <1>4
<1>7. Iterates(archive, name, t, maps, After)
  BY <1>2, <1>5, <1>6 DEF N, Iterates
<1> QED BY <1>7

-----------------------------------------------------------------------------
(* Sequences, and what is read of an archive.                              *)

Injective(s) == \A i, j \in DOMAIN s : s[i] = s[j] => i = j

LEMMA SequenceIs ==
    ASSUME NEW s, IsSequence(s)
    PROVE  s \in Seq(ToSet(s)) /\ DOMAIN s = 1 .. Len(s)
<1>1. \A i \in 1 .. Len(s) : s[i] \in ToSet(s)
  BY DEF IsSequence, ToSet
<1> QED BY <1>1, SeqDef DEF IsSequence

\* Where the elements of two sequences are in the longer one.
LEMMA ConcatIs ==
    ASSUME NEW s, NEW t, IsSequence(s), IsSequence(t)
    PROVE  /\ IsSequence(s \o t) /\ Len(s \o t) = Len(s) + Len(t)
           /\ \A i \in 1 .. Len(s) : (s \o t)[i] = s[i]
           /\ \A i \in 1 .. Len(t) : (s \o t)[Len(s) + i] = t[i]
           /\ \A i \in 1 .. Len(s \o t) : i <= Len(s) \/ \E j \in 1 .. Len(t) : i = Len(s) + j
<1> DEFINE X == ToSet(s) \cup ToSet(t)
<1>1. s \in Seq(X) /\ t \in Seq(X)
  BY SequenceIs
<1> HIDE DEF X
<1>2. /\ Len(s \o t) = Len(s) + Len(t) /\ s \o t \in Seq(X)
      /\ \A i \in 1 .. Len(s) + Len(t) : (s \o t)[i] = IF i <= Len(s) THEN s[i] ELSE t[i - Len(s)]
  BY <1>1, ConcatProperties
<1>3. Len(s) \in Nat /\ Len(t) \in Nat
  BY DEF IsSequence
<1>4. IsSequence(s \o t)
  <2> DEFINE u == s \o t
  <2>1. u \in Seq(X)
    BY <1>2
  <2> HIDE DEF u
  <2>2. Len(u) \in Nat /\ u \in [1 .. Len(u) -> X]
    BY <2>1, LenProperties
  <2>3. IsSequence(u)
    BY <2>2 DEF IsSequence
  <2> QED BY <2>3 DEF u
<1> HIDE DEF X
<1>5. \A i \in 1 .. Len(s) : (s \o t)[i] = s[i]
  BY <1>2, <1>3
<1>6. \A i \in 1 .. Len(t) : (s \o t)[Len(s) + i] = t[i]
  BY <1>2, <1>3
<1>7. ASSUME NEW i \in 1 .. Len(s \o t), ~(i <= Len(s)) PROVE \E j \in 1 .. Len(t) : i = Len(s) + j
  <2>1. i - Len(s) \in 1 .. Len(t) /\ i = Len(s) + (i - Len(s))
    BY <1>2, <1>3, <1>7
  <2> QED BY <2>1
<1> QED BY <1>2, <1>4, <1>5, <1>6, <1>7

\* FlattenSeq is a function defined by recursion on the number of sequences.
LEMMA FlattenStep ==
    ASSUME NEW ss, Len(ss) \in Nat \ {0}
    PROVE  \E f : /\ f[1] = ss[1]
                  /\ \A i \in 2 .. Len(ss) : f[i] = f[i - 1] \o ss[i]
                  /\ FlattenSeq(ss) = f[Len(ss)]
<1> DEFINE Is(f, n) == f = [i \in 1 .. n |-> IF i = 1 THEN ss[i] ELSE f[i - 1] \o ss[i]]
           S == {n \in Nat : \E f : Is(f, n)}
           N == Len(ss)
           flat == CHOOSE f : Is(f, N)
<1>1. N \in S
  <2>1. 0 \in S
    <3>1. Is([i \in 1 .. 0 |-> ss], 0)
      OBVIOUS
    <3> QED BY <3>1
  <2>2. ASSUME NEW n \in Nat, n \in S PROVE n + 1 \in S
    <3>1. PICK f : Is(f, n)
      BY <2>2
    <3> DEFINE g == [i \in 1 .. n + 1 |-> IF i <= n THEN f[i]
                                           ELSE IF i = 1 THEN ss[i] ELSE f[n] \o ss[n + 1]]
    <3>2. ASSUME NEW i \in 1 .. n + 1
          PROVE  g[i] = IF i = 1 THEN ss[i] ELSE g[i - 1] \o ss[i]
      <4>1. CASE i = 1
        BY <4>1, <3>1
      <4>2. CASE i \in 2 .. n
        <5>1. i \in 1 .. n /\ i - 1 \in 1 .. n + 1 /\ i - 1 <= n /\ i <= n /\ i # 1
          BY <4>2
        <5>2. g[i] = f[i] /\ g[i - 1] = f[i - 1]
          BY <5>1
        <5>3. f[i] = f[i - 1] \o ss[i]
          BY <3>1, <5>1, <4>2
        <5> QED BY <5>1, <5>2, <5>3, Zenon
      <4>3. CASE i = n + 1 /\ i # 1
        <5>1. ~(i <= n) /\ i - 1 = n /\ n \in 1 .. n + 1 /\ n <= n
          BY <4>3
        <5>2. g[i] = f[n] \o ss[n + 1] /\ g[n] = f[n]
          BY <5>1, <4>3
        <5> QED BY <5>1, <5>2, <4>3, Zenon
      <4> QED BY <4>1, <4>2, <4>3
    <3>3. Is(g, n + 1)
      BY <3>2, Zenon
    <3>4. \E h : Is(h, n + 1)
      BY <3>3
    <3>5. n + 1 \in Nat
      OBVIOUS
    <3> QED BY <3>4, <3>5, Zenon
  <2>3. Nat \subseteq S
    <3> HIDE DEF S
    <3> QED BY <2>1, <2>2, SetInduction
  <2>4. N \in Nat
    OBVIOUS
  <2> HIDE DEF S, N
  <2> QED BY <2>3, <2>4
<1>2. FlattenSeq(ss) = flat[N]
  <2>1. Len(ss) # 0
    OBVIOUS
  <2> QED BY <2>1, Zenon DEF FlattenSeq
<1>3. Is(flat, N)
  <2>1. \E f : Is(f, N)
    BY <1>1
  <2> QED BY <2>1, Zenon
<1>4. N \in Nat \ {0}
  OBVIOUS
<1> HIDE DEF flat, N
<1>5. flat[1] = ss[1]
  BY <1>3, <1>4
<1>6. ASSUME NEW i \in 2 .. N PROVE flat[i] = flat[i - 1] \o ss[i]
  <2>1. i \in 1 .. N /\ i # 1
    BY <1>4
  <2> QED BY <1>3, <2>1, Zenon
<1> QED BY <1>2, <1>5, <1>6 DEF N

LEMMA ConcatElements ==
    ASSUME NEW s, NEW t, IsSequence(s), IsSequence(t)
    PROVE  ToSet(s \o t) = ToSet(s) \cup ToSet(t)
<1>1. /\ DOMAIN s = 1 .. Len(s) /\ DOMAIN t = 1 .. Len(t) /\ DOMAIN (s \o t) = 1 .. Len(s \o t)
      /\ Len(s) \in Nat /\ Len(t) \in Nat
  BY ConcatIs DEF IsSequence
<1> DEFINE u == s \o t
<1>2. /\ Len(u) = Len(s) + Len(t)
      /\ \A i \in 1 .. Len(s) : u[i] = s[i]
      /\ \A i \in 1 .. Len(t) : u[Len(s) + i] = t[i]
      /\ \A i \in 1 .. Len(u) : i <= Len(s) \/ \E j \in 1 .. Len(t) : i = Len(s) + j
  BY ConcatIs
<1>3. DOMAIN u = 1 .. Len(u)
  BY <1>1
<1> HIDE DEF u
<1>4. ASSUME NEW x \in ToSet(u) PROVE x \in ToSet(s) \cup ToSet(t)
  <2>1. PICK i \in 1 .. Len(u) : x = u[i]
    BY <1>3, <1>4 DEF ToSet
  <2>2. CASE i <= Len(s)
    <3>1. i \in DOMAIN s /\ u[i] = s[i]
      BY <1>1, <1>2, <2>2
    <3> QED BY <2>1, <3>1 DEF ToSet
  <2>3. ASSUME NEW j \in 1 .. Len(t), i = Len(s) + j PROVE x \in ToSet(t)
    BY <1>1, <1>2, <2>1, <2>3 DEF ToSet
  <2> QED BY <1>2, <2>1, <2>2, <2>3
<1>5. ASSUME NEW x \in ToSet(s) PROVE x \in ToSet(u)
  <2>1. PICK i \in 1 .. Len(s) : x = s[i]
    BY <1>1, <1>5 DEF ToSet
  <2>2. i \in DOMAIN u /\ u[i] = x
    BY <1>1, <1>2, <1>3, <2>1
  <2> QED BY <2>2 DEF ToSet
<1>6. ASSUME NEW x \in ToSet(t) PROVE x \in ToSet(u)
  <2>1. PICK i \in 1 .. Len(t) : x = t[i]
    BY <1>1, <1>6 DEF ToSet
  <2>2. Len(s) + i \in DOMAIN u /\ u[Len(s) + i] = x
    BY <1>1, <1>2, <1>3, <2>1
  <2> QED BY <2>2 DEF ToSet
<1> QED BY <1>4, <1>5, <1>6 DEF u

\* Two sequences that have nothing twice and nothing in common.
LEMMA ConcatInjective ==
    ASSUME NEW s, NEW t, IsSequence(s), IsSequence(t), Injective(s), Injective(t),
           ToSet(s) \cap ToSet(t) = {}
    PROVE  Injective(s \o t)
<1>1. /\ DOMAIN s = 1 .. Len(s) /\ DOMAIN t = 1 .. Len(t) /\ DOMAIN (s \o t) = 1 .. Len(s \o t)
      /\ Len(s) \in Nat /\ Len(t) \in Nat
  BY ConcatIs DEF IsSequence
<1> DEFINE u == s \o t
<1>2. /\ Len(u) = Len(s) + Len(t)
      /\ \A i \in 1 .. Len(s) : u[i] = s[i]
      /\ \A i \in 1 .. Len(t) : u[Len(s) + i] = t[i]
      /\ \A i \in 1 .. Len(u) : i <= Len(s) \/ \E j \in 1 .. Len(t) : i = Len(s) + j
  BY ConcatIs
<1>3. DOMAIN u = 1 .. Len(u)
  BY <1>1
<1> HIDE DEF u
<1>4. ASSUME NEW i \in 1 .. Len(s), NEW j \in 1 .. Len(t) PROVE s[i] # t[j]
  BY <1>1 DEF ToSet
<1>5. ASSUME NEW i \in DOMAIN u, NEW j \in DOMAIN u, u[i] = u[j] PROVE i = j
  <2>1. CASE i <= Len(s) /\ j <= Len(s)
    BY <1>1, <1>2, <1>3, <1>5, <2>1 DEF Injective
  <2>2. ASSUME NEW k \in 1 .. Len(t), i = Len(s) + k PROVE i = j
    <3>1. j <= Len(s) => FALSE
      BY <1>1, <1>2, <1>3, <1>4, <1>5, <2>2
    <3>2. PICK l \in 1 .. Len(t) : j = Len(s) + l
      BY <1>2, <1>3, <3>1
    <3>3. t[k] = t[l]
      BY <1>2, <1>5, <2>2, <3>2
    <3>4. k = l
      BY <1>1, <3>3 DEF Injective
    <3> QED BY <2>2, <3>2, <3>4
  <2>3. ASSUME NEW k \in 1 .. Len(t), j = Len(s) + k, i <= Len(s) PROVE i = j
    BY <1>1, <1>2, <1>3, <1>4, <1>5, <2>3
  <2> QED BY <1>2, <1>3, <2>1, <2>2, <2>3
<1> QED BY <1>5 DEF u, Injective

\* The elements of all, each once if the sequences have them once and apart.
LEMMA FlattenIs ==
    ASSUME NEW ss, IsSequence(ss), \A k \in DOMAIN ss : IsSequence(ss[k])
    PROVE  /\ IsSequence(FlattenSeq(ss))
           /\ ToSet(FlattenSeq(ss)) = UNION {ToSet(ss[k]) : k \in DOMAIN ss}
           /\ (/\ \A k \in DOMAIN ss : Injective(ss[k])
               /\ \A k, l \in DOMAIN ss : k # l => ToSet(ss[k]) \cap ToSet(ss[l]) = {})
              => Injective(FlattenSeq(ss))
<1>1. DOMAIN ss = 1 .. Len(ss) /\ Len(ss) \in Nat
  BY DEF IsSequence
<1> DEFINE Apart == /\ \A k \in DOMAIN ss : Injective(ss[k])
                    /\ \A k, l \in DOMAIN ss : k # l => ToSet(ss[k]) \cap ToSet(ss[l]) = {}
<1>2. CASE Len(ss) = 0
  <2>1. FlattenSeq(ss) = ss
    BY <1>2, Zenon DEF FlattenSeq
  <2>2. DOMAIN ss = {}
    BY <1>1, <1>2
  <2> QED BY <2>1, <2>2 DEF ToSet, Injective
<1>3. CASE Len(ss) # 0
  <2>1. PICK f : /\ f[1] = ss[1]
                 /\ \A i \in 2 .. Len(ss) : f[i] = f[i - 1] \o ss[i]
                 /\ FlattenSeq(ss) = f[Len(ss)]
    BY <1>1, <1>3, FlattenStep
  <2> DEFINE Good(n) == /\ IsSequence(f[n])
                        /\ ToSet(f[n]) = UNION {ToSet(ss[k]) : k \in 1 .. n}
                        /\ Apart => Injective(f[n])
             S == {n \in Nat : n + 1 <= Len(ss) => Good(n + 1)}
  <2>2. 0 \in S
    <3>1. 1 .. 1 = {1} /\ 1 \in DOMAIN ss
      BY <1>1, <1>3
    <3>2. Good(1)
      BY <2>1, <3>1
    <3>3. 0 + 1 = 1
      OBVIOUS
    <3> QED BY <3>2, <3>3
  <2>3. ASSUME NEW n \in Nat, n \in S PROVE n + 1 \in S
    <3>1. SUFFICES ASSUME n + 2 <= Len(ss) PROVE Good(n + 2)
      <4>1. (n + 1) + 1 = n + 2 /\ n + 1 \in Nat
        OBVIOUS
      <4> HIDE DEF Good
      <4> QED BY <4>1
    <3>2. n + 1 <= Len(ss) /\ n + 2 \in DOMAIN ss /\ n + 2 \in 2 .. Len(ss) /\ (n + 2) - 1 = n + 1
      BY <1>1, <3>1
    <3>3. Good(n + 1) /\ IsSequence(ss[n + 2])
      BY <2>3, <3>2
    <3>4. f[n + 2] = f[n + 1] \o ss[n + 2]
      BY <2>1, <3>2
    <3>5. IsSequence(f[n + 2])
      BY <3>3, <3>4, ConcatIs
    <3>6. ToSet(f[n + 2]) = ToSet(f[n + 1]) \cup ToSet(ss[n + 2])
      BY <3>3, <3>4, ConcatElements
    <3>7. 1 .. n + 2 = (1 .. n + 1) \cup {n + 2}
      OBVIOUS
    <3>8. ToSet(f[n + 2]) = UNION {ToSet(ss[k]) : k \in 1 .. n + 2}
      <4> HIDE DEF Apart
      <4> QED BY <3>3, <3>6, <3>7
    <3>9. ASSUME Apart PROVE Injective(f[n + 2])
      <4>1. \A k \in 1 .. n + 1 : k \in DOMAIN ss /\ k # n + 2
        BY <1>1, <3>2
      <4>2. ToSet(f[n + 1]) \cap ToSet(ss[n + 2]) = {}
        BY <3>2, <3>3, <3>9, <4>1
      <4> QED BY <3>2, <3>3, <3>4, <3>9, <4>2, ConcatInjective
    <3> QED BY <3>5, <3>8, <3>9
  <2>4. Nat \subseteq S
    <3> HIDE DEF S
    <3> QED BY <2>2, <2>3, SetInduction
  <2>5. Len(ss) - 1 \in S /\ (Len(ss) - 1) + 1 = Len(ss)
    <3>1. Len(ss) - 1 \in Nat /\ (Len(ss) - 1) + 1 = Len(ss)
      BY <1>1, <1>3
    <3> HIDE DEF S
    <3> QED BY <2>4, <3>1
  <2>6. Good(Len(ss))
    <3> HIDE DEF Good
    <3> QED BY <1>1, <2>5
  <2> QED BY <1>1, <2>1, <2>6
<1> QED BY <1>2, <1>3

LEMMA FunctionIs ==
    ASSUME NEW n \in Nat, NEW s, s = [i \in 1 .. n |-> s[i]]
    PROVE  IsSequence(s) /\ Len(s) = n
<1>1. s \in [1 .. n -> ToSet(s)]
  BY DEF ToSet
<1>2. s \in Seq(ToSet(s))
  BY <1>1, SeqDef
<1>3. Len(s) \in Nat /\ DOMAIN s = 1 .. Len(s)
  BY <1>2, LenProperties
<1>4. DOMAIN s = 1 .. n
  BY <1>1
<1>5. Len(s) = n
  BY <1>3, <1>4
<1> QED BY <1>3, <1>5 DEF IsSequence

\* The tables that can be read of a database have its name, and differ in theirs.
LEMMA ReadTables ==
    ASSUME NEW a \in Archives, NEW e \in DOMAIN EntriesOf[a], EntriesOf[a][e].mdb
    PROVE  LET entry == EntriesOf[a][e]
           IN  /\ IsSequence(TablesOf(entry)) /\ DOMAIN TablesOf(entry) = 1 .. entry.readable
               /\ \A k \in DOMAIN TablesOf(entry) :
                     /\ IsSequence(TablesOf(entry)[k].rows)
                     /\ TablesOf(entry)[k].name = entry.name
                     /\ \A l \in DOMAIN TablesOf(entry) :
                           TablesOf(entry)[k].table = TablesOf(entry)[l].table => k = l
<1> DEFINE entry == EntriesOf[a][e]
           n == entry.readable
           ts == TablesOf(entry)
<1>1. /\ IsSequence(entry.tables) /\ n \in 0 .. Len(entry.tables)
      /\ \A k, l \in DOMAIN entry.tables : entry.tables[k].table = entry.tables[l].table => k = l
      /\ \A k \in DOMAIN entry.tables : IsSequence(entry.tables[k].rows)
  BY ArchiveAssumption, Zenon
<1>2. n \in Nat /\ DOMAIN entry.tables = 1 .. Len(entry.tables) /\ Len(entry.tables) \in Nat
  BY <1>1 DEF IsSequence
<1>3. \A k \in 1 .. n : k \in DOMAIN entry.tables
  BY <1>1, <1>2
<1>4. ts = [k \in 1 .. n |-> [name |-> entry.name, table |-> entry.tables[k].table,
                              rows |-> entry.tables[k].rows]]
  BY DEF TablesOf
<1> HIDE DEF entry, n, ts
<1>5. IsSequence(ts) /\ Len(ts) = n
  <2>1. ts = [k \in 1 .. n |-> ts[k]]
    BY <1>4
  <2> QED BY <1>2, <2>1, FunctionIs
<1>6. DOMAIN ts = 1 .. n
  BY <1>4
<1>7. \A k \in 1 .. n : /\ ts[k].name = entry.name /\ ts[k].table = entry.tables[k].table
                         /\ ts[k].rows = entry.tables[k].rows
  BY <1>4
<1>8. \A k, l \in DOMAIN ts : ts[k].table = ts[l].table => k = l
  BY <1>1, <1>3, <1>6, <1>7
<1>9. \A k \in DOMAIN ts : IsSequence(ts[k].rows) /\ ts[k].name = entry.name
  BY <1>1, <1>3, <1>6, <1>7
<1> QED BY <1>5, <1>6, <1>8, <1>9 DEF entry, n, ts

\* The records of an entry name it, and are those of its rows.
LEMMA RecordsAre ==
    ASSUME NEW a \in Archives, NEW e \in DOMAIN EntriesOf[a]
    PROVE  LET entry == EntriesOf[a][e]
               rs == RecordsOf(entry)
           IN  /\ IsSequence(rs) /\ Injective(rs)
               /\ \A r \in ToSet(rs) : r[1] = entry.folder /\ r[2] = entry.name
               /\ entry.mdb => \A k \in DOMAIN TablesOf(entry) : \A i \in DOMAIN TablesOf(entry)[k].rows :
                     RowKey(entry.folder, entry.name, TablesOf(entry)[k].table, i) \in ToSet(rs)
<1> DEFINE entry == EntriesOf[a][e]
           rs == RecordsOf(entry)
<1>1. CASE ~entry.mdb
  <2>1. rs = <<RowKey(entry.folder, entry.name, "__file__", 0)>>
    BY <1>1, Zenon DEF RecordsOf
  <2> DEFINE key == RowKey(entry.folder, entry.name, "__file__", 0)
  <2>2. key[1] = entry.folder /\ key[2] = entry.name
    BY DEF RowKey
  <2> HIDE DEF rs, key
  <2>3. rs = <<key>>
    BY <2>1 DEF key
  <2>4. IsSequence(rs) /\ DOMAIN rs = {1} /\ rs[1] = key
    BY <2>3 DEF IsSequence
  <2>5. Injective(rs) /\ \A r \in ToSet(rs) : r = key
    BY <2>4 DEF Injective, ToSet
  <2> HIDE DEF entry
  <2> QED BY <1>1, <2>2, <2>4, <2>5 DEF entry, rs
<1>2. CASE entry.mdb
  <2> DEFINE ts == TablesOf(entry)
             ss == [k \in DOMAIN ts |-> [i \in DOMAIN ts[k].rows |->
                                          RowKey(entry.folder, entry.name, ts[k].table, i)]]
  <2>1. /\ IsSequence(ts)
        /\ \A k \in DOMAIN ts : IsSequence(ts[k].rows)
        /\ \A k, l \in DOMAIN ts : ts[k].table = ts[l].table => k = l
    BY <1>2, ReadTables
  <2>2. rs = FlattenSeq(ss)
    BY <1>2, Zenon DEF RecordsOf
  <2> HIDE DEF ts, entry, rs
  <2>3. IsSequence(ss) /\ DOMAIN ss = DOMAIN ts
    <3>1. DOMAIN ts = 1 .. Len(ts) /\ Len(ts) \in Nat
      BY <2>1 DEF IsSequence
    <3>2. ss = [k \in 1 .. Len(ts) |-> ss[k]]
      BY <3>1
    <3> HIDE DEF ss
    <3> QED BY <3>1, <3>2, FunctionIs
  <2>4. ASSUME NEW k \in DOMAIN ts
        PROVE  /\ IsSequence(ss[k]) /\ Injective(ss[k])
               /\ DOMAIN ss[k] = DOMAIN ts[k].rows
               /\ \A i \in DOMAIN ss[k] : ss[k][i] = RowKey(entry.folder, entry.name, ts[k].table, i)
    <3> DEFINE u == ss[k]
               m == Len(ts[k].rows)
    <3>1. u = [i \in DOMAIN ts[k].rows |-> RowKey(entry.folder, entry.name, ts[k].table, i)]
      OBVIOUS
    <3>2. DOMAIN ts[k].rows = 1 .. m /\ m \in Nat
      BY <2>1 DEF IsSequence
    <3> HIDE DEF u, m
    <3>3. u = [i \in 1 .. m |-> u[i]]
      BY <3>1, <3>2
    <3>4. IsSequence(u)
      BY <3>2, <3>3, FunctionIs
    <3>5. \A i \in DOMAIN u : u[i] = RowKey(entry.folder, entry.name, ts[k].table, i)
      BY <3>1
    <3>6. \A i, j : RowKey(entry.folder, entry.name, ts[k].table, i)
                      = RowKey(entry.folder, entry.name, ts[k].table, j) => i = j
      BY DEF RowKey
    <3>7. Injective(u)
      BY <3>5, <3>6 DEF Injective
    <3>8. DOMAIN u = DOMAIN ts[k].rows
      BY <3>1
    <3> QED BY <3>4, <3>5, <3>7, <3>8 DEF u
  <2>5. \A k \in DOMAIN ss : IsSequence(ss[k]) /\ Injective(ss[k])
    BY <2>3, <2>4
  <2> HIDE DEF ss
  <2>6. ASSUME NEW k \in DOMAIN ss, NEW r \in ToSet(ss[k])
        PROVE  r[1] = entry.folder /\ r[2] = entry.name /\ r[3] = ts[k].table
    <3>1. PICK i \in DOMAIN ss[k] : r = ss[k][i]
      BY <2>6 DEF ToSet
    <3>2. r = RowKey(entry.folder, entry.name, ts[k].table, i)
      BY <2>3, <2>4, <3>1
    <3> QED BY <3>2 DEF RowKey
  <2>7. \A k, l \in DOMAIN ss : k # l => ToSet(ss[k]) \cap ToSet(ss[l]) = {}
    BY <2>1, <2>3, <2>6
  <2>8. IsSequence(rs) /\ Injective(rs) /\ ToSet(rs) = UNION {ToSet(ss[k]) : k \in DOMAIN ss}
    BY <2>2, <2>3, <2>5, <2>7, FlattenIs
  <2>9. \A r \in ToSet(rs) : r[1] = entry.folder /\ r[2] = entry.name
    BY <2>6, <2>8
  <2>10. ASSUME NEW k \in DOMAIN ts, NEW i \in DOMAIN ts[k].rows
         PROVE  RowKey(entry.folder, entry.name, ts[k].table, i) \in ToSet(rs)
    <3>1. RowKey(entry.folder, entry.name, ts[k].table, i) \in ToSet(ss[k])
      BY <2>4 DEF ToSet
    <3> QED BY <2>3, <2>8, <3>1
  <2> QED BY <2>8, <2>9, <2>10 DEF entry, rs, ts
<1> QED BY <1>1, <1>2

\* The records of an archive are those of its entries, and none is there twice.
LEMMA LegacyRecordsAre ==
    ASSUME NEW a \in Archives
    PROVE  LET keys == ArchiveOf[a].legacyRecords
           IN  /\ IsSequence(keys) /\ Injective(keys)
               /\ \A e \in DOMAIN EntriesOf[a] : ToSet(RecordsOf(EntriesOf[a][e])) \subseteq ToSet(keys)
<1> DEFINE es == EntriesOf[a]
           keys == ArchiveOf[a].legacyRecords
           ss == [e \in DOMAIN es |-> RecordsOf(es[e])]
<1>1. keys = FlattenSeq(ss)
  BY DEF ArchiveOf, readGenesisArchive
<1>2. /\ IsSequence(es)
      /\ \A e, f \in DOMAIN es : es[e].folder = es[f].folder /\ es[e].name = es[f].name => e = f
  BY ArchiveAssumption, Zenon
<1>3. ASSUME NEW e \in DOMAIN es
      PROVE  /\ IsSequence(RecordsOf(es[e])) /\ Injective(RecordsOf(es[e]))
             /\ \A r \in ToSet(RecordsOf(es[e])) : r[1] = es[e].folder /\ r[2] = es[e].name
  BY RecordsAre
<1> HIDE DEF es, keys
<1>4. IsSequence(ss) /\ DOMAIN ss = DOMAIN es
  <2>1. DOMAIN es = 1 .. Len(es) /\ Len(es) \in Nat
    BY <1>2 DEF IsSequence
  <2>2. ss = [e \in 1 .. Len(es) |-> ss[e]]
    BY <2>1
  <2> HIDE DEF ss
  <2> QED BY <2>1, <2>2, FunctionIs
<1>5. \A e \in DOMAIN ss : ss[e] = RecordsOf(es[e])
  OBVIOUS
<1> HIDE DEF ss
<1>6. \A e \in DOMAIN ss : IsSequence(ss[e]) /\ Injective(ss[e])
  BY <1>3, <1>4, <1>5
<1>7. \A e, f \in DOMAIN ss : e # f => ToSet(ss[e]) \cap ToSet(ss[f]) = {}
  BY <1>2, <1>3, <1>4, <1>5
<1>8. IsSequence(keys) /\ Injective(keys) /\ ToSet(keys) = UNION {ToSet(ss[e]) : e \in DOMAIN ss}
  BY <1>1, <1>4, <1>6, <1>7, FlattenIs
<1>9. \A e \in DOMAIN es : ToSet(RecordsOf(es[e])) \subseteq ToSet(keys)
  BY <1>4, <1>5, <1>8
<1> QED BY <1>8, <1>9 DEF keys, es

\* The rows of a table are a sequence, and each has its record.
LEMMA TableIs ==
    ASSUME NEW a \in Archives, NEW name, NEW t
    PROVE  LET rows == Table(ArchiveOf[a], name, t)
           IN  /\ IsSequence(rows) /\ DOMAIN rows = 1 .. Len(rows) /\ Len(rows) \in Nat
               /\ (\A e \in DOMAIN EntriesOf[a] : EntriesOf[a][e].mdb => EntriesOf[a][e].folder = "Daten/")
                     => \A i \in DOMAIN rows : RowKey("Daten/", name, t, i) \in ToSet(ArchiveOf[a].legacyRecords)
<1> DEFINE es == EntriesOf[a]
           keys == ArchiveOf[a].legacyRecords
           ts == ArchiveOf[a].tables
           ss == [e \in DOMAIN es |-> IF es[e].mdb THEN TablesOf(es[e]) ELSE << >>]
           rows == Table(ArchiveOf[a], name, t)
           same == {k \in DOMAIN ts : ts[k].name = name /\ ts[k].table = t}
           InFolder == \A e \in DOMAIN es : es[e].mdb => es[e].folder = "Daten/"
<1>1. ts = FlattenSeq(ss)
  BY DEF ArchiveOf, readGenesisArchive
<1>2. rows = IF same = {} THEN << >> ELSE ts[Latest(same)].rows
  BY DEF Table
<1>3. IsSequence(es)
  BY ArchiveAssumption, Zenon
<1>4. IsSequence(ss) /\ DOMAIN ss = DOMAIN es
  <2>1. DOMAIN es = 1 .. Len(es) /\ Len(es) \in Nat
    BY <1>3 DEF IsSequence
  <2>2. ss = [e \in 1 .. Len(es) |-> ss[e]]
    BY <2>1
  <2> HIDE DEF ss
  <2> QED BY <2>1, <2>2, FunctionIs
<1>5. IsSequence(<< >>)
  BY DEF IsSequence
<1>6. \A e \in DOMAIN es : ss[e] = IF es[e].mdb THEN TablesOf(es[e]) ELSE << >>
  OBVIOUS
<1>7. \A e \in DOMAIN es : es[e].mdb => IsSequence(TablesOf(es[e]))
  BY ReadTables
<1>8. \A e \in DOMAIN ss : IsSequence(ss[e])
  <2> HIDE DEF ss, es
  <2> QED BY <1>4, <1>5, <1>6, <1>7
<1>9. IsSequence(ts) /\ ToSet(ts) = UNION {ToSet(ss[e]) : e \in DOMAIN ss}
  <2> HIDE DEF ss, ts
  <2> QED BY <1>1, <1>4, <1>8, FlattenIs
<1>10. CASE same = {}
  <2>1. rows = << >>
    BY <1>2, <1>10
  <2>2. Len(<< >>) = 0 /\ DOMAIN << >> = {} /\ 1 .. 0 = {}
    OBVIOUS
  <2> HIDE DEF rows
  <2>3. IsSequence(rows) /\ Len(rows) \in Nat /\ DOMAIN rows = 1 .. Len(rows) /\ DOMAIN rows = {}
    BY <1>5, <2>1, <2>2
  <2> QED BY <2>3 DEF rows
<1>11. CASE same # {}
  <2> DEFINE k == Latest(same)
  <2>1. k \in same
    <3>1. same \subseteq 1 .. Len(ts) /\ Len(ts) \in Nat
      BY <1>9 DEF IsSequence
    <3> HIDE DEF same
    <3> QED BY <3>1, <1>11, LatestIs
  <2>2. rows = ts[k].rows /\ ts[k].name = name /\ ts[k].table = t /\ ts[k] \in ToSet(ts)
    BY <1>2, <1>11, <2>1 DEF ToSet
  <2> HIDE DEF k, ts, rows, same
  <2>3. PICK e \in DOMAIN es : ts[k] \in ToSet(ss[e])
    BY <1>4, <1>9, <2>2
  <2>4. es[e].mdb
    <3>1. ToSet(<< >>) = {}
      BY DEF ToSet
    <3> HIDE DEF ss
    <3> QED BY <1>6, <2>3, <3>1
  <2>5. ss[e] = TablesOf(es[e])
    BY <2>4
  <2> HIDE DEF ss
  <2>6. PICK l \in DOMAIN TablesOf(es[e]) : ts[k] = TablesOf(es[e])[l]
    BY <2>3, <2>5 DEF ToSet
  <2>7. IsSequence(rows) /\ es[e].name = name
    <3>1. IsSequence(TablesOf(es[e])[l].rows) /\ TablesOf(es[e])[l].name = es[e].name
      BY <2>4, ReadTables
    <3> HIDE DEF es
    <3> QED BY <2>2, <2>6, <3>1
  <2>8. DOMAIN rows = 1 .. Len(rows) /\ Len(rows) \in Nat
    BY <2>7 DEF IsSequence
  <2>9. ASSUME InFolder, NEW i \in DOMAIN rows PROVE RowKey("Daten/", name, t, i) \in ToSet(keys)
    <3>1. es[e].folder = "Daten/"
      BY <2>4, <2>9
    <3>2. RowKey(es[e].folder, es[e].name, TablesOf(es[e])[l].table, i) \in ToSet(RecordsOf(es[e]))
      BY <2>2, <2>4, <2>6, <2>9, RecordsAre
    <3>3. ToSet(RecordsOf(es[e])) \subseteq ToSet(keys)
      BY LegacyRecordsAre
    <3> HIDE DEF keys, es
    <3> QED BY <2>2, <2>6, <2>7, <3>1, <3>2, <3>3
  <2> QED BY <2>7, <2>8, <2>9 DEF rows
<1> QED BY <1>10, <1>11

-----------------------------------------------------------------------------
(* Maps and drafts.                                                        *)

Once(ds) == \A i, j \in DOMAIN ds : ds[i].sourceKey = ds[j].sourceKey => i = j

IsDraft(d) == {"sourceKey", "id"} \subseteq DOMAIN d /\ d.id = deterministicId(d.sourceKey)

AreDrafts(ds) == IsSequence(ds) /\ Once(ds) /\ \A d \in ToSet(ds) : IsDraft(d)

Ids(ds) == {d.id : d \in ToSet(ds)}

LEMMA SetIs ==
    ASSUME NEW f, NEW key, NEW value
    PROVE  /\ DOMAIN Set(f, key, value) = DOMAIN f \cup {key}
           /\ Set(f, key, value)[key] = value
           /\ \A k \in DOMAIN f : k # key => Set(f, key, value)[k] = f[k]
           /\ ToSet(Set(f, key, value)) \subseteq ToSet(f) \cup {value}
  BY DEF Set, ToSet

LEMMA SetIfIs ==
    ASSUME NEW f, NEW key, NEW value
    PROVE  /\ key # undefined => SetIf(f, key, value) = Set(f, key, value)
           /\ key = undefined => SetIf(f, key, value) = f
           /\ ToSet(SetIf(f, key, value)) \subseteq ToSet(f) \cup {value}
<1>1. ToSet(Set(f, key, value)) \subseteq ToSet(f) \cup {value}
  BY SetIs
<1> QED BY <1>1 DEF SetIf

LEMMA OneOfIs ==
    ASSUME NEW S
    PROVE  /\ S # {} => OneOf(S) \in S
           /\ S = {} => OneOf(S) = undefined
  BY Zenon DEF OneOf

\* A draft takes the place of the draft with its key, or comes last.
LEMMA SetDraftIs ==
    ASSUME NEW ds, IsSequence(ds), Once(ds), NEW d
    PROVE  /\ IsSequence(SetDraft(ds, d)) /\ Once(SetDraft(ds, d))
           /\ ToSet(SetDraft(ds, d)) = {e \in ToSet(ds) : e.sourceKey # d.sourceKey} \cup {d}
<1> DEFINE new == SetDraft(ds, d)
           n == Len(ds)
<1>1. DOMAIN ds = 1 .. n /\ n \in Nat
  BY DEF IsSequence
<1>2. CASE \E i \in DOMAIN ds : ds[i].sourceKey = d.sourceKey
  <2>1. new = [i \in DOMAIN ds |-> IF ds[i].sourceKey = d.sourceKey THEN d ELSE ds[i]]
    BY <1>2 DEF SetDraft
  <2> HIDE DEF new, n
  <2>2. DOMAIN new = DOMAIN ds
    BY <2>1
  <2>3. \A i \in DOMAIN ds : new[i] = IF ds[i].sourceKey = d.sourceKey THEN d ELSE ds[i]
    BY <2>1
  <2>4. IsSequence(new)
    <3>1. new = [i \in 1 .. n |-> new[i]]
      BY <1>1, <2>1
    <3> QED BY <1>1, <3>1, FunctionIs
  <2>5. Once(new)
    BY <2>2, <2>3 DEF Once
  <2>6. ToSet(new) = {e \in ToSet(ds) : e.sourceKey # d.sourceKey} \cup {d}
    BY <1>2, <2>2, <2>3 DEF ToSet
  <2> QED BY <2>4, <2>5, <2>6 DEF new
<1>3. CASE ~\E i \in DOMAIN ds : ds[i].sourceKey = d.sourceKey
  <2>1. new = Append(ds, d)
    BY <1>3 DEF SetDraft
  <2> DEFINE X == ToSet(ds) \cup {d}
  <2>2. ds \in Seq(X)
    <3>1. ds \in Seq(ToSet(ds))
      BY SequenceIs
    <3> QED BY <3>1, SeqMonotonic
  <2>3. d \in X
    OBVIOUS
  <2> HIDE DEF new, n, X
  <2>4. /\ new \in Seq(X) /\ Len(new) = n + 1
        /\ \A i \in 1 .. n : new[i] = ds[i]
        /\ new[n + 1] = d
    BY <1>1, <2>1, <2>2, <2>3, AppendProperties DEF n
  <2>5. DOMAIN new = 1 .. n + 1
    BY <2>4, LenProperties
  <2>6. IsSequence(new)
    <3>1. n + 1 \in Nat /\ new \in [1 .. n + 1 -> X]
      BY <1>1, <2>4, LenProperties
    <3>2. new = [i \in 1 .. n + 1 |-> new[i]]
      BY <3>1
    <3> QED BY <3>1, <3>2, FunctionIs
  <2>7. Once(new)
    BY <1>1, <1>3, <2>4, <2>5 DEF Once
  <2>8. ToSet(new) = ToSet(ds) \cup {d}
    <3>1. ASSUME NEW e \in ToSet(new) PROVE e \in ToSet(ds) \cup {d}
      <4>1. PICK i \in 1 .. n + 1 : e = new[i]
        BY <2>5, <3>1 DEF ToSet
      <4>2. i \in 1 .. n \/ i = n + 1
        BY <1>1
      <4> QED BY <1>1, <2>4, <4>1, <4>2 DEF ToSet
    <3>2. ASSUME NEW e \in ToSet(ds) PROVE e \in ToSet(new)
      <4>1. PICK i \in 1 .. n : e = ds[i]
        BY <1>1, <3>2 DEF ToSet
      <4>2. i \in DOMAIN new /\ new[i] = e
        BY <1>1, <2>4, <2>5, <4>1
      <4> QED BY <4>2 DEF ToSet
    <3>3. d \in ToSet(new)
      <4>1. n + 1 \in DOMAIN new
        BY <1>1, <2>5
      <4> QED BY <2>4, <4>1 DEF ToSet
    <3> QED BY <3>1, <3>2, <3>3
  <2>9. \A e \in ToSet(ds) : e.sourceKey # d.sourceKey
    BY <1>3 DEF ToSet
  <2> QED BY <2>6, <2>7, <2>8, <2>9 DEF new
<1> QED BY <1>2, <1>3

\* Writing a draft keeps a list of drafts, and adds the id.
LEMMA SetDraftKeeps ==
    ASSUME NEW ds, AreDrafts(ds), NEW d, IsDraft(d)
    PROVE  AreDrafts(SetDraft(ds, d)) /\ Ids(SetDraft(ds, d)) = Ids(ds) \cup {d.id}
<1> DEFINE new == SetDraft(ds, d)
<1>1. /\ IsSequence(new) /\ Once(new)
      /\ ToSet(new) = {e \in ToSet(ds) : e.sourceKey # d.sourceKey} \cup {d}
  BY SetDraftIs DEF AreDrafts
<1> HIDE DEF new
<1>2. AreDrafts(new)
  BY <1>1 DEF AreDrafts
<1>3. ASSUME NEW e \in ToSet(ds) PROVE e.sourceKey = d.sourceKey => e.id = d.id
  BY DEF AreDrafts, IsDraft
<1>4. Ids(new) = Ids(ds) \cup {d.id}
  BY <1>1, <1>3 DEF Ids
<1> QED BY <1>2, <1>4 DEF new

-----------------------------------------------------------------------------
(* What the body of each loop does to the maps.                            *)

IsMaps(m) ==
    DOMAIN m = {"users", "customers", "objects", "installations", "tariffCatalogItems",
                "objectTariffAssignments", "objectIdByKfdGrundId", "objectIdByFkGrundId",
                "objectIdByAddressKey", "tariffCatalogIdBySystemCode", "mapped"}

KfdRow(archive, i) == Table(archive, "KFDSTAMM", "GebStamm")[i]
KfdAddress(archive, i) == addressKeyFromRow(KfdRow(archive, i))
KfdNumber(archive, i) == cleanString(KfdRow(archive, i).KGrundID)

KfdCustomer(archive, i) ==
    mapCustomer(KfdRow(archive, i), Person(archive, KfdNumber(archive, i)),
                indexByAddressKey(Table(archive, "KFDPOOL", "PoolDaten"), KfdAddress(archive, i)),
                sourceKeyFromParts("customer:kfd", KfdKeyParts(KfdRow(archive, i))))

KfdObject(archive, i) ==
    mapObject(KfdRow(archive, i), KfdCustomer(archive, i).id,
              sourceKeyFromParts("object:kfd", KfdKeyParts(KfdRow(archive, i))))

LEMMA CustomerIsDraft ==
    ASSUME NEW r, NEW person, NEW pool, NEW key
    PROVE  /\ IsDraft(mapCustomer(r, person, pool, key))
           /\ mapCustomer(r, person, pool, key).sourceKey = key
           /\ mapCustomer(r, person, pool, key).id = deterministicId(key)
           /\ "displayName" \in DOMAIN mapCustomer(r, person, pool, key)
  BY DEF mapCustomer, IsDraft

LEMMA ObjectIsDraft ==
    ASSUME NEW r, NEW customerId, NEW key
    PROVE  /\ IsDraft(mapObject(r, customerId, key))
           /\ mapObject(r, customerId, key).sourceKey = key
           /\ mapObject(r, customerId, key).id = deterministicId(key)
           /\ "customerId" \in DOMAIN mapObject(r, customerId, key)
           /\ mapObject(r, customerId, key).customerId = customerId
  BY DEF mapObject, IsDraft

\* A building of the first system.
LEMMA KfdEffect ==
    ASSUME NEW archive, NEW m, IsMaps(m), NEW i
    PROVE  LET new == KfdBuilding(archive, m, i)
               id == KfdObject(archive, i).id
           IN  /\ IsMaps(new)
               /\ new.customers = SetDraft(m.customers, KfdCustomer(archive, i))
               /\ new.objects = SetDraft(m.objects, KfdObject(archive, i))
               /\ new.mapped = Mapped(m, "KFDSTAMM", "GebStamm", i, "object", id)
               /\ new.objectIdByAddressKey = Set(m.objectIdByAddressKey, KfdAddress(archive, i), id)
               /\ new.objectIdByKfdGrundId = SetIf(m.objectIdByKfdGrundId, KfdNumber(archive, i), id)
               /\ new.users = m.users /\ new.installations = m.installations
               /\ new.tariffCatalogItems = m.tariffCatalogItems
               /\ new.objectTariffAssignments = m.objectTariffAssignments
               /\ new.objectIdByFkGrundId = m.objectIdByFkGrundId
               /\ new.tariffCatalogIdBySystemCode = m.tariffCatalogIdBySystemCode
  BY DEF KfdBuilding, KfdCustomer, KfdObject, KfdRow, KfdAddress, KfdNumber, IsMaps

FkRow(archive, j) == Table(archive, "FKSTAMM", "GebStamm")[j]
FkAddress(archive, j) == addressKeyFromRow(FkRow(archive, j))
FkNumber(archive, j) == cleanString(FkRow(archive, j).FKGrundID)
FkKfdNumber(archive, j) == cleanString(FkRow(archive, j).KFDGrundID)

FkKeyParts(archive, j) == <<FkNumber(archive, j) ?? FkAddress(archive, j)>>

FkCustomer(archive, j) ==
    mapCustomer(FkRow(archive, j),
                [displayName |-> undefined, email |-> undefined, contactNotes |-> undefined],
                undefined, sourceKeyFromParts("customer:fk", FkKeyParts(archive, j)))

FkObject(archive, j) ==
    mapObject(FkRow(archive, j), FkCustomer(archive, j).id,
              sourceKeyFromParts("object:fk", FkKeyParts(archive, j)))

\* A building that only the wood-heating control has.
LEMMA NewFkEffect ==
    ASSUME NEW archive, NEW m, IsMaps(m), NEW j
    PROVE  LET new == NewFkBuilding(m, FkRow(archive, j), j)
               id == FkObject(archive, j).id
           IN  /\ IsMaps(new)
               /\ new.customers = SetDraft(m.customers, FkCustomer(archive, j))
               /\ new.objects = SetDraft(m.objects, FkObject(archive, j))
               /\ new.mapped = Mapped(m, "FKSTAMM", "GebStamm", j, "object", id)
               /\ new.objectIdByAddressKey = Set(m.objectIdByAddressKey, FkAddress(archive, j), id)
               /\ new.objectIdByFkGrundId = SetIf(m.objectIdByFkGrundId, FkNumber(archive, j), id)
               /\ new.objectIdByKfdGrundId = SetIf(m.objectIdByKfdGrundId, FkKfdNumber(archive, j), id)
               /\ new.users = m.users /\ new.installations = m.installations
               /\ new.tariffCatalogItems = m.tariffCatalogItems
               /\ new.objectTariffAssignments = m.objectTariffAssignments
               /\ new.tariffCatalogIdBySystemCode = m.tariffCatalogIdBySystemCode
  BY DEF NewFkBuilding, FkCustomer, FkObject, FkKeyParts, FkAddress, FkNumber, FkKfdNumber, IsMaps

WithNotes(ds, r, id) == [k \in DOMAIN ds |-> IF ds[k].id = id THEN WithFkNotes(ds[k], r) ELSE ds[k]]

\* A building of the control that has an object already.
LEMMA KnownFkEffect ==
    ASSUME NEW archive, NEW m, IsMaps(m), NEW j, NEW id
    PROVE  LET new == KnownFkBuilding(m, FkRow(archive, j), j, id)
           IN  /\ IsMaps(new)
               /\ new.objects = WithNotes(m.objects, FkRow(archive, j), id)
               /\ new.mapped = Mapped(m, "FKSTAMM", "GebStamm", j, "object", id)
               /\ new.objectIdByFkGrundId = SetIf(m.objectIdByFkGrundId, FkNumber(archive, j), id)
               /\ new.customers = m.customers
               /\ new.objectIdByAddressKey = m.objectIdByAddressKey
               /\ new.objectIdByKfdGrundId = m.objectIdByKfdGrundId
               /\ new.users = m.users /\ new.installations = m.installations
               /\ new.tariffCatalogItems = m.tariffCatalogItems
               /\ new.objectTariffAssignments = m.objectTariffAssignments
               /\ new.tariffCatalogIdBySystemCode = m.tariffCatalogIdBySystemCode
  BY DEF KnownFkBuilding, WithNotes, FkNumber, IsMaps

FestRow(archive, i) == Table(archive, "FKSTAMM", "FestStoff")[i]

FestDraft(archive, m, i) ==
    mapInstallation(archive, FestRow(archive, i), OneOf(ObjectOfInstallation(archive, m, FestRow(archive, i))))

\* An installation whose object is found.
LEMMA InstallationEffect ==
    ASSUME NEW archive, NEW m, IsMaps(m), NEW i,
           ObjectOfInstallation(archive, m, FestRow(archive, i)) # {}
    PROVE  LET new == Installation(archive, m, i)
               d == FestDraft(archive, m, i)
           IN  /\ IsMaps(new)
               /\ new.installations = SetDraft(m.installations, d)
               /\ new.mapped = Mapped(m, "FKSTAMM", "FestStoff", i, "installation", d.id)
               /\ new.users = m.users /\ new.customers = m.customers /\ new.objects = m.objects
               /\ new.tariffCatalogItems = m.tariffCatalogItems
               /\ new.objectTariffAssignments = m.objectTariffAssignments
               /\ new.objectIdByKfdGrundId = m.objectIdByKfdGrundId
               /\ new.objectIdByFkGrundId = m.objectIdByFkGrundId
               /\ new.objectIdByAddressKey = m.objectIdByAddressKey
               /\ new.tariffCatalogIdBySystemCode = m.tariffCatalogIdBySystemCode
  BY DEF Installation, FestDraft, FestRow, IsMaps

TariffDraft(archive, name, i) ==
    mapTariffCatalogItem(Table(archive, name, "Tarife")[i], System(name), i)

TariffKey(archive, name, i) ==
    tariffCatalogLookupKey(System(name), TariffDraft(archive, name, i).code)

\* An entry of a catalogue: the first of its code is indexed.
LEMMA TariffEffect ==
    ASSUME NEW archive, NEW m, IsMaps(m), NEW name, NEW i
    PROVE  LET new == TariffItem(archive, m, name, i)
               d == TariffDraft(archive, name, i)
               key == TariffKey(archive, name, i)
           IN  /\ IsMaps(new)
               /\ new.tariffCatalogItems = SetDraft(m.tariffCatalogItems, d)
               /\ new.tariffCatalogIdBySystemCode =
                     IF key \in DOMAIN m.tariffCatalogIdBySystemCode
                     THEN m.tariffCatalogIdBySystemCode
                     ELSE Set(m.tariffCatalogIdBySystemCode, key, d.id)
               /\ new.mapped = Mapped(m, name, "Tarife", i, "tariff_catalog_item", d.id)
               /\ new.users = m.users /\ new.customers = m.customers /\ new.objects = m.objects
               /\ new.installations = m.installations
               /\ new.objectTariffAssignments = m.objectTariffAssignments
               /\ new.objectIdByKfdGrundId = m.objectIdByKfdGrundId
               /\ new.objectIdByFkGrundId = m.objectIdByFkGrundId
               /\ new.objectIdByAddressKey = m.objectIdByAddressKey
  BY DEF TariffItem, TariffDraft, TariffKey, IsMaps

AssignmentDraft(archive, m, name, i) ==
    mapObjectTariffAssignment(Table(archive, name, "GTarife")[i], System(name), i, m)

\* A tariff of a building.
LEMMA AssignmentEffect ==
    ASSUME NEW archive, NEW m, IsMaps(m), NEW name, NEW i
    PROVE  LET new == TariffAssignment(archive, m, name, i)
               d == AssignmentDraft(archive, m, name, i)
           IN  /\ IsMaps(new)
               /\ new.objectTariffAssignments = SetDraft(m.objectTariffAssignments, d)
               /\ new.mapped = Mapped(m, name, "GTarife", i, "object_tariff_assignment", d.id)
               /\ new.users = m.users /\ new.customers = m.customers /\ new.objects = m.objects
               /\ new.installations = m.installations
               /\ new.tariffCatalogItems = m.tariffCatalogItems
               /\ new.objectIdByKfdGrundId = m.objectIdByKfdGrundId
               /\ new.objectIdByFkGrundId = m.objectIdByFkGrundId
               /\ new.objectIdByAddressKey = m.objectIdByAddressKey
               /\ new.tariffCatalogIdBySystemCode = m.tariffCatalogIdBySystemCode
  BY DEF TariffAssignment, AssignmentDraft, IsMaps

\* A row of an employee adds a user, or nothing but what it is mapped to.
LEMMA UserEffect ==
    ASSUME NEW archive, NEW m, IsMaps(m), NEW i, NEW t \in {"Mitarbeiter", "MitDaten"},
           NEW new, new = IF t = "Mitarbeiter" THEN Mitarbeiter(archive, m, i) ELSE MitDaten(archive, m, i)
    PROVE  /\ IsMaps(new)
           /\ \/ new.users = m.users
              \/ \E r, key : new.users = SetDraft(m.users, mapInactiveUser(r, key))
           /\ \E id : new.mapped = Mapped(m, "ALLSTAMM", t, i, "user", id)
           /\ new.customers = m.customers /\ new.objects = m.objects
           /\ new.installations = m.installations
           /\ new.tariffCatalogItems = m.tariffCatalogItems
           /\ new.objectTariffAssignments = m.objectTariffAssignments
           /\ new.objectIdByKfdGrundId = m.objectIdByKfdGrundId
           /\ new.objectIdByFkGrundId = m.objectIdByFkGrundId
           /\ new.objectIdByAddressKey = m.objectIdByAddressKey
           /\ new.tariffCatalogIdBySystemCode = m.tariffCatalogIdBySystemCode
<1>1. CASE t = "Mitarbeiter"
  <2>1. new = Mitarbeiter(archive, m, i)
    BY <1>1
  <2> QED BY <1>1, <2>1 DEF Mitarbeiter, IsMaps
<1>2. CASE t = "MitDaten"
  <2>1. new = MitDaten(archive, m, i)
    BY <1>2
  <2> QED BY <1>2, <2>1 DEF MitDaten, IsMaps
<1> QED BY <1>1, <1>2

LEMMA InstallationIsDraft ==
    ASSUME NEW archive, NEW r, NEW objectId
    PROVE  LET d == mapInstallation(archive, r, objectId)
           IN  /\ IsDraft(d) /\ d.sourceKey = installationKey(r) /\ d.objectId = objectId
               /\ d.id = deterministicId(installationKey(r)) /\ "objectId" \in DOMAIN d
  BY DEF mapInstallation, IsDraft

LEMMA TariffIsDraft ==
    ASSUME NEW archive, NEW name, NEW i
    PROVE  LET d == TariffDraft(archive, name, i)
           IN  /\ IsDraft(d)
               /\ d.code = tariffCode(Table(archive, name, "Tarife")[i], i)
               /\ d.sourceKey = sourceKeyFromParts(<<"tariff_catalog", System(name), i>>, <<d.code>>)
  BY DEF TariffDraft, mapTariffCatalogItem, IsDraft

\* The entry of the catalogue an assignment names, if its code is in it.
CatalogEntry(archive, m, name, i) ==
    LET code == cleanString(Table(archive, name, "GTarife")[i].TTarif)
    IN  IF code = undefined THEN {}
        ELSE Get(m.tariffCatalogIdBySystemCode, tariffCatalogLookupKey(System(name), code))

GivenAddress(archive, name, i) == addressKeyFromRow(Table(archive, name, "GTarife")[i])

LEMMA AssignmentIsDraft ==
    ASSUME NEW archive, NEW m, NEW name, NEW i
    PROVE  LET d == AssignmentDraft(archive, m, name, i)
           IN  /\ IsDraft(d) /\ {"objectId", "tariffCatalogItemId"} \subseteq DOMAIN d
               /\ d.sourceKey.prefix = <<"object_tariff", System(name), i>>
               /\ d.objectId = OneOf(Get(m.objectIdByAddressKey, GivenAddress(archive, name, i)))
               /\ d.tariffCatalogItemId = OneOf(CatalogEntry(archive, m, name, i))
  BY DEF AssignmentDraft, mapObjectTariffAssignment, IsDraft, CatalogEntry, GivenAddress,
         sourceKeyFromParts

LEMMA UserIsDraft ==
    ASSUME NEW r, NEW key
    PROVE  IsDraft(mapInactiveUser(r, key)) /\ "email" \in DOMAIN mapInactiveUser(r, key)
  BY DEF mapInactiveUser, IsDraft

-----------------------------------------------------------------------------
(* What holds of the maps at any time: the drafts have their keys once,    *)
(* and what refers to a draft refers to one that is there.                 *)

DraftsAreSound(m) ==
    /\ AreDrafts(m.users) /\ AreDrafts(m.customers) /\ AreDrafts(m.objects)
    /\ AreDrafts(m.installations) /\ AreDrafts(m.tariffCatalogItems)
    /\ AreDrafts(m.objectTariffAssignments)
    /\ \A d \in ToSet(m.users) : "email" \in DOMAIN d

ReferencesAreSound(m) ==
    /\ \A d \in ToSet(m.objects) : "customerId" \in DOMAIN d /\ d.customerId \in Ids(m.customers)
    /\ \A d \in ToSet(m.installations) : d.objectId \in Ids(m.objects)
    /\ \A d \in ToSet(m.objectTariffAssignments) :
          /\ d.objectId \in Ids(m.objects) \cup {undefined}
          /\ d.tariffCatalogItemId \in Ids(m.tariffCatalogItems) \cup {undefined}

IndexesAreSound(m) ==
    /\ ToSet(m.objectIdByKfdGrundId) \subseteq Ids(m.objects)
    /\ ToSet(m.objectIdByFkGrundId) \subseteq Ids(m.objects)
    /\ ToSet(m.objectIdByAddressKey) \subseteq Ids(m.objects)
    /\ ToSet(m.tariffCatalogIdBySystemCode) \subseteq Ids(m.tariffCatalogItems)

Sound(m) == IsMaps(m) /\ DraftsAreSound(m) /\ ReferencesAreSound(m) /\ IndexesAreSound(m)

LEMMA NoMapsSound == Sound(NoMaps)
<1>1. AreDrafts(<< >>) /\ ToSet(<< >>) = {}
  BY DEF AreDrafts, IsSequence, Once, ToSet
<1>2. IsMaps(NoMaps)
  BY DEF NoMaps, IsMaps
<1>3. /\ NoMaps.users = << >> /\ NoMaps.customers = << >> /\ NoMaps.objects = << >>
      /\ NoMaps.installations = << >> /\ NoMaps.tariffCatalogItems = << >>
      /\ NoMaps.objectTariffAssignments = << >> /\ NoMaps.objectIdByKfdGrundId = << >>
      /\ NoMaps.objectIdByFkGrundId = << >> /\ NoMaps.objectIdByAddressKey = << >>
      /\ NoMaps.tariffCatalogIdBySystemCode = << >>
  BY DEF NoMaps
<1> QED BY <1>1, <1>2, <1>3 DEF Sound, DraftsAreSound, ReferencesAreSound, IndexesAreSound

LEMMA GetIs ==
    ASSUME NEW f, NEW key
    PROVE  Get(f, key) \subseteq ToSet(f) /\ GetIf(f, key) \subseteq ToSet(f)
  BY DEF Get, GetIf, ToSet

\* What a new draft keeps, with an index that gets its id.
LEMMA KfdSound ==
    ASSUME NEW archive, NEW m, Sound(m), NEW i
    PROVE  Sound(KfdBuilding(archive, m, i))
<1> DEFINE new == KfdBuilding(archive, m, i)
           c == KfdCustomer(archive, i)
           o == KfdObject(archive, i)
<1>1. IsMaps(m) /\ DraftsAreSound(m) /\ ReferencesAreSound(m) /\ IndexesAreSound(m)
  BY DEF Sound
<1>2. /\ IsMaps(new)
      /\ new.customers = SetDraft(m.customers, c)
      /\ new.objects = SetDraft(m.objects, o)
      /\ new.objectIdByAddressKey = Set(m.objectIdByAddressKey, KfdAddress(archive, i), o.id)
      /\ new.objectIdByKfdGrundId = SetIf(m.objectIdByKfdGrundId, KfdNumber(archive, i), o.id)
      /\ new.users = m.users /\ new.installations = m.installations
      /\ new.tariffCatalogItems = m.tariffCatalogItems
      /\ new.objectTariffAssignments = m.objectTariffAssignments
      /\ new.objectIdByFkGrundId = m.objectIdByFkGrundId
      /\ new.tariffCatalogIdBySystemCode = m.tariffCatalogIdBySystemCode
  BY <1>1, KfdEffect
<1>3. IsDraft(c) /\ IsDraft(o) /\ "customerId" \in DOMAIN o /\ o.customerId = c.id
  BY CustomerIsDraft, ObjectIsDraft DEF KfdCustomer, KfdObject
<1> HIDE DEF new, c, o
<1>4. AreDrafts(new.customers) /\ Ids(new.customers) = Ids(m.customers) \cup {c.id}
  BY <1>1, <1>2, <1>3, SetDraftKeeps DEF DraftsAreSound
<1>5. AreDrafts(new.objects) /\ Ids(new.objects) = Ids(m.objects) \cup {o.id}
  BY <1>1, <1>2, <1>3, SetDraftKeeps DEF DraftsAreSound
<1>6. ToSet(new.objects) \subseteq ToSet(m.objects) \cup {o}
  BY <1>1, <1>2, SetDraftIs DEF DraftsAreSound, AreDrafts
<1>7. DraftsAreSound(new)
  BY <1>1, <1>2, <1>4, <1>5 DEF DraftsAreSound
<1>8. ReferencesAreSound(new)
  BY <1>1, <1>2, <1>3, <1>4, <1>5, <1>6 DEF ReferencesAreSound
<1>9. IndexesAreSound(new)
  <2>1. ToSet(new.objectIdByAddressKey) \subseteq ToSet(m.objectIdByAddressKey) \cup {o.id}
    <3>1. ToSet(Set(m.objectIdByAddressKey, KfdAddress(archive, i), o.id))
             \subseteq ToSet(m.objectIdByAddressKey) \cup {o.id}
      BY SetIs
    <3> QED BY <1>2, <3>1
  <2>2. ToSet(new.objectIdByKfdGrundId) \subseteq ToSet(m.objectIdByKfdGrundId) \cup {o.id}
    BY <1>2, SetIfIs
  <2> QED BY <1>1, <1>2, <1>5, <2>1, <2>2 DEF IndexesAreSound
<1> QED BY <1>2, <1>7, <1>8, <1>9 DEF Sound, new

LEMMA NewFkSound ==
    ASSUME NEW archive, NEW m, Sound(m), NEW j
    PROVE  Sound(NewFkBuilding(m, FkRow(archive, j), j))
<1> DEFINE new == NewFkBuilding(m, FkRow(archive, j), j)
           c == FkCustomer(archive, j)
           o == FkObject(archive, j)
<1>1. IsMaps(m) /\ DraftsAreSound(m) /\ ReferencesAreSound(m) /\ IndexesAreSound(m)
  BY DEF Sound
<1>2. /\ IsMaps(new)
      /\ new.customers = SetDraft(m.customers, c)
      /\ new.objects = SetDraft(m.objects, o)
      /\ new.objectIdByAddressKey = Set(m.objectIdByAddressKey, FkAddress(archive, j), o.id)
      /\ new.objectIdByFkGrundId = SetIf(m.objectIdByFkGrundId, FkNumber(archive, j), o.id)
      /\ new.objectIdByKfdGrundId = SetIf(m.objectIdByKfdGrundId, FkKfdNumber(archive, j), o.id)
      /\ new.users = m.users /\ new.installations = m.installations
      /\ new.tariffCatalogItems = m.tariffCatalogItems
      /\ new.objectTariffAssignments = m.objectTariffAssignments
      /\ new.tariffCatalogIdBySystemCode = m.tariffCatalogIdBySystemCode
  BY <1>1, NewFkEffect
<1>3. IsDraft(c) /\ IsDraft(o) /\ "customerId" \in DOMAIN o /\ o.customerId = c.id
  BY CustomerIsDraft, ObjectIsDraft DEF FkCustomer, FkObject
<1> HIDE DEF new, c, o
<1>4. AreDrafts(new.customers) /\ Ids(new.customers) = Ids(m.customers) \cup {c.id}
  BY <1>1, <1>2, <1>3, SetDraftKeeps DEF DraftsAreSound
<1>5. AreDrafts(new.objects) /\ Ids(new.objects) = Ids(m.objects) \cup {o.id}
  BY <1>1, <1>2, <1>3, SetDraftKeeps DEF DraftsAreSound
<1>6. ToSet(new.objects) \subseteq ToSet(m.objects) \cup {o}
  BY <1>1, <1>2, SetDraftIs DEF DraftsAreSound, AreDrafts
<1>7. DraftsAreSound(new)
  BY <1>1, <1>2, <1>4, <1>5 DEF DraftsAreSound
<1>8. ReferencesAreSound(new)
  BY <1>1, <1>2, <1>3, <1>4, <1>5, <1>6 DEF ReferencesAreSound
<1>9. IndexesAreSound(new)
  <2>1. ToSet(new.objectIdByAddressKey) \subseteq ToSet(m.objectIdByAddressKey) \cup {o.id}
    <3>1. ToSet(Set(m.objectIdByAddressKey, FkAddress(archive, j), o.id))
             \subseteq ToSet(m.objectIdByAddressKey) \cup {o.id}
      BY SetIs
    <3> QED BY <1>2, <3>1
  <2>2. ToSet(new.objectIdByKfdGrundId) \subseteq ToSet(m.objectIdByKfdGrundId) \cup {o.id}
    BY <1>2, SetIfIs
  <2>3. ToSet(new.objectIdByFkGrundId) \subseteq ToSet(m.objectIdByFkGrundId) \cup {o.id}
    BY <1>2, SetIfIs
  <2> QED BY <1>1, <1>2, <1>5, <2>1, <2>2, <2>3 DEF IndexesAreSound
<1> QED BY <1>2, <1>7, <1>8, <1>9 DEF Sound, new

\* Notes change nothing else of a draft.
LEMMA NotesKeep ==
    ASSUME NEW ds, AreDrafts(ds), NEW r, NEW id, \A d \in ToSet(ds) : "customerId" \in DOMAIN d
    PROVE  LET new == WithNotes(ds, r, id)
           IN  /\ AreDrafts(new) /\ Ids(new) = Ids(ds) /\ DOMAIN new = DOMAIN ds
               /\ \A k \in DOMAIN ds : /\ new[k].sourceKey = ds[k].sourceKey /\ new[k].id = ds[k].id
                                       /\ "customerId" \in DOMAIN new[k]
                                       /\ new[k].customerId = ds[k].customerId
<1> DEFINE new == WithNotes(ds, r, id)
<1>1. new = [k \in DOMAIN ds |-> IF ds[k].id = id THEN WithFkNotes(ds[k], r) ELSE ds[k]]
  BY DEF WithNotes
<1>2. \A k \in DOMAIN ds : IsDraft(ds[k]) /\ "customerId" \in DOMAIN ds[k]
  BY DEF AreDrafts, ToSet
<1>3. ASSUME NEW d, IsDraft(d), "customerId" \in DOMAIN d
      PROVE  LET e == WithFkNotes(d, r)
             IN  /\ e.sourceKey = d.sourceKey /\ e.id = d.id /\ DOMAIN e = DOMAIN d
                 /\ e.customerId = d.customerId
  BY <1>3 DEF WithFkNotes, IsDraft
<1> HIDE DEF new
<1>4. DOMAIN new = DOMAIN ds
  BY <1>1
<1>5. ASSUME NEW k \in DOMAIN ds
      PROVE  /\ new[k].sourceKey = ds[k].sourceKey /\ new[k].id = ds[k].id
             /\ DOMAIN new[k] = DOMAIN ds[k] /\ new[k].customerId = ds[k].customerId
  <2>1. new[k] = IF ds[k].id = id THEN WithFkNotes(ds[k], r) ELSE ds[k]
    BY <1>1
  <2> QED BY <1>2, <1>3, <2>1
<1>6. IsSequence(new)
  <2>1. DOMAIN ds = 1 .. Len(ds) /\ Len(ds) \in Nat
    BY DEF AreDrafts, IsSequence
  <2>2. new = [k \in 1 .. Len(ds) |-> new[k]]
    BY <1>1, <2>1
  <2> QED BY <2>1, <2>2, FunctionIs
<1>7. Once(new)
  BY <1>4, <1>5 DEF Once, AreDrafts
<1>8. \A k \in DOMAIN new : IsDraft(new[k])
  BY <1>2, <1>4, <1>5 DEF IsDraft
<1>9. AreDrafts(new)
  BY <1>6, <1>7, <1>8 DEF AreDrafts, ToSet
<1>10. Ids(new) = Ids(ds)
  <2>1. \A x : x \in Ids(new) <=> \E k \in DOMAIN new : x = new[k].id
    BY DEF Ids, ToSet
  <2>2. \A x : x \in Ids(ds) <=> \E k \in DOMAIN ds : x = ds[k].id
    BY DEF Ids, ToSet
  <2> QED BY <1>4, <1>5, <2>1, <2>2
<1> QED BY <1>2, <1>4, <1>5, <1>9, <1>10 DEF new

LEMMA KnownFkSound ==
    ASSUME NEW archive, NEW m, Sound(m), NEW j, NEW id \in Ids(m.objects)
    PROVE  Sound(KnownFkBuilding(m, FkRow(archive, j), j, id))
<1> DEFINE new == KnownFkBuilding(m, FkRow(archive, j), j, id)
           r == FkRow(archive, j)
<1>1. IsMaps(m) /\ DraftsAreSound(m) /\ ReferencesAreSound(m) /\ IndexesAreSound(m)
  BY DEF Sound
<1>2. /\ IsMaps(new)
      /\ new.objects = WithNotes(m.objects, r, id)
      /\ new.objectIdByFkGrundId = SetIf(m.objectIdByFkGrundId, FkNumber(archive, j), id)
      /\ new.customers = m.customers
      /\ new.objectIdByAddressKey = m.objectIdByAddressKey
      /\ new.objectIdByKfdGrundId = m.objectIdByKfdGrundId
      /\ new.users = m.users /\ new.installations = m.installations
      /\ new.tariffCatalogItems = m.tariffCatalogItems
      /\ new.objectTariffAssignments = m.objectTariffAssignments
      /\ new.tariffCatalogIdBySystemCode = m.tariffCatalogIdBySystemCode
  BY <1>1, KnownFkEffect
<1> HIDE DEF new, r
<1>3. /\ AreDrafts(new.objects) /\ Ids(new.objects) = Ids(m.objects)
      /\ DOMAIN new.objects = DOMAIN m.objects
      /\ \A k \in DOMAIN m.objects : /\ "customerId" \in DOMAIN new.objects[k]
                                     /\ new.objects[k].customerId = m.objects[k].customerId
  BY <1>1, <1>2, NotesKeep DEF DraftsAreSound, ReferencesAreSound
<1>4. DraftsAreSound(new)
  BY <1>1, <1>2, <1>3 DEF DraftsAreSound
<1>5. ReferencesAreSound(new)
  <2>1. \A d \in ToSet(new.objects) : "customerId" \in DOMAIN d /\ d.customerId \in Ids(new.customers)
    BY <1>1, <1>2, <1>3 DEF ReferencesAreSound, ToSet
  <2> QED BY <1>1, <1>2, <1>3, <2>1 DEF ReferencesAreSound
<1>6. IndexesAreSound(new)
  <2>1. ToSet(new.objectIdByFkGrundId) \subseteq ToSet(m.objectIdByFkGrundId) \cup {id}
    BY <1>2, SetIfIs
  <2> QED BY <1>1, <1>2, <1>3, <2>1 DEF IndexesAreSound
<1> QED BY <1>2, <1>4, <1>5, <1>6 DEF Sound, new

\* A building of the control, whichever of the two it is.
LEMMA FkSound ==
    ASSUME NEW archive, NEW m, Sound(m), NEW j
    PROVE  Sound(FkBuilding(archive, m, j))
<1> DEFINE existing == ExistingObject(m, FkRow(archive, j))
<1>1. FkBuilding(archive, m, j) = IF existing = {} THEN NewFkBuilding(m, FkRow(archive, j), j)
                                  ELSE KnownFkBuilding(m, FkRow(archive, j), j, OneOf(existing))
  BY DEF FkBuilding, FkRow
<1>2. existing \subseteq Ids(m.objects)
  <2>1. \A f, key : Get(f, key) \subseteq ToSet(f) /\ GetIf(f, key) \subseteq ToSet(f)
    BY GetIs
  <2> QED BY <2>1 DEF ExistingObject, OrElse, Sound, IndexesAreSound
<1>3. CASE existing = {}
  BY <1>1, <1>3, NewFkSound
<1>4. CASE existing # {}
  <2>1. OneOf(existing) \in Ids(m.objects)
    BY <1>2, <1>4, OneOfIs
  <2> QED BY <1>1, <1>4, <2>1, KnownFkSound
<1> QED BY <1>3, <1>4

LEMMA InstallationSound ==
    ASSUME NEW archive, NEW m, Sound(m), NEW i
    PROVE  Sound(Installation(archive, m, i))
<1> DEFINE new == Installation(archive, m, i)
           found == ObjectOfInstallation(archive, m, FestRow(archive, i))
           d == FestDraft(archive, m, i)
<1>1. IsMaps(m) /\ DraftsAreSound(m) /\ ReferencesAreSound(m) /\ IndexesAreSound(m)
  BY DEF Sound
<1>2. CASE found = {}
  <2>1. new = m
    BY <1>2 DEF Installation, FestRow
  <2> QED BY <2>1
<1>3. CASE found # {}
  <2>1. /\ IsMaps(new)
        /\ new.installations = SetDraft(m.installations, d)
        /\ new.users = m.users /\ new.customers = m.customers /\ new.objects = m.objects
        /\ new.tariffCatalogItems = m.tariffCatalogItems
        /\ new.objectTariffAssignments = m.objectTariffAssignments
        /\ new.objectIdByKfdGrundId = m.objectIdByKfdGrundId
        /\ new.objectIdByFkGrundId = m.objectIdByFkGrundId
        /\ new.objectIdByAddressKey = m.objectIdByAddressKey
        /\ new.tariffCatalogIdBySystemCode = m.tariffCatalogIdBySystemCode
    BY <1>1, <1>3, InstallationEffect
  <2>2. found \subseteq Ids(m.objects)
    <3>1. \A f, key : Get(f, key) \subseteq ToSet(f) /\ GetIf(f, key) \subseteq ToSet(f)
      BY GetIs
    <3> QED BY <1>1, <3>1 DEF ObjectOfInstallation, OrElse, IndexesAreSound
  <2>3. IsDraft(d) /\ d.objectId \in Ids(m.objects)
    <3>1. OneOf(found) \in Ids(m.objects)
      BY <1>3, <2>2, OneOfIs
    <3> QED BY <3>1, InstallationIsDraft DEF FestDraft
  <2> HIDE DEF new, d, found
  <2>4. AreDrafts(new.installations)
    BY <1>1, <2>1, <2>3, SetDraftKeeps DEF DraftsAreSound
  <2>5. ToSet(new.installations) \subseteq ToSet(m.installations) \cup {d}
    BY <1>1, <2>1, SetDraftIs DEF DraftsAreSound, AreDrafts
  <2>6. DraftsAreSound(new)
    BY <1>1, <2>1, <2>4 DEF DraftsAreSound
  <2>7. ReferencesAreSound(new)
    BY <1>1, <2>1, <2>3, <2>5 DEF ReferencesAreSound
  <2>8. IndexesAreSound(new)
    BY <1>1, <2>1 DEF IndexesAreSound
  <2> QED BY <2>1, <2>6, <2>7, <2>8 DEF Sound, new
<1> QED BY <1>2, <1>3

LEMMA TariffSound ==
    ASSUME NEW archive, NEW m, Sound(m), NEW name, NEW i
    PROVE  Sound(TariffItem(archive, m, name, i))
<1> DEFINE new == TariffItem(archive, m, name, i)
           d == TariffDraft(archive, name, i)
           key == TariffKey(archive, name, i)
<1>1. IsMaps(m) /\ DraftsAreSound(m) /\ ReferencesAreSound(m) /\ IndexesAreSound(m)
  BY DEF Sound
<1>2. /\ IsMaps(new)
      /\ new.tariffCatalogItems = SetDraft(m.tariffCatalogItems, d)
      /\ \/ new.tariffCatalogIdBySystemCode = m.tariffCatalogIdBySystemCode
         \/ new.tariffCatalogIdBySystemCode = Set(m.tariffCatalogIdBySystemCode, key, d.id)
      /\ new.users = m.users /\ new.customers = m.customers /\ new.objects = m.objects
      /\ new.installations = m.installations
      /\ new.objectTariffAssignments = m.objectTariffAssignments
      /\ new.objectIdByKfdGrundId = m.objectIdByKfdGrundId
      /\ new.objectIdByFkGrundId = m.objectIdByFkGrundId
      /\ new.objectIdByAddressKey = m.objectIdByAddressKey
  BY <1>1, TariffEffect
<1>3. IsDraft(d)
  BY TariffIsDraft
<1> HIDE DEF new, d, key
<1>4. AreDrafts(new.tariffCatalogItems) /\ Ids(new.tariffCatalogItems) = Ids(m.tariffCatalogItems) \cup {d.id}
  BY <1>1, <1>2, <1>3, SetDraftKeeps DEF DraftsAreSound
<1>5. DraftsAreSound(new)
  BY <1>1, <1>2, <1>4 DEF DraftsAreSound
<1>6. ReferencesAreSound(new)
  BY <1>1, <1>2, <1>4 DEF ReferencesAreSound
<1>7. IndexesAreSound(new)
  <2>1. ToSet(Set(m.tariffCatalogIdBySystemCode, key, d.id))
           \subseteq ToSet(m.tariffCatalogIdBySystemCode) \cup {d.id}
    BY SetIs
  <2>2. ToSet(new.tariffCatalogIdBySystemCode) \subseteq ToSet(m.tariffCatalogIdBySystemCode) \cup {d.id}
    BY <1>2, <2>1
  <2> QED BY <1>1, <1>2, <1>4, <2>2 DEF IndexesAreSound
<1> QED BY <1>2, <1>5, <1>6, <1>7 DEF Sound, new

LEMMA AssignmentSound ==
    ASSUME NEW archive, NEW m, Sound(m), NEW name, NEW i
    PROVE  Sound(TariffAssignment(archive, m, name, i))
<1> DEFINE new == TariffAssignment(archive, m, name, i)
           d == AssignmentDraft(archive, m, name, i)
           there == Get(m.objectIdByAddressKey, GivenAddress(archive, name, i))
           entry == CatalogEntry(archive, m, name, i)
<1>1. IsMaps(m) /\ DraftsAreSound(m) /\ ReferencesAreSound(m) /\ IndexesAreSound(m)
  BY DEF Sound
<1>2. /\ IsMaps(new)
      /\ new.objectTariffAssignments = SetDraft(m.objectTariffAssignments, d)
      /\ new.users = m.users /\ new.customers = m.customers /\ new.objects = m.objects
      /\ new.installations = m.installations
      /\ new.tariffCatalogItems = m.tariffCatalogItems
      /\ new.objectIdByKfdGrundId = m.objectIdByKfdGrundId
      /\ new.objectIdByFkGrundId = m.objectIdByFkGrundId
      /\ new.objectIdByAddressKey = m.objectIdByAddressKey
      /\ new.tariffCatalogIdBySystemCode = m.tariffCatalogIdBySystemCode
  BY <1>1, AssignmentEffect
<1>3. IsDraft(d) /\ d.objectId = OneOf(there) /\ d.tariffCatalogItemId = OneOf(entry)
  BY AssignmentIsDraft
<1>4. there \subseteq Ids(m.objects) /\ entry \subseteq Ids(m.tariffCatalogItems)
  <2>1. \A f, key : Get(f, key) \subseteq ToSet(f)
    BY GetIs
  <2> QED BY <1>1, <2>1 DEF CatalogEntry, IndexesAreSound
<1> HIDE DEF new, d, there, entry
<1>5. /\ d.objectId \in Ids(m.objects) \cup {undefined}
      /\ d.tariffCatalogItemId \in Ids(m.tariffCatalogItems) \cup {undefined}
  <2>1. /\ there # {} => OneOf(there) \in there
        /\ there = {} => OneOf(there) = undefined
        /\ entry # {} => OneOf(entry) \in entry
        /\ entry = {} => OneOf(entry) = undefined
    BY OneOfIs
  <2> QED BY <1>3, <1>4, <2>1
<1>6. AreDrafts(new.objectTariffAssignments)
  BY <1>1, <1>2, <1>3, SetDraftKeeps DEF DraftsAreSound
<1>7. ToSet(new.objectTariffAssignments) \subseteq ToSet(m.objectTariffAssignments) \cup {d}
  BY <1>1, <1>2, SetDraftIs DEF DraftsAreSound, AreDrafts
<1>8. DraftsAreSound(new)
  BY <1>1, <1>2, <1>6 DEF DraftsAreSound
<1>9. ReferencesAreSound(new)
  BY <1>1, <1>2, <1>5, <1>7 DEF ReferencesAreSound
<1>10. IndexesAreSound(new)
  BY <1>1, <1>2 DEF IndexesAreSound
<1> QED BY <1>2, <1>8, <1>9, <1>10 DEF Sound, new

\* An employee, from either table.
LEMMA UserSound ==
    ASSUME NEW archive, NEW m, Sound(m), NEW i, NEW t \in {"Mitarbeiter", "MitDaten"},
           NEW new, new = IF t = "Mitarbeiter" THEN Mitarbeiter(archive, m, i) ELSE MitDaten(archive, m, i)
    PROVE  Sound(new)
<1>1. IsMaps(m) /\ DraftsAreSound(m) /\ ReferencesAreSound(m) /\ IndexesAreSound(m)
  BY DEF Sound
<1>2. /\ IsMaps(new)
      /\ \/ new.users = m.users
         \/ \E r, key : new.users = SetDraft(m.users, mapInactiveUser(r, key))
      /\ new.customers = m.customers /\ new.objects = m.objects
      /\ new.installations = m.installations
      /\ new.tariffCatalogItems = m.tariffCatalogItems
      /\ new.objectTariffAssignments = m.objectTariffAssignments
      /\ new.objectIdByKfdGrundId = m.objectIdByKfdGrundId
      /\ new.objectIdByFkGrundId = m.objectIdByFkGrundId
      /\ new.objectIdByAddressKey = m.objectIdByAddressKey
      /\ new.tariffCatalogIdBySystemCode = m.tariffCatalogIdBySystemCode
  BY <1>1, UserEffect
<1>3. AreDrafts(new.users) /\ \A d \in ToSet(new.users) : "email" \in DOMAIN d
  <2>1. AreDrafts(m.users) /\ \A d \in ToSet(m.users) : "email" \in DOMAIN d
    BY <1>1 DEF DraftsAreSound
  <2>2. CASE new.users = m.users
    BY <2>1, <2>2
  <2>3. ASSUME NEW r, NEW key, new.users = SetDraft(m.users, mapInactiveUser(r, key))
        PROVE  AreDrafts(new.users) /\ \A d \in ToSet(new.users) : "email" \in DOMAIN d
    <3> DEFINE u == mapInactiveUser(r, key)
    <3>1. IsDraft(u) /\ "email" \in DOMAIN u
      BY UserIsDraft
    <3> HIDE DEF u
    <3>2. AreDrafts(SetDraft(m.users, u))
      BY <2>1, <3>1, SetDraftKeeps
    <3>3. ToSet(SetDraft(m.users, u)) \subseteq ToSet(m.users) \cup {u}
      BY <2>1, SetDraftIs DEF AreDrafts
    <3> QED BY <2>1, <2>3, <3>1, <3>2, <3>3 DEF u
  <2> QED BY <1>2, <2>2, <2>3
<1>4. DraftsAreSound(new)
  BY <1>1, <1>2, <1>3 DEF DraftsAreSound
<1>5. ReferencesAreSound(new)
  BY <1>1, <1>2 DEF ReferencesAreSound
<1>6. IndexesAreSound(new)
  BY <1>1, <1>2 DEF IndexesAreSound
<1> QED BY <1>2, <1>4, <1>5, <1>6 DEF Sound

Systems == {"KFDSTAMM", "FKSTAMM"}

Loops ==
    {<<name, t>> : name \in Systems, t \in {"GebStamm", "Tarife", "GTarife"}}
        \cup {<<"FKSTAMM", "FestStoff">>, <<"ALLSTAMM", "Mitarbeiter">>, <<"ALLSTAMM", "MitDaten">>}

\* Which body a loop has.
LEMMA MapRowIs ==
    ASSUME NEW archive, NEW m, NEW i
    PROVE  /\ MapRow(archive, "KFDSTAMM", "GebStamm", m, i) = KfdBuilding(archive, m, i)
           /\ MapRow(archive, "FKSTAMM", "GebStamm", m, i) = FkBuilding(archive, m, i)
           /\ MapRow(archive, "FKSTAMM", "FestStoff", m, i) = Installation(archive, m, i)
           /\ \A name \in Systems :
                 /\ MapRow(archive, name, "Tarife", m, i) = TariffItem(archive, m, name, i)
                 /\ MapRow(archive, name, "GTarife", m, i) = TariffAssignment(archive, m, name, i)
           /\ MapRow(archive, "ALLSTAMM", "Mitarbeiter", m, i) = Mitarbeiter(archive, m, i)
           /\ MapRow(archive, "ALLSTAMM", "MitDaten", m, i) = MitDaten(archive, m, i)
  BY DEF MapRow, Systems

\* The body of every loop keeps the maps sound.
LEMMA MapRowSound ==
    ASSUME NEW archive, NEW name, NEW t, <<name, t>> \in Loops, NEW m, Sound(m), NEW i
    PROVE  Sound(MapRow(archive, name, t, m, i))
<1>1. CASE name = "KFDSTAMM" /\ t = "GebStamm"
  BY <1>1, MapRowIs, KfdSound
<1>2. CASE name = "FKSTAMM" /\ t = "GebStamm"
  BY <1>2, MapRowIs, FkSound
<1>3. CASE name = "FKSTAMM" /\ t = "FestStoff"
  BY <1>3, MapRowIs, InstallationSound
<1>4. CASE name \in Systems /\ t = "Tarife"
  <2>1. MapRow(archive, name, t, m, i) = TariffItem(archive, m, name, i)
    BY <1>4, MapRowIs
  <2> QED BY <2>1, TariffSound
<1>5. CASE name \in Systems /\ t = "GTarife"
  <2>1. MapRow(archive, name, t, m, i) = TariffAssignment(archive, m, name, i)
    BY <1>5, MapRowIs
  <2> QED BY <2>1, AssignmentSound
<1>6. CASE name = "ALLSTAMM" /\ t = "Mitarbeiter"
  <2>1. MapRow(archive, name, t, m, i) = Mitarbeiter(archive, m, i)
    BY <1>6, MapRowIs
  <2> QED BY <1>6, <2>1, UserSound
<1>7. CASE name = "ALLSTAMM" /\ t = "MitDaten"
  <2>1. MapRow(archive, name, t, m, i) = MitDaten(archive, m, i)
    BY <1>7, MapRowIs
  <2>2. t \in {"Mitarbeiter", "MitDaten"} /\ t # "Mitarbeiter"
    BY <1>7
  <2> QED BY <2>1, <2>2, UserSound
<1>8. \/ name \in Systems /\ t \in {"GebStamm", "Tarife", "GTarife"}
      \/ name = "FKSTAMM" /\ t = "FestStoff"
      \/ name = "ALLSTAMM" /\ t \in {"Mitarbeiter", "MitDaten"}
  BY DEF Loops
<1> QED BY <1>1, <1>2, <1>3, <1>4, <1>5, <1>6, <1>7, <1>8 DEF Systems

\* Every loop keeps the maps sound, by induction over its rows.
LEMMA EachSound ==
    ASSUME NEW archive, NEW name, NEW t, <<name, t>> \in Loops, NEW maps, Sound(maps),
           Len(Table(archive, name, t)) \in Nat
    PROVE  Sound(Each(archive, name, t, maps))
<1> DEFINE n == Len(Table(archive, name, t))
<1>loop. PICK after : Iterates(archive, name, t, maps, after)
  BY EachStep
<1>1. /\ after[0] = maps
      /\ \A i \in 1 .. n : after[i] = MapRow(archive, name, t, after[i - 1], i)
      /\ Each(archive, name, t, maps) = after[n]
  BY <1>loop DEF Iterates
<1> DEFINE S == {i \in Nat : i <= n => Sound(after[i])}
<1>2. 0 \in S
  BY <1>1
<1>3. ASSUME NEW i \in Nat, i \in S PROVE i + 1 \in S
  <2>1. SUFFICES ASSUME i + 1 <= n PROVE Sound(after[i + 1])
    OBVIOUS
  <2>2. i <= n /\ i + 1 \in 1 .. n /\ (i + 1) - 1 = i
    BY <2>1
  <2>3. Sound(after[i])
    BY <1>3, <2>2
  <2> QED BY <1>1, <2>2, <2>3, MapRowSound
<1>4. Nat \subseteq S
  <2> HIDE DEF S
  <2> QED BY <1>2, <1>3, SetInduction
<1>5. n \in S /\ n <= n
  BY <1>4
<1> QED BY <1>1, <1>5

LEMMA LoopsAre ==
    /\ \A name \in Systems, t \in {"GebStamm", "Tarife", "GTarife"} : <<name, t>> \in Loops
    /\ <<"FKSTAMM", "FestStoff">> \in Loops
    /\ <<"ALLSTAMM", "Mitarbeiter">> \in Loops /\ <<"ALLSTAMM", "MitDaten">> \in Loops
    /\ "KFDSTAMM" \in Systems /\ "FKSTAMM" \in Systems
  BY DEF Loops, Systems

\* The maps after each loop of an archive are sound.
LEMMA MapsSound ==
    ASSUME NEW a \in Archives
    PROVE  LET archive == ArchiveOf[a]
           IN  /\ Sound(MapKfdBuildings(archive)) /\ Sound(MapBuildings(archive))
               /\ Sound(MapInstallations(archive)) /\ Sound(MapTariffs(archive))
               /\ Sound(Each(archive, "KFDSTAMM", "Tarife", MapInstallations(archive)))
               /\ Sound(Each(archive, "KFDSTAMM", "GTarife", MapTariffs(archive)))
               /\ Sound(MapAssignments(archive))
               /\ Sound(Each(archive, "ALLSTAMM", "Mitarbeiter", MapAssignments(archive)))
               /\ Sound(MapUsers(archive))
<1> DEFINE archive == ArchiveOf[a]
<1>1. \A name, t : Len(Table(archive, name, t)) \in Nat
  BY TableIs
<1> HIDE DEF archive
<1>2. Sound(MapKfdBuildings(archive))
  BY <1>1, NoMapsSound, EachSound, LoopsAre DEF MapKfdBuildings
<1>3. Sound(MapBuildings(archive))
  BY <1>1, <1>2, EachSound, LoopsAre DEF MapBuildings
<1>4. Sound(MapInstallations(archive))
  BY <1>1, <1>3, EachSound, LoopsAre DEF MapInstallations
<1>5. Sound(Each(archive, "KFDSTAMM", "Tarife", MapInstallations(archive)))
  BY <1>1, <1>4, EachSound, LoopsAre
<1>6. Sound(MapTariffs(archive))
  BY <1>1, <1>5, EachSound, LoopsAre DEF MapTariffs
<1>7. Sound(Each(archive, "KFDSTAMM", "GTarife", MapTariffs(archive)))
  BY <1>1, <1>6, EachSound, LoopsAre
<1>8. Sound(MapAssignments(archive))
  BY <1>1, <1>7, EachSound, LoopsAre DEF MapAssignments
<1>9. Sound(Each(archive, "ALLSTAMM", "Mitarbeiter", MapAssignments(archive)))
  BY <1>1, <1>8, EachSound, LoopsAre
<1>10. Sound(MapUsers(archive))
  BY <1>1, <1>9, EachSound, LoopsAre DEF MapUsers
<1> QED BY <1>2, <1>3, <1>4, <1>5, <1>6, <1>7, <1>8, <1>9, <1>10 DEF archive

\* The plan has the drafts of the last maps and a record for every row.
LEMMA PlanOfMaps ==
    ASSUME NEW a \in Archives
    PROVE  LET plan == PlanOf[a]
               maps == MapUsers(ArchiveOf[a])
               keys == ArchiveOf[a].legacyRecords
           IN  /\ plan.users = maps.users /\ plan.customers = maps.customers
               /\ plan.objects = maps.objects /\ plan.installations = maps.installations
               /\ plan.tariffCatalogItems = maps.tariffCatalogItems
               /\ plan.objectTariffAssignments = maps.objectTariffAssignments
               /\ plan.legacyRecords = [i \in DOMAIN keys |-> [key |-> keys[i],
                                             mapped |-> OneOf(Get(maps.mapped, keys[i]))]]
  BY DEF PlanOf, mapGenesisArchive, GenesisImportPlan, annotateLegacyRecords

LEMMA TablesAre ==
    TableSet = {"users", "customers", "objects", "installations", "tariffCatalogItems",
                "objectTariffAssignments"}
  BY DEF TableSet, Tables

\* The drafts of a table of a plan.
LEMMA PlanDrafts ==
    ASSUME NEW a \in Archives, NEW k \in TableSet
    PROVE  AreDrafts(PlanOf[a][k])
<1> DEFINE maps == MapUsers(ArchiveOf[a])
<1>1. DraftsAreSound(maps)
  BY MapsSound DEF Sound
<1>2. /\ PlanOf[a].users = maps.users /\ PlanOf[a].customers = maps.customers
      /\ PlanOf[a].objects = maps.objects /\ PlanOf[a].installations = maps.installations
      /\ PlanOf[a].tariffCatalogItems = maps.tariffCatalogItems
      /\ PlanOf[a].objectTariffAssignments = maps.objectTariffAssignments
  BY PlanOfMaps
<1> HIDE DEF maps
<1> QED BY <1>1, <1>2, TablesAre DEF DraftsAreSound

\* The mapping of any archive: lists of drafts that have their keys once, ids
\* that are the hash of the key, and references that are ids of other drafts
\* of the plan.
THEOREM PlansFit ==
    \A a \in Archives :
        /\ \A k \in TableSet \cup {"legacyRecords"} :
              Len(PlanOf[a][k]) \in Nat /\ DOMAIN PlanOf[a][k] = 1 .. Len(PlanOf[a][k])
        /\ \A k \in TableSet : \A i, j \in DOMAIN PlanOf[a][k] :
              /\ {"sourceKey", "id"} \subseteq DOMAIN PlanOf[a][k][i]
              /\ k = "users" => "email" \in DOMAIN PlanOf[a][k][i]
              /\ PlanOf[a][k][i].sourceKey = PlanOf[a][k][j].sourceKey => i = j
        /\ \A i, j \in DOMAIN PlanOf[a].legacyRecords :
              PlanOf[a].legacyRecords[i].key = PlanOf[a].legacyRecords[j].key => i = j
        /\ \A k \in TableSet, b \in Archives :
              \A i \in DOMAIN PlanOf[a][k], j \in DOMAIN PlanOf[b][k] :
                 PlanOf[a][k][i].sourceKey = PlanOf[b][k][j].sourceKey
                    <=> PlanOf[a][k][i].id = PlanOf[b][k][j].id
        /\ \A k \in TableSet : \A i \in DOMAIN PlanOf[a][k] :
              \A ref \in References(k, PlanOf[a][k][i]) :
                 \E j \in DOMAIN PlanOf[a][ref[1]] : PlanOf[a][ref[1]][j].id = ref[2]
<1> SUFFICES ASSUME NEW a \in Archives
             PROVE  /\ \A k \in TableSet \cup {"legacyRecords"} :
                          Len(PlanOf[a][k]) \in Nat /\ DOMAIN PlanOf[a][k] = 1 .. Len(PlanOf[a][k])
                    /\ \A k \in TableSet : \A i, j \in DOMAIN PlanOf[a][k] :
                          /\ {"sourceKey", "id"} \subseteq DOMAIN PlanOf[a][k][i]
                          /\ k = "users" => "email" \in DOMAIN PlanOf[a][k][i]
                          /\ PlanOf[a][k][i].sourceKey = PlanOf[a][k][j].sourceKey => i = j
                    /\ \A i, j \in DOMAIN PlanOf[a].legacyRecords :
                          PlanOf[a].legacyRecords[i].key = PlanOf[a].legacyRecords[j].key => i = j
                    /\ \A k \in TableSet, b \in Archives :
                          \A i \in DOMAIN PlanOf[a][k], j \in DOMAIN PlanOf[b][k] :
                             PlanOf[a][k][i].sourceKey = PlanOf[b][k][j].sourceKey
                                <=> PlanOf[a][k][i].id = PlanOf[b][k][j].id
                    /\ \A k \in TableSet : \A i \in DOMAIN PlanOf[a][k] :
                          \A ref \in References(k, PlanOf[a][k][i]) :
                             \E j \in DOMAIN PlanOf[a][ref[1]] : PlanOf[a][ref[1]][j].id = ref[2]
  OBVIOUS
<1> DEFINE maps == MapUsers(ArchiveOf[a])
           keys == ArchiveOf[a].legacyRecords
           rs == PlanOf[a].legacyRecords
<1>1. DraftsAreSound(maps) /\ ReferencesAreSound(maps)
  BY MapsSound DEF Sound
<1>2. /\ PlanOf[a].users = maps.users /\ PlanOf[a].customers = maps.customers
      /\ PlanOf[a].objects = maps.objects /\ PlanOf[a].installations = maps.installations
      /\ PlanOf[a].tariffCatalogItems = maps.tariffCatalogItems
      /\ PlanOf[a].objectTariffAssignments = maps.objectTariffAssignments
      /\ rs = [i \in DOMAIN keys |-> [key |-> keys[i], mapped |-> OneOf(Get(maps.mapped, keys[i]))]]
  BY PlanOfMaps
<1>3. IsSequence(keys) /\ Injective(keys)
  BY LegacyRecordsAre
<1> HIDE DEF maps, keys, rs
<1>4. /\ IsSequence(rs) /\ DOMAIN rs = DOMAIN keys
      /\ \A i \in DOMAIN keys : rs[i].key = keys[i]
  <2>1. DOMAIN keys = 1 .. Len(keys) /\ Len(keys) \in Nat
    BY <1>3 DEF IsSequence
  <2>2. rs = [i \in 1 .. Len(keys) |-> rs[i]]
    BY <1>2, <2>1
  <2>3. IsSequence(rs)
    BY <2>1, <2>2, FunctionIs
  <2> QED BY <1>2, <2>3
<1>5. \A i, j \in DOMAIN rs : rs[i].key = rs[j].key => i = j
  BY <1>3, <1>4 DEF Injective
<1>6. \A k \in TableSet : AreDrafts(PlanOf[a][k])
  BY PlanDrafts
<1>7. ASSUME NEW k \in TableSet \cup {"legacyRecords"}
      PROVE  Len(PlanOf[a][k]) \in Nat /\ DOMAIN PlanOf[a][k] = 1 .. Len(PlanOf[a][k])
  <2>1. IsSequence(PlanOf[a][k])
    BY <1>4, <1>6 DEF AreDrafts, rs
  <2> QED BY <2>1 DEF IsSequence
<1>8. ASSUME NEW k \in TableSet, NEW i \in DOMAIN PlanOf[a][k], NEW j \in DOMAIN PlanOf[a][k]
      PROVE  /\ {"sourceKey", "id"} \subseteq DOMAIN PlanOf[a][k][i]
             /\ k = "users" => "email" \in DOMAIN PlanOf[a][k][i]
             /\ PlanOf[a][k][i].sourceKey = PlanOf[a][k][j].sourceKey => i = j
  <2>1. AreDrafts(PlanOf[a][k]) /\ PlanOf[a][k][i] \in ToSet(PlanOf[a][k])
    BY <1>6 DEF ToSet
  <2>2. k = "users" => "email" \in DOMAIN PlanOf[a][k][i]
    BY <1>1, <1>2, <2>1 DEF DraftsAreSound
  <2> QED BY <2>1, <2>2 DEF AreDrafts, Once, IsDraft
<1>9. ASSUME NEW k \in TableSet, NEW b \in Archives,
             NEW i \in DOMAIN PlanOf[a][k], NEW j \in DOMAIN PlanOf[b][k]
      PROVE  PlanOf[a][k][i].sourceKey = PlanOf[b][k][j].sourceKey
                <=> PlanOf[a][k][i].id = PlanOf[b][k][j].id
  <2> DEFINE d == PlanOf[a][k][i]
             e == PlanOf[b][k][j]
  <2>1. d.id = deterministicId(d.sourceKey) /\ e.id = deterministicId(e.sourceKey)
    <3>1. AreDrafts(PlanOf[a][k]) /\ AreDrafts(PlanOf[b][k])
      BY PlanDrafts
    <3> QED BY <3>1 DEF AreDrafts, IsDraft, ToSet
  <2> HIDE DEF d, e
  <2>2. \A x, y : deterministicId(x) = deterministicId(y) => x = y
    BY DEF deterministicId
  <2>3. d.sourceKey = e.sourceKey <=> d.id = e.id
    BY <2>1, <2>2
  <2> QED BY <2>3 DEF d, e
<1>10. ASSUME NEW k \in TableSet, NEW i \in DOMAIN PlanOf[a][k], NEW ref \in References(k, PlanOf[a][k][i])
       PROVE  \E j \in DOMAIN PlanOf[a][ref[1]] : PlanOf[a][ref[1]][j].id = ref[2]
  <2> DEFINE d == PlanOf[a][k][i]
  <2>1. d \in ToSet(PlanOf[a][k])
    BY DEF ToSet
  <2>2. \A ds, x : x \in Ids(ds) => \E j \in DOMAIN ds : ds[j].id = x
    BY DEF Ids, ToSet
  <2> HIDE DEF d
  <2>3. ref \in References(k, d)
    BY <1>10 DEF d
  <2>4. CASE k = "objects"
    <3>1. ref = <<"customers", d.customerId>>
      BY <2>3, <2>4 DEF References
    <3>2. d.customerId \in Ids(PlanOf[a].customers)
      BY <1>1, <1>2, <2>1, <2>4 DEF ReferencesAreSound
    <3> QED BY <2>2, <3>1, <3>2
  <2>5. CASE k = "installations"
    <3>1. ref = <<"objects", d.objectId>>
      BY <2>3, <2>5 DEF References
    <3>2. d.objectId \in Ids(PlanOf[a].objects)
      BY <1>1, <1>2, <2>1, <2>5 DEF ReferencesAreSound
    <3> QED BY <2>2, <3>1, <3>2
  <2>6. CASE k = "objectTariffAssignments"
    <3>1. /\ ref = <<"objects", d.objectId>> \/ ref = <<"tariffCatalogItems", d.tariffCatalogItemId>>
          /\ ref[2] # undefined
      BY <2>3, <2>6 DEF References
    <3>2. /\ d.objectId \in Ids(PlanOf[a].objects) \cup {undefined}
          /\ d.tariffCatalogItemId \in Ids(PlanOf[a].tariffCatalogItems) \cup {undefined}
      BY <1>1, <1>2, <2>1, <2>6 DEF ReferencesAreSound
    <3> QED BY <2>2, <3>1, <3>2
  <2>7. CASE k \notin {"objects", "installations", "objectTariffAssignments"}
    BY <2>3, <2>7 DEF References
  <2> QED BY <2>4, <2>5, <2>6, <2>7
<1> QED BY <1>5, <1>7, <1>8, <1>9, <1>10 DEF rs

-----------------------------------------------------------------------------
(* What a loop leaves alone: each writes maps of its own, and the entities *)
(* of the rows of its own table.                                           *)

BuildingsStay(m, new) ==
    /\ new.customers = m.customers /\ new.objects = m.objects
    /\ new.objectIdByKfdGrundId = m.objectIdByKfdGrundId
    /\ new.objectIdByFkGrundId = m.objectIdByFkGrundId
    /\ new.objectIdByAddressKey = m.objectIdByAddressKey

CatalogStays(m, new) ==
    /\ new.tariffCatalogItems = m.tariffCatalogItems
    /\ new.tariffCatalogIdBySystemCode = m.tariffCatalogIdBySystemCode

EntitiesStay(m, new, name, t) ==
    \A other, u, k : <<other, u>> # <<name, t>> =>
        LET key == RowKey("Daten/", other, u, k)
        IN  /\ key \in DOMAIN new.mapped <=> key \in DOMAIN m.mapped
            /\ key \in DOMAIN m.mapped => new.mapped[key] = m.mapped[key]

Stays(m, new, name, t) ==
    /\ IsMaps(new)
    /\ t # "GebStamm" => BuildingsStay(m, new)
    /\ t # "Tarife" => CatalogStays(m, new)
    /\ t # "FestStoff" => new.installations = m.installations
    /\ t # "GTarife" => new.objectTariffAssignments = m.objectTariffAssignments
    /\ EntitiesStay(m, new, name, t)

\* A row gets its own entity and no other row's is changed.
LEMMA MappedStays ==
    ASSUME NEW m, NEW new, NEW name, NEW t, NEW i, NEW type, NEW id,
           new.mapped = Mapped(m, name, t, i, type, id)
    PROVE  EntitiesStay(m, new, name, t)
<1> SUFFICES ASSUME NEW other, NEW u, NEW k, <<other, u>> # <<name, t>>
             PROVE  LET key == RowKey("Daten/", other, u, k)
                    IN  /\ key \in DOMAIN new.mapped <=> key \in DOMAIN m.mapped
                        /\ key \in DOMAIN m.mapped => new.mapped[key] = m.mapped[key]
  BY DEF EntitiesStay
<1> DEFINE key == RowKey("Daten/", other, u, k)
           own == RowKey("Daten/", name, t, i)
           value == [type |-> type, id |-> id]
<1>1. key # own
  BY DEF RowKey
<1>2. new.mapped = Set(m.mapped, own, value)
  BY DEF Mapped
<1> HIDE DEF key, own, value
<1>3. /\ key \in DOMAIN new.mapped <=> key \in DOMAIN m.mapped
      /\ key \in DOMAIN m.mapped => new.mapped[key] = m.mapped[key]
  <2>1. /\ DOMAIN Set(m.mapped, own, value) = DOMAIN m.mapped \cup {own}
        /\ \A l \in DOMAIN m.mapped : l # own => Set(m.mapped, own, value)[l] = m.mapped[l]
    BY DEF Set
  <2> QED BY <1>1, <1>2, <2>1
<1> QED BY <1>3 DEF key

\* The body of a loop writes the maps of its own table alone.
LEMMA MapRowStays ==
    ASSUME NEW archive, NEW name, NEW t, <<name, t>> \in Loops, NEW m, IsMaps(m), NEW i
    PROVE  Stays(m, MapRow(archive, name, t, m, i), name, t)
<1> DEFINE new == MapRow(archive, name, t, m, i)
<1>0. \A type, id : new.mapped = Mapped(m, name, t, i, type, id) => EntitiesStay(m, new, name, t)
  BY MappedStays
<1>9. EntitiesStay(m, m, name, t)
  BY DEF EntitiesStay
<1>1. CASE name = "KFDSTAMM" /\ t = "GebStamm"
  <2>1. new = KfdBuilding(archive, m, i)
    BY <1>1, MapRowIs
  <2> HIDE DEF new
  <2> QED BY <1>0, <1>1, <2>1, KfdEffect DEF Stays, BuildingsStay, CatalogStays, new
<1>2. CASE name = "FKSTAMM" /\ t = "GebStamm"
  <2> DEFINE existing == ExistingObject(m, FkRow(archive, i))
  <2>1. new = IF existing = {} THEN NewFkBuilding(m, FkRow(archive, i), i)
              ELSE KnownFkBuilding(m, FkRow(archive, i), i, OneOf(existing))
    BY <1>2, MapRowIs DEF FkBuilding, FkRow
  <2> HIDE DEF new, existing
  <2>2. CASE new = NewFkBuilding(m, FkRow(archive, i), i)
    BY <1>0, <1>2, <2>2, NewFkEffect DEF Stays, BuildingsStay, CatalogStays, new
  <2>3. CASE new = KnownFkBuilding(m, FkRow(archive, i), i, OneOf(existing))
    BY <1>0, <1>2, <2>3, KnownFkEffect DEF Stays, BuildingsStay, CatalogStays, new
  <2> QED BY <2>1, <2>2, <2>3
<1>3. CASE name = "FKSTAMM" /\ t = "FestStoff"
  <2> DEFINE found == ObjectOfInstallation(archive, m, FestRow(archive, i))
  <2>1. new = Installation(archive, m, i)
    BY <1>3, MapRowIs
  <2>2. CASE found = {}
    <3>1. new = m
      BY <2>1, <2>2 DEF Installation, FestRow
    <3> QED BY <1>9, <3>1 DEF Stays, BuildingsStay, CatalogStays
  <2>3. CASE found # {}
    <3> HIDE DEF new
    <3> QED BY <1>0, <1>3, <2>1, <2>3, InstallationEffect DEF Stays, BuildingsStay, CatalogStays, new
  <2> QED BY <2>2, <2>3
<1>4. CASE name \in Systems /\ t = "Tarife"
  <2>1. new = TariffItem(archive, m, name, i)
    BY <1>4, MapRowIs
  <2> HIDE DEF new
  <2> QED BY <1>0, <1>4, <2>1, TariffEffect DEF Stays, BuildingsStay, CatalogStays, new
<1>5. CASE name \in Systems /\ t = "GTarife"
  <2>1. new = TariffAssignment(archive, m, name, i)
    BY <1>5, MapRowIs
  <2> HIDE DEF new
  <2> QED BY <1>0, <1>5, <2>1, AssignmentEffect DEF Stays, BuildingsStay, CatalogStays, new
<1>6. CASE name = "ALLSTAMM" /\ t \in {"Mitarbeiter", "MitDaten"}
  <2>1. new = IF t = "Mitarbeiter" THEN Mitarbeiter(archive, m, i) ELSE MitDaten(archive, m, i)
    BY <1>6, MapRowIs
  <2> HIDE DEF new
  <2>2. /\ IsMaps(new)
        /\ \E id : new.mapped = Mapped(m, "ALLSTAMM", t, i, "user", id)
        /\ BuildingsStay(m, new) /\ CatalogStays(m, new)
        /\ new.installations = m.installations
        /\ new.objectTariffAssignments = m.objectTariffAssignments
    BY <1>6, <2>1, UserEffect DEF BuildingsStay, CatalogStays
  <2>3. EntitiesStay(m, new, name, t)
    BY <1>0, <1>6, <2>2 DEF new
  <2> QED BY <2>2, <2>3 DEF Stays, new
<1>7. \/ name \in Systems /\ t \in {"GebStamm", "Tarife", "GTarife"}
      \/ name = "FKSTAMM" /\ t = "FestStoff"
      \/ name = "ALLSTAMM" /\ t \in {"Mitarbeiter", "MitDaten"}
  BY DEF Loops
<1> QED BY <1>1, <1>2, <1>3, <1>4, <1>5, <1>6, <1>7 DEF Systems

LEMMA StaysOn ==
    ASSUME NEW m, NEW between, NEW new, NEW name, NEW t,
           Stays(m, between, name, t), Stays(between, new, name, t)
    PROVE  Stays(m, new, name, t)
<1>1. EntitiesStay(m, new, name, t)
  BY DEF Stays, EntitiesStay
<1> QED BY <1>1 DEF Stays, BuildingsStay, CatalogStays

\* A loop leaves alone what its rows leave alone, by induction over them.
LEMMA EachStays ==
    ASSUME NEW archive, NEW name, NEW t, <<name, t>> \in Loops, NEW maps, IsMaps(maps),
           Len(Table(archive, name, t)) \in Nat
    PROVE  Stays(maps, Each(archive, name, t, maps), name, t)
<1> DEFINE n == Len(Table(archive, name, t))
<1>loop. PICK after : Iterates(archive, name, t, maps, after)
  BY EachStep
<1>1. /\ after[0] = maps
      /\ \A i \in 1 .. n : after[i] = MapRow(archive, name, t, after[i - 1], i)
      /\ Each(archive, name, t, maps) = after[n]
  BY <1>loop DEF Iterates
<1> DEFINE S == {i \in Nat : i <= n => Stays(maps, after[i], name, t)}
<1>2. 0 \in S
  <2>1. Stays(maps, maps, name, t)
    BY DEF Stays, BuildingsStay, CatalogStays, EntitiesStay
  <2> QED BY <1>1, <2>1
<1>3. ASSUME NEW i \in Nat, i \in S PROVE i + 1 \in S
  <2>1. SUFFICES ASSUME i + 1 <= n PROVE Stays(maps, after[i + 1], name, t)
    OBVIOUS
  <2>2. i <= n /\ i + 1 \in 1 .. n /\ (i + 1) - 1 = i
    BY <2>1
  <2>3. Stays(maps, after[i], name, t)
    BY <1>3, <2>2
  <2>4. after[i + 1] = MapRow(archive, name, t, after[i], i + 1)
    BY <1>1, <2>2
  <2>5. Stays(after[i], after[i + 1], name, t)
    <3>1. IsMaps(after[i])
      BY <2>3 DEF Stays
    <3> QED BY <2>4, <3>1, MapRowStays
  <2> QED BY <2>3, <2>5, StaysOn
<1>4. Nat \subseteq S
  <2> HIDE DEF S
  <2> QED BY <1>2, <1>3, SetInduction
<1>5. n \in S /\ n <= n
  BY <1>4
<1> QED BY <1>1, <1>5

\* The maps between the two loops over a kind of table.
FirstTariffs(archive) == Each(archive, "KFDSTAMM", "Tarife", MapInstallations(archive))
FirstAssignments(archive) == Each(archive, "KFDSTAMM", "GTarife", MapTariffs(archive))
FirstUsers(archive) == Each(archive, "ALLSTAMM", "Mitarbeiter", MapAssignments(archive))

\* The entities of the rows of a table are there, and stay.
KeptFor(m, new, name, t) ==
    \A k : LET key == RowKey("Daten/", name, t, k)
           IN  key \in DOMAIN m.mapped => key \in DOMAIN new.mapped /\ new.mapped[key] = m.mapped[key]

LEMMA StaysKept ==
    ASSUME NEW m, NEW new, NEW name, NEW t, Stays(m, new, name, t)
    PROVE  \A other, u : <<other, u>> # <<name, t>> => KeptFor(m, new, other, u)
  BY DEF Stays, EntitiesStay, KeptFor

LEMMA KeptOn ==
    ASSUME NEW m, NEW between, NEW new, NEW name, NEW t,
           KeptFor(m, between, name, t), KeptFor(between, new, name, t)
    PROVE  KeptFor(m, new, name, t)
  BY DEF KeptFor

\* What each of the nine loops leaves alone.
LEMMA LoopsStay ==
    ASSUME NEW a \in Archives
    PROVE  LET archive == ArchiveOf[a]
           IN  /\ Stays(NoMaps, MapKfdBuildings(archive), "KFDSTAMM", "GebStamm")
               /\ Stays(MapKfdBuildings(archive), MapBuildings(archive), "FKSTAMM", "GebStamm")
               /\ Stays(MapBuildings(archive), MapInstallations(archive), "FKSTAMM", "FestStoff")
               /\ Stays(MapInstallations(archive), FirstTariffs(archive), "KFDSTAMM", "Tarife")
               /\ Stays(FirstTariffs(archive), MapTariffs(archive), "FKSTAMM", "Tarife")
               /\ Stays(MapTariffs(archive), FirstAssignments(archive), "KFDSTAMM", "GTarife")
               /\ Stays(FirstAssignments(archive), MapAssignments(archive), "FKSTAMM", "GTarife")
               /\ Stays(MapAssignments(archive), FirstUsers(archive), "ALLSTAMM", "Mitarbeiter")
               /\ Stays(FirstUsers(archive), MapUsers(archive), "ALLSTAMM", "MitDaten")
<1> DEFINE archive == ArchiveOf[a]
<1>1. \A name, t : Len(Table(archive, name, t)) \in Nat
  BY TableIs
<1>2. \A name, t, m : <<name, t>> \in Loops /\ IsMaps(m) => Stays(m, Each(archive, name, t, m), name, t)
  <2> HIDE DEF archive
  <2> QED BY <1>1, EachStays
<1>3. /\ IsMaps(MapKfdBuildings(archive)) /\ IsMaps(MapBuildings(archive))
      /\ IsMaps(MapInstallations(archive)) /\ IsMaps(FirstTariffs(archive))
      /\ IsMaps(MapTariffs(archive)) /\ IsMaps(FirstAssignments(archive))
      /\ IsMaps(MapAssignments(archive)) /\ IsMaps(FirstUsers(archive))
  BY MapsSound DEF Sound, FirstTariffs, FirstAssignments, FirstUsers
<1>4. IsMaps(NoMaps)
  BY NoMapsSound DEF Sound
<1> HIDE DEF archive
<1>5. /\ Stays(NoMaps, MapKfdBuildings(archive), "KFDSTAMM", "GebStamm")
      /\ Stays(MapKfdBuildings(archive), MapBuildings(archive), "FKSTAMM", "GebStamm")
      /\ Stays(MapBuildings(archive), MapInstallations(archive), "FKSTAMM", "FestStoff")
  BY <1>2, <1>3, <1>4, LoopsAre DEF MapKfdBuildings, MapBuildings, MapInstallations
<1>6. /\ Stays(MapInstallations(archive), FirstTariffs(archive), "KFDSTAMM", "Tarife")
      /\ Stays(FirstTariffs(archive), MapTariffs(archive), "FKSTAMM", "Tarife")
      /\ Stays(MapTariffs(archive), FirstAssignments(archive), "KFDSTAMM", "GTarife")
  BY <1>2, <1>3, LoopsAre DEF FirstTariffs, MapTariffs, FirstAssignments
<1>7. /\ Stays(FirstAssignments(archive), MapAssignments(archive), "FKSTAMM", "GTarife")
      /\ Stays(MapAssignments(archive), FirstUsers(archive), "ALLSTAMM", "Mitarbeiter")
      /\ Stays(FirstUsers(archive), MapUsers(archive), "ALLSTAMM", "MitDaten")
  BY <1>2, <1>3, LoopsAre DEF FirstAssignments, MapAssignments, FirstUsers, MapUsers
<1> QED BY <1>5, <1>6, <1>7 DEF archive

\* What the plan has of each loop.
LEMMA LoopsRemain ==
    ASSUME NEW a \in Archives
    PROVE  LET archive == ArchiveOf[a]
               plan == MapUsers(archive)
           IN  /\ BuildingsStay(MapBuildings(archive), MapInstallations(archive))
               /\ BuildingsStay(MapBuildings(archive), MapTariffs(archive))
               /\ BuildingsStay(MapBuildings(archive), plan)
               /\ CatalogStays(NoMaps, MapInstallations(archive))
               /\ NoMaps.installations = MapBuildings(archive).installations
               /\ plan.installations = MapInstallations(archive).installations
               /\ plan.objectTariffAssignments = MapAssignments(archive).objectTariffAssignments
               /\ KeptFor(MapKfdBuildings(archive), plan, "KFDSTAMM", "GebStamm")
               /\ KeptFor(MapBuildings(archive), plan, "FKSTAMM", "GebStamm")
               /\ KeptFor(FirstTariffs(archive), plan, "KFDSTAMM", "Tarife")
               /\ KeptFor(MapTariffs(archive), plan, "FKSTAMM", "Tarife")
               /\ KeptFor(FirstAssignments(archive), plan, "KFDSTAMM", "GTarife")
               /\ KeptFor(MapAssignments(archive), plan, "FKSTAMM", "GTarife")
<1> DEFINE archive == ArchiveOf[a]
           K == MapKfdBuildings(archive)
           F == MapBuildings(archive)
           I == MapInstallations(archive)
           V == FirstTariffs(archive)
           T == MapTariffs(archive)
           B == FirstAssignments(archive)
           A == MapAssignments(archive)
           W == FirstUsers(archive)
           U == MapUsers(archive)
<1>1. /\ Stays(NoMaps, K, "KFDSTAMM", "GebStamm") /\ Stays(K, F, "FKSTAMM", "GebStamm")
      /\ Stays(F, I, "FKSTAMM", "FestStoff") /\ Stays(I, V, "KFDSTAMM", "Tarife")
      /\ Stays(V, T, "FKSTAMM", "Tarife") /\ Stays(T, B, "KFDSTAMM", "GTarife")
      /\ Stays(B, A, "FKSTAMM", "GTarife") /\ Stays(A, W, "ALLSTAMM", "Mitarbeiter")
      /\ Stays(W, U, "ALLSTAMM", "MitDaten")
  BY LoopsStay
<1> HIDE DEF archive, K, F, I, V, T, B, A, W, U
<1>2. BuildingsStay(F, I) /\ BuildingsStay(F, T) /\ BuildingsStay(F, U)
  BY <1>1 DEF Stays, BuildingsStay
<1>3. CatalogStays(NoMaps, I)
  BY <1>1 DEF Stays, CatalogStays
<1>4. /\ NoMaps.installations = F.installations /\ U.installations = I.installations
      /\ U.objectTariffAssignments = A.objectTariffAssignments
  BY <1>1 DEF Stays
<1>5. \A name, t, x, y, other, u : Stays(x, y, other, u) /\ <<name, t>> # <<other, u>> => KeptFor(x, y, name, t)
  BY StaysKept
<1>6. \A name, t : t \in {"GebStamm", "Tarife", "GTarife"} => KeptFor(A, W, name, t) /\ KeptFor(W, U, name, t)
  BY <1>1, <1>5
<1>7. \A name, t : t \in {"GebStamm", "Tarife"} => KeptFor(T, B, name, t) /\ KeptFor(B, A, name, t)
  BY <1>1, <1>5
<1>8. \A name : KeptFor(F, I, name, "GebStamm") /\ KeptFor(I, V, name, "GebStamm") /\ KeptFor(V, T, name, "GebStamm")
  BY <1>1, <1>5
<1>9. /\ KeptFor(K, F, "KFDSTAMM", "GebStamm") /\ KeptFor(V, T, "KFDSTAMM", "Tarife")
      /\ KeptFor(B, A, "KFDSTAMM", "GTarife")
  BY <1>1, <1>5
<1>10. \A name, t : t \in {"GebStamm", "Tarife", "GTarife"} => KeptFor(A, U, name, t)
  BY <1>6, KeptOn
<1>11. \A name, t : t \in {"GebStamm", "Tarife"} => KeptFor(T, U, name, t)
  <2>1. \A name, t : t \in {"GebStamm", "Tarife"} => KeptFor(T, A, name, t)
    BY <1>7, KeptOn
  <2> QED BY <1>10, <2>1, KeptOn
<1>12. \A name : KeptFor(F, U, name, "GebStamm")
  <2>1. \A name : KeptFor(F, V, name, "GebStamm")
    BY <1>8, KeptOn
  <2>2. \A name : KeptFor(F, T, name, "GebStamm")
    BY <1>8, <2>1, KeptOn
  <2> QED BY <1>11, <2>2, KeptOn
<1>13. /\ KeptFor(K, U, "KFDSTAMM", "GebStamm") /\ KeptFor(V, U, "KFDSTAMM", "Tarife")
       /\ KeptFor(B, U, "KFDSTAMM", "GTarife")
  BY <1>9, <1>10, <1>11, <1>12, KeptOn
<1> QED BY <1>2, <1>3, <1>4, <1>10, <1>11, <1>12, <1>13 DEF archive, K, F, I, V, T, B, A, W, U

\* The entity of a row in the plan.
Entity(a, name, t, i) == MapUsers(ArchiveOf[a]).mapped[RowKey("Daten/", name, t, i)]

RecordOf(rs, key) == rs[CHOOSE k \in DOMAIN rs : rs[k].key = key].mapped

\* The legacy record of a row names the entity that the maps have of it.
LEMMA EntityIs ==
    ASSUME NEW a \in Archives, NEW name, NEW t, NEW i \in DOMAIN Table(ArchiveOf[a], name, t),
           RowKey("Daten/", name, t, i) \in DOMAIN MapUsers(ArchiveOf[a]).mapped
    PROVE  RecordOf(PlanOf[a].legacyRecords, RowKey("Daten/", name, t, i)) = Entity(a, name, t, i)
<1> DEFINE keys == ArchiveOf[a].legacyRecords
           rs == PlanOf[a].legacyRecords
           key == RowKey("Daten/", name, t, i)
           found == MapUsers(ArchiveOf[a]).mapped
           k == CHOOSE k \in DOMAIN rs : rs[k].key = key
<1>1. rs = [j \in DOMAIN keys |-> [key |-> keys[j], mapped |-> OneOf(Get(found, keys[j]))]]
  BY PlanOfMaps
<1>2. key \in ToSet(keys)
  <2>1. \A e \in DOMAIN EntriesOf[a] : EntriesOf[a][e].mdb => EntriesOf[a][e].folder = "Daten/"
    BY FolderAssumption
  <2> QED BY <2>1, TableIs
<1> HIDE DEF rs, keys, key, found
<1>3. \E j \in DOMAIN rs : rs[j].key = key
  BY <1>1, <1>2 DEF ToSet
<1>4. k \in DOMAIN rs /\ rs[k].key = key
  BY <1>3
<1> HIDE DEF k
<1>5. rs[k].mapped = OneOf(Get(found, key))
  BY <1>1, <1>4
<1>6. OneOf(Get(found, key)) = found[key]
  <2>1. key \in DOMAIN found
    BY DEF key, found
  <2>2. Get(found, key) = {found[key]}
    BY <2>1 DEF Get
  <2>3. OneOf(Get(found, key)) \in Get(found, key)
    BY <2>2, OneOfIs
  <2> QED BY <2>2, <2>3
<1> QED BY <1>5, <1>6 DEF rs, key, found, k, Entity, RecordOf

-----------------------------------------------------------------------------
(* The buildings of the first system.                                      *)

KfdKey(archive, i) == sourceKeyFromParts("object:kfd", KfdKeyParts(KfdRow(archive, i)))
KfdCustomerKey(archive, i) == sourceKeyFromParts("customer:kfd", KfdKeyParts(KfdRow(archive, i)))

\* What the keys say: the customer's goes with the object's, and the number
\* alone decides if there is one.
LEMMA KfdKeys ==
    ASSUME NEW archive, NEW i
    PROVE  /\ KfdObject(archive, i).sourceKey = KfdKey(archive, i)
           /\ KfdObject(archive, i).id = deterministicId(KfdKey(archive, i))
           /\ IsDraft(KfdObject(archive, i)) /\ IsDraft(KfdCustomer(archive, i))
           /\ KfdObject(archive, i).customerId = deterministicId(KfdCustomerKey(archive, i))
           /\ KfdCustomer(archive, i).sourceKey = KfdCustomerKey(archive, i)
           /\ KfdCustomer(archive, i).id = deterministicId(KfdCustomerKey(archive, i))
           /\ KfdKey(archive, i).prefix = "object:kfd"
           /\ KfdCustomerKey(archive, i).prefix = "customer:kfd"
           /\ \A k : KfdKey(archive, k) = KfdKey(archive, i)
                        <=> KfdCustomerKey(archive, k) = KfdCustomerKey(archive, i)
           /\ \A k : KfdNumber(archive, i) # undefined /\ KfdNumber(archive, k) = KfdNumber(archive, i)
                        => KfdKey(archive, k) = KfdKey(archive, i)
<1>1. /\ KfdCustomer(archive, i).sourceKey = KfdCustomerKey(archive, i)
      /\ KfdCustomer(archive, i).id = deterministicId(KfdCustomerKey(archive, i))
      /\ IsDraft(KfdCustomer(archive, i))
  BY CustomerIsDraft DEF KfdCustomer, KfdCustomerKey
<1>2. /\ KfdObject(archive, i).sourceKey = KfdKey(archive, i)
      /\ KfdObject(archive, i).id = deterministicId(KfdKey(archive, i))
      /\ IsDraft(KfdObject(archive, i))
      /\ KfdObject(archive, i).customerId = KfdCustomer(archive, i).id
  BY ObjectIsDraft DEF KfdObject, KfdKey
<1>3. /\ KfdKey(archive, i).prefix = "object:kfd"
      /\ KfdCustomerKey(archive, i).prefix = "customer:kfd"
  BY DEF KfdKey, KfdCustomerKey, sourceKeyFromParts
<1>4. ASSUME NEW k
      PROVE  KfdKey(archive, k) = KfdKey(archive, i)
                <=> KfdCustomerKey(archive, k) = KfdCustomerKey(archive, i)
  BY DEF KfdKey, KfdCustomerKey, sourceKeyFromParts
<1>5. ASSUME NEW k, KfdNumber(archive, i) # undefined, KfdNumber(archive, k) = KfdNumber(archive, i)
      PROVE  KfdKey(archive, k) = KfdKey(archive, i)
  <2>1. KfdKeyParts(KfdRow(archive, i)) = <<KfdNumber(archive, i)>>
    BY <1>5 DEF KfdKeyParts, KfdNumber, ??
  <2>2. KfdKeyParts(KfdRow(archive, k)) = <<KfdNumber(archive, i)>>
    BY <1>5 DEF KfdKeyParts, KfdNumber, ??
  <2> QED BY <2>1, <2>2 DEF KfdKey
<1> QED BY <1>1, <1>2, <1>3, <1>4, <1>5

KfdEntity(i) == RowKey("Daten/", "KFDSTAMM", "GebStamm", i)

\* What the maps say of the first n buildings: which object each row has
\* become, what the indexes find, and where the drafts come from.
KfdMapped(archive, m, n) ==
    /\ \A i \in 1 .. n : /\ KfdEntity(i) \in DOMAIN m.mapped
                         /\ m.mapped[KfdEntity(i)].id = KfdObject(archive, i).id
                         /\ KfdObject(archive, i).id \in Ids(m.objects)
    /\ \A g \in DOMAIN m.objectIdByKfdGrundId : \E i \in 1 .. n : KfdNumber(archive, i) = g
    /\ \A i \in 1 .. n : KfdNumber(archive, i) # undefined =>
          /\ KfdNumber(archive, i) \in DOMAIN m.objectIdByKfdGrundId
          /\ m.objectIdByKfdGrundId[KfdNumber(archive, i)] = KfdObject(archive, i).id
    /\ \A i \in 1 .. n : KfdAddress(archive, i) \in DOMAIN m.objectIdByAddressKey
    /\ \A x \in DOMAIN m.objectIdByAddressKey : \E i \in 1 .. n :
          KfdAddress(archive, i) = x /\ m.objectIdByAddressKey[x] = KfdObject(archive, i).id
    /\ \A d \in ToSet(m.objects) : \E i \in 1 .. n : d = KfdObject(archive, i)
    /\ \A d \in ToSet(m.customers) : \E i \in 1 .. n : d = KfdCustomer(archive, i)
    /\ DOMAIN m.objectIdByFkGrundId = {}

\* One more building of the first system.
LEMMA KfdRowMapped ==
    ASSUME NEW archive, NEW m, Sound(m), NEW n \in Nat, KfdMapped(archive, m, n)
    PROVE  KfdMapped(archive, KfdBuilding(archive, m, n + 1), n + 1)
<1> DEFINE i == n + 1
           new == KfdBuilding(archive, m, i)
           o == KfdObject(archive, i)
           c == KfdCustomer(archive, i)
           key == KfdEntity(i)
           g == KfdNumber(archive, i)
           x == KfdAddress(archive, i)
<1>1. /\ IsMaps(m) /\ AreDrafts(m.objects) /\ AreDrafts(m.customers)
  BY DEF Sound, DraftsAreSound
<1>2. /\ new.customers = SetDraft(m.customers, c)
      /\ new.objects = SetDraft(m.objects, o)
      /\ new.mapped = Set(m.mapped, key, [type |-> "object", id |-> o.id])
      /\ new.objectIdByAddressKey = Set(m.objectIdByAddressKey, x, o.id)
      /\ new.objectIdByKfdGrundId = SetIf(m.objectIdByKfdGrundId, g, o.id)
      /\ new.objectIdByFkGrundId = m.objectIdByFkGrundId
  BY <1>1, KfdEffect DEF Mapped, KfdEntity
<1>3. IsDraft(o) /\ IsDraft(c) /\ \A k : g # undefined /\ KfdNumber(archive, k) = g => KfdObject(archive, k).id = o.id
  <2>1. \A k : g # undefined /\ KfdNumber(archive, k) = g => KfdKey(archive, k) = KfdKey(archive, i)
    BY KfdKeys
  <2>2. \A k : KfdObject(archive, k).id = deterministicId(KfdKey(archive, k))
    BY KfdKeys
  <2>3. IsDraft(o) /\ IsDraft(c)
    BY KfdKeys
  <2> QED BY <2>1, <2>2, <2>3
<1>4. \A k \in 1 .. n : KfdEntity(k) # key
  BY DEF KfdEntity, RowKey
<1>5. i \in 1 .. i /\ 1 .. i = 1 .. n \cup {i} /\ 1 .. n \subseteq 1 .. i
  OBVIOUS
<1> HIDE DEF i, new, o, c, key, g, x
<1>6. Ids(new.objects) = Ids(m.objects) \cup {o.id}
  BY <1>1, <1>2, <1>3, SetDraftKeeps
<1>7. /\ ToSet(new.objects) \subseteq ToSet(m.objects) \cup {o}
      /\ ToSet(new.customers) \subseteq ToSet(m.customers) \cup {c}
  BY <1>1, <1>2, SetDraftIs DEF AreDrafts
<1>8. ASSUME NEW k \in 1 .. i
      PROVE  /\ KfdEntity(k) \in DOMAIN new.mapped
             /\ new.mapped[KfdEntity(k)].id = KfdObject(archive, k).id
             /\ KfdObject(archive, k).id \in Ids(new.objects)
  <2>1. /\ DOMAIN new.mapped = DOMAIN m.mapped \cup {key}
        /\ new.mapped[key].id = o.id
        /\ \A l \in DOMAIN m.mapped : l # key => new.mapped[l] = m.mapped[l]
    BY <1>2 DEF Set
  <2>2. CASE k = i
    BY <1>6, <2>1, <2>2 DEF key, o
  <2>3. CASE k \in 1 .. n
    BY <1>4, <1>6, <2>1, <2>3 DEF KfdMapped
  <2> QED BY <1>5, <2>2, <2>3
<1>9. /\ \A h \in DOMAIN new.objectIdByKfdGrundId : \E k \in 1 .. i : KfdNumber(archive, k) = h
      /\ \A k \in 1 .. i : KfdNumber(archive, k) # undefined =>
            /\ KfdNumber(archive, k) \in DOMAIN new.objectIdByKfdGrundId
            /\ new.objectIdByKfdGrundId[KfdNumber(archive, k)] = KfdObject(archive, k).id
  <2>1. CASE g = undefined
    <3>1. new.objectIdByKfdGrundId = m.objectIdByKfdGrundId
      BY <1>2, <2>1, SetIfIs
    <3>2. \A k \in 1 .. i : KfdNumber(archive, k) # undefined => k \in 1 .. n
      BY <1>5, <2>1 DEF g
    <3>3. \A h \in DOMAIN new.objectIdByKfdGrundId : \E k \in 1 .. i : KfdNumber(archive, k) = h
      BY <1>5, <3>1 DEF KfdMapped
    <3> QED BY <3>1, <3>2, <3>3 DEF KfdMapped
  <2>2. CASE g # undefined
    <3>1. /\ DOMAIN new.objectIdByKfdGrundId = DOMAIN m.objectIdByKfdGrundId \cup {g}
          /\ new.objectIdByKfdGrundId[g] = o.id
          /\ \A h \in DOMAIN m.objectIdByKfdGrundId :
                h # g => new.objectIdByKfdGrundId[h] = m.objectIdByKfdGrundId[h]
      BY <1>2, <2>2 DEF SetIf, Set
    <3>2. \A h \in DOMAIN new.objectIdByKfdGrundId : \E k \in 1 .. i : KfdNumber(archive, k) = h
      BY <1>5, <3>1 DEF KfdMapped, g
    <3>3. ASSUME NEW k \in 1 .. i, KfdNumber(archive, k) # undefined
          PROVE  /\ KfdNumber(archive, k) \in DOMAIN new.objectIdByKfdGrundId
                 /\ new.objectIdByKfdGrundId[KfdNumber(archive, k)] = KfdObject(archive, k).id
      <4>1. CASE KfdNumber(archive, k) = g
        BY <1>3, <2>2, <3>1, <4>1
      <4>2. CASE KfdNumber(archive, k) # g
        <5>1. k \in 1 .. n
          BY <1>5, <4>2 DEF g
        <5> QED BY <3>1, <3>3, <4>2, <5>1 DEF KfdMapped
      <4> QED BY <4>1, <4>2
    <3> QED BY <3>2, <3>3
  <2> QED BY <2>1, <2>2
<1>10. /\ \A k \in 1 .. i : KfdAddress(archive, k) \in DOMAIN new.objectIdByAddressKey
       /\ \A y \in DOMAIN new.objectIdByAddressKey : \E k \in 1 .. i :
             KfdAddress(archive, k) = y /\ new.objectIdByAddressKey[y] = KfdObject(archive, k).id
  <2>1. /\ DOMAIN new.objectIdByAddressKey = DOMAIN m.objectIdByAddressKey \cup {x}
        /\ new.objectIdByAddressKey[x] = o.id
        /\ \A y \in DOMAIN m.objectIdByAddressKey :
              y # x => new.objectIdByAddressKey[y] = m.objectIdByAddressKey[y]
    BY <1>2 DEF Set
  <2>2. \A k \in 1 .. i : KfdAddress(archive, k) \in DOMAIN new.objectIdByAddressKey
    BY <1>5, <2>1 DEF KfdMapped, x
  <2>3. ASSUME NEW y \in DOMAIN new.objectIdByAddressKey
        PROVE  \E k \in 1 .. i :
                  KfdAddress(archive, k) = y /\ new.objectIdByAddressKey[y] = KfdObject(archive, k).id
    <3>1. CASE y = x
      BY <1>5, <2>1, <3>1 DEF x, o
    <3>2. CASE y # x
      <4>1. y \in DOMAIN m.objectIdByAddressKey /\ new.objectIdByAddressKey[y] = m.objectIdByAddressKey[y]
        BY <2>1, <3>2
      <4> QED BY <1>5, <4>1 DEF KfdMapped
    <3> QED BY <3>1, <3>2
  <2> QED BY <2>2, <2>3
<1>11. /\ \A d \in ToSet(new.objects) : \E k \in 1 .. i : d = KfdObject(archive, k)
       /\ \A d \in ToSet(new.customers) : \E k \in 1 .. i : d = KfdCustomer(archive, k)
  BY <1>5, <1>7 DEF KfdMapped, o, c
<1>12. DOMAIN new.objectIdByFkGrundId = {}
  BY <1>2 DEF KfdMapped
<1> QED BY <1>8, <1>9, <1>10, <1>11, <1>12 DEF KfdMapped, i, new

\* All of them, by induction over the rows.
LEMMA KfdLoop ==
    ASSUME NEW a \in Archives
    PROVE  LET archive == ArchiveOf[a]
           IN  KfdMapped(archive, MapKfdBuildings(archive), Len(Table(archive, "KFDSTAMM", "GebStamm")))
<1> DEFINE archive == ArchiveOf[a]
           n == Len(Table(archive, "KFDSTAMM", "GebStamm"))
<1>0. n \in Nat
  BY TableIs
<1> HIDE DEF archive
<1>loop. PICK after : Iterates(archive, "KFDSTAMM", "GebStamm", NoMaps, after)
  BY <1>0, EachStep
<1>1. /\ after[0] = NoMaps
      /\ \A i \in 1 .. n : after[i] = MapRow(archive, "KFDSTAMM", "GebStamm", after[i - 1], i)
      /\ MapKfdBuildings(archive) = after[n]
  BY <1>0, <1>loop DEF Iterates, MapKfdBuildings
<1> DEFINE S == {i \in Nat : i <= n => Sound(after[i]) /\ KfdMapped(archive, after[i], i)}
<1> HIDE DEF n
<1>2. 0 \in S
  <2>1. /\ NoMaps.customers = << >> /\ NoMaps.objects = << >>
        /\ NoMaps.objectIdByKfdGrundId = << >> /\ NoMaps.objectIdByFkGrundId = << >>
        /\ NoMaps.objectIdByAddressKey = << >>
    BY DEF NoMaps
  <2>2. KfdMapped(archive, NoMaps, 0)
    BY <2>1 DEF KfdMapped, ToSet
  <2> QED BY <1>1, <2>2, NoMapsSound
<1>3. ASSUME NEW i \in Nat, i \in S PROVE i + 1 \in S
  <2>1. SUFFICES ASSUME i + 1 <= n PROVE Sound(after[i + 1]) /\ KfdMapped(archive, after[i + 1], i + 1)
    OBVIOUS
  <2>2. i <= n /\ i + 1 \in 1 .. n /\ (i + 1) - 1 = i
    BY <1>0, <2>1
  <2>3. Sound(after[i]) /\ KfdMapped(archive, after[i], i)
    BY <1>3, <2>2
  <2>4. after[i + 1] = KfdBuilding(archive, after[i], i + 1)
    BY <1>1, <2>2, MapRowIs
  <2> QED BY <2>3, <2>4, KfdSound, KfdRowMapped
<1>4. Nat \subseteq S
  <2> HIDE DEF S
  <2> QED BY <1>2, <1>3, SetInduction
<1>5. n \in S /\ n <= n
  BY <1>0, <1>4
<1> QED BY <1>1, <1>5 DEF archive, n

-----------------------------------------------------------------------------
(* The buildings of the wood-heating control.                              *)

FkEntity(j) == RowKey("Daten/", "FKSTAMM", "GebStamm", j)

\* What the first n buildings leave of the indexes of the first system, what
\* they add, and which object each has become.
IndexesGrow(archive, m, new, n) ==
    /\ \A g \in DOMAIN m.objectIdByKfdGrundId :
          /\ g \in DOMAIN new.objectIdByKfdGrundId
          /\ new.objectIdByKfdGrundId[g] = m.objectIdByKfdGrundId[g]
    /\ \A g \in DOMAIN new.objectIdByKfdGrundId :
          g \in DOMAIN m.objectIdByKfdGrundId \/ \E j \in 1 .. n : FkKfdNumber(archive, j) = g
    /\ \A x \in DOMAIN m.objectIdByAddressKey :
          /\ x \in DOMAIN new.objectIdByAddressKey
          /\ new.objectIdByAddressKey[x] = m.objectIdByAddressKey[x]
    /\ \A x \in DOMAIN new.objectIdByAddressKey :
          x \in DOMAIN m.objectIdByAddressKey
             \/ \E j \in 1 .. n : /\ FkAddress(archive, j) = x
                                  /\ new.objectIdByAddressKey[x] = new.mapped[FkEntity(j)].id

NumbersFound(archive, new, n) ==
    /\ \A j \in 1 .. n : FkNumber(archive, j) # undefined
                            => FkNumber(archive, j) \in DOMAIN new.objectIdByFkGrundId
    /\ \A g \in DOMAIN new.objectIdByFkGrundId : \E j \in 1 .. n :
          FkNumber(archive, j) = g /\ new.objectIdByFkGrundId[g] = new.mapped[FkEntity(j)].id

\* The number of building j in the first system is new to the importer.
Unlinked(archive, m, j) ==
    FkKfdNumber(archive, j) # undefined =>
        /\ FkKfdNumber(archive, j) \notin DOMAIN m.objectIdByKfdGrundId
        /\ \A k \in 1 .. j - 1 : FkKfdNumber(archive, k) # FkKfdNumber(archive, j)

OneObject(archive, m, new, n) ==
    \A j \in 1 .. n :
        /\ FkEntity(j) \in DOMAIN new.mapped
        /\ FkKfdNumber(archive, j) # undefined
              /\ FkKfdNumber(archive, j) \in DOMAIN m.objectIdByKfdGrundId
              => new.mapped[FkEntity(j)].id = m.objectIdByKfdGrundId[FkKfdNumber(archive, j)]
        /\ Unlinked(archive, m, j) /\ FkAddress(archive, j) \in DOMAIN m.objectIdByAddressKey
              => new.mapped[FkEntity(j)].id = m.objectIdByAddressKey[FkAddress(archive, j)]

FkMapped(archive, m, new, n) ==
    IndexesGrow(archive, m, new, n) /\ NumbersFound(archive, new, n) /\ OneObject(archive, m, new, n)

\* A building of the control is one that is known already, by its number or by
\* its address, or a new one that is indexed.
FkStep(archive, m, new, j, id) ==
    LET g == FkKfdNumber(archive, j)
        x == FkAddress(archive, j)
    IN  /\ new.mapped = Set(m.mapped, FkEntity(j), [type |-> "object", id |-> id])
        /\ new.objectIdByFkGrundId = SetIf(m.objectIdByFkGrundId, FkNumber(archive, j), id)
        /\ \/ /\ new.objectIdByAddressKey = m.objectIdByAddressKey
              /\ new.objectIdByKfdGrundId = m.objectIdByKfdGrundId
              /\ \/ /\ g # undefined /\ g \in DOMAIN m.objectIdByKfdGrundId
                    /\ id = m.objectIdByKfdGrundId[g]
                 \/ /\ g = undefined \/ g \notin DOMAIN m.objectIdByKfdGrundId
                    /\ x \in DOMAIN m.objectIdByAddressKey
                    /\ id = m.objectIdByAddressKey[x]
           \/ /\ g = undefined \/ g \notin DOMAIN m.objectIdByKfdGrundId
              /\ x \notin DOMAIN m.objectIdByAddressKey
              /\ new.objectIdByAddressKey = Set(m.objectIdByAddressKey, x, id)
              /\ new.objectIdByKfdGrundId = SetIf(m.objectIdByKfdGrundId, g, id)

\* The two branches of the body, with the object they choose.
LEMMA FkEffect ==
    ASSUME NEW archive, NEW m, IsMaps(m), NEW j
    PROVE  \E id : FkStep(archive, m, FkBuilding(archive, m, j), j, id)
<1> DEFINE new == FkBuilding(archive, m, j)
           g == FkKfdNumber(archive, j)
           x == FkAddress(archive, j)
           existing == ExistingObject(m, FkRow(archive, j))
           byNumber == m.objectIdByKfdGrundId
           byAddress == m.objectIdByAddressKey
<1>1. new = IF existing = {} THEN NewFkBuilding(m, FkRow(archive, j), j)
            ELSE KnownFkBuilding(m, FkRow(archive, j), j, OneOf(existing))
  BY DEF FkBuilding, FkRow
<1>2. existing = OrElse(GetIf(byNumber, g), Get(byAddress, x))
  BY DEF ExistingObject, FkAddress, FkKfdNumber
<1> HIDE DEF new, g, x, existing, byNumber, byAddress
<1>3. /\ g # undefined /\ g \in DOMAIN byNumber => existing = {byNumber[g]}
      /\ g = undefined \/ g \notin DOMAIN byNumber =>
            existing = IF x \in DOMAIN byAddress THEN {byAddress[x]} ELSE {}
  BY <1>2 DEF OrElse, GetIf, Get
<1>4. existing # {} => OneOf(existing) \in existing
  BY OneOfIs
<1>5. CASE existing = {}
  <2>1. new = NewFkBuilding(m, FkRow(archive, j), j)
    BY <1>1, <1>5
  <2> DEFINE id == FkObject(archive, j).id
  <2>2. /\ new.mapped = Set(m.mapped, FkEntity(j), [type |-> "object", id |-> id])
        /\ new.objectIdByFkGrundId = SetIf(m.objectIdByFkGrundId, FkNumber(archive, j), id)
        /\ new.objectIdByAddressKey = Set(byAddress, x, id)
        /\ new.objectIdByKfdGrundId = SetIf(byNumber, g, id)
    BY <2>1, NewFkEffect DEF Mapped, FkEntity, byAddress, byNumber, x, g
  <2>3. /\ g = undefined \/ g \notin DOMAIN byNumber
        /\ x \notin DOMAIN byAddress
    BY <1>3, <1>5
  <2> HIDE DEF id
  <2>4. FkStep(archive, m, new, j, id)
    BY <2>2, <2>3 DEF FkStep, x, g, byAddress, byNumber
  <2> QED BY <2>4 DEF new
<1>6. CASE existing # {}
  <2> DEFINE id == OneOf(existing)
  <2>1. new = KnownFkBuilding(m, FkRow(archive, j), j, id)
    BY <1>1, <1>6
  <2>2. /\ new.mapped = Set(m.mapped, FkEntity(j), [type |-> "object", id |-> id])
        /\ new.objectIdByFkGrundId = SetIf(m.objectIdByFkGrundId, FkNumber(archive, j), id)
        /\ new.objectIdByAddressKey = byAddress
        /\ new.objectIdByKfdGrundId = byNumber
    BY <2>1, KnownFkEffect DEF Mapped, FkEntity, byAddress, byNumber
  <2>3. id \in existing
    BY <1>4, <1>6
  <2> HIDE DEF id
  <2>4. \/ g # undefined /\ g \in DOMAIN byNumber /\ id = byNumber[g]
        \/ /\ g = undefined \/ g \notin DOMAIN byNumber
           /\ x \in DOMAIN byAddress /\ id = byAddress[x]
    BY <1>3, <2>3
  <2>5. FkStep(archive, m, new, j, id)
    BY <2>2, <2>4 DEF FkStep, x, g, byAddress, byNumber
  <2> QED BY <2>5 DEF new
<1> QED BY <1>5, <1>6

\* One more building of the control.
LEMMA FkRowMapped ==
    ASSUME NEW archive, NEW K, NEW m, IsMaps(m), NEW n \in Nat, FkMapped(archive, K, m, n)
    PROVE  FkMapped(archive, K, FkBuilding(archive, m, n + 1), n + 1)
<1> SUFFICES ASSUME NEW i, i = n + 1 PROVE FkMapped(archive, K, FkBuilding(archive, m, i), i)
  OBVIOUS
<1> DEFINE new == FkBuilding(archive, m, i)
           key == FkEntity(i)
           g == FkKfdNumber(archive, i)
           x == FkAddress(archive, i)
           num == FkNumber(archive, i)
<1>0. PICK id : FkStep(archive, m, new, i, id)
  BY FkEffect
<1>1. /\ new.mapped = Set(m.mapped, key, [type |-> "object", id |-> id])
      /\ new.objectIdByFkGrundId = SetIf(m.objectIdByFkGrundId, num, id)
      /\ \/ /\ new.objectIdByAddressKey = m.objectIdByAddressKey
            /\ new.objectIdByKfdGrundId = m.objectIdByKfdGrundId
            /\ \/ /\ g # undefined /\ g \in DOMAIN m.objectIdByKfdGrundId
                  /\ id = m.objectIdByKfdGrundId[g]
               \/ /\ g = undefined \/ g \notin DOMAIN m.objectIdByKfdGrundId
                  /\ x \in DOMAIN m.objectIdByAddressKey
                  /\ id = m.objectIdByAddressKey[x]
         \/ /\ g = undefined \/ g \notin DOMAIN m.objectIdByKfdGrundId
            /\ x \notin DOMAIN m.objectIdByAddressKey
            /\ new.objectIdByAddressKey = Set(m.objectIdByAddressKey, x, id)
            /\ new.objectIdByKfdGrundId = SetIf(m.objectIdByKfdGrundId, g, id)
  BY <1>0 DEF FkStep
<1>2. \A k \in 1 .. n : FkEntity(k) # key
  BY DEF FkEntity, RowKey
<1>3. i \in 1 .. i /\ 1 .. i = 1 .. n \cup {i} /\ 1 .. n \subseteq 1 .. i /\ 1 .. i - 1 = 1 .. n
  OBVIOUS
<1>4. IndexesGrow(archive, K, m, n) /\ NumbersFound(archive, m, n) /\ OneObject(archive, K, m, n)
  BY DEF FkMapped
<1> HIDE DEF new, key, g, x, num
<1>5. /\ key \in DOMAIN new.mapped /\ new.mapped[key].id = id
      /\ \A k \in 1 .. n : /\ FkEntity(k) \in DOMAIN new.mapped
                           /\ new.mapped[FkEntity(k)] = m.mapped[FkEntity(k)]
  <2>1. /\ DOMAIN new.mapped = DOMAIN m.mapped \cup {key}
        /\ new.mapped[key].id = id
        /\ \A l \in DOMAIN m.mapped : l # key => new.mapped[l] = m.mapped[l]
    BY <1>1 DEF Set
  <2>2. \A k \in 1 .. n : FkEntity(k) \in DOMAIN m.mapped
    BY <1>4 DEF OneObject
  <2> QED BY <1>2, <2>1, <2>2
<1>6. IndexesGrow(archive, K, new, i)
  <2>1. /\ \A h \in DOMAIN K.objectIdByKfdGrundId :
              /\ h \in DOMAIN new.objectIdByKfdGrundId
              /\ new.objectIdByKfdGrundId[h] = K.objectIdByKfdGrundId[h]
        /\ \A h \in DOMAIN new.objectIdByKfdGrundId :
              h \in DOMAIN K.objectIdByKfdGrundId \/ \E j \in 1 .. i : FkKfdNumber(archive, j) = h
    <3>1. CASE new.objectIdByKfdGrundId = m.objectIdByKfdGrundId
      BY <1>3, <1>4, <3>1 DEF IndexesGrow
    <3>2. CASE new.objectIdByKfdGrundId # m.objectIdByKfdGrundId
      <4>1. /\ g # undefined /\ g \notin DOMAIN m.objectIdByKfdGrundId
            /\ DOMAIN new.objectIdByKfdGrundId = DOMAIN m.objectIdByKfdGrundId \cup {g}
            /\ \A h \in DOMAIN m.objectIdByKfdGrundId :
                  h # g => new.objectIdByKfdGrundId[h] = m.objectIdByKfdGrundId[h]
        <5>1. new.objectIdByKfdGrundId = SetIf(m.objectIdByKfdGrundId, g, id)
                /\ (g = undefined \/ g \notin DOMAIN m.objectIdByKfdGrundId)
          BY <1>1, <3>2
        <5>2. g # undefined
          BY <3>2, <5>1, SetIfIs
        <5> QED BY <5>1, <5>2 DEF SetIf, Set
      <4> QED BY <1>3, <1>4, <4>1 DEF IndexesGrow, g
    <3> QED BY <3>1, <3>2
  <2>2. /\ \A y \in DOMAIN K.objectIdByAddressKey :
              /\ y \in DOMAIN new.objectIdByAddressKey
              /\ new.objectIdByAddressKey[y] = K.objectIdByAddressKey[y]
        /\ \A y \in DOMAIN new.objectIdByAddressKey :
              y \in DOMAIN K.objectIdByAddressKey
                 \/ \E j \in 1 .. i : /\ FkAddress(archive, j) = y
                                      /\ new.objectIdByAddressKey[y] = new.mapped[FkEntity(j)].id
    <3>1. CASE new.objectIdByAddressKey = m.objectIdByAddressKey
      BY <1>3, <1>4, <1>5, <3>1 DEF IndexesGrow
    <3>2. CASE x \notin DOMAIN m.objectIdByAddressKey
                 /\ new.objectIdByAddressKey = Set(m.objectIdByAddressKey, x, id)
      <4>1. /\ DOMAIN new.objectIdByAddressKey = DOMAIN m.objectIdByAddressKey \cup {x}
            /\ new.objectIdByAddressKey[x] = id
            /\ \A y \in DOMAIN m.objectIdByAddressKey :
                  new.objectIdByAddressKey[y] = m.objectIdByAddressKey[y]
        BY <3>2 DEF Set
      <4>2. \A y \in DOMAIN K.objectIdByAddressKey :
               /\ y \in DOMAIN new.objectIdByAddressKey
               /\ new.objectIdByAddressKey[y] = K.objectIdByAddressKey[y]
        BY <1>4, <4>1 DEF IndexesGrow
      <4>3. ASSUME NEW y \in DOMAIN new.objectIdByAddressKey, y \notin DOMAIN K.objectIdByAddressKey
            PROVE  \E j \in 1 .. i : /\ FkAddress(archive, j) = y
                                     /\ new.objectIdByAddressKey[y] = new.mapped[FkEntity(j)].id
        <5>1. CASE y = x
          BY <1>3, <1>5, <4>1, <5>1 DEF x, key
        <5>2. CASE y # x
          <6>1. y \in DOMAIN m.objectIdByAddressKey
            BY <4>1, <5>2
          <6>2. PICK j \in 1 .. n : /\ FkAddress(archive, j) = y
                                    /\ m.objectIdByAddressKey[y] = m.mapped[FkEntity(j)].id
            BY <1>4, <4>3, <6>1 DEF IndexesGrow
          <6> QED BY <1>3, <1>5, <4>1, <6>1, <6>2
        <5> QED BY <5>1, <5>2
      <4> QED BY <4>2, <4>3
    <3> QED BY <1>1, <3>1, <3>2
  <2> QED BY <2>1, <2>2 DEF IndexesGrow
<1>7. NumbersFound(archive, new, i)
  <2>1. CASE num = undefined
    <3>1. new.objectIdByFkGrundId = m.objectIdByFkGrundId
      BY <1>1, <2>1, SetIfIs
    <3>2. \A j \in 1 .. i : FkNumber(archive, j) # undefined => j \in 1 .. n
      BY <1>3, <2>1 DEF num
    <3>3. \A j \in 1 .. i : FkNumber(archive, j) # undefined
                               => FkNumber(archive, j) \in DOMAIN new.objectIdByFkGrundId
      BY <1>4, <3>1, <3>2 DEF NumbersFound
    <3>4. \A h \in DOMAIN new.objectIdByFkGrundId : \E j \in 1 .. i :
             FkNumber(archive, j) = h /\ new.objectIdByFkGrundId[h] = new.mapped[FkEntity(j)].id
      BY <1>3, <1>4, <1>5, <3>1 DEF NumbersFound
    <3> QED BY <3>3, <3>4 DEF NumbersFound
  <2>2. CASE num # undefined
    <3>1. /\ DOMAIN new.objectIdByFkGrundId = DOMAIN m.objectIdByFkGrundId \cup {num}
          /\ new.objectIdByFkGrundId[num] = id
          /\ \A h \in DOMAIN m.objectIdByFkGrundId :
                h # num => new.objectIdByFkGrundId[h] = m.objectIdByFkGrundId[h]
      BY <1>1, <2>2 DEF SetIf, Set
    <3>2. \A j \in 1 .. i : FkNumber(archive, j) # undefined
                               => FkNumber(archive, j) \in DOMAIN new.objectIdByFkGrundId
      BY <1>3, <1>4, <3>1 DEF NumbersFound, num
    <3>3. ASSUME NEW h \in DOMAIN new.objectIdByFkGrundId
          PROVE  \E j \in 1 .. i :
                    FkNumber(archive, j) = h /\ new.objectIdByFkGrundId[h] = new.mapped[FkEntity(j)].id
      <4>1. CASE h = num
        BY <1>3, <1>5, <3>1, <4>1 DEF num, key
      <4>2. CASE h # num
        <5>1. h \in DOMAIN m.objectIdByFkGrundId /\ new.objectIdByFkGrundId[h] = m.objectIdByFkGrundId[h]
          BY <3>1, <4>2
        <5> QED BY <1>3, <1>4, <1>5, <5>1 DEF NumbersFound
      <4> QED BY <4>1, <4>2
    <3> QED BY <3>2, <3>3 DEF NumbersFound
  <2> QED BY <2>1, <2>2
<1>8. OneObject(archive, K, new, i)
  <2>1. FkEntity(i) = key /\ FkKfdNumber(archive, i) = g /\ FkAddress(archive, i) = x
    BY DEF key, g, x
  <2>2. g # undefined /\ g \in DOMAIN K.objectIdByKfdGrundId => id = K.objectIdByKfdGrundId[g]
    BY <1>1, <1>4 DEF IndexesGrow
  <2>3. Unlinked(archive, K, i) /\ x \in DOMAIN K.objectIdByAddressKey => id = K.objectIdByAddressKey[x]
    <3>1. SUFFICES ASSUME Unlinked(archive, K, i), x \in DOMAIN K.objectIdByAddressKey
                   PROVE  id = K.objectIdByAddressKey[x]
      OBVIOUS
    <3>2. g # undefined => g \notin DOMAIN m.objectIdByKfdGrundId
      BY <1>3, <1>4, <2>1, <3>1 DEF Unlinked, IndexesGrow
    <3>3. x \in DOMAIN m.objectIdByAddressKey /\ m.objectIdByAddressKey[x] = K.objectIdByAddressKey[x]
      BY <1>4, <3>1 DEF IndexesGrow
    <3> QED BY <1>1, <3>2, <3>3
  <2>4. ASSUME NEW j \in 1 .. i
        PROVE  /\ FkEntity(j) \in DOMAIN new.mapped
               /\ FkKfdNumber(archive, j) # undefined
                     /\ FkKfdNumber(archive, j) \in DOMAIN K.objectIdByKfdGrundId
                     => new.mapped[FkEntity(j)].id = K.objectIdByKfdGrundId[FkKfdNumber(archive, j)]
               /\ Unlinked(archive, K, j) /\ FkAddress(archive, j) \in DOMAIN K.objectIdByAddressKey
                     => new.mapped[FkEntity(j)].id = K.objectIdByAddressKey[FkAddress(archive, j)]
    <3>1. CASE j = i
      BY <1>5, <2>1, <2>2, <2>3, <3>1
    <3>2. CASE j \in 1 .. n
      <4>1. FkEntity(j) \in DOMAIN new.mapped /\ new.mapped[FkEntity(j)] = m.mapped[FkEntity(j)]
        BY <1>5, <3>2
      <4> QED BY <1>4, <3>2, <4>1 DEF OneObject
    <3> QED BY <1>3, <3>1, <3>2
  <2> QED BY <2>4 DEF OneObject
<1> QED BY <1>6, <1>7, <1>8 DEF FkMapped, new

\* What the first system has of buildings and customers is not overwritten.
DraftsRemain(m, new) ==
    /\ \A e \in ToSet(m.objects) : \E d \in ToSet(new.objects) :
          d.id = e.id /\ d.customerId = e.customerId
    /\ \A e \in ToSet(m.customers) : e \in ToSet(new.customers)

OfFirstSystem(m) ==
    /\ \A e \in ToSet(m.objects) : e.sourceKey.prefix = "object:kfd"
    /\ \A e \in ToSet(m.customers) : e.sourceKey.prefix = "customer:kfd"

\* Two drafts with one id have one key.
LEMMA IdsTell ==
    ASSUME NEW d, NEW e, IsDraft(d), IsDraft(e), d.id = e.id
    PROVE  d.sourceKey = e.sourceKey
<1>1. \A x, y : deterministicId(x) = deterministicId(y) => x = y
  BY DEF deterministicId
<1> QED BY <1>1 DEF IsDraft

\* A building of the control has keys of its own, so it replaces no draft of the
\* first system.
LEMMA FkRowRemains ==
    ASSUME NEW archive, NEW K, Sound(K), OfFirstSystem(K), NEW m, Sound(m), DraftsRemain(K, m), NEW j
    PROVE  DraftsRemain(K, FkBuilding(archive, m, j))
<1> DEFINE new == FkBuilding(archive, m, j)
           r == FkRow(archive, j)
           existing == ExistingObject(m, r)
           c == FkCustomer(archive, j)
           o == FkObject(archive, j)
<1>1. /\ IsMaps(m) /\ AreDrafts(m.objects) /\ AreDrafts(m.customers)
      /\ \A d \in ToSet(m.objects) : "customerId" \in DOMAIN d
  BY DEF Sound, DraftsAreSound, ReferencesAreSound
<1>2. new = IF existing = {} THEN NewFkBuilding(m, r, j) ELSE KnownFkBuilding(m, r, j, OneOf(existing))
  BY DEF FkBuilding, FkRow
<1>3. CASE new = NewFkBuilding(m, r, j)
  <2>1. new.customers = SetDraft(m.customers, c) /\ new.objects = SetDraft(m.objects, o)
    BY <1>1, <1>3, NewFkEffect
  <2>2. c.sourceKey.prefix = "customer:fk" /\ o.sourceKey.prefix = "object:fk"
    <3>1. /\ c.sourceKey = sourceKeyFromParts("customer:fk", FkKeyParts(archive, j))
          /\ o.sourceKey = sourceKeyFromParts("object:fk", FkKeyParts(archive, j))
      BY CustomerIsDraft, ObjectIsDraft DEF FkCustomer, FkObject
    <3> QED BY <3>1 DEF sourceKeyFromParts
  <2> HIDE DEF new, c, o
  <2>3. /\ ToSet(new.customers) = {e \in ToSet(m.customers) : e.sourceKey # c.sourceKey} \cup {c}
        /\ ToSet(new.objects) = {e \in ToSet(m.objects) : e.sourceKey # o.sourceKey} \cup {o}
    BY <1>1, <2>1, SetDraftIs DEF AreDrafts
  <2>4. \A e \in ToSet(K.customers) : e \in ToSet(new.customers)
    BY <2>2, <2>3 DEF DraftsRemain, OfFirstSystem
  <2>5. ASSUME NEW e \in ToSet(K.objects)
        PROVE  \E d \in ToSet(new.objects) : d.id = e.id /\ d.customerId = e.customerId
    <3>1. PICK d \in ToSet(m.objects) : d.id = e.id /\ d.customerId = e.customerId
      BY DEF DraftsRemain
    <3>2. d.sourceKey = e.sourceKey
      <4>1. IsDraft(d) /\ IsDraft(e)
        BY <1>1 DEF AreDrafts, Sound, DraftsAreSound
      <4> QED BY <3>1, <4>1, IdsTell
    <3>3. d.sourceKey # o.sourceKey
      BY <2>2, <3>2 DEF OfFirstSystem
    <3> QED BY <2>3, <3>1, <3>3
  <2> QED BY <2>4, <2>5 DEF DraftsRemain, new
<1>4. CASE new = KnownFkBuilding(m, r, j, OneOf(existing))
  <2> DEFINE id == OneOf(existing)
  <2> HIDE DEF id
  <2>1. new.customers = m.customers /\ new.objects = WithNotes(m.objects, r, id)
    BY <1>1, <1>4, KnownFkEffect DEF id
  <2> HIDE DEF new, r
  <2>2. /\ DOMAIN new.objects = DOMAIN m.objects
        /\ \A k \in DOMAIN m.objects : /\ new.objects[k].id = m.objects[k].id
                                       /\ new.objects[k].customerId = m.objects[k].customerId
    BY <1>1, <2>1, NotesKeep
  <2>3. \A d \in ToSet(m.objects) : \E e \in ToSet(new.objects) : e.id = d.id /\ e.customerId = d.customerId
    BY <2>2 DEF ToSet
  <2>4. DraftsRemain(K, new)
    BY <2>1, <2>3 DEF DraftsRemain
  <2> QED BY <2>4 DEF new
<1> QED BY <1>2, <1>3, <1>4

\* All buildings of the control, by induction over the rows.
LEMMA FkLoop ==
    ASSUME NEW a \in Archives
    PROVE  LET archive == ArchiveOf[a]
               K == MapKfdBuildings(archive)
               F == MapBuildings(archive)
           IN  /\ FkMapped(archive, K, F, Len(Table(archive, "FKSTAMM", "GebStamm")))
               /\ DraftsRemain(K, F)
<1> DEFINE archive == ArchiveOf[a]
           K == MapKfdBuildings(archive)
           n == Len(Table(archive, "FKSTAMM", "GebStamm"))
<1>1. n \in Nat /\ Sound(K)
  BY TableIs, MapsSound
<1>2. OfFirstSystem(K) /\ DOMAIN K.objectIdByFkGrundId = {}
  <2>1. KfdMapped(archive, K, Len(Table(archive, "KFDSTAMM", "GebStamm")))
    BY KfdLoop
  <2>2. \A i : /\ KfdObject(archive, i).sourceKey.prefix = "object:kfd"
               /\ KfdCustomer(archive, i).sourceKey.prefix = "customer:kfd"
    BY KfdKeys
  <2> HIDE DEF archive, K
  <2> QED BY <2>1, <2>2 DEF KfdMapped, OfFirstSystem
<1> HIDE DEF archive, K
<1>loop. PICK after : Iterates(archive, "FKSTAMM", "GebStamm", K, after)
  BY <1>1, EachStep
<1>3. /\ after[0] = K
      /\ \A i \in 1 .. n : after[i] = MapRow(archive, "FKSTAMM", "GebStamm", after[i - 1], i)
      /\ MapBuildings(archive) = after[n]
  BY <1>1, <1>loop DEF Iterates, MapBuildings, K
<1> DEFINE S == {i \in Nat : i <= n => /\ Sound(after[i]) /\ FkMapped(archive, K, after[i], i)
                                       /\ DraftsRemain(K, after[i])}
<1> HIDE DEF n
<1>4. 0 \in S
  <2>1. FkMapped(archive, K, K, 0)
    BY <1>2 DEF FkMapped, IndexesGrow, NumbersFound, OneObject
  <2>2. DraftsRemain(K, K)
    BY DEF DraftsRemain
  <2> QED BY <1>1, <1>3, <2>1, <2>2
<1>5. ASSUME NEW i \in Nat, i \in S PROVE i + 1 \in S
  <2>1. SUFFICES ASSUME i + 1 <= n
                 PROVE  /\ Sound(after[i + 1]) /\ FkMapped(archive, K, after[i + 1], i + 1)
                        /\ DraftsRemain(K, after[i + 1])
    OBVIOUS
  <2>2. i <= n /\ i + 1 \in 1 .. n /\ (i + 1) - 1 = i
    BY <1>1, <2>1
  <2>3. /\ Sound(after[i]) /\ FkMapped(archive, K, after[i], i)
        /\ DraftsRemain(K, after[i])
    BY <1>5, <2>2
  <2>4. after[i + 1] = FkBuilding(archive, after[i], i + 1)
    BY <1>3, <2>2, MapRowIs
  <2>5. FkMapped(archive, K, after[i + 1], i + 1)
    <3>1. IsMaps(after[i])
      BY <2>3 DEF Sound
    <3> QED BY <2>3, <2>4, <3>1, FkRowMapped
  <2>6. Sound(after[i + 1])
    BY <2>3, <2>4, FkSound
  <2>7. DraftsRemain(K, after[i + 1])
    BY <1>1, <1>2, <2>3, <2>4, FkRowRemains
  <2> QED BY <2>5, <2>6, <2>7
<1>6. Nat \subseteq S
  <2> HIDE DEF S
  <2> QED BY <1>4, <1>5, SetInduction
<1>7. n \in S /\ n <= n
  BY <1>1, <1>6
<1> QED BY <1>3, <1>7 DEF archive, n, K

-----------------------------------------------------------------------------
(* What the legacy records of the plan say of the buildings.               *)

InPlan == job.archive \in Archives /\ Plan = PlanOf[job.archive]

Here == ArchiveOf[job.archive]

LEMMA MappedToIs ==
    ASSUME InPlan, NEW name, NEW t, NEW i \in DOMAIN RowsOf(name, t), NEW m,
           KeptFor(m, MapUsers(Here), name, t), RowKey("Daten/", name, t, i) \in DOMAIN m.mapped
    PROVE  MappedTo(name, t, i) = m.mapped[RowKey("Daten/", name, t, i)]
<1> DEFINE key == RowKey("Daten/", name, t, i)
<1>1. key \in DOMAIN MapUsers(Here).mapped /\ MapUsers(Here).mapped[key] = m.mapped[key]
  BY DEF KeptFor
<1>2. MappedTo(name, t, i) = Entity(job.archive, name, t, i)
  <2>1. job.archive \in Archives /\ Plan = PlanOf[job.archive] /\ i \in DOMAIN Table(Here, name, t)
    BY DEF InPlan, RowsOf, Here
  <2>2. RecordOf(PlanOf[job.archive].legacyRecords, key) = Entity(job.archive, name, t, i)
    BY <1>1, <2>1, EntityIs DEF Here
  <2>3. MappedTo(name, t, i) = RecordOf(PlanOf[job.archive].legacyRecords, key)
    BY <2>1 DEF MappedTo, RecordOf
  <2> QED BY <2>2, <2>3
<1> QED BY <1>1, <1>2 DEF Entity, Here

LEMMA RowsAre ==
    ASSUME InPlan, NEW name, NEW t
    PROVE  /\ RowsOf(name, t) = Table(Here, name, t)
           /\ DOMAIN RowsOf(name, t) = 1 .. Len(Table(Here, name, t))
           /\ Len(Table(Here, name, t)) \in Nat
<1>1. RowsOf(name, t) = Table(Here, name, t)
  BY DEF RowsOf, Here
<1>2. DOMAIN Table(Here, name, t) = 1 .. Len(Table(Here, name, t)) /\ Len(Table(Here, name, t)) \in Nat
  BY TableIs DEF InPlan, Here
<1> QED BY <1>1, <1>2

LEMMA BuildingsAre ==
    ASSUME InPlan
    PROVE  /\ KfdMapped(Here, MapKfdBuildings(Here), Len(Table(Here, "KFDSTAMM", "GebStamm")))
           /\ FkMapped(Here, MapKfdBuildings(Here), MapBuildings(Here),
                       Len(Table(Here, "FKSTAMM", "GebStamm")))
           /\ \A i \in DOMAIN RowsOf("KFDSTAMM", "GebStamm") :
                 MappedTo("KFDSTAMM", "GebStamm", i).id = KfdObject(Here, i).id
           /\ \A j \in DOMAIN RowsOf("FKSTAMM", "GebStamm") :
                 MappedTo("FKSTAMM", "GebStamm", j) = MapBuildings(Here).mapped[FkEntity(j)]
<1> DEFINE K == MapKfdBuildings(Here)
           F == MapBuildings(Here)
           U == MapUsers(Here)
<1>1. /\ KfdMapped(Here, K, Len(Table(Here, "KFDSTAMM", "GebStamm")))
      /\ FkMapped(Here, K, F, Len(Table(Here, "FKSTAMM", "GebStamm")))
  BY KfdLoop, FkLoop DEF InPlan, Here
<1>2. KeptFor(K, U, "KFDSTAMM", "GebStamm") /\ KeptFor(F, U, "FKSTAMM", "GebStamm")
  BY LoopsRemain DEF InPlan, Here
<1> HIDE DEF K, F, U
<1>3. ASSUME NEW i \in DOMAIN RowsOf("KFDSTAMM", "GebStamm")
      PROVE  MappedTo("KFDSTAMM", "GebStamm", i).id = KfdObject(Here, i).id
  <2>1. i \in 1 .. Len(Table(Here, "KFDSTAMM", "GebStamm"))
    BY RowsAre
  <2>2. KfdEntity(i) \in DOMAIN K.mapped /\ K.mapped[KfdEntity(i)].id = KfdObject(Here, i).id
    BY <1>1, <2>1 DEF KfdMapped
  <2>3. MappedTo("KFDSTAMM", "GebStamm", i) = K.mapped[KfdEntity(i)]
    BY <1>2, <2>2, MappedToIs DEF KfdEntity, U
  <2> QED BY <2>2, <2>3
<1>4. ASSUME NEW j \in DOMAIN RowsOf("FKSTAMM", "GebStamm")
      PROVE  MappedTo("FKSTAMM", "GebStamm", j) = F.mapped[FkEntity(j)]
  <2>1. j \in 1 .. Len(Table(Here, "FKSTAMM", "GebStamm"))
    BY RowsAre
  <2>2. FkEntity(j) \in DOMAIN F.mapped
    BY <1>1, <2>1 DEF FkMapped, OneObject
  <2> QED BY <1>2, <2>2, MappedToIs DEF FkEntity, U
<1> QED BY <1>1, <1>3, <1>4 DEF K, F

\* The objects of the first system at an address; the index has one of them.
LEMMA KfdObjectsAt ==
    ASSUME InPlan, NEW x
    PROVE  LET byAddress == MapKfdBuildings(Here).objectIdByAddressKey
           IN  /\ ObjectsAt("KFDSTAMM", x) # {} <=> x \in DOMAIN byAddress
               /\ x \in DOMAIN byAddress => byAddress[x] \in ObjectsAt("KFDSTAMM", x)
<1> DEFINE byAddress == MapKfdBuildings(Here).objectIdByAddressKey
           n == Len(Table(Here, "KFDSTAMM", "GebStamm"))
           kfd == RowsOf("KFDSTAMM", "GebStamm")
           O == ObjectsAt("KFDSTAMM", x)
<1>1. /\ kfd = Table(Here, "KFDSTAMM", "GebStamm") /\ DOMAIN kfd = 1 .. n
  BY RowsAre
<1>2. /\ \A i \in 1 .. n : KfdAddress(Here, i) \in DOMAIN byAddress
      /\ \A y \in DOMAIN byAddress : \E i \in 1 .. n :
            KfdAddress(Here, i) = y /\ byAddress[y] = KfdObject(Here, i).id
  BY BuildingsAre DEF KfdMapped
<1>3. \A i \in 1 .. n : MappedTo("KFDSTAMM", "GebStamm", i).id = KfdObject(Here, i).id
  BY <1>1, BuildingsAre
<1>4. \A i \in 1 .. n : i \in RowsAt(kfd, x) <=> KfdAddress(Here, i) = x
  BY <1>1 DEF RowsAt, KfdAddress, KfdRow
<1>5. RowsAt(kfd, x) \subseteq 1 .. n
  BY <1>1 DEF RowsAt
<1>6. O = {MappedTo("KFDSTAMM", "GebStamm", i).id : i \in RowsAt(kfd, x)}
  BY DEF ObjectsAt
<1> HIDE DEF byAddress, n, kfd, O
<1>7. ASSUME x \in DOMAIN byAddress PROVE byAddress[x] \in O
  <2>1. PICK i \in 1 .. n : KfdAddress(Here, i) = x /\ byAddress[x] = KfdObject(Here, i).id
    BY <1>2, <1>7
  <2> QED BY <1>3, <1>4, <1>6, <2>1
<1>8. ASSUME O # {} PROVE x \in DOMAIN byAddress
  <2>1. PICK i \in RowsAt(kfd, x) : TRUE
    BY <1>6, <1>8
  <2> QED BY <1>2, <1>4, <1>5, <2>1
<1> QED BY <1>7, <1>8 DEF byAddress, O

\* The number of the building in the first system comes before the address, and
\* the address before a new object.
LEMMA PlanBuildingsAreOne == InPlan => BuildingsAreOne
<1> SUFFICES ASSUME InPlan PROVE BuildingsAreOne
  OBVIOUS
<1> DEFINE kfd == RowsOf("KFDSTAMM", "GebStamm")
           fk == RowsOf("FKSTAMM", "GebStamm")
           Linked(j) == {i \in DOMAIN kfd : ~Blank(kfd[i].KGrundID) /\ kfd[i].KGrundID = fk[j].KFDGrundID}
           Before(j) == {i \in DOMAIN fk : /\ i < j /\ ~Blank(fk[i].KFDGrundID)
                                           /\ fk[i].KFDGrundID = fk[j].KFDGrundID}
           There(j) == ObjectsAt("KFDSTAMM", addressKeyFromRow(fk[j]))
           Object(j) == MappedTo("FKSTAMM", "GebStamm", j).id
           K == MapKfdBuildings(Here)
           F == MapBuildings(Here)
<1>1. ASSUME NEW j \in DOMAIN fk
      PROVE  /\ \A i \in Linked(j) : Object(j) = MappedTo("KFDSTAMM", "GebStamm", i).id
             /\ Linked(j) = {} /\ Before(j) = {} /\ There(j) # {} => Object(j) \in There(j)
  <2> DEFINE nk == Len(Table(Here, "KFDSTAMM", "GebStamm"))
             nf == Len(Table(Here, "FKSTAMM", "GebStamm"))
             g == FkKfdNumber(Here, j)
             x == FkAddress(Here, j)
  <2>1. /\ kfd = Table(Here, "KFDSTAMM", "GebStamm") /\ DOMAIN kfd = 1 .. nk
        /\ fk = Table(Here, "FKSTAMM", "GebStamm") /\ DOMAIN fk = 1 .. nf
        /\ nf \in Nat /\ nk \in Nat
    BY RowsAre
  <2>2. KfdMapped(Here, K, nk) /\ OneObject(Here, K, F, nf)
    BY BuildingsAre DEF FkMapped
  <2>3. Object(j) = F.mapped[FkEntity(j)].id
    BY BuildingsAre
  <2>4. \A i \in DOMAIN kfd : MappedTo("KFDSTAMM", "GebStamm", i).id = KfdObject(Here, i).id
    BY BuildingsAre
  <2>5. \A k \in DOMAIN fk : FkKfdNumber(Here, k) = cleanString(fk[k].KFDGrundID)
    BY <2>1 DEF FkKfdNumber, FkRow
  <2>6. \A i \in DOMAIN kfd : KfdNumber(Here, i) = cleanString(kfd[i].KGrundID)
    BY <2>1 DEF KfdNumber, KfdRow
  <2>7. addressKeyFromRow(fk[j]) = x
    BY <2>1 DEF FkAddress, FkRow
  <2>8. \A y \in DOMAIN K.objectIdByAddressKey : K.objectIdByAddressKey[y] \in ObjectsAt("KFDSTAMM", y)
    BY KfdObjectsAt
  <2>9. There(j) # {} => x \in DOMAIN K.objectIdByAddressKey
    BY <2>7, KfdObjectsAt
  <2> HIDE DEF K, F, kfd, fk, Object, nk, nf, g, x
  <2>10. ASSUME NEW i \in Linked(j) PROVE Object(j) = MappedTo("KFDSTAMM", "GebStamm", i).id
    <3>1. i \in 1 .. nk /\ KfdNumber(Here, i) # undefined /\ KfdNumber(Here, i) = g
      BY <2>1, <2>5, <2>6 DEF Blank, g
    <3>2. g \in DOMAIN K.objectIdByKfdGrundId /\ K.objectIdByKfdGrundId[g] = KfdObject(Here, i).id
      BY <2>2, <3>1 DEF KfdMapped
    <3>3. F.mapped[FkEntity(j)].id = K.objectIdByKfdGrundId[g]
      BY <2>1, <2>2, <3>1, <3>2 DEF OneObject, g
    <3> QED BY <2>3, <2>4, <3>2, <3>3
  <2>11. ASSUME Linked(j) = {}, Before(j) = {}, There(j) # {} PROVE Object(j) \in There(j)
    <3>1. x \in DOMAIN K.objectIdByAddressKey
      BY <2>9, <2>11
    <3>2. Unlinked(Here, K, j)
      <4>1. SUFFICES ASSUME g # undefined
                     PROVE  /\ g \notin DOMAIN K.objectIdByKfdGrundId
                            /\ \A k \in 1 .. j - 1 : FkKfdNumber(Here, k) # g
        BY DEF Unlinked, g
      <4>2. fk[j].KFDGrundID # "" /\ g = fk[j].KFDGrundID
        BY <2>5, <4>1 DEF cleanString, g
      <4>3. \A cell : cleanString(cell) = g => cell = fk[j].KFDGrundID /\ ~Blank(cell)
        BY <4>1, <4>2 DEF cleanString, Blank
      <4>4. g \notin DOMAIN K.objectIdByKfdGrundId
        <5>1. SUFFICES ASSUME g \in DOMAIN K.objectIdByKfdGrundId PROVE FALSE
          OBVIOUS
        <5>2. PICK i \in 1 .. nk : KfdNumber(Here, i) = g
          BY <2>2, <5>1 DEF KfdMapped
        <5>3. i \in Linked(j)
          BY <2>1, <2>6, <4>3, <5>2
        <5> QED BY <2>11, <5>3
      <4>5. ASSUME NEW k \in 1 .. j - 1, FkKfdNumber(Here, k) = g PROVE FALSE
        <5>1. k \in DOMAIN fk /\ k < j
          BY <2>1
        <5>2. k \in Before(j)
          BY <2>5, <4>3, <4>5, <5>1
        <5> QED BY <2>11, <5>2
      <4> QED BY <4>4, <4>5
    <3>3. F.mapped[FkEntity(j)].id = K.objectIdByAddressKey[x]
      BY <2>1, <2>2, <3>1, <3>2 DEF OneObject, x
    <3> QED BY <2>3, <2>7, <2>8, <3>1, <3>3
  <2> QED BY <2>10, <2>11
<1> HIDE DEF kfd, fk
<1> QED BY <1>1 DEF BuildingsAreOne, kfd, fk

-----------------------------------------------------------------------------
(* The installations.                                                      *)

ObjectFound(archive, m, i) == ObjectOfInstallation(archive, m, FestRow(archive, i))
FestKey(archive, i) == installationKey(FestRow(archive, i))

\* The drafts of the first n rows, given the maps m of the buildings.
FestMapped(archive, m, new, n) ==
    /\ BuildingsStay(m, new)
    /\ \A d \in ToSet(new.installations) : \E k \in 1 .. n :
          d.sourceKey = FestKey(archive, k) /\ d.objectId \in ObjectFound(archive, m, k)
    /\ \A k \in 1 .. n : ObjectFound(archive, m, k) # {} =>
          \E d \in ToSet(new.installations) : d.sourceKey = FestKey(archive, k)

\* One more installation: it replaces a draft only under its own key.
LEMMA FestRowMapped ==
    ASSUME NEW archive, NEW F, NEW m, Sound(m), NEW n \in Nat, FestMapped(archive, F, m, n)
    PROVE  FestMapped(archive, F, Installation(archive, m, n + 1), n + 1)
<1> SUFFICES ASSUME NEW i, i = n + 1 PROVE FestMapped(archive, F, Installation(archive, m, i), i)
  OBVIOUS
<1> DEFINE new == Installation(archive, m, i)
           found == ObjectFound(archive, F, i)
           d == FestDraft(archive, m, i)
<1>1. i \in 1 .. i /\ 1 .. i = 1 .. n \cup {i} /\ 1 .. n \subseteq 1 .. i
  OBVIOUS
<1>2. ObjectOfInstallation(archive, m, FestRow(archive, i)) = found
  BY DEF FestMapped, BuildingsStay, ObjectFound, ObjectOfInstallation
<1>3. IsMaps(m) /\ AreDrafts(m.installations)
  BY DEF Sound, DraftsAreSound
<1>4. CASE found = {}
  <2>1. new = m
    BY <1>2, <1>4 DEF Installation, FestRow
  <2> HIDE DEF new
  <2> QED BY <1>1, <1>4, <2>1 DEF FestMapped, new, found
<1>5. CASE found # {}
  <2>1. new.installations = SetDraft(m.installations, d) /\ BuildingsStay(m, new)
    BY <1>2, <1>3, <1>5, InstallationEffect DEF BuildingsStay
  <2>2. d.sourceKey = FestKey(archive, i) /\ d.objectId \in found
    <3>1. OneOf(found) \in found
      BY <1>5, OneOfIs
    <3>2. d.sourceKey = FestKey(archive, i) /\ d.objectId = OneOf(found)
      BY <1>2, InstallationIsDraft DEF FestDraft, FestKey
    <3> QED BY <3>1, <3>2
  <2> HIDE DEF new, d, found
  <2>3. ToSet(new.installations) = {e \in ToSet(m.installations) : e.sourceKey # d.sourceKey} \cup {d}
    BY <1>3, <2>1, SetDraftIs DEF AreDrafts
  <2>4. BuildingsStay(F, new)
    BY <2>1 DEF FestMapped, BuildingsStay
  <2>5. \A e \in ToSet(new.installations) : \E k \in 1 .. i :
           e.sourceKey = FestKey(archive, k) /\ e.objectId \in ObjectFound(archive, F, k)
    BY <1>1, <2>2, <2>3 DEF FestMapped, found
  <2>6. \A k \in 1 .. i : ObjectFound(archive, F, k) # {} =>
           \E e \in ToSet(new.installations) : e.sourceKey = FestKey(archive, k)
    BY <1>1, <2>2, <2>3 DEF FestMapped
  <2> QED BY <2>4, <2>5, <2>6 DEF FestMapped, new
<1> QED BY <1>4, <1>5

\* All installations, by induction over the rows.
LEMMA FestLoop ==
    ASSUME NEW a \in Archives
    PROVE  LET archive == ArchiveOf[a]
           IN  FestMapped(archive, MapBuildings(archive), MapInstallations(archive),
                          Len(Table(archive, "FKSTAMM", "FestStoff")))
<1> DEFINE archive == ArchiveOf[a]
           F == MapBuildings(archive)
           n == Len(Table(archive, "FKSTAMM", "FestStoff"))
<1>1. n \in Nat /\ Sound(F) /\ F.installations = << >>
  <2>1. NoMaps.installations = << >>
    BY DEF NoMaps
  <2> QED BY <2>1, TableIs, MapsSound, LoopsRemain
<1> HIDE DEF archive, F
<1>0. n \in Nat /\ MapInstallations(archive) = Each(archive, "FKSTAMM", "FestStoff", F)
  BY <1>1 DEF MapInstallations, F
<1>loop. PICK after : Iterates(archive, "FKSTAMM", "FestStoff", F, after)
  BY <1>0, EachStep
<1>2. /\ after[0] = F
      /\ \A i \in 1 .. n : after[i] = MapRow(archive, "FKSTAMM", "FestStoff", after[i - 1], i)
      /\ MapInstallations(archive) = after[n]
  BY <1>0, <1>loop DEF Iterates
<1> DEFINE S == {i \in Nat : i <= n => Sound(after[i]) /\ FestMapped(archive, F, after[i], i)}
<1> HIDE DEF n
<1>3. 0 \in S
  <2>1. FestMapped(archive, F, F, 0)
    BY <1>1 DEF FestMapped, BuildingsStay, ToSet
  <2> QED BY <1>1, <1>2, <2>1
<1>4. ASSUME NEW i \in Nat, i \in S PROVE i + 1 \in S
  <2>1. SUFFICES ASSUME i + 1 <= n PROVE Sound(after[i + 1]) /\ FestMapped(archive, F, after[i + 1], i + 1)
    OBVIOUS
  <2>2. i <= n /\ i + 1 \in 1 .. n /\ (i + 1) - 1 = i
    BY <1>1, <2>1
  <2>3. Sound(after[i]) /\ FestMapped(archive, F, after[i], i)
    BY <1>4, <2>2
  <2>4. after[i + 1] = Installation(archive, after[i], i + 1)
    BY <1>2, <2>2, MapRowIs
  <2> QED BY <2>3, <2>4, InstallationSound, FestRowMapped
<1>5. Nat \subseteq S
  <2> HIDE DEF S
  <2> QED BY <1>3, <1>4, SetInduction
<1>6. n \in S /\ n <= n
  BY <1>1, <1>5
<1> QED BY <1>2, <1>6 DEF archive, n, F

\* The address is a part of the key of an installation.
LEMMA KeyHasAddress ==
    ASSUME NEW r, NEW s, installationKey(r) = installationKey(s)
    PROVE  addressKeyFromRow(r) = addressKeyFromRow(s)
<1>1. \A q : installationKey(q).parts[1] = addressKeyFromRow(q)
  BY DEF installationKey, sourceKeyFromParts, addressKeyFromRow
<1> QED BY <1>1

\* An object found for an installation stands at its address.
LEMMA FoundIsThere ==
    ASSUME InPlan, NumbersAreUnique, NEW r, NEW id \in ObjectOfInstallation(Here, MapBuildings(Here), r)
    PROVE  id \in ObjectsAt("FKSTAMM", addressKeyFromRow(r)) \cup ObjectsAt("KFDSTAMM", addressKeyFromRow(r))
<1> DEFINE fk == RowsOf("FKSTAMM", "GebStamm")
           n == Len(Table(Here, "FKSTAMM", "GebStamm"))
           K == MapKfdBuildings(Here)
           F == MapBuildings(Here)
           x == addressKeyFromRow(r)
           g == FkGrundIdOf(Here, r)
           there == RowsAt(fk, x)
<1>1. fk = Table(Here, "FKSTAMM", "GebStamm") /\ DOMAIN fk = 1 .. n /\ n \in Nat
  BY RowsAre
<1>2. IndexesGrow(Here, K, F, n) /\ NumbersFound(Here, F, n)
  BY BuildingsAre DEF FkMapped
<1>3. \A j \in 1 .. n : MappedTo("FKSTAMM", "GebStamm", j) = F.mapped[FkEntity(j)]
  BY <1>1, BuildingsAre
<1>4. \A j \in 1 .. n : /\ FkAddress(Here, j) = addressKeyFromRow(fk[j])
                        /\ FkNumber(Here, j) = cleanString(fk[j].FKGrundID)
  BY <1>1 DEF FkAddress, FkNumber, FkRow
<1>5. \/ g # undefined /\ g \in DOMAIN F.objectIdByFkGrundId /\ id = F.objectIdByFkGrundId[g]
      \/ x \in DOMAIN F.objectIdByAddressKey /\ id = F.objectIdByAddressKey[x]
  BY DEF ObjectOfInstallation, OrElse, GetIf, Get
<1>6. g # undefined => there # {} /\ g = cleanString(fk[Latest(there)].FKGrundID)
  BY <1>1 DEF FkGrundIdOf
<1>7. there # {} => Latest(there) \in there
  <2>1. there \subseteq 1 .. n
    BY <1>1 DEF RowsAt
  <2> HIDE DEF there
  <2> QED BY <1>1, <2>1, LatestIs
<1>8. /\ \A j \in there : j \in DOMAIN fk /\ addressKeyFromRow(fk[j]) = x
      /\ \A j \in DOMAIN fk : addressKeyFromRow(fk[j]) = x => j \in there
  BY DEF RowsAt
<1>9. ObjectsAt("FKSTAMM", x) = {MappedTo("FKSTAMM", "GebStamm", j).id : j \in there}
  BY DEF ObjectsAt
<1>10. \A i, j \in DOMAIN fk : ~Blank(fk[i].FKGrundID) /\ fk[i].FKGrundID = fk[j].FKGrundID
                                  => addressKeyFromRow(fk[i]) = addressKeyFromRow(fk[j])
  BY DEF NumbersAreUnique
<1> HIDE DEF fk, n, K, F, x, g, there
<1>11. CASE g # undefined /\ g \in DOMAIN F.objectIdByFkGrundId /\ id = F.objectIdByFkGrundId[g]
  <2>1. PICK j \in 1 .. n : FkNumber(Here, j) = g /\ id = F.mapped[FkEntity(j)].id
    BY <1>2, <1>11 DEF NumbersFound
  <2> DEFINE l == Latest(there)
  <2>2. l \in DOMAIN fk /\ addressKeyFromRow(fk[l]) = x /\ g = cleanString(fk[l].FKGrundID)
    BY <1>6, <1>7, <1>8, <1>11
  <2> HIDE DEF l
  <2>3. ~Blank(fk[j].FKGrundID) /\ fk[j].FKGrundID = fk[l].FKGrundID
    BY <1>4, <1>11, <2>1, <2>2 DEF cleanString, Blank
  <2>4. addressKeyFromRow(fk[j]) = x
    BY <1>1, <1>10, <2>2, <2>3
  <2>5. j \in there /\ id = MappedTo("FKSTAMM", "GebStamm", j).id
    BY <1>1, <1>3, <1>8, <2>1, <2>4
  <2> QED BY <1>9, <2>5 DEF x
<1>12. CASE x \in DOMAIN F.objectIdByAddressKey /\ id = F.objectIdByAddressKey[x]
  <2>1. CASE x \in DOMAIN K.objectIdByAddressKey
    <3>1. id = K.objectIdByAddressKey[x]
      BY <1>2, <1>12, <2>1 DEF IndexesGrow
    <3>2. K.objectIdByAddressKey[x] \in ObjectsAt("KFDSTAMM", x)
      BY <2>1, KfdObjectsAt DEF K
    <3> QED BY <3>1, <3>2 DEF x
  <2>2. CASE x \notin DOMAIN K.objectIdByAddressKey
    <3>1. PICK j \in 1 .. n : FkAddress(Here, j) = x /\ id = F.mapped[FkEntity(j)].id
      BY <1>2, <1>12, <2>2 DEF IndexesGrow
    <3>2. j \in there /\ id = MappedTo("FKSTAMM", "GebStamm", j).id
      BY <1>1, <1>3, <1>4, <1>8, <3>1
    <3> QED BY <1>9, <3>2 DEF x
  <2> QED BY <2>1, <2>2
<1> QED BY <1>5, <1>11, <1>12

\* The three ways to the object of an installation: all lead to its address.
LEMMA PlanInstallationsFollow == InPlan => InstallationsFollowTheirBuildings
<1> SUFFICES ASSUME InPlan, NumbersAreUnique
             PROVE  InstallationsFollowTheirBuildings
  BY DEF InstallationsFollowTheirBuildings
<1> DEFINE installations == RowsOf("FKSTAMM", "FestStoff")
           fk == RowsOf("FKSTAMM", "GebStamm")
           Address(i) == addressKeyFromRow(installations[i])
           DraftsOf(i) == {d \in DOMAIN Plan.installations :
                              Plan.installations[d].sourceKey = installationKey(installations[i])}
           There(i) == RowsAt(fk, Address(i))
           n == Len(Table(Here, "FKSTAMM", "FestStoff"))
           nf == Len(Table(Here, "FKSTAMM", "GebStamm"))
           K == MapKfdBuildings(Here)
           F == MapBuildings(Here)
           ds == MapInstallations(Here).installations
<1>1. /\ installations = Table(Here, "FKSTAMM", "FestStoff") /\ DOMAIN installations = 1 .. n
      /\ fk = Table(Here, "FKSTAMM", "GebStamm") /\ DOMAIN fk = 1 .. nf /\ nf \in Nat
  BY RowsAre
<1>2. Plan.installations = ds
  <2>1. PlanOf[job.archive].installations = MapUsers(Here).installations
    BY PlanOfMaps DEF InPlan, Here
  <2>2. MapUsers(Here).installations = ds
    BY LoopsRemain DEF InPlan, Here
  <2> QED BY <2>1, <2>2 DEF InPlan
<1>3. /\ \A d \in ToSet(ds) : \E k \in 1 .. n :
            d.sourceKey = FestKey(Here, k) /\ d.objectId \in ObjectFound(Here, F, k)
      /\ \A k \in 1 .. n : ObjectFound(Here, F, k) # {} =>
            \E d \in ToSet(ds) : d.sourceKey = FestKey(Here, k)
  BY FestLoop DEF FestMapped, InPlan, Here
<1>4. IndexesGrow(Here, K, F, nf) /\ NumbersFound(Here, F, nf)
  BY BuildingsAre DEF FkMapped
<1>5. \A k \in 1 .. n : FestRow(Here, k) = installations[k]
  BY <1>1 DEF FestRow
<1>6. ASSUME NEW i \in DOMAIN installations, NEW d \in DraftsOf(i)
      PROVE  Plan.installations[d].objectId
                \in ObjectsAt("FKSTAMM", Address(i)) \cup ObjectsAt("KFDSTAMM", Address(i))
  <2>1. ds[d] \in ToSet(ds) /\ ds[d].sourceKey = installationKey(installations[i])
    BY <1>2 DEF ToSet
  <2>2. PICK k \in 1 .. n : ds[d].sourceKey = FestKey(Here, k) /\ ds[d].objectId \in ObjectFound(Here, F, k)
    BY <1>3, <2>1
  <2>3. Address(i) = addressKeyFromRow(FestRow(Here, k))
    BY <1>5, <2>1, <2>2, KeyHasAddress DEF FestKey
  <2>4. ds[d].objectId \in ObjectOfInstallation(Here, F, FestRow(Here, k))
    BY <2>2 DEF ObjectFound
  <2>5. ds[d].objectId \in ObjectsAt("FKSTAMM", addressKeyFromRow(FestRow(Here, k)))
                              \cup ObjectsAt("KFDSTAMM", addressKeyFromRow(FestRow(Here, k)))
    BY <2>4, FoundIsThere
  <2> QED BY <1>2, <2>3, <2>5
<1>7. ASSUME NEW i \in DOMAIN installations,
             \/ ObjectsAt("KFDSTAMM", Address(i)) # {}
             \/ /\ ~Blank(installations[i].FKuLfd) /\ There(i) # {}
                /\ \A j \in There(i) : ~Blank(fk[j].FKGrundID)
      PROVE  DraftsOf(i) # {}
  <2> DEFINE x == Address(i)
             g == FkGrundIdOf(Here, installations[i])
  <2>1. \/ x \in DOMAIN F.objectIdByAddressKey
        \/ g # undefined /\ g \in DOMAIN F.objectIdByFkGrundId
    <3>1. CASE ObjectsAt("KFDSTAMM", x) # {}
      <4>1. x \in DOMAIN K.objectIdByAddressKey
        BY <3>1, KfdObjectsAt
      <4> QED BY <1>4, <4>1 DEF IndexesGrow
    <3>2. CASE /\ ~Blank(installations[i].FKuLfd) /\ There(i) # {}
               /\ \A j \in There(i) : ~Blank(fk[j].FKGrundID)
      <4> DEFINE l == Latest(There(i))
      <4>1. l \in There(i)
        <5>1. There(i) \subseteq 1 .. nf
          BY <1>1 DEF RowsAt
        <5> QED BY <1>1, <3>2, <5>1, LatestIs
      <4>2. l \in 1 .. nf /\ cleanString(fk[l].FKGrundID) # undefined
        BY <1>1, <3>2, <4>1 DEF RowsAt, Blank
      <4>3. g = cleanString(fk[l].FKGrundID)
        BY <1>1, <3>2 DEF FkGrundIdOf, Blank
      <4>4. FkNumber(Here, l) = g
        BY <1>1, <4>2, <4>3 DEF FkNumber, FkRow
      <4> HIDE DEF l, g
      <4> QED BY <1>4, <4>2, <4>3, <4>4 DEF NumbersFound
    <3> QED BY <1>7, <3>1, <3>2
  <2>2. ObjectFound(Here, F, i) # {}
    <3>1. FestRow(Here, i) = installations[i]
      BY <1>1, <1>5
    <3> QED BY <2>1, <3>1 DEF ObjectFound, ObjectOfInstallation, OrElse, GetIf, Get
  <2>3. PICK d \in ToSet(ds) : d.sourceKey = FestKey(Here, i)
    BY <1>1, <1>3, <2>2
  <2>4. PICK k \in DOMAIN ds : d = ds[k]
    BY DEF ToSet
  <2>5. k \in DraftsOf(i)
    BY <1>1, <1>2, <1>5, <2>3, <2>4 DEF FestKey
  <2> QED BY <2>5
<1> HIDE DEF installations, fk
<1> QED BY <1>6, <1>7 DEF InstallationsFollowTheirBuildings, installations, fk

-----------------------------------------------------------------------------
(* The tariffs.                                                            *)

TariffEntity(name, i) == RowKey("Daten/", name, "Tarife", i)

\* What the first n entries of a catalogue add to the index of the codes.
TariffMapped(archive, name, m, new, n) ==
    LET old == m.tariffCatalogIdBySystemCode
        index == new.tariffCatalogIdBySystemCode
        Key(k) == TariffKey(archive, name, k)
    IN  /\ \A k \in 1 .. n : /\ TariffEntity(name, k) \in DOMAIN new.mapped
                             /\ new.mapped[TariffEntity(name, k)].id = TariffDraft(archive, name, k).id
        /\ \A key \in DOMAIN old : key \in DOMAIN index /\ index[key] = old[key]
        /\ \A key \in DOMAIN index : key \in DOMAIN old \/ \E k \in 1 .. n : key = Key(k)
        /\ \A k \in 1 .. n :
              /\ Key(k) \in DOMAIN index
              /\ Key(k) \notin DOMAIN old /\ (\A l \in 1 .. k - 1 : Key(l) # Key(k))
                    => index[Key(k)] = TariffDraft(archive, name, k).id

\* One more entry: an index that has its code keeps it.
LEMMA TariffRowMapped ==
    ASSUME NEW archive, NEW name, NEW m0, NEW m, IsMaps(m), NEW n \in Nat,
           TariffMapped(archive, name, m0, m, n)
    PROVE  TariffMapped(archive, name, m0, TariffItem(archive, m, name, n + 1), n + 1)
<1> SUFFICES ASSUME NEW i, i = n + 1
             PROVE  TariffMapped(archive, name, m0, TariffItem(archive, m, name, i), i)
  OBVIOUS
<1> DEFINE new == TariffItem(archive, m, name, i)
           d == TariffDraft(archive, name, i)
           Key(k) == TariffKey(archive, name, k)
           key == TariffKey(archive, name, i)
           own == TariffEntity(name, i)
           old == m0.tariffCatalogIdBySystemCode
           between == m.tariffCatalogIdBySystemCode
           index == new.tariffCatalogIdBySystemCode
<1>1. i \in 1 .. i /\ 1 .. i = 1 .. n \cup {i} /\ 1 .. n \subseteq 1 .. i /\ 1 .. i - 1 = 1 .. n
  OBVIOUS
<1>2. /\ index = IF key \in DOMAIN between THEN between ELSE Set(between, key, d.id)
      /\ new.mapped = Set(m.mapped, own, [type |-> "tariff_catalog_item", id |-> d.id])
  BY TariffEffect DEF Mapped, TariffEntity
<1>3. /\ \A k \in 1 .. n : /\ TariffEntity(name, k) \in DOMAIN m.mapped
                           /\ m.mapped[TariffEntity(name, k)].id = TariffDraft(archive, name, k).id
      /\ \A l \in DOMAIN old : l \in DOMAIN between /\ between[l] = old[l]
      /\ \A l \in DOMAIN between : l \in DOMAIN old \/ \E k \in 1 .. n : l = Key(k)
      /\ \A k \in 1 .. n :
            /\ Key(k) \in DOMAIN between
            /\ Key(k) \notin DOMAIN old /\ (\A l \in 1 .. k - 1 : Key(l) # Key(k))
                  => between[Key(k)] = TariffDraft(archive, name, k).id
  BY DEF TariffMapped
<1>4. \A k \in 1 .. n : TariffEntity(name, k) # own
  BY DEF TariffEntity, RowKey
<1>5. Key(i) = key /\ TariffEntity(name, i) = own /\ TariffDraft(archive, name, i) = d
  OBVIOUS
<1> HIDE DEF new, d, Key, key, own, old, between, index
<1>6. /\ DOMAIN between \subseteq DOMAIN index /\ DOMAIN index = DOMAIN between \cup {key}
      /\ \A l \in DOMAIN between : index[l] = between[l]
      /\ key \notin DOMAIN between => index[key] = d.id
  BY <1>2 DEF Set
<1>7. ASSUME NEW k \in 1 .. i
      PROVE  /\ TariffEntity(name, k) \in DOMAIN new.mapped
             /\ new.mapped[TariffEntity(name, k)].id = TariffDraft(archive, name, k).id
  <2>1. /\ DOMAIN new.mapped = DOMAIN m.mapped \cup {own}
        /\ new.mapped[own].id = d.id
        /\ \A l \in DOMAIN m.mapped : l # own => new.mapped[l] = m.mapped[l]
    BY <1>2 DEF Set
  <2>2. CASE k = i
    BY <1>5, <2>1, <2>2
  <2>3. CASE k \in 1 .. n
    BY <1>3, <1>4, <2>1, <2>3
  <2> QED BY <1>1, <2>2, <2>3
<1>8. \A l \in DOMAIN old : l \in DOMAIN index /\ index[l] = old[l]
  BY <1>3, <1>6
<1>9. \A l \in DOMAIN index : l \in DOMAIN old \/ \E k \in 1 .. i : l = Key(k)
  BY <1>1, <1>3, <1>5, <1>6
<1>10. ASSUME NEW k \in 1 .. i
       PROVE  /\ Key(k) \in DOMAIN index
              /\ Key(k) \notin DOMAIN old /\ (\A l \in 1 .. k - 1 : Key(l) # Key(k))
                    => index[Key(k)] = TariffDraft(archive, name, k).id
  <2>1. CASE k \in 1 .. n
    BY <1>3, <1>6, <2>1
  <2>2. CASE k = i
    <3>1. key \notin DOMAIN old /\ (\A l \in 1 .. n : Key(l) # key) => key \notin DOMAIN between
      BY <1>3
    <3> QED BY <1>1, <1>5, <1>6, <2>2, <3>1
  <2> QED BY <1>1, <2>1, <2>2
<1> QED BY <1>7, <1>8, <1>9, <1>10 DEF TariffMapped, new, index, old, Key

\* All entries of a catalogue, by induction over the rows.
LEMMA TariffLoop ==
    ASSUME NEW archive, NEW name \in Systems, NEW m, Sound(m),
           NEW n, n = Len(Table(archive, name, "Tarife")), n \in Nat
    PROVE  TariffMapped(archive, name, m, Each(archive, name, "Tarife", m), n)
<1>loop. PICK after : Iterates(archive, name, "Tarife", m, after)
  BY EachStep
<1>1. /\ after[0] = m
      /\ \A i \in 1 .. n : after[i] = MapRow(archive, name, "Tarife", after[i - 1], i)
      /\ Each(archive, name, "Tarife", m) = after[n]
  BY <1>loop DEF Iterates
<1> DEFINE S == {i \in Nat : i <= n => Sound(after[i]) /\ TariffMapped(archive, name, m, after[i], i)}
<1>2. 0 \in S
  <2>1. TariffMapped(archive, name, m, m, 0)
    BY DEF TariffMapped
  <2> QED BY <1>1, <2>1
<1>3. ASSUME NEW i \in Nat, i \in S PROVE i + 1 \in S
  <2>1. SUFFICES ASSUME i + 1 <= n
                 PROVE  Sound(after[i + 1]) /\ TariffMapped(archive, name, m, after[i + 1], i + 1)
    OBVIOUS
  <2>2. i <= n /\ i + 1 \in 1 .. n /\ (i + 1) - 1 = i
    BY <2>1
  <2>3. Sound(after[i]) /\ TariffMapped(archive, name, m, after[i], i) /\ IsMaps(after[i])
    BY <1>3, <2>2 DEF Sound
  <2>4. after[i + 1] = TariffItem(archive, after[i], name, i + 1)
    <3>1. after[i + 1] = MapRow(archive, name, "Tarife", after[i], i + 1)
      BY <1>1, <2>2
    <3>2. MapRow(archive, name, "Tarife", after[i], i + 1) = TariffItem(archive, after[i], name, i + 1)
      BY MapRowIs
    <3> QED BY <3>1, <3>2
  <2> QED BY <2>3, <2>4, TariffSound, TariffRowMapped
<1>4. Nat \subseteq S
  <2> HIDE DEF S
  <2> QED BY <1>2, <1>3, SetInduction
<1>5. n \in S /\ n <= n
  BY <1>4
<1> QED BY <1>1, <1>5

\* The entries of a catalogue with a code.
WithCode(archive, name, n, code) == {k \in 1 .. n : TariffKey(archive, name, k) = <<System(name), code>>}

\* The index has the first entry of each code.
CatalogIs(archive, name, m, n) ==
    \A code : LET key == <<System(name), code>>
                  same == WithCode(archive, name, n, code)
              IN  /\ key \in DOMAIN m.tariffCatalogIdBySystemCode <=> same # {}
                  /\ same # {} => m.tariffCatalogIdBySystemCode[key]
                                     = TariffDraft(archive, name, Earliest(same)).id

LEMMA TariffKeyIs ==
    ASSUME NEW archive, NEW name, NEW k
    PROVE  TariffKey(archive, name, k)
              = <<System(name), lower(tariffCode(Table(archive, name, "Tarife")[k], k))>>
  BY TariffIsDraft DEF TariffKey, tariffCatalogLookupKey

\* An index that had no code of this system gets the first entry of each.
LEMMA FirstOfCode ==
    ASSUME NEW archive, NEW name, NEW m, NEW new, NEW n \in Nat,
           TariffMapped(archive, name, m, new, n),
           \A code : <<System(name), code>> \notin DOMAIN m.tariffCatalogIdBySystemCode
    PROVE  CatalogIs(archive, name, new, n)
<1> SUFFICES ASSUME NEW code
             PROVE  LET key == <<System(name), code>>
                        same == WithCode(archive, name, n, code)
                    IN  /\ key \in DOMAIN new.tariffCatalogIdBySystemCode <=> same # {}
                        /\ same # {} => new.tariffCatalogIdBySystemCode[key]
                                           = TariffDraft(archive, name, Earliest(same)).id
  BY DEF CatalogIs
<1> DEFINE key == <<System(name), code>>
           same == WithCode(archive, name, n, code)
           first == Earliest(same)
           index == new.tariffCatalogIdBySystemCode
<1>1. key \notin DOMAIN m.tariffCatalogIdBySystemCode
  OBVIOUS
<1>2. \A k \in 1 .. n : k \in same <=> TariffKey(archive, name, k) = key
  BY DEF WithCode
<1>3. same \subseteq 1 .. n /\ same \subseteq Nat
  BY DEF WithCode
<1>4. same # {} => first \in same /\ \A k \in same : first <= k
  <2> HIDE DEF same
  <2> QED BY <1>3, EarliestIs
<1> HIDE DEF key, same, first
<1>5. key \in DOMAIN index => same # {}
  BY <1>1, <1>2 DEF TariffMapped
<1>6. ASSUME same # {} PROVE key \in DOMAIN index /\ index[key] = TariffDraft(archive, name, first).id
  <2>1. first \in 1 .. n /\ TariffKey(archive, name, first) = key
    BY <1>2, <1>3, <1>4, <1>6
  <2>2. \A l \in 1 .. first - 1 : TariffKey(archive, name, l) # key
    <3>1. SUFFICES ASSUME NEW l \in 1 .. first - 1, TariffKey(archive, name, l) = key PROVE FALSE
      OBVIOUS
    <3>2. l \in 1 .. n /\ l < first
      BY <2>1
    <3>3. l \in same /\ first <= l
      BY <1>2, <1>4, <3>1, <3>2
    <3> QED BY <2>1, <3>2, <3>3
  <2> QED BY <1>1, <2>1, <2>2 DEF TariffMapped
<1> QED BY <1>5, <1>6 DEF key, same, first

\* The two catalogues, each under the name of its system.
LEMMA TariffsAre ==
    ASSUME InPlan
    PROVE  \A name \in Systems :
              /\ CatalogIs(Here, name, MapTariffs(Here), Len(Table(Here, name, "Tarife")))
              /\ \A k \in DOMAIN RowsOf(name, "Tarife") :
                    MappedTo(name, "Tarife", k).id = TariffDraft(Here, name, k).id
<1> DEFINE I == MapInstallations(Here)
           V == FirstTariffs(Here)
           T == MapTariffs(Here)
           nk == Len(Table(Here, "KFDSTAMM", "Tarife"))
           nf == Len(Table(Here, "FKSTAMM", "Tarife"))
           kfd == "KFDSTAMM"
           fk == "FKSTAMM"
<1>1. nk \in Nat /\ nf \in Nat /\ kfd \in Systems /\ fk \in Systems
  BY RowsAre, LoopsAre
<1>2. Sound(I) /\ Sound(V)
  BY MapsSound DEF InPlan, Here, FirstTariffs
<1>3. TariffMapped(Here, kfd, I, V, nk) /\ TariffMapped(Here, fk, V, T, nf)
  <2>1. V = Each(Here, kfd, "Tarife", I) /\ T = Each(Here, fk, "Tarife", V)
    BY DEF FirstTariffs, MapTariffs
  <2> HIDE DEF I, V, T
  <2> QED BY <1>1, <1>2, <2>1, TariffLoop
<1>4. I.tariffCatalogIdBySystemCode = << >>
  <2>1. CatalogStays(NoMaps, I)
    BY LoopsRemain DEF InPlan, Here
  <2> QED BY <2>1 DEF CatalogStays, NoMaps
<1>5. System(kfd) = "kfd" /\ System(fk) = "fk"
  BY DEF System
<1>6. /\ KeptFor(V, MapUsers(Here), kfd, "Tarife") /\ KeptFor(T, MapUsers(Here), fk, "Tarife")
  BY LoopsRemain DEF InPlan, Here
<1> HIDE DEF I, V, T
<1>7. CatalogIs(Here, kfd, V, nk)
  <2>1. \A code : <<System(kfd), code>> \notin DOMAIN I.tariffCatalogIdBySystemCode
    BY <1>4
  <2> QED BY <1>1, <1>3, <2>1, FirstOfCode
<1>8. CatalogIs(Here, fk, T, nf)
  <2>1. \A code : <<System(fk), code>> \notin DOMAIN V.tariffCatalogIdBySystemCode
    <3>1. \A key \in DOMAIN V.tariffCatalogIdBySystemCode : \E k : key = TariffKey(Here, kfd, k)
      BY <1>3, <1>4 DEF TariffMapped
    <3>2. \A k, code : TariffKey(Here, kfd, k) # <<System(fk), code>>
      BY <1>5, TariffKeyIs
    <3> QED BY <3>1, <3>2
  <2> QED BY <1>1, <1>3, <2>1, FirstOfCode
<1>9. CatalogIs(Here, kfd, T, nk)
  <2>1. \A key : (\A k : key # TariffKey(Here, fk, k)) =>
           /\ key \in DOMAIN T.tariffCatalogIdBySystemCode <=> key \in DOMAIN V.tariffCatalogIdBySystemCode
           /\ key \in DOMAIN V.tariffCatalogIdBySystemCode =>
                 T.tariffCatalogIdBySystemCode[key] = V.tariffCatalogIdBySystemCode[key]
    BY <1>3 DEF TariffMapped
  <2>2. \A k, code : <<System(kfd), code>> # TariffKey(Here, fk, k)
    BY <1>5, TariffKeyIs
  <2> QED BY <1>7, <2>1, <2>2 DEF CatalogIs
<1>10. ASSUME NEW name \in Systems, NEW k \in DOMAIN RowsOf(name, "Tarife")
       PROVE  MappedTo(name, "Tarife", k).id = TariffDraft(Here, name, k).id
  <2>1. k \in 1 .. Len(Table(Here, name, "Tarife"))
    BY RowsAre
  <2>2. CASE name = kfd
    <3>1. TariffEntity(kfd, k) \in DOMAIN V.mapped
             /\ V.mapped[TariffEntity(kfd, k)].id = TariffDraft(Here, kfd, k).id
      BY <1>3, <2>1, <2>2 DEF TariffMapped
    <3>2. MappedTo(kfd, "Tarife", k) = V.mapped[TariffEntity(kfd, k)]
      BY <1>6, <1>10, <2>2, <3>1, MappedToIs DEF TariffEntity
    <3> QED BY <2>2, <3>1, <3>2
  <2>3. CASE name = fk
    <3>1. TariffEntity(fk, k) \in DOMAIN T.mapped
             /\ T.mapped[TariffEntity(fk, k)].id = TariffDraft(Here, fk, k).id
      BY <1>3, <2>1, <2>3 DEF TariffMapped
    <3>2. MappedTo(fk, "Tarife", k) = T.mapped[TariffEntity(fk, k)]
      BY <1>6, <1>10, <2>3, <3>1, MappedToIs DEF TariffEntity
    <3> QED BY <2>3, <3>1, <3>2
  <2> QED BY <2>2, <2>3 DEF Systems
<1> QED BY <1>8, <1>9, <1>10 DEF Systems, T

-----------------------------------------------------------------------------
(* The tariffs of the buildings.                                           *)

GivenEntity(name, i) == RowKey("Daten/", name, "GTarife", i)

\* What the first n rows add, given the maps T of the buildings and catalogues.
GivenMapped(archive, name, T, m, new, n) ==
    /\ BuildingsStay(T, new) /\ CatalogStays(T, new)
    /\ \A k \in 1 .. n :
          /\ GivenEntity(name, k) \in DOMAIN new.mapped
          /\ new.mapped[GivenEntity(name, k)].id = AssignmentDraft(archive, T, name, k).id
          /\ AssignmentDraft(archive, T, name, k) \in ToSet(new.objectTariffAssignments)
    /\ \A d \in ToSet(m.objectTariffAssignments) :
          (\A k : d.sourceKey.prefix # <<"object_tariff", System(name), k>>)
              => d \in ToSet(new.objectTariffAssignments)

\* One more tariff of a building: its key has its place, so it replaces no other.
LEMMA GivenRowMapped ==
    ASSUME NEW archive, NEW name, NEW T, NEW m0, NEW m, Sound(m), NEW n \in Nat,
           GivenMapped(archive, name, T, m0, m, n)
    PROVE  GivenMapped(archive, name, T, m0, TariffAssignment(archive, m, name, n + 1), n + 1)
<1> SUFFICES ASSUME NEW i, i = n + 1
             PROVE  GivenMapped(archive, name, T, m0, TariffAssignment(archive, m, name, i), i)
  OBVIOUS
<1> DEFINE new == TariffAssignment(archive, m, name, i)
           Given(k) == AssignmentDraft(archive, T, name, k)
           Prefix(k) == <<"object_tariff", System(name), k>>
           d == Given(i)
           own == GivenEntity(name, i)
<1>1. i \in 1 .. i /\ 1 .. i = 1 .. n \cup {i} /\ \A k \in 1 .. n : k # i
  OBVIOUS
<1>2. IsMaps(m) /\ AreDrafts(m.objectTariffAssignments)
  BY DEF Sound, DraftsAreSound
<1>3. BuildingsStay(T, m) /\ CatalogStays(T, m)
  BY DEF GivenMapped
<1>4. AssignmentDraft(archive, m, name, i) = d
  BY <1>3 DEF AssignmentDraft, mapObjectTariffAssignment, BuildingsStay, CatalogStays
<1>5. /\ new.objectTariffAssignments = SetDraft(m.objectTariffAssignments, d)
      /\ new.mapped = Set(m.mapped, own, [type |-> "object_tariff_assignment", id |-> d.id])
      /\ BuildingsStay(m, new) /\ CatalogStays(m, new)
  BY <1>2, <1>4, AssignmentEffect DEF Mapped, GivenEntity, BuildingsStay, CatalogStays
<1>6. \A k : Given(k).sourceKey.prefix = Prefix(k)
  BY AssignmentIsDraft
<1>7. \A k : k # i => Prefix(k) # Prefix(i) /\ GivenEntity(name, k) # own
  BY DEF GivenEntity, RowKey
<1>8. /\ Given(i) = d /\ GivenEntity(name, i) = own
      /\ \A k : AssignmentDraft(archive, T, name, k) = Given(k)
      /\ \A k : <<"object_tariff", System(name), k>> = Prefix(k)
  OBVIOUS
<1> HIDE DEF new, Given, Prefix, d, own
<1>9. ToSet(new.objectTariffAssignments)
         = {e \in ToSet(m.objectTariffAssignments) : e.sourceKey # d.sourceKey} \cup {d}
  BY <1>2, <1>5, SetDraftIs DEF AreDrafts
<1>10. BuildingsStay(T, new) /\ CatalogStays(T, new)
  BY <1>3, <1>5 DEF BuildingsStay, CatalogStays
<1>11. /\ DOMAIN new.mapped = DOMAIN m.mapped \cup {own}
       /\ new.mapped[own].id = d.id
       /\ \A l \in DOMAIN m.mapped : l # own => new.mapped[l] = m.mapped[l]
  BY <1>5 DEF Set
<1>12. ASSUME NEW k \in 1 .. i
       PROVE  /\ GivenEntity(name, k) \in DOMAIN new.mapped
              /\ new.mapped[GivenEntity(name, k)].id = Given(k).id
              /\ Given(k) \in ToSet(new.objectTariffAssignments)
  <2>1. CASE k = i
    BY <1>8, <1>9, <1>11, <2>1
  <2>2. CASE k \in 1 .. n
    <3>1. /\ GivenEntity(name, k) \in DOMAIN m.mapped
          /\ m.mapped[GivenEntity(name, k)].id = Given(k).id
          /\ Given(k) \in ToSet(m.objectTariffAssignments)
      BY <1>8, <2>2 DEF GivenMapped
    <3>2. Given(k).sourceKey # d.sourceKey /\ GivenEntity(name, k) # own
      BY <1>1, <1>6, <1>7, <1>8, <2>2
    <3> QED BY <1>9, <1>11, <3>1, <3>2
  <2> QED BY <1>1, <2>1, <2>2
<1>13. ASSUME NEW e \in ToSet(m0.objectTariffAssignments), \A k : e.sourceKey.prefix # Prefix(k)
       PROVE  e \in ToSet(new.objectTariffAssignments)
  <2>1. e \in ToSet(m.objectTariffAssignments)
    BY <1>8, <1>13 DEF GivenMapped
  <2>2. e.sourceKey # d.sourceKey
    BY <1>6, <1>8, <1>13
  <2> QED BY <1>9, <2>1, <2>2
<1> QED BY <1>8, <1>10, <1>12, <1>13 DEF GivenMapped, new

\* All of one system, by induction over the rows.
LEMMA GivenLoop ==
    ASSUME NEW archive, NEW name \in Systems, NEW T, NEW m, Sound(m),
           BuildingsStay(T, m), CatalogStays(T, m),
           Len(Table(archive, name, "GTarife")) \in Nat
    PROVE  GivenMapped(archive, name, T, m, Each(archive, name, "GTarife", m),
                       Len(Table(archive, name, "GTarife")))
<1> DEFINE n == Len(Table(archive, name, "GTarife"))
<1>0. PICK after : Iterates(archive, name, "GTarife", m, after)
  BY EachStep
<1>1. /\ after[0] = m
      /\ \A i \in 1 .. n : after[i] = MapRow(archive, name, "GTarife", after[i - 1], i)
      /\ Each(archive, name, "GTarife", m) = after[n]
  BY <1>0 DEF Iterates
<1> DEFINE S == {i \in Nat : i <= n => Sound(after[i]) /\ GivenMapped(archive, name, T, m, after[i], i)}
<1>2. 0 \in S
  <2>1. GivenMapped(archive, name, T, m, m, 0)
    BY DEF GivenMapped
  <2> QED BY <1>1, <2>1
<1>3. ASSUME NEW i \in Nat, i \in S PROVE i + 1 \in S
  <2>1. SUFFICES ASSUME i + 1 <= n
                 PROVE  Sound(after[i + 1]) /\ GivenMapped(archive, name, T, m, after[i + 1], i + 1)
    OBVIOUS
  <2>2. i <= n /\ i + 1 \in 1 .. n /\ (i + 1) - 1 = i
    BY <2>1
  <2>3. Sound(after[i]) /\ GivenMapped(archive, name, T, m, after[i], i)
    BY <1>3, <2>2
  <2>4. after[i + 1] = TariffAssignment(archive, after[i], name, i + 1)
    <3>1. after[i + 1] = MapRow(archive, name, "GTarife", after[i], i + 1)
      BY <1>1, <2>2
    <3>2. MapRow(archive, name, "GTarife", after[i], i + 1)
             = TariffAssignment(archive, after[i], name, i + 1)
      BY MapRowIs
    <3> QED BY <3>1, <3>2
  <2> QED BY <2>3, <2>4, AssignmentSound, GivenRowMapped
<1>4. Nat \subseteq S
  <2> HIDE DEF S
  <2> QED BY <1>2, <1>3, SetInduction
<1>5. n \in S /\ n <= n
  BY <1>4
<1> QED BY <1>1, <1>5

\* The assignments of the plan, in both systems.
LEMMA AssignmentsAre ==
    ASSUME InPlan
    PROVE  \A name \in Systems : \A k \in DOMAIN RowsOf(name, "GTarife") :
              /\ MappedTo(name, "GTarife", k).id = AssignmentDraft(Here, MapTariffs(Here), name, k).id
              /\ AssignmentDraft(Here, MapTariffs(Here), name, k) \in ToSet(Plan.objectTariffAssignments)
<1> DEFINE T == MapTariffs(Here)
           B == FirstAssignments(Here)
           A == MapAssignments(Here)
           nk == Len(Table(Here, "KFDSTAMM", "GTarife"))
           nf == Len(Table(Here, "FKSTAMM", "GTarife"))
           kfd == "KFDSTAMM"
           fk == "FKSTAMM"
<1>1. nk \in Nat /\ nf \in Nat /\ kfd \in Systems /\ fk \in Systems
  BY RowsAre, LoopsAre
<1>2. Sound(T) /\ Sound(B)
  BY MapsSound DEF InPlan, Here, FirstAssignments
<1>3. B = Each(Here, kfd, "GTarife", T) /\ A = Each(Here, fk, "GTarife", B)
  BY DEF FirstAssignments, MapAssignments
<1>4. /\ KeptFor(B, MapUsers(Here), kfd, "GTarife") /\ KeptFor(A, MapUsers(Here), fk, "GTarife")
      /\ MapUsers(Here).objectTariffAssignments = A.objectTariffAssignments
  BY LoopsRemain DEF InPlan, Here
<1>5. Plan.objectTariffAssignments = A.objectTariffAssignments
  <2>1. PlanOf[job.archive].objectTariffAssignments = MapUsers(Here).objectTariffAssignments
    BY PlanOfMaps DEF InPlan, Here
  <2> QED BY <1>4, <2>1 DEF InPlan
<1> HIDE DEF T, B, A
<1>6. GivenMapped(Here, kfd, T, T, B, nk)
  <2>1. BuildingsStay(T, T) /\ CatalogStays(T, T)
    BY DEF BuildingsStay, CatalogStays
  <2> QED BY <1>1, <1>2, <1>3, <2>1, GivenLoop
<1>7. GivenMapped(Here, fk, T, B, A, nf)
  <2>1. BuildingsStay(T, B) /\ CatalogStays(T, B)
    BY <1>6 DEF GivenMapped
  <2> QED BY <1>1, <1>2, <1>3, <2>1, GivenLoop
<1>8. System(kfd) = "kfd" /\ System(fk) = "fk"
  BY DEF System
<1>9. ASSUME NEW k \in DOMAIN RowsOf(kfd, "GTarife")
      PROVE  /\ MappedTo(kfd, "GTarife", k).id = AssignmentDraft(Here, T, kfd, k).id
             /\ AssignmentDraft(Here, T, kfd, k) \in ToSet(A.objectTariffAssignments)
  <2> DEFINE d == AssignmentDraft(Here, T, kfd, k)
  <2>1. k \in 1 .. nk
    BY RowsAre
  <2>2. /\ GivenEntity(kfd, k) \in DOMAIN B.mapped
        /\ B.mapped[GivenEntity(kfd, k)].id = d.id
        /\ d \in ToSet(B.objectTariffAssignments)
    BY <1>6, <2>1 DEF GivenMapped
  <2>3. MappedTo(kfd, "GTarife", k) = B.mapped[GivenEntity(kfd, k)]
    BY <1>4, <2>2, MappedToIs DEF GivenEntity
  <2>4. \A l : d.sourceKey.prefix # <<"object_tariff", System(fk), l>>
    <3>1. d.sourceKey.prefix = <<"object_tariff", System(kfd), k>>
      BY AssignmentIsDraft
    <3> HIDE DEF d
    <3> QED BY <1>8, <3>1
  <2> HIDE DEF d
  <2>5. d \in ToSet(A.objectTariffAssignments)
    BY <1>7, <2>2, <2>4 DEF GivenMapped
  <2> QED BY <2>2, <2>3, <2>5 DEF d
<1>10. ASSUME NEW k \in DOMAIN RowsOf(fk, "GTarife")
       PROVE  /\ MappedTo(fk, "GTarife", k).id = AssignmentDraft(Here, T, fk, k).id
              /\ AssignmentDraft(Here, T, fk, k) \in ToSet(A.objectTariffAssignments)
  <2>1. k \in 1 .. nf
    BY RowsAre
  <2>2. /\ GivenEntity(fk, k) \in DOMAIN A.mapped
        /\ A.mapped[GivenEntity(fk, k)].id = AssignmentDraft(Here, T, fk, k).id
        /\ AssignmentDraft(Here, T, fk, k) \in ToSet(A.objectTariffAssignments)
    BY <1>7, <2>1 DEF GivenMapped
  <2>3. MappedTo(fk, "GTarife", k) = A.mapped[GivenEntity(fk, k)]
    BY <1>4, <2>2, MappedToIs DEF GivenEntity
  <2> QED BY <2>2, <2>3
<1> QED BY <1>5, <1>9, <1>10 DEF Systems, T

\* A draft is found by its id.
LEMMA DraftOfIs ==
    ASSUME NEW k, AreDrafts(Plan[k]), NEW d \in ToSet(Plan[k])
    PROVE  DraftOf(k, d.id) = d
<1> DEFINE ds == Plan[k]
           i == CHOOSE i \in DOMAIN ds : ds[i].id = d.id
<1>1. PICK j \in DOMAIN ds : ds[j] = d
  BY DEF ToSet
<1>2. i \in DOMAIN ds /\ ds[i].id = d.id
  BY <1>1
<1>3. DraftOf(k, d.id) = ds[i]
  BY DEF DraftOf
<1>4. IsDraft(ds[i]) /\ IsDraft(d)
  BY <1>2 DEF AreDrafts, ToSet
<1> HIDE DEF i
<1>5. ds[i].sourceKey = d.sourceKey
  BY <1>2, <1>4, IdsTell
<1> QED BY <1>1, <1>2, <1>3, <1>5 DEF AreDrafts, Once

\* An assignment names what the indexes of its code and of its address have.
LEMMA PlanAssignmentsResolve == InPlan => AssignmentsResolve
<1> SUFFICES ASSUME InPlan, NEW name \in {"KFDSTAMM", "FKSTAMM"}, NEW i \in DOMAIN RowsOf(name, "GTarife")
             PROVE  LET catalog == RowsOf(name, "Tarife")
                        given == RowsOf(name, "GTarife")
                        assignment == DraftOf("objectTariffAssignments", MappedTo(name, "GTarife", i).id)
                        same == {j \in DOMAIN catalog : /\ ~Blank(given[i].TTarif)
                                                        /\ lower(tariffCode(catalog[j], j)) = lower(given[i].TTarif)}
                        there == ObjectsAt("KFDSTAMM", addressKeyFromRow(given[i]))
                    IN  /\ assignment.tariffCatalogItemId =
                              IF same = {} THEN undefined ELSE MappedTo(name, "Tarife", Earliest(same)).id
                        /\ there # {} => assignment.objectId \in there
  BY DEF AssignmentsResolve
<1> DEFINE catalog == RowsOf(name, "Tarife")
           given == RowsOf(name, "GTarife")
           assignment == DraftOf("objectTariffAssignments", MappedTo(name, "GTarife", i).id)
           same == {j \in DOMAIN catalog : /\ ~Blank(given[i].TTarif)
                                           /\ lower(tariffCode(catalog[j], j)) = lower(given[i].TTarif)}
           there == ObjectsAt("KFDSTAMM", addressKeyFromRow(given[i]))
           K == MapKfdBuildings(Here)
           F == MapBuildings(Here)
           T == MapTariffs(Here)
           d == AssignmentDraft(Here, T, name, i)
           n == Len(Table(Here, name, "Tarife"))
           x == GivenAddress(Here, name, i)
<1>1. /\ catalog = Table(Here, name, "Tarife") /\ DOMAIN catalog = 1 .. n /\ n \in Nat
      /\ given = Table(Here, name, "GTarife")
  BY RowsAre
<1>2. name \in Systems
  BY DEF Systems
<1>3. assignment = d
  <2>1. AreDrafts(Plan.objectTariffAssignments)
    <3>1. AreDrafts(PlanOf[job.archive].objectTariffAssignments)
      BY PlanDrafts, TablesAre DEF InPlan
    <3> QED BY <3>1 DEF InPlan
  <2>2. MappedTo(name, "GTarife", i).id = d.id /\ d \in ToSet(Plan.objectTariffAssignments)
    BY <1>2, AssignmentsAre
  <2> HIDE DEF d
  <2>3. DraftOf("objectTariffAssignments", d.id) = d
    BY <2>1, <2>2, DraftOfIs
  <2> QED BY <2>2, <2>3
<1>4. /\ d.objectId = OneOf(Get(T.objectIdByAddressKey, x))
      /\ d.tariffCatalogItemId = OneOf(CatalogEntry(Here, T, name, i))
  BY AssignmentIsDraft
<1>5. /\ CatalogIs(Here, name, T, n)
      /\ \A k \in DOMAIN catalog : MappedTo(name, "Tarife", k).id = TariffDraft(Here, name, k).id
  BY <1>2, TariffsAre
<1>6. x = addressKeyFromRow(given[i])
  BY <1>1 DEF GivenAddress
<1>7. T.objectIdByAddressKey = F.objectIdByAddressKey
  BY LoopsRemain DEF BuildingsStay, InPlan, Here
<1>8. \A y \in DOMAIN K.objectIdByAddressKey :
         y \in DOMAIN F.objectIdByAddressKey /\ F.objectIdByAddressKey[y] = K.objectIdByAddressKey[y]
  BY BuildingsAre DEF FkMapped, IndexesGrow
<1>9. \A S : S # {} => OneOf(S) \in S
  BY OneOfIs
<1>10. OneOf({}) = undefined
  BY OneOfIs
<1>11. there # {} => assignment.objectId \in there
  <2>1. SUFFICES ASSUME there # {} PROVE assignment.objectId \in there
    OBVIOUS
  <2>2. x \in DOMAIN K.objectIdByAddressKey /\ K.objectIdByAddressKey[x] \in there
    BY <1>6, <2>1, KfdObjectsAt
  <2> HIDE DEF x, K, F, T, d, there, assignment
  <2>3. Get(T.objectIdByAddressKey, x) = {K.objectIdByAddressKey[x]}
    BY <1>7, <1>8, <2>2 DEF Get
  <2> QED BY <1>3, <1>4, <1>9, <2>2, <2>3
<1>12. assignment.tariffCatalogItemId =
          IF same = {} THEN undefined ELSE MappedTo(name, "Tarife", Earliest(same)).id
  <2> DEFINE cell == given[i].TTarif
             code == cleanString(cell)
             key == <<System(name), lower(cell)>>
             index == T.tariffCatalogIdBySystemCode
             entry == CatalogEntry(Here, T, name, i)
  <2>1. entry = IF code = undefined THEN {} ELSE Get(index, tariffCatalogLookupKey(System(name), code))
    BY <1>1 DEF CatalogEntry
  <2>2. code # undefined => code = cell
    BY DEF cleanString
  <2>3. code # undefined => entry = Get(index, key)
    BY <2>1, <2>2 DEF tariffCatalogLookupKey
  <2>4. code # undefined <=> ~Blank(cell)
    BY DEF Blank
  <2>5. CASE code = undefined
    <3>1. same = {}
      BY <2>4, <2>5
    <3>2. entry = {}
      BY <2>1, <2>5
    <3> HIDE DEF same, assignment, d, entry
    <3> QED BY <1>3, <1>4, <1>10, <3>1, <3>2 DEF entry
  <2>6. CASE code # undefined
    <3>1. same = WithCode(Here, name, n, lower(cell))
      <4>1. ASSUME NEW j \in 1 .. n
            PROVE  lower(tariffCode(catalog[j], j)) = lower(cell) <=> TariffKey(Here, name, j) = key
        <5>1. TariffKey(Here, name, j) = <<System(name), lower(tariffCode(catalog[j], j))>>
          BY <1>1, TariffKeyIs
        <5> QED BY <5>1
      <4>2. same = {j \in 1 .. n : lower(tariffCode(catalog[j], j)) = lower(cell)}
        BY <1>1, <2>4, <2>6
      <4> HIDE DEF same, cell, catalog, key, n
      <4> QED BY <4>1, <4>2 DEF WithCode, key
    <3> HIDE DEF same
    <3>2. /\ key \in DOMAIN index <=> same # {}
          /\ same # {} => index[key] = TariffDraft(Here, name, Earliest(same)).id
      BY <1>5, <3>1 DEF CatalogIs
    <3>3. same # {} => Earliest(same) \in DOMAIN catalog
      <4>1. same \subseteq 1 .. n /\ same \subseteq Nat
        BY <3>1 DEF WithCode
      <4> QED BY <1>1, <4>1, EarliestIs
    <3>4. entry = IF same # {} THEN {index[key]} ELSE {}
      BY <2>3, <2>6, <3>2 DEF Get
    <3>5. d.tariffCatalogItemId = OneOf(entry)
      BY <1>4
    <3> HIDE DEF assignment, d, entry, key, index, catalog
    <3>6. CASE same = {}
      BY <1>3, <1>10, <3>4, <3>5, <3>6
    <3>7. CASE same # {}
      <4>1. OneOf(entry) = index[key]
        BY <1>9, <3>4, <3>7
      <4>2. MappedTo(name, "Tarife", Earliest(same)).id = TariffDraft(Here, name, Earliest(same)).id
        BY <1>5, <3>3, <3>7
      <4> QED BY <1>3, <3>2, <3>5, <3>7, <4>1, <4>2
    <3> QED BY <3>6, <3>7
  <2> QED BY <2>5, <2>6
<1> QED BY <1>11, <1>12

-----------------------------------------------------------------------------
(* The owners.                                                             *)

\* No function comes before that of the owner.
LEMMA OwnersComeFirst ==
    ASSUME NEW r
    PROVE  /\ functionPriority(r) \in Nat /\ 1 <= functionPriority(r)
           /\ functionPriority(r) = 1 <=> r.Typ = "1"
<1> DEFINE order == <<"1", "3", "2", "4", "5">>
           place == CHOOSE i \in DOMAIN order : order[i] = r.Typ
<1>1. DOMAIN order = 1 .. 5 /\ order[1] = "1" /\ \A i \in 1 .. 5 : order[i] = "1" => i = 1
  OBVIOUS
<1>2. functionPriority(r) = IF \E i \in DOMAIN order : order[i] = r.Typ THEN place ELSE 10
  BY DEF functionPriority
<1>3. (\E i \in DOMAIN order : order[i] = r.Typ) => place \in DOMAIN order /\ order[place] = r.Typ
  <2> HIDE DEF order
  <2> QED OBVIOUS
<1> HIDE DEF order, place
<1> QED BY <1>1, <1>2, <1>3

\* The contact with the least priority is an owner, if there is one.
LEMMA PrimaryIsOwner ==
    ASSUME NEW archive, NEW contacts, contacts \subseteq Nat,
           NEW f \in contacts, Functions(archive)[f].Typ = "1"
    PROVE  /\ Primary(archive, contacts) \in contacts
           /\ Functions(archive)[Primary(archive, contacts)].Typ = "1"
<1> DEFINE Priority(g) == functionPriority(Functions(archive)[g])
           least == {g \in contacts : \A h \in contacts : Priority(g) <= Priority(h)}
<1>1. \A g : /\ Priority(g) \in Nat /\ 1 <= Priority(g)
             /\ Priority(g) = 1 <=> Functions(archive)[g].Typ = "1"
  BY OwnersComeFirst
<1>2. Primary(archive, contacts) = Earliest(least)
  BY DEF Primary
<1> HIDE DEF Priority
<1>3. Priority(f) = 1
  BY <1>1
<1>4. f \in least
  BY <1>1, <1>3
<1>5. \A g \in least : g \in contacts /\ Priority(g) <= Priority(f)
  OBVIOUS
<1>6. least \subseteq Nat
  OBVIOUS
<1> HIDE DEF least
<1>7. Earliest(least) \in least
  BY <1>4, <1>6, EarliestIs
<1>8. Priority(Earliest(least)) = 1
  BY <1>1, <1>3, <1>5, <1>7
<1> QED BY <1>1, <1>2, <1>5, <1>7, <1>8

\* The name of a person whose function is known.
OwnerRow(archive, f) == Latest(PersonRows(archive, f))

\* A person that names the owner of a function for the id has the name.
NamesOwner(archive, id) ==
    \E g \in Contacts(archive, id), p \in DOMAIN People(archive) :
        /\ Functions(archive)[g].Typ = "1" /\ p \in PersonRows(archive, g)
        /\ Person(archive, id).displayName = (cleanString(People(archive)[p].Name) ?? "Unbekannt")

\* So the person of an id is its owner.
LEMMA PersonIsOwner ==
    ASSUME NEW a \in Archives, NEW id, id # undefined,
           NEW f \in Contacts(ArchiveOf[a], id), Functions(ArchiveOf[a])[f].Typ = "1"
    PROVE  NamesOwner(ArchiveOf[a], id)
<1> DEFINE archive == ArchiveOf[a]
           contacts == Contacts(archive, id)
           g == Primary(archive, contacts)
           p == OwnerRow(archive, g)
<1>1. /\ DOMAIN Functions(archive) = 1 .. Len(Functions(archive))
      /\ DOMAIN People(archive) = 1 .. Len(People(archive)) /\ Len(People(archive)) \in Nat
  BY TableIs DEF Functions, People
<1>2. Functions(archive)[f].Typ = "1" /\ f \in contacts
  OBVIOUS
<1> HIDE DEF archive
<1>3. contacts \subseteq Nat
  BY <1>1 DEF Contacts
<1>4. \A h \in contacts : PersonRows(archive, h) # {}
  BY DEF Contacts
<1> HIDE DEF contacts
<1>5. g \in contacts /\ Functions(archive)[g].Typ = "1"
  BY <1>2, <1>3, PrimaryIsOwner
<1> HIDE DEF g
<1>6. p \in PersonRows(archive, g) /\ p \in DOMAIN People(archive)
  <2>1. PersonRows(archive, g) \subseteq DOMAIN People(archive)
    BY DEF PersonRows
  <2>2. Latest(PersonRows(archive, g)) \in PersonRows(archive, g)
    BY <1>1, <1>4, <1>5, <2>1, LatestIs
  <2> QED BY <2>1, <2>2 DEF OwnerRow
<1>7. personInfo(archive, g).displayName = (cleanString(People(archive)[p].Name) ?? "Unbekannt")
  BY DEF personInfo, OwnerRow
<1>8. Person(archive, id).displayName = personInfo(archive, g).displayName
  BY <1>2 DEF Person, g, contacts
<1> HIDE DEF p
<1> QED BY <1>5, <1>6, <1>7, <1>8 DEF contacts, archive, NamesOwner

LEMMA NameIsGiven == ASSUME NEW cell PROVE (cleanString(cell) ?? "Unbekannt") # undefined
  BY UndefinedAssumption DEF cleanString, ??

\* The customer of a building is named as the person the archive has for it.
LEMMA CustomerIsPerson ==
    ASSUME NEW archive, NEW i, Person(archive, KfdNumber(archive, i)).displayName # undefined
    PROVE  KfdCustomer(archive, i).displayName = Person(archive, KfdNumber(archive, i)).displayName
<1> DEFINE name == Person(archive, KfdNumber(archive, i)).displayName
<1> HIDE DEF name
<1>1. \A b : name ?? b = name
  BY DEF ??, name
<1>2. \E b, c, d, e : KfdCustomer(archive, i).displayName = (name ?? b ?? c ?? d ?? e)
  BY DEF KfdCustomer, mapCustomer, name
<1> QED BY <1>1, <1>2 DEF name

\* The customer of a building is written with the building's key, and later rows
\* with this key are of the same number.
LEMMA PlanCustomerIsTheOwner == InPlan => CustomerIsTheOwner
<1> SUFFICES ASSUME InPlan, KeysFollowNumbers, NEW i \in DOMAIN RowsOf("KFDSTAMM", "GebStamm")
             PROVE  LET kfd == RowsOf("KFDSTAMM", "GebStamm")
                        functions == RowsOf("Anschriften", "Funktionen")
                        people == RowsOf("Anschriften", "Personen")
                        owners == {p \in DOMAIN people :
                                      /\ cleanIdentifier(people[p].PersonID) # undefined
                                      /\ \E f \in DOMAIN functions :
                                            /\ functions[f].Typ = "1"
                                            /\ functions[f].KFDID = kfd[i].KGrundID
                                            /\ functions[f].PersonID = people[p].PersonID}
                        object == DraftOf("objects", MappedTo("KFDSTAMM", "GebStamm", i).id)
                    IN  cleanIdentifier(kfd[i].KGrundID) # undefined /\ owners # {}
                            => \E p \in owners :
                                  DraftOf("customers", object.customerId).displayName
                                      = (cleanString(people[p].Name) ?? "Unbekannt")
  BY DEF CustomerIsTheOwner
<1> DEFINE kfd == RowsOf("KFDSTAMM", "GebStamm")
           functions == RowsOf("Anschriften", "Funktionen")
           people == RowsOf("Anschriften", "Personen")
           owners == {p \in DOMAIN people :
                         /\ cleanIdentifier(people[p].PersonID) # undefined
                         /\ \E f \in DOMAIN functions :
                               /\ functions[f].Typ = "1"
                               /\ functions[f].KFDID = kfd[i].KGrundID
                               /\ functions[f].PersonID = people[p].PersonID}
           object == DraftOf("objects", MappedTo("KFDSTAMM", "GebStamm", i).id)
           customer == DraftOf("customers", object.customerId)
           n == Len(Table(Here, "KFDSTAMM", "GebStamm"))
           K == MapKfdBuildings(Here)
           F == MapBuildings(Here)
           cell == kfd[i].KGrundID
<1>1. /\ kfd = Table(Here, "KFDSTAMM", "GebStamm") /\ DOMAIN kfd = 1 .. n
      /\ functions = Functions(Here) /\ people = People(Here)
  BY RowsAre DEF Functions, People
<1>2. KfdMapped(Here, K, n) /\ MappedTo("KFDSTAMM", "GebStamm", i).id = KfdObject(Here, i).id
  BY BuildingsAre
<1>3. Sound(K) /\ DraftsRemain(K, F)
  BY MapsSound, FkLoop DEF InPlan, Here
<1>4. /\ Plan.objects = F.objects /\ Plan.customers = F.customers
      /\ AreDrafts(Plan.objects) /\ AreDrafts(Plan.customers)
  <2>1. /\ PlanOf[job.archive].objects = MapUsers(Here).objects
        /\ PlanOf[job.archive].customers = MapUsers(Here).customers
    BY PlanOfMaps DEF InPlan, Here
  <2>2. MapUsers(Here).objects = F.objects /\ MapUsers(Here).customers = F.customers
    BY LoopsRemain DEF BuildingsStay, InPlan, Here
  <2>3. AreDrafts(PlanOf[job.archive].objects) /\ AreDrafts(PlanOf[job.archive].customers)
    BY PlanDrafts, TablesAre DEF InPlan
  <2> QED BY <2>1, <2>2, <2>3 DEF InPlan
<1>5. object.customerId = deterministicId(KfdCustomerKey(Here, i)) /\ object \in ToSet(Plan.objects)
  <2> HIDE DEF K, F, n
  <2>1. PICK e \in ToSet(K.objects) : e.id = KfdObject(Here, i).id
    BY <1>1, <1>2 DEF KfdMapped, Ids
  <2>2. PICK k \in 1 .. n : e = KfdObject(Here, k)
    BY <1>2 DEF KfdMapped
  <2>3. KfdKey(Here, k) = KfdKey(Here, i)
    <3>1. KfdObject(Here, k).sourceKey = KfdKey(Here, k) /\ IsDraft(KfdObject(Here, k))
      BY KfdKeys
    <3>2. KfdObject(Here, i).sourceKey = KfdKey(Here, i) /\ IsDraft(KfdObject(Here, i))
      BY KfdKeys
    <3> QED BY <2>1, <2>2, <3>1, <3>2, IdsTell
  <2>4. e.customerId = deterministicId(KfdCustomerKey(Here, i))
    <3>1. KfdCustomerKey(Here, k) = KfdCustomerKey(Here, i)
      BY <2>3, KfdKeys
    <3>2. KfdObject(Here, k).customerId = deterministicId(KfdCustomerKey(Here, k))
      BY KfdKeys
    <3> QED BY <2>2, <3>1, <3>2
  <2>5. PICK d \in ToSet(Plan.objects) : d.id = e.id /\ d.customerId = e.customerId
    BY <1>3, <1>4 DEF DraftsRemain
  <2>6. object = d
    <3>1. DraftOf("objects", d.id) = d
      BY <1>4, DraftOfIs
    <3> QED BY <1>2, <2>1, <2>5, <3>1
  <2> HIDE DEF object
  <2> QED BY <2>4, <2>5, <2>6
<1>6. \E k \in DOMAIN kfd : customer = KfdCustomer(Here, k) /\ kfd[k].KGrundID = cell
  <2>1. object.customerId \in Ids(K.customers)
    <3>1. PICK e \in ToSet(K.objects) : e.id = KfdObject(Here, i).id
      BY <1>1, <1>2 DEF KfdMapped, Ids
    <3>2. PICK k \in 1 .. n : e = KfdObject(Here, k)
      BY <1>2 DEF KfdMapped
    <3>3. KfdKey(Here, k) = KfdKey(Here, i)
      <4>1. KfdObject(Here, k).sourceKey = KfdKey(Here, k) /\ IsDraft(KfdObject(Here, k))
        BY KfdKeys
      <4>2. KfdObject(Here, i).sourceKey = KfdKey(Here, i) /\ IsDraft(KfdObject(Here, i))
        BY KfdKeys
      <4> QED BY <3>1, <3>2, <4>1, <4>2, IdsTell
    <3>4. e.customerId = object.customerId
      <4>1. KfdCustomerKey(Here, k) = KfdCustomerKey(Here, i)
        BY <3>3, KfdKeys
      <4>2. KfdObject(Here, k).customerId = deterministicId(KfdCustomerKey(Here, k))
        BY KfdKeys
      <4> QED BY <1>5, <3>2, <4>1, <4>2
    <3>5. e.customerId \in Ids(K.customers)
      BY <1>3 DEF Sound, ReferencesAreSound
    <3> QED BY <3>4, <3>5
  <2> HIDE DEF K, F, object
  <2>2. PICK c \in ToSet(K.customers) : c.id = object.customerId
    BY <2>1 DEF Ids
  <2>3. PICK k \in 1 .. n : c = KfdCustomer(Here, k)
    BY <1>2 DEF KfdMapped
  <2>4. c \in ToSet(Plan.customers)
    BY <1>3, <1>4 DEF DraftsRemain
  <2>5. customer = c
    BY <1>4, <2>2, <2>4, DraftOfIs
  <2>6. KfdCustomerKey(Here, k) = KfdCustomerKey(Here, i)
    <3>1. c.id = deterministicId(KfdCustomerKey(Here, k))
      BY <2>3, KfdKeys
    <3>2. \A y, z : deterministicId(y) = deterministicId(z) => y = z
      BY DEF deterministicId
    <3> QED BY <1>5, <2>2, <3>1, <3>2
  <2>7. KfdKey(Here, k) = KfdKey(Here, i)
    BY <2>6, KfdKeys
  <2>8. kfd[k].KGrundID = cell
    <3>1. k \in DOMAIN kfd
      BY <1>1
    <3>2. sourceKeyFromParts("object:kfd", KfdKeyParts(kfd[k]))
             = sourceKeyFromParts("object:kfd", KfdKeyParts(kfd[i]))
      BY <1>1, <2>7 DEF KfdKey, KfdRow
    <3> QED BY <3>1, <3>2 DEF KeysFollowNumbers
  <2> QED BY <1>1, <2>3, <2>5, <2>8
<1>7. ASSUME cleanIdentifier(cell) # undefined, owners # {}
      PROVE  \E p \in owners : customer.displayName = (cleanString(people[p].Name) ?? "Unbekannt")
  <2> DEFINE id == cleanString(cell)
  <2> HIDE DEF customer, object, kfd
  <2>1. id # undefined /\ cleanIdentifier(cell) = id /\ id = cell
    BY <1>7 DEF cleanIdentifier, cleanString
  <2>2. PICK p0 \in owners, f \in DOMAIN functions :
           /\ cleanIdentifier(people[p0].PersonID) # undefined
           /\ functions[f].Typ = "1" /\ functions[f].KFDID = cell
           /\ functions[f].PersonID = people[p0].PersonID
    BY <1>7
  <2>3. f \in Contacts(Here, id)
    <3>1. p0 \in PersonRows(Here, f)
      BY <1>1, <2>2 DEF PersonRows
    <3> QED BY <1>1, <2>1, <2>2, <3>1 DEF Contacts
  <2>4. PICK g \in Contacts(Here, id), p \in DOMAIN People(Here) :
           /\ Functions(Here)[g].Typ = "1" /\ p \in PersonRows(Here, g)
           /\ Person(Here, id).displayName = (cleanString(People(Here)[p].Name) ?? "Unbekannt")
    <3>1. Functions(Here)[f].Typ = "1"
      BY <1>1, <2>2
    <3>2. job.archive \in Archives
      BY DEF InPlan
    <3> HIDE DEF id
    <3>3. NamesOwner(Here, id)
      BY <2>1, <2>3, <3>1, <3>2, PersonIsOwner DEF Here
    <3> QED BY <3>3 DEF NamesOwner
  <2>5. p \in owners
    <3>1. \A x, y : cleanIdentifier(x) # undefined /\ cleanIdentifier(x) = cleanIdentifier(y) => x = y
      BY DEF cleanIdentifier, cleanString
    <3>2. /\ cleanIdentifier(functions[g].PersonID) # undefined
          /\ cleanIdentifier(people[p].PersonID) = cleanIdentifier(functions[g].PersonID)
      BY <1>1, <2>4 DEF PersonRows
    <3>3. g \in DOMAIN functions /\ cleanIdentifier(functions[g].KFDID) = cleanIdentifier(cell)
      BY <1>1, <2>1, <2>4 DEF Contacts
    <3>4. functions[g].KFDID = cell /\ functions[g].PersonID = people[p].PersonID
      BY <1>7, <3>1, <3>2, <3>3
    <3> QED BY <1>1, <2>4, <3>2, <3>3, <3>4 DEF kfd
  <2>6. customer.displayName = Person(Here, id).displayName
    <3>1. PICK k \in DOMAIN kfd : customer = KfdCustomer(Here, k) /\ kfd[k].KGrundID = cell
      BY <1>6
    <3>2. KfdNumber(Here, k) = id
      BY <1>1, <3>1 DEF KfdNumber, KfdRow
    <3>3. Person(Here, id).displayName # undefined
      BY <2>4, NameIsGiven
    <3> QED BY <3>1, <3>2, <3>3, CustomerIsPerson
  <2> QED BY <1>1, <2>4, <2>5, <2>6
<1> HIDE DEF kfd, functions, people, customer
<1> QED BY <1>7 DEF kfd, functions, people, customer

-----------------------------------------------------------------------------
(* The inductive invariant of the import.                                  *)

Draft(a, k, i) == PlanOf[a][k][i]
DraftPlaces(a, k) == DOMAIN PlanOf[a][k]

\* Types, and where an import can be.
Shape ==
    /\ \E S \in Shelves : shelf = [a \in S |-> PlanOf[a]]
    /\ job \in Batches /\ job.archive \in DOMAIN shelf
    /\ table \in 1 .. Len(Tables) + 1 /\ row \in Nat \ {0}
    /\ pc \in {"batch", "delete"} => table = 1 /\ row = 1
    /\ pc = "upsert" => table <= Len(Tables)
    /\ pc \in {"records", "done"} => table = Len(Tables) + 1
    /\ pc \in {"delete", "upsert", "records", "fail", "done"} => job \in DOMAIN batches
    /\ DOMAIN db = TableSet
    /\ \A k \in TableSet : \A r \in db[k] : DOMAIN r = {"tenant", "id", "columns"}

\* Every row is of a draft of an archive at hand, and has its id.
RowsAreDrafts ==
    \A k \in TableSet : \A r \in db[k] :
        /\ r.tenant \in Tenants
        /\ \E a \in DOMAIN shelf : \E i \in DraftPlaces(a, k) :
              /\ Draft(a, k, i).id = r.id
              /\ Draft(a, k, i).sourceKey = r.columns.sourceKey

\* So is the email of every employee.
EmailsAreDrafts ==
    \A r \in db["users"] :
        \E a \in DOMAIN shelf : \E i \in DraftPlaces(a, "users") :
            /\ Draft(a, "users", i).sourceKey = r.columns.sourceKey
            /\ Draft(a, "users", i).email = r.columns.email

\* A row says what a draft says.
Says(r, d) ==
    \A c \in DOMAIN d : c # "id" /\ d[c] # undefined => r.columns[c] = d[c]

Held(k, d) == \E r \in db[k] : IsRowOf(r, job.tenant, d) /\ Says(r, d)

\* The drafts that the import has written.
Passed(j, i) == j < table \/ (j = table /\ i < row)

PassedAreHeld ==
    pc \in {"upsert", "records", "done"} =>
        \A j \in DOMAIN Tables : \A i \in DraftPlaces(job.archive, Tables[j]) :
            Passed(j, i) => Held(Tables[j], Draft(job.archive, Tables[j], i))

\* The records of the import's batch.
Copied == {r[2] : r \in {q \in records : q[1] = job}}

Legacy(a) == {PlanOf[a].legacyRecords[i] : i \in DOMAIN PlanOf[a].legacyRecords}
LegacyBelow(a, n) ==
    {PlanOf[a].legacyRecords[i] : i \in {j \in DOMAIN PlanOf[a].legacyRecords : j < n}}

RecordsFollow ==
    /\ pc = "upsert" => Copied = {}
    /\ pc = "records" => Copied = LegacyBelow(job.archive, row)
    /\ pc = "done" => batches[job] = "completed" /\ Copied = Legacy(job.archive)

-----------------------------------------------------------------------------
(* The tables and their drafts.                                            *)

LEMMA TablesFacts ==
    /\ Len(Tables) = 6 /\ DOMAIN Tables = 1 .. 6
    /\ \A i \in 1 .. 6 : Tables[i] \in TableSet
    /\ \A i, j \in 1 .. 6 : Tables[i] = Tables[j] => i = j
    /\ "users" \in TableSet
<1>1. Len(Tables) = 6 /\ DOMAIN Tables = 1 .. 6
  BY DEF Tables
<1>2. \A i, j \in 1 .. 6 : Tables[i] = Tables[j] => i = j
  BY DEF Tables
<1>3. Tables[1] = "users"
  BY DEF Tables
<1> QED
  BY <1>1, <1>2, <1>3 DEF TableSet

\* Every table is written after the tables it refers to.
LEMMA ReferencesGoBack ==
    ASSUME NEW j \in 1 .. 6, NEW d, NEW ref \in References(Tables[j], d)
    PROVE  \E i \in 1 .. 6 : i < j /\ Tables[i] = ref[1]
<1>1. /\ Tables[1] = "users" /\ Tables[2] = "customers" /\ Tables[3] = "objects"
      /\ Tables[4] = "installations" /\ Tables[5] = "tariffCatalogItems"
      /\ Tables[6] = "objectTariffAssignments"
  BY DEF Tables
<1>2. CASE j = 1
  BY <1>1, <1>2 DEF References
<1>3. CASE j = 2
  BY <1>1, <1>3 DEF References
<1>4. CASE j = 3
  <2>1. ref[1] = "customers"
    BY <1>1, <1>4 DEF References
  <2> QED
    BY <1>1, <1>4, <2>1
<1>5. CASE j = 4
  <2>1. ref[1] = "objects"
    BY <1>1, <1>5 DEF References
  <2> QED
    BY <1>1, <1>5, <2>1
<1>6. CASE j = 5
  BY <1>1, <1>6 DEF References
<1>7. CASE j = 6
  <2>1. ref[1] \in {"objects", "tariffCatalogItems"}
    BY <1>1, <1>7 DEF References
  <2> QED
    BY <1>1, <1>7, <2>1
<1> QED
  BY <1>2, <1>3, <1>4, <1>5, <1>6, <1>7

\* The plan of the import is that of its archive.
LEMMA PlanIs ==
    ASSUME Shape
    PROVE  /\ job.archive \in Archives
           /\ Plan = PlanOf[job.archive]
           /\ DOMAIN shelf \subseteq Archives
           /\ \E S \in Shelves : DOMAIN shelf = S
BY DEF Shape, Plan, Archives

LEMMA PlanFacts ==
    ASSUME NEW a \in Archives, NEW k \in TableSet
    PROVE  /\ Len(PlanOf[a][k]) \in Nat /\ DraftPlaces(a, k) = 1 .. Len(PlanOf[a][k])
           /\ \A i \in DraftPlaces(a, k) :
                 /\ {"sourceKey", "id"} \subseteq DOMAIN Draft(a, k, i)
                 /\ k = "users" => "email" \in DOMAIN Draft(a, k, i)
           /\ \A i, j \in DraftPlaces(a, k) :
                 Draft(a, k, i).sourceKey = Draft(a, k, j).sourceKey => i = j
BY PlansFit DEF DraftPlaces, Draft

LEMMA IdsAreKeys ==
    ASSUME NEW a \in Archives, NEW b \in Archives, NEW k \in TableSet,
           NEW i \in DraftPlaces(a, k), NEW j \in DraftPlaces(b, k)
    PROVE  Draft(a, k, i).sourceKey = Draft(b, k, j).sourceKey
              <=> Draft(a, k, i).id = Draft(b, k, j).id
BY PlansFit DEF DraftPlaces, Draft

-----------------------------------------------------------------------------
(* What an upsert does to its table.                                       *)

\* A row that the upsert leaves behind was there, or is the row of the draft
\* with the id and the columns it had or has.
LEMMA WrittenFrom ==
    ASSUME NEW k, NEW d, {"sourceKey", "id"} \subseteq DOMAIN d,
           \A r \in db[k] : DOMAIN r = {"tenant", "id", "columns"},
           NEW r \in Written(k, d)
    PROVE  /\ DOMAIN r = {"tenant", "id", "columns"}
           /\ \/ r \in db[k]
              \/ /\ r.tenant = job.tenant /\ r.columns.sourceKey = d.sourceKey
                 /\ \/ r.id = d.id /\ r.columns = d
                    \/ \E old \in db[k] :
                          /\ IsRowOf(old, job.tenant, d)
                          /\ r.id = old.id /\ r.columns = Merge(old.columns, d)
<1>1. CASE \E old \in db[k] : IsRowOf(old, job.tenant, d)
  <2>1. PICK old \in db[k] : r = IF IsRowOf(old, job.tenant, d)
                                 THEN [old EXCEPT !.columns = Merge(old.columns, d)] ELSE old
    BY <1>1 DEF Written
  <2>2. CASE IsRowOf(old, job.tenant, d)
    <3>1. r = [old EXCEPT !.columns = Merge(old.columns, d)]
      BY <2>1, <2>2
    <3>2. /\ DOMAIN r = {"tenant", "id", "columns"}
          /\ r.tenant = old.tenant /\ r.id = old.id /\ r.columns = Merge(old.columns, d)
      BY <3>1
    <3>3. Merge(old.columns, d).sourceKey = d.sourceKey
      BY <2>2 DEF Merge, IsRowOf
    <3> QED
      BY <2>2, <3>2, <3>3 DEF IsRowOf
  <2> QED
    BY <2>1, <2>2
<1>2. CASE \A old \in db[k] : ~IsRowOf(old, job.tenant, d)
  <2>1. r \in db[k] \/ r = [tenant |-> job.tenant, id |-> d.id, columns |-> d]
    BY <1>2 DEF Written
  <2> QED
    BY <2>1
<1> QED
  BY <1>1, <1>2

\* Afterwards the table holds the draft.
LEMMA WrittenHolds ==
    ASSUME NEW k, NEW d, "sourceKey" \in DOMAIN d,
           \A r \in db[k] : DOMAIN r = {"tenant", "id", "columns"}
    PROVE  \E r \in Written(k, d) : IsRowOf(r, job.tenant, d) /\ Says(r, d)
<1>1. CASE \E old \in db[k] : IsRowOf(old, job.tenant, d)
  <2>1. PICK old \in db[k] : IsRowOf(old, job.tenant, d)
    BY <1>1
  <2> DEFINE new == [old EXCEPT !.columns = Merge(old.columns, d)]
  <2>2. new \in Written(k, d)
    BY <1>1, <2>1 DEF Written
  <2>3. new.tenant = old.tenant /\ new.columns = Merge(old.columns, d)
    OBVIOUS
  <2>4. IsRowOf(new, job.tenant, d)
    BY <2>1, <2>3 DEF IsRowOf, Merge
  <2>5. Says(new, d)
    BY <2>3 DEF Says, Merge
  <2> QED
    BY <2>2, <2>4, <2>5
<1>2. CASE \A old \in db[k] : ~IsRowOf(old, job.tenant, d)
  <2> DEFINE new == [tenant |-> job.tenant, id |-> d.id, columns |-> d]
  <2>1. new \in Written(k, d)
    BY <1>2 DEF Written
  <2>2. IsRowOf(new, job.tenant, d) /\ Says(new, d)
    BY DEF IsRowOf, Says
  <2> QED
    BY <2>1, <2>2
<1> QED
  BY <1>1, <1>2

\* The rows of other drafts stay as they are.
LEMMA WrittenKeeps ==
    ASSUME NEW k, NEW d, NEW r \in db[k], ~IsRowOf(r, job.tenant, d)
    PROVE  r \in Written(k, d)
BY DEF Written

\* The two outcomes of an upsert.
LEMMA UpsertOutcome ==
    ASSUME Shape, Upsert
    PROVE  /\ UNCHANGED <<shelf, batches, records, job, table>>
           /\ pc = "upsert" /\ table \in 1 .. 6 /\ Tables[table] \in TableSet
           /\ row \in DraftPlaces(job.archive, Tables[table])
           /\ \/ pc' = "fail" /\ db' = db /\ row' = row
              \/ /\ pc' = pc /\ row' = row + 1
                 /\ db' = [db EXCEPT ![Tables[table]] =
                       Written(Tables[table], Draft(job.archive, Tables[table], row))]
<1>1. pc = "upsert" /\ table \in 1 .. 6 /\ Tables[table] \in TableSet
  BY TablesFacts DEF Shape, Upsert
<1>2. /\ Drafts = PlanOf[job.archive][Tables[table]] /\ job.archive \in Archives
      /\ DraftPlaces(job.archive, Tables[table]) = 1 .. Len(Drafts)
  BY <1>1, PlanIs, PlanFacts DEF Drafts
<1>3. row \in DraftPlaces(job.archive, Tables[table])
  BY <1>2 DEF Upsert, Shape
<1> QED
  BY <1>1, <1>2, <1>3 DEF Upsert, GoTo, Draft

-----------------------------------------------------------------------------
(* Types and places.                                                       *)

LEMMA InitInv == Init => Shape /\ RowsAreDrafts /\ EmailsAreDrafts
                               /\ PassedAreHeld /\ RecordsFollow
<1> SUFFICES ASSUME Init
             PROVE  Shape /\ RowsAreDrafts /\ EmailsAreDrafts /\ PassedAreHeld /\ RecordsFollow
  OBVIOUS
<1>1. Shape
  BY TablesFacts DEF Init, Shape
<1>2. \A k \in TableSet : db[k] = {}
  BY DEF Init
<1> QED
  BY <1>1, <1>2, TablesFacts
     DEF Init, RowsAreDrafts, EmailsAreDrafts, PassedAreHeld, RecordsFollow

LEMMA UpsertShape ==
    ASSUME Shape, Upsert
    PROVE  Shape'
<1> DEFINE k == Tables[table]
           d == Draft(job.archive, k, row)
<1>1. CASE pc' = "fail" /\ db' = db /\ row' = row
  BY <1>1, UpsertOutcome DEF Shape, Upsert
<1>2. CASE pc' = pc /\ row' = row + 1 /\ db' = [db EXCEPT ![k] = Written(k, d)]
  <2>1. k \in TableSet /\ row \in DraftPlaces(job.archive, k)
    BY UpsertOutcome
  <2>2. {"sourceKey", "id"} \subseteq DOMAIN d
    BY <2>1, PlanIs, PlanFacts
  <2>3. \A r \in db[k] : DOMAIN r = {"tenant", "id", "columns"}
    BY <2>1 DEF Shape
  <2> HIDE DEF k, d
  <2>4. \A r \in Written(k, d) : DOMAIN r = {"tenant", "id", "columns"}
    BY <2>2, <2>3, WrittenFrom
  <2>5. DOMAIN db' = TableSet
    BY <1>2 DEF Shape
  <2>6. \A q \in TableSet : db'[q] = IF q = k THEN Written(k, d) ELSE db[q]
    BY <1>2 DEF Shape
  <2>7. \A q \in TableSet : \A r \in db'[q] : DOMAIN r = {"tenant", "id", "columns"}
    BY <2>4, <2>6 DEF Shape
  <2>8. row' \in Nat \ {0}
    BY <1>2 DEF Shape
  <2> QED
    BY <1>2, <2>5, <2>7, <2>8, UpsertOutcome DEF Shape
<1> QED
  BY <1>1, <1>2, UpsertOutcome

LEMMA NextShape == Shape /\ [Next]_vars => Shape'
<1> SUFFICES ASSUME Shape, [Next]_vars PROVE Shape'
  OBVIOUS
<1> USE TablesFacts
<1>1. ASSUME NEW t \in Tenants, NEW a \in Archives, Start(t, a) PROVE Shape'
  BY <1>1 DEF Start, Shape, GoTo, Batches
<1>2. CASE FindBatch
  BY <1>2 DEF FindBatch, Shape, GoTo, Running
<1>3. CASE DeleteRecords
  BY <1>3 DEF DeleteRecords, Shape, GoTo
<1>4. CASE Upsert
  BY <1>4, UpsertShape
<1>5. CASE NextTable
  BY <1>5 DEF NextTable, Shape, GoTo
<1>6. CASE CreateChunk
  BY <1>6, ImportAssumption DEF CreateChunk, Shape
<1>7. CASE Complete
  BY <1>7 DEF Complete, Shape, GoTo
<1>8. CASE RecordFailure
  BY <1>8 DEF RecordFailure, Shape, GoTo
<1>9. CASE DatabaseFault
  BY <1>9 DEF DatabaseFault, Shape, GoTo
<1>10. CASE Kill
  BY <1>10 DEF Kill, Shape, GoTo
<1>11. CASE UNCHANGED vars
  BY <1>11 DEF vars, Shape
<1> QED
  BY <1>1, <1>2, <1>3, <1>4, <1>5, <1>6, <1>7, <1>8, <1>9, <1>10, <1>11 DEF Next, Import

-----------------------------------------------------------------------------
(* Rows are of drafts: only an upsert writes rows, and it leaves rows of   *)
(* the table's drafts with their ids.                                      *)

LEMMA OnlyUpsertWrites ==
    ASSUME [Next]_vars, ~Upsert
    PROVE  UNCHANGED <<db, shelf>>
BY DEF Next, vars, Import, Start, FindBatch, DeleteRecords, NextTable, CreateChunk,
       Complete, RecordFailure, DatabaseFault, Kill

\* Only an upsert changes the tables, and it writes a draft of the plan.
LEMMA NextRows ==
    ASSUME Shape, RowsAreDrafts, EmailsAreDrafts, [Next]_vars
    PROVE  RowsAreDrafts' /\ EmailsAreDrafts'
<1> DEFINE k == Tables[table]
           a == job.archive
           d == Draft(a, k, row)
<1>1. CASE UNCHANGED <<db, shelf>>
  BY <1>1 DEF RowsAreDrafts, EmailsAreDrafts
<1>2. CASE Upsert /\ db' = [db EXCEPT ![k] = Written(k, d)]
  <2>1. /\ k \in TableSet /\ row \in DraftPlaces(a, k) /\ shelf' = shelf
        /\ job.tenant \in Tenants /\ a \in DOMAIN shelf
    BY <1>2, UpsertOutcome DEF Shape, Batches
  <2>2. /\ {"sourceKey", "id"} \subseteq DOMAIN d
        /\ k = "users" => "email" \in DOMAIN d
    BY <2>1, PlanIs, PlanFacts
  <2>3. \A r \in db[k] : DOMAIN r = {"tenant", "id", "columns"}
    BY <2>1 DEF Shape
  <2>4. \A q \in TableSet : db'[q] = IF q = k THEN Written(k, d) ELSE db[q]
    BY <1>2 DEF Shape
  <2>5. d = PlanOf[a][k][row]
    BY DEF Draft
  <2> HIDE DEF k, d, a
  <2>6. ASSUME NEW r \in Written(k, d)
        PROVE  /\ r.tenant \in Tenants
               /\ \E b \in DOMAIN shelf : \E i \in DraftPlaces(b, k) :
                     /\ Draft(b, k, i).id = r.id
                     /\ Draft(b, k, i).sourceKey = r.columns.sourceKey
    <3>1. CASE r \in db[k]
      BY <2>1, <3>1 DEF RowsAreDrafts
    <3>2. CASE /\ r.tenant = job.tenant /\ r.columns.sourceKey = d.sourceKey
               /\ r.id = d.id
      BY <2>1, <2>5, <3>2 DEF Draft
    <3>3. CASE /\ r.tenant = job.tenant /\ r.columns.sourceKey = d.sourceKey
               /\ \E old \in db[k] : IsRowOf(old, job.tenant, d) /\ r.id = old.id
      <4>1. PICK old \in db[k] : IsRowOf(old, job.tenant, d) /\ r.id = old.id
        BY <3>3
      <4> QED
        BY <2>1, <3>3, <4>1 DEF RowsAreDrafts, IsRowOf
    <3> QED
      BY <2>2, <2>3, <3>1, <3>2, <3>3, WrittenFrom
  <2>7. RowsAreDrafts'
    BY <2>1, <2>4, <2>6 DEF RowsAreDrafts, DraftPlaces, Draft
  <2>8. ASSUME k = "users", NEW r \in Written(k, d)
        PROVE  \E b \in DOMAIN shelf : \E i \in DraftPlaces(b, "users") :
                  /\ Draft(b, "users", i).sourceKey = r.columns.sourceKey
                  /\ Draft(b, "users", i).email = r.columns.email
    <3>1. CASE r \in db[k]
      BY <2>8, <3>1 DEF EmailsAreDrafts
    <3>2. CASE r.columns.sourceKey = d.sourceKey /\ r.columns.email = d.email
      BY <2>1, <2>5, <2>8, <3>2 DEF Draft
    <3>3. CASE /\ r.columns.sourceKey = d.sourceKey
               /\ \E old \in db[k] :
                     IsRowOf(old, job.tenant, d) /\ r.columns = Merge(old.columns, d)
      <4>1. PICK old \in db[k] :
                IsRowOf(old, job.tenant, d) /\ r.columns = Merge(old.columns, d)
        BY <3>3
      <4>2. r.columns.email = IF d.email = undefined THEN old.columns.email ELSE d.email
        BY <2>2, <2>8, <4>1 DEF Merge
      <4>3. CASE d.email = undefined
        BY <2>8, <3>3, <4>1, <4>2, <4>3 DEF EmailsAreDrafts, IsRowOf
      <4> QED
        BY <3>2, <3>3, <4>2, <4>3
    <3> QED
      BY <2>2, <2>3, <3>1, <3>2, <3>3, WrittenFrom
  <2>9. EmailsAreDrafts'
    BY <2>1, <2>4, <2>8, TablesFacts DEF EmailsAreDrafts, DraftPlaces, Draft
  <2> QED
    BY <2>7, <2>9
<1> QED
  BY <1>1, <1>2, OnlyUpsertWrites, UpsertOutcome

-----------------------------------------------------------------------------
(* What has been written stays as written until the next attempt.          *)

LEMMA UpsertHeld ==
    ASSUME Shape, PassedAreHeld, Upsert
    PROVE  PassedAreHeld'
<1> DEFINE k == Tables[table]
           a == job.archive
           d == Draft(a, k, row)
<1>1. CASE pc' = "fail"
  BY <1>1 DEF PassedAreHeld
<1>2. CASE pc' = pc /\ row' = row + 1 /\ db' = [db EXCEPT ![k] = Written(k, d)]
  <2>1. /\ pc = "upsert" /\ UNCHANGED <<job, table>> /\ a \in Archives
        /\ table \in 1 .. 6 /\ k \in TableSet /\ row \in DraftPlaces(a, k)
    BY UpsertOutcome, PlanIs
  <2>2. /\ "sourceKey" \in DOMAIN d
        /\ \A i \in DraftPlaces(a, k) : Draft(a, k, i).sourceKey = d.sourceKey => i = row
        /\ row \in Nat /\ \A i \in DraftPlaces(a, k) : i \in Nat
    BY <2>1, PlanFacts
  <2>3. \A r \in db[k] : DOMAIN r = {"tenant", "id", "columns"}
    BY <2>1 DEF Shape
  <2>4. \A q \in TableSet : db'[q] = IF q = k THEN Written(k, d) ELSE db[q]
    BY <1>2 DEF Shape
  <2>5. ASSUME NEW j \in 1 .. 6, NEW i \in DraftPlaces(a, Tables[j]),
               j < table \/ (j = table /\ i < row + 1)
        PROVE  \E r \in db'[Tables[j]] : /\ IsRowOf(r, job.tenant, Draft(a, Tables[j], i))
                                         /\ Says(r, Draft(a, Tables[j], i))
    <3>1. Tables[j] \in TableSet /\ (Tables[j] = k => j = table)
      BY <2>1, TablesFacts
    <3>2. CASE j = table /\ i = row
      BY <2>2, <2>3, <2>4, <3>1, <3>2, WrittenHolds
    <3>3. CASE ~(j = table /\ i = row)
      <4>1. Passed(j, i)
        <5>1. CASE j < table
          BY <5>1 DEF Passed
        <5>2. CASE j = table /\ i < row + 1
          BY <2>2, <3>3, <5>2 DEF Passed
        <5> QED
          BY <2>5, <5>1, <5>2
      <4>2. PICK r \in db[Tables[j]] : /\ IsRowOf(r, job.tenant, Draft(a, Tables[j], i))
                                       /\ Says(r, Draft(a, Tables[j], i))
        BY <2>1, <4>1, TablesFacts DEF PassedAreHeld, Held
      <4>3. CASE Tables[j] # k
        BY <2>4, <3>1, <4>2, <4>3
      <4>4. CASE Tables[j] = k
        <5>1. Draft(a, k, i).sourceKey # d.sourceKey
          BY <2>2, <3>1, <3>3, <4>4
        <5>2. ~IsRowOf(r, job.tenant, d)
          BY <4>2, <4>4, <5>1 DEF IsRowOf
        <5>3. r \in Written(k, d)
          BY <4>2, <4>4, <5>2, WrittenKeeps
        <5> QED
          BY <2>4, <3>1, <4>2, <4>4, <5>3
      <4> QED
        BY <4>3, <4>4
    <3> QED
      BY <3>2, <3>3
  <2> QED
    BY <1>2, <2>1, <2>5, TablesFacts DEF PassedAreHeld, Held, Passed, Draft, DraftPlaces
<1> QED
  BY <1>1, <1>2, UpsertOutcome

\* What has been written stays, and the next draft is written.
LEMMA NextHeld ==
    ASSUME Shape, PassedAreHeld, [Next]_vars
    PROVE  PassedAreHeld'
<1>1. CASE pc' \notin {"upsert", "records", "done"}
  BY <1>1 DEF PassedAreHeld
<1>2. CASE Upsert
  BY <1>2, UpsertHeld
<1>3. CASE DeleteRecords
  <2>1. table' = 1 /\ row' = 1 /\ job' = job
    BY <1>3 DEF DeleteRecords, Shape
  <2>2. \A j \in 1 .. 6 : \A i \in DraftPlaces(job.archive, Tables[j]) :
           i \in Nat /\ ~(i < 1) /\ ~(j < 1)
    BY TablesFacts, PlanIs, PlanFacts
  <2> QED
    BY <2>1, <2>2, TablesFacts DEF PassedAreHeld, Passed, DraftPlaces
<1>4. CASE NextTable
  <2>1. /\ pc = "upsert" /\ table \in 1 .. 6 /\ row \in Nat /\ row > Len(Drafts)
        /\ table' = table + 1 /\ row' = 1 /\ UNCHANGED <<job, db>>
    BY <1>4, TablesFacts DEF NextTable, Shape
  <2>2. /\ Drafts = PlanOf[job.archive][Tables[table]] /\ job.archive \in Archives
    BY <2>1, PlanIs DEF Drafts
  <2>3. ASSUME NEW j \in 1 .. 6, NEW i \in DraftPlaces(job.archive, Tables[j]),
               j < table + 1 \/ (j = table + 1 /\ i < 1)
        PROVE  Passed(j, i)
    <3>1. /\ i \in 1 .. Len(PlanOf[job.archive][Tables[j]])
          /\ Len(PlanOf[job.archive][Tables[j]]) \in Nat
      BY <2>2, <2>3, TablesFacts, PlanFacts
    <3> QED
      BY <2>1, <2>2, <2>3, <3>1 DEF Passed
  <2>4. \A j \in 1 .. 6 : \A i \in DraftPlaces(job.archive, Tables[j]) :
           (j < table + 1 \/ (j = table + 1 /\ i < 1))
              => Held(Tables[j], Draft(job.archive, Tables[j], i))
    BY <2>1, <2>3, TablesFacts DEF PassedAreHeld
  <2> QED
    BY <2>1, <2>4, TablesFacts DEF PassedAreHeld, Held, Passed, Draft, DraftPlaces
<1>5. CASE CreateChunk \/ Complete
  <2>1. /\ pc = "records" /\ UNCHANGED <<job, db, table>>
        /\ \A j \in 1 .. 6 : j < table
    BY <1>5, TablesFacts DEF CreateChunk, Complete, Shape
  <2>2. \A j \in 1 .. 6 : \A i \in DraftPlaces(job.archive, Tables[j]) :
           Held(Tables[j], Draft(job.archive, Tables[j], i))
    BY <2>1, TablesFacts DEF PassedAreHeld, Passed
  <2> QED
    BY <2>1, <2>2, TablesFacts DEF PassedAreHeld, Held, Draft, DraftPlaces
<1>6. CASE UNCHANGED vars
  BY <1>6 DEF vars, PassedAreHeld, Held, Passed, Draft, DraftPlaces
<1>7. CASE \/ \E t \in Tenants, b \in Archives : Start(t, b)
           \/ FindBatch \/ RecordFailure \/ DatabaseFault \/ Kill
  BY <1>1, <1>7 DEF Start, FindBatch, RecordFailure, DatabaseFault, Kill, GoTo
<1> QED
  BY <1>2, <1>3, <1>4, <1>5, <1>6, <1>7 DEF Next, Import

-----------------------------------------------------------------------------
(* The records of the archive.                                             *)

LEMMA LegacyFacts ==
    ASSUME NEW a \in Archives
    PROVE  /\ Len(PlanOf[a].legacyRecords) \in Nat
           /\ DOMAIN PlanOf[a].legacyRecords = 1 .. Len(PlanOf[a].legacyRecords)
           /\ \A i, j \in DOMAIN PlanOf[a].legacyRecords :
                 PlanOf[a].legacyRecords[i].key = PlanOf[a].legacyRecords[j].key => i = j
BY PlansFit

\* A chunk adds its records and no others: none of them is there yet.
LEMMA ChunkCopied ==
    ASSUME Shape, RecordsFollow, CreateChunk
    PROVE  RecordsFollow'
<1> DEFINE a == job.archive
           legacy == PlanOf[a].legacyRecords
           chunk == {legacy[i] : i \in {j \in row .. row + ChunkSize - 1 : j <= Len(legacy)}}
           new == {c \in chunk : \A old \in records : old[1] = job => old[2].key # c.key}
<1>1. /\ a \in Archives /\ row \in Nat \ {0} /\ ChunkSize \in Nat \ {0}
      /\ Len(legacy) \in Nat /\ DOMAIN legacy = 1 .. Len(legacy)
  BY PlanIs, LegacyFacts, ImportAssumption DEF Shape
<1>2. /\ pc = "records" /\ UNCHANGED <<pc, job, batches>> /\ row' = row + ChunkSize
      /\ records' = records \cup {<<job, r>> : r \in new}
      /\ Copied = LegacyBelow(a, row)
  BY PlanIs DEF CreateChunk, RecordsFollow
<1>3. Copied' = Copied \cup new
  <2>1. Copied' = {r[2] : r \in {q \in records' : q[1] = job}}
    BY <1>2 DEF Copied
  <2> HIDE DEF new
  <2>2. ASSUME NEW c \in new PROVE c \in Copied'
    <3>1. <<job, c>> \in {q \in records' : q[1] = job} /\ <<job, c>>[2] = c
      BY <1>2
    <3> QED
      BY <2>1, <3>1
  <2>3. ASSUME NEW c \in Copied PROVE c \in Copied'
    BY <1>2, <2>1 DEF Copied
  <2>4. ASSUME NEW c \in Copied' PROVE c \in Copied \cup new
    <3>1. PICK q \in records' : q[1] = job /\ c = q[2]
      BY <2>1
    <3>2. CASE q \in records
      BY <3>1, <3>2 DEF Copied
    <3>3. CASE \E r \in new : q = <<job, r>>
      BY <3>1, <3>3
    <3> QED
      BY <1>2, <3>2, <3>3
  <2> QED
    BY <2>2, <2>3, <2>4
<1>4. ASSUME NEW i \in DOMAIN legacy, i < row + ChunkSize
      PROVE  legacy[i] \in Copied \cup new
  <2>1. CASE i < row
    BY <1>2, <2>1 DEF LegacyBelow
  <2>2. CASE ~(i < row)
    <3>1. legacy[i] \in chunk
      BY <1>1, <1>4, <2>2
    <3>2. ASSUME NEW old \in records, old[1] = job
          PROVE  old[2].key # legacy[i].key
      <4>1. old[2] \in LegacyBelow(a, row)
        BY <1>2, <3>2 DEF Copied
      <4>2. PICK j \in DOMAIN legacy : j < row /\ old[2] = legacy[j]
        BY <4>1 DEF LegacyBelow
      <4> QED
        BY <1>1, <2>2, <4>2, LegacyFacts
    <3> QED
      BY <3>1, <3>2
  <2> QED
    BY <2>1, <2>2
<1>5. ASSUME NEW c \in Copied \cup new
      PROVE  \E i \in DOMAIN legacy : i < row + ChunkSize /\ c = legacy[i]
  <2>1. CASE c \in Copied
    BY <1>1, <1>2, <2>1 DEF LegacyBelow
  <2>2. CASE c \in chunk
    BY <1>1, <2>2
  <2> QED
    BY <1>5, <2>1, <2>2
<1>6. Copied \cup new = LegacyBelow(a, row + ChunkSize)
  BY <1>4, <1>5 DEF LegacyBelow
<1>7. Copied' = LegacyBelow(a, row + ChunkSize)
  BY <1>3, <1>6
<1> QED
  BY <1>2, <1>7 DEF RecordsFollow, LegacyBelow

\* The records of the batch are those of the chunks so far.
LEMMA NextRecords ==
    ASSUME Shape, RecordsFollow, [Next]_vars
    PROVE  RecordsFollow'
<1>1. CASE pc' \notin {"upsert", "records", "done"}
  BY <1>1 DEF RecordsFollow
<1>2. CASE CreateChunk
  BY <1>2, ChunkCopied
<1>3. CASE DeleteRecords
  <2>1. pc' = "upsert" /\ job' = job /\ records' = {r \in records : r[1] # job}
    BY <1>3 DEF DeleteRecords, Kept, GoTo
  <2> QED
    BY <2>1 DEF RecordsFollow, Copied
<1>4. CASE Upsert
  <2>1. pc' \in {"upsert", "fail"} /\ pc = "upsert" /\ UNCHANGED <<job, records>>
    BY <1>4, UpsertOutcome
  <2> QED
    BY <2>1 DEF RecordsFollow, Copied
<1>5. CASE NextTable
  <2>1. /\ pc = "upsert" /\ pc' \in {"upsert", "records"} /\ row' = 1
        /\ UNCHANGED <<job, records>>
    BY <1>5 DEF NextTable, GoTo
  <2>2. LegacyBelow(job.archive, 1) = {}
    BY PlanIs, LegacyFacts DEF LegacyBelow
  <2> QED
    BY <2>1, <2>2 DEF RecordsFollow, Copied, LegacyBelow
<1>6. CASE Complete
  <2>1. /\ pc = "records" /\ pc' = "done" /\ UNCHANGED <<job, records>>
        /\ row > Len(PlanOf[job.archive].legacyRecords) /\ row \in Nat
        /\ batches' = [batches EXCEPT ![job] = "completed"] /\ job \in DOMAIN batches
    BY <1>6, PlanIs DEF Complete, GoTo, Chunks, Shape
  <2>2. LegacyBelow(job.archive, row) = Legacy(job.archive)
    BY <2>1, PlanIs, LegacyFacts DEF LegacyBelow, Legacy
  <2> QED
    BY <2>1, <2>2 DEF RecordsFollow, Copied, Legacy
<1>7. CASE UNCHANGED vars
  BY <1>7 DEF vars, RecordsFollow, Copied, Legacy, LegacyBelow
<1>8. CASE \/ \E t \in Tenants, b \in Archives : Start(t, b)
           \/ FindBatch \/ RecordFailure \/ DatabaseFault \/ Kill
  BY <1>1, <1>8 DEF Start, FindBatch, RecordFailure, DatabaseFault, Kill, GoTo
<1> QED
  BY <1>2, <1>3, <1>4, <1>5, <1>6, <1>7, <1>8 DEF Next, Import

-----------------------------------------------------------------------------
(* The theorems.                                                           *)

ImportInv == Shape /\ RowsAreDrafts /\ EmailsAreDrafts /\ PassedAreHeld /\ RecordsFollow

LEMMA ImportInvAlways == Spec => []ImportInv
<1>1. Init => ImportInv
  BY InitInv DEF ImportInv
<1>2. ImportInv /\ [Next]_vars => ImportInv'
  BY NextShape, NextRows, NextHeld, NextRecords DEF ImportInv
<1> QED
  BY <1>1, <1>2, PTL DEF Spec

LEMMA NextTypes == Shape /\ TypeOK /\ [Next]_vars => TypeOK'
<1> SUFFICES ASSUME Shape, TypeOK, [Next]_vars PROVE TypeOK'
  OBVIOUS
<1>1. /\ DOMAIN shelf' \in Shelves /\ DOMAIN db' = TableSet /\ job' \in Batches
      /\ table' \in 1 .. Len(Tables) + 1 /\ row' \in Nat \ {0}
  <2>1. Shape'
    BY NextShape
  <2>2. UNCHANGED shelf
    BY DEF Next, vars, Import, Start, FindBatch, DeleteRecords, Upsert, NextTable,
           CreateChunk, Complete, RecordFailure, DatabaseFault, Kill
  <2> QED
    BY <2>1, <2>2 DEF Shape, TypeOK
<1>2. CASE FindBatch
  <2>1. job \in Batches
    BY DEF TypeOK
  <2> QED
    BY <1>1, <1>2, <2>1 DEF FindBatch, TypeOK, GoTo, Running
<1>3. CASE DeleteRecords
  BY <1>1, <1>3 DEF DeleteRecords, TypeOK, GoTo, Kept
<1>4. CASE Upsert
  BY <1>1, <1>4 DEF Upsert, TypeOK, GoTo
<1>5. CASE NextTable
  BY <1>1, <1>5 DEF NextTable, TypeOK, GoTo
<1>6. CASE CreateChunk
  <2>1. /\ job \in DOMAIN batches
        /\ \A q \in records' : q \in records \/ q[1] = job
    BY <1>6 DEF CreateChunk, Shape
  <2> QED
    BY <1>1, <1>6, <2>1 DEF CreateChunk, TypeOK
<1>7. CASE Complete \/ RecordFailure
  BY <1>1, <1>7 DEF Complete, RecordFailure, TypeOK, GoTo
<1>8. CASE DatabaseFault \/ Kill
  BY <1>1, <1>8, ImportAssumption DEF DatabaseFault, Kill, TypeOK, GoTo
<1>9. CASE \E t \in Tenants, a \in Archives : Start(t, a)
  BY <1>1, <1>9 DEF Start, TypeOK, GoTo
<1>10. CASE UNCHANGED vars
  BY <1>10 DEF vars, TypeOK
<1> QED
  BY <1>2, <1>3, <1>4, <1>5, <1>6, <1>7, <1>8, <1>9, <1>10 DEF Next, Import

\* Every variable of the import keeps its type, and records belong to batches
\* that there are, for any archives, tenants and faults.
THEOREM ImportTypeCorrect == Spec => []TypeOK
<1>1. Init => TypeOK
  <2>1. ASSUME Init PROVE TypeOK
    <3>1. Shape
      BY <2>1, InitInv
    <3> QED
      BY <2>1, <3>1, ImportAssumption DEF Init, TypeOK, Shape
  <2> QED
    BY <2>1
<1>2. Shape /\ TypeOK /\ [Next]_vars => TypeOK'
  BY NextTypes
<1>3. ImportInv => Shape
  BY DEF ImportInv
<1> QED
  BY <1>1, <1>2, <1>3, ImportInvAlways, PTL DEF Spec

\* An import that ends well has brought everything its plan says and the records
\* of its archive, for any archives and tenants and after any failed attempts,
\* kills and imports of other archives.
THEOREM CompletedMeansImported == Spec => []ImportedAsPlanned
<1>1. ASSUME ImportInv, pc = "done" PROVE ImportedAsPlanned
  <2>1. /\ table = 7 /\ Plan = PlanOf[job.archive] /\ job.archive \in Archives
        /\ batches[job] = "completed" /\ Copied = Legacy(job.archive)
    BY <1>1, TablesFacts, PlanIs DEF ImportInv, Shape, RecordsFollow
  <2>2. ASSUME NEW k \in TableSet, NEW i \in DOMAIN Plan[k]
        PROVE  \E r \in db[k] : /\ IsRowOf(r, job.tenant, Plan[k][i])
                                /\ \A c \in DOMAIN Plan[k][i] :
                                      c # "id" /\ Plan[k][i][c] # undefined
                                         => r.columns[c] = Plan[k][i][c]
    <3>1. PICK j \in 1 .. 6 : k = Tables[j]
      BY TablesFacts DEF TableSet
    <3>2. Held(k, Plan[k][i])
      BY <1>1, <2>1, <3>1, TablesFacts
         DEF ImportInv, PassedAreHeld, Passed, Draft, DraftPlaces
    <3> QED
      BY <3>2 DEF Held, Says
  <2> QED
    BY <2>1, <2>2 DEF ImportedAsPlanned, Copied, Legacy
<1>2. ImportInv => ImportedAsPlanned
  BY <1>1 DEF ImportedAsPlanned
<1> QED
  BY <1>2, ImportInvAlways, PTL

\* The ids of an archive do not depend on the tenant, so a second tenant's
\* import meets the ids of the first.
SingleTenant == \A s, t \in Tenants : s = t

\* What a draft refers to has been written with the id it names.
LEMMA ReferenceHolds ==
    ASSUME ImportInv, pc = "upsert", table \in 1 .. 6,
           row \in DraftPlaces(job.archive, Tables[table]),
           NEW ref \in References(Tables[table], Draft(job.archive, Tables[table], row))
    PROVE  \E r \in db[ref[1]] : r.id = ref[2]
<1> DEFINE a == job.archive
<1>1. a \in Archives /\ DOMAIN shelf \subseteq Archives
  BY PlanIs DEF ImportInv
<1>2. PICK j \in 1 .. 6 : j < table /\ Tables[j] = ref[1]
  BY ReferencesGoBack
<1>3. PICK i \in DraftPlaces(a, Tables[j]) : Draft(a, Tables[j], i).id = ref[2]
  <2>1. Tables[table] \in TableSet
    BY TablesFacts
  <2> QED
    BY <1>1, <1>2, <2>1, PlansFit DEF Draft, DraftPlaces
<1>4. PICK r \in db[Tables[j]] : IsRowOf(r, job.tenant, Draft(a, Tables[j], i))
  BY <1>2, TablesFacts DEF ImportInv, PassedAreHeld, Passed, Held
<1>5. Tables[j] \in TableSet
  BY TablesFacts
<1>6. PICK b \in DOMAIN shelf : \E n \in DraftPlaces(b, Tables[j]) :
            /\ Draft(b, Tables[j], n).id = r.id
            /\ Draft(b, Tables[j], n).sourceKey = r.columns.sourceKey
  BY <1>5 DEF ImportInv, RowsAreDrafts
<1>7. PICK n \in DraftPlaces(b, Tables[j]) :
            /\ Draft(b, Tables[j], n).id = r.id
            /\ Draft(b, Tables[j], n).sourceKey = r.columns.sourceKey
  BY <1>6
<1>8. Draft(b, Tables[j], n).id = Draft(a, Tables[j], i).id
  BY <1>1, <1>4, <1>5, <1>7, IdsAreKeys DEF IsRowOf
<1> QED
  BY <1>2, <1>3, <1>7, <1>8

\* For one tenant, and employees with emails of their own, no key of the schema
\* ever refuses a row, whatever earlier attempts have left.
THEOREM KeysNeverRefuse ==
    ASSUME SingleTenant, EmailsDiffer
    PROVE  Spec => []NeverRefused
<1>1. ASSUME ImportInv, pc = "upsert", table <= Len(Tables), row <= Len(Drafts)
      PROVE  ~Refused(Tables[table], Drafts[row])
  <2> DEFINE k == Tables[table]
             a == job.archive
             d == Draft(a, k, row)
  <2>1. /\ table \in 1 .. 6 /\ k \in TableSet /\ a \in Archives /\ a \in DOMAIN shelf
        /\ DOMAIN shelf \subseteq Archives /\ \E S \in Shelves : DOMAIN shelf = S
        /\ job.tenant \in Tenants /\ Drafts = PlanOf[a][k]
    BY <1>1, TablesFacts, PlanIs DEF ImportInv, Shape, Batches, Drafts
  <2>2. row \in DraftPlaces(a, k) /\ Drafts[row] = d
    BY <1>1, <2>1, PlanFacts DEF ImportInv, Shape, Draft
  <2>3. ASSUME NEW r \in db[k]
        PROVE  \E b \in DOMAIN shelf : \E i \in DraftPlaces(b, k) :
                  /\ Draft(b, k, i).id = r.id
                  /\ Draft(b, k, i).sourceKey = r.columns.sourceKey
    BY <1>1, <2>1 DEF ImportInv, RowsAreDrafts
  <2>4. \A r \in db[k] : r.tenant = job.tenant
    BY <1>1, <2>1 DEF ImportInv, RowsAreDrafts, SingleTenant
  <2>5. \A ref \in References(k, d) : \E r \in db[ref[1]] : r.id = ref[2]
    BY <1>1, <2>1, <2>2, ReferenceHolds
  <2>6. ASSUME k = "users", NEW r \in db[k], r.columns.email = d.email
        PROVE  IsRowOf(r, job.tenant, d)
    <3>1. PICK b \in DOMAIN shelf : \E i \in DraftPlaces(b, "users") :
                  /\ Draft(b, "users", i).sourceKey = r.columns.sourceKey
                  /\ Draft(b, "users", i).email = r.columns.email
      BY <1>1, <2>6 DEF ImportInv, EmailsAreDrafts
    <3>2. PICK i \in DraftPlaces(b, "users") :
                  /\ Draft(b, "users", i).sourceKey = r.columns.sourceKey
                  /\ Draft(b, "users", i).email = r.columns.email
      BY <3>1
    <3>3. r.columns.sourceKey = d.sourceKey
      BY <2>1, <2>2, <2>6, <3>2 DEF EmailsDiffer, Draft, DraftPlaces
    <3> QED
      BY <2>4, <2>6, <3>3 DEF IsRowOf
  <2>7. ASSUME NEW r \in db[k], r.id = d.id
        PROVE  IsRowOf(r, job.tenant, d)
    <3>1. PICK b \in DOMAIN shelf : \E i \in DraftPlaces(b, k) :
                  /\ Draft(b, k, i).id = r.id
                  /\ Draft(b, k, i).sourceKey = r.columns.sourceKey
      BY <2>3
    <3>2. r.columns.sourceKey = d.sourceKey
      BY <2>1, <2>2, <2>7, <3>1, IdsAreKeys
    <3> QED
      BY <2>4, <3>2 DEF IsRowOf
  <2> HIDE DEF k, d, a
  <2> QED
    BY <2>2, <2>5, <2>6, <2>7 DEF Refused, k
<1>2. ImportInv => NeverRefused
  BY <1>1 DEF NeverRefused
<1> QED
  BY <1>2, ImportInvAlways, PTL

-----------------------------------------------------------------------------
(* The properties of the plan that an import begins with.                  *)

\* The import always has an archive of those at hand, and its plan.
LEMMA AlwaysInPlan == Spec => []InPlan
<1>1. ImportInv => InPlan
  BY PlanIs DEF ImportInv, InPlan
<1> QED
  BY <1>1, ImportInvAlways, PTL

\* For any two tables of buildings, in any order of their rows and however often
\* a number or an address occurs in either: a building that both systems have is
\* one object.
THEOREM BuildingsBecomeOne == Spec => []BuildingsAreOne
BY AlwaysInPlan, PlanBuildingsAreOne, PTL

\* For any tables, an installation stands on a building at its address, and none
\* is lost whose building can be found, if the numbers of the buildings tell
\* their addresses apart.
THEOREM InstallationsStandOnBuildings == Spec => []InstallationsFollowTheirBuildings
BY AlwaysInPlan, PlanInstallationsFollow, PTL

\* For any catalogues and any tariffs of buildings in both systems: a tariff names
\* the first entry of its code in the catalogue of its own system, and the
\* building at its address.
THEOREM AssignmentsFindTheirTariffs == Spec => []AssignmentsResolve
BY AlwaysInPlan, PlanAssignmentsResolve, PTL

\* For any buildings, functions and people: the customer of a building is its
\* owner, if the archive knows one and the keys of the buildings tell their
\* numbers apart.
THEOREM OwnersBecomeCustomers == Spec => []CustomerIsTheOwner
BY AlwaysInPlan, PlanCustomerIsTheOwner, PTL

=============================================================================
