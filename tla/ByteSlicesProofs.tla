--------------------------- MODULE ByteSlicesProofs --------------------------
(***************************************************************************)
(* What the proofs about the stages share: facts about slices, induction   *)
(* over the naturals, and the existence of functions that are defined by   *)
(* recursion over the offsets of a slice.                                  *)
(*                                                                         *)
(* The induction theorems of the library take the property as an operator. *)
(* Here a property is the set of the naturals that have it, and the step   *)
(* of a recursion is a function, so that each is a plain hypothesis.       *)
(***************************************************************************)
EXTENDS ByteSlices, SequenceTheorems, WellFoundedInduction, TLAPS

-----------------------------------------------------------------------------
(* Induction                                                               *)

(* Every set of naturals has a least element. *)
LEMMA LeastNatural ==
    ASSUME NEW T \in SUBSET Nat, T # {}
    PROVE  \E m \in T : \A k \in T : m =< k
<1>1. \A k, m \in Nat : k < m => <<k, m>> \in OpToRel(<, Nat)
  BY DEF OpToRel
<1>2. PICK Less : /\ IsWellFoundedOn(Less, Nat)
                  /\ \A k, m \in Nat : k < m => <<k, m>> \in Less
  BY <1>1, NatLessThanWellFounded, Zenon
<1>3. T \subseteq Nat
  OBVIOUS
<1>4. IsWellFoundedOn(Less, Nat)
  BY <1>2
<1>5. \E m \in T : \A k \in T : ~ (<<k, m>> \in Less)
  BY ONLY T # {}, <1>3, <1>4, WFMin, Zenon
<1>6. PICK m \in T : \A k \in T : ~ (<<k, m>> \in Less)
  BY <1>5
<1>7. ASSUME NEW k \in T PROVE m =< k
  <2>1. ~(k < m)
    BY <1>2, <1>3, <1>6, Zenon
  <2>. QED  BY <1>3, <2>1
<1>. QED  BY <1>7

LEMMA LeftmostIs ==
    ASSUME NEW at \in SUBSET Nat, at # {}
    PROVE  Leftmost(at) \in at /\ \A r \in at : Leftmost(at) =< r
<1>1. \E q \in at : \A r \in at : q =< r
  BY LeastNatural
<1>. QED  BY <1>1 DEF Leftmost

(* A set that has 0, and n + 1 whenever it has n, has every natural. *)
LEMMA SetInduction ==
    ASSUME NEW S, 0 \in S, \A n \in Nat : n \in S => n + 1 \in S
    PROVE  Nat \subseteq S
<1>. SUFFICES ASSUME NEW n \in Nat, n \notin S PROVE FALSE
  OBVIOUS
<1>1. PICK m \in Nat \ S : \A k \in Nat \ S : m =< k
  BY LeastNatural
<1>2. m # 0 /\ m - 1 \in Nat /\ m - 1 < m
  OBVIOUS
<1>3. m - 1 \in S
  BY <1>1, <1>2
<1>. QED  BY <1>2, <1>3

(* A set that has a natural whenever it has all the smaller ones has every  *)
(* natural.                                                                 *)
LEMMA StrongInduction ==
    ASSUME NEW S, \A n \in Nat : (\A m \in 0..(n - 1) : m \in S) => n \in S
    PROVE  Nat \subseteq S
<1>. SUFFICES ASSUME NEW n \in Nat, n \notin S PROVE FALSE
  OBVIOUS
<1>1. PICK m \in Nat \ S : \A k \in Nat \ S : m =< k
  BY LeastNatural
<1>2. \A k \in 0..(m - 1) : k \in S
  BY <1>1
<1>. QED  BY <1>2

(* The same within 0..l, from the end of a slice to its beginning. *)
LEMMA DownwardInduction ==
    ASSUME NEW l \in Nat, NEW S,
           \A n \in 0..l : (\A m \in (n + 1)..l : m \in S) => n \in S
    PROVE  0..l \subseteq S
<1>. DEFINE T == {d \in Nat : d =< l => l - d \in S}
<1>1. ASSUME NEW d \in Nat, \A e \in 0..(d - 1) : e \in T, d =< l
      PROVE  l - d \in S
  <2>1. l - d \in 0..l
    BY <1>1
  <2>2. ASSUME NEW m \in (l - d + 1)..l PROVE m \in S
    <3>1. l - m \in 0..(d - 1) /\ l - m =< l /\ l - (l - m) = m
      BY <1>1
    <3>. QED  BY <1>1, <3>1
  <2>. QED  BY <2>1, <2>2
<1>2. Nat \subseteq T
  BY <1>1, StrongInduction
<1>3. ASSUME NEW n \in 0..l PROVE n \in S
  <2>1. l - n \in Nat /\ l - n =< l /\ l - (l - n) = n
    OBVIOUS
  <2>. QED  BY <1>2, <2>1
<1>. QED  BY <1>3

-----------------------------------------------------------------------------
(* Recursion                                                               *)

(* Step[p][g] is a step of a recursion over D with values in V that uses    *)
(* the values in g of elements of smaller rank; ranks are at most l.        *)
IsRecursion(Step, D, V, rank, l) ==
    /\ l \in Nat /\ rank \in [D -> 0..l] /\ V # {}
    /\ Step \in [D -> [[D -> V] -> V]]
    /\ \A p \in D : \A g, h \in [D -> V] :
         (\A q \in D : rank[q] < rank[p] => g[q] = h[q]) => Step[p][g] = Step[p][h]

(* The same over 0..l, from its end to its beginning and the other way.     *)
IsDownward(Step, V, l) ==
    /\ l \in Nat /\ V # {}
    /\ Step \in [0..l -> [[0..l -> V] -> V]]
    /\ \A p \in 0..l : \A g, h \in [0..l -> V] :
         (\A q \in (p + 1)..l : g[q] = h[q]) => Step[p][g] = Step[p][h]
IsUpward(Step, V, l) ==
    /\ l \in Nat /\ V # {}
    /\ Step \in [0..l -> [[0..l -> V] -> V]]
    /\ \A p \in 0..l : \A g, h \in [0..l -> V] :
         (\A q \in 0..(p - 1) : g[q] = h[q]) => Step[p][g] = Step[p][h]

(* Such a recursion defines a function.                                     *)
LEMMA RankedRecursion ==
    ASSUME NEW Step, NEW D, NEW V, NEW rank, NEW l,
           IsRecursion(Step, D, V, rank, l)
    PROVE  \E f \in [D -> V] : \A p \in D : f[p] = Step[p][f]
<1>. /\ l \in Nat /\ rank \in [D -> 0..l] /\ V # {}
     /\ Step \in [D -> [[D -> V] -> V]]
  BY DEF IsRecursion
<1>. DEFINE Holds(n, g) == \A p \in D : rank[p] < n => g[p] = Step[p][g]
            S == {n \in Nat : \E g \in [D -> V] : Holds(n, g)}
<1>1. 0 \in S
  <2>1. PICK v : v \in V
    OBVIOUS
  <2>. DEFINE g == [p \in D |-> v]
  <2>2. g \in [D -> V]
    BY <2>1
  <2>. HIDE DEF g
  <2>3. Holds(0, g)
    OBVIOUS
  <2>. HIDE DEF Holds
  <2>. QED  BY <2>2, <2>3
<1>2. ASSUME NEW n \in S PROVE n + 1 \in S
  <2>. HIDE DEF Holds
  <2>1. n \in Nat /\ \E g \in [D -> V] : Holds(n, g)
    OBVIOUS
  <2>. HIDE DEF S
  <2>2. PICK g \in [D -> V] : Holds(n, g)
    BY <2>1
  <2>. DEFINE h == [p \in D |-> IF rank[p] = n THEN Step[p][g] ELSE g[p]]
  <2>3. h \in [D -> V]
    OBVIOUS
  <2>4. \A p \in D : h[p] = IF rank[p] = n THEN Step[p][g] ELSE g[p]
    OBVIOUS
  <2>. HIDE DEF h
  <2>5. ASSUME NEW p \in D, rank[p] < n + 1 PROVE h[p] = Step[p][h]
    <3>1. rank[p] \in Nat /\ \A q \in D : rank[q] \in Nat
      OBVIOUS
    <3>2. ASSUME NEW q \in D, rank[q] < rank[p] PROVE h[q] = g[q]
      <4>1. rank[q] # n
        BY <2>1, <2>5, <3>1, <3>2
      <4>. QED  BY <2>4, <4>1
    <3>3. Step[p][h] = Step[p][g]
      BY <2>3, <3>2 DEF IsRecursion
    <3>4. CASE rank[p] = n
      BY <2>4, <3>3, <3>4
    <3>5. CASE rank[p] # n
      <4>. DEFINE k == rank[p]
      <4>0. n \in Nat /\ k \in Nat /\ k < n + 1 /\ k # n
        BY <2>1, <2>5, <3>1, <3>5
      <4>1. k < n
        <5>. HIDE DEF k
        <5>. QED  BY ONLY <4>0
      <4>2. g[p] = Step[p][g]
        BY <2>2, <4>1 DEF Holds
      <4>. QED  BY <2>4, <3>3, <3>5, <4>2
    <3>. QED  BY <3>4, <3>5
  <2>6. Holds(n + 1, h)
    BY <2>5 DEF Holds
  <2>7. \E k \in [D -> V] : Holds(n + 1, k)
    BY <2>3, <2>6
  <2>8. n + 1 \in Nat
    BY <2>1
  <2>. QED  BY <2>7, <2>8 DEF S
<1>. HIDE DEF Holds
<1>3. l + 1 \in S
  <2>. HIDE DEF S
  <2>. QED  BY <1>1, <1>2, SetInduction
<1>4. PICK g \in [D -> V] : Holds(l + 1, g)
  BY <1>3
<1>5. \A p \in D : rank[p] < l + 1
  OBVIOUS
<1>. QED  BY <1>4, <1>5 DEF Holds

LEMMA DownwardRecursion ==
    ASSUME NEW Step, NEW V, NEW l, IsDownward(Step, V, l)
    PROVE  \E f \in [0..l -> V] : \A p \in 0..l : f[p] = Step[p][f]
<1>. DEFINE D    == 0..l
            rank == [p \in D |-> l - p]
<1>1. /\ l \in Nat /\ V # {} /\ Step \in [D -> [[D -> V] -> V]]
      /\ \A p \in D : \A g, h \in [D -> V] :
           (\A q \in (p + 1)..l : g[q] = h[q]) => Step[p][g] = Step[p][h]
  BY DEF IsDownward
<1>2. rank \in [D -> 0..l] /\ \A p \in D : rank[p] = l - p
  BY <1>1
<1>. HIDE DEF rank
<1>3. ASSUME NEW p \in D, NEW g \in [D -> V], NEW h \in [D -> V],
             \A q \in D : rank[q] < rank[p] => g[q] = h[q]
      PROVE  Step[p][g] = Step[p][h]
  <2>1. ASSUME NEW q \in (p + 1)..l PROVE g[q] = h[q]
    <3>1. q \in D /\ rank[q] < rank[p]
      BY <1>1, <1>2
    <3>. QED  BY <1>3, <3>1
  <2>. QED  BY <1>1, <2>1
<1>. HIDE DEF D
<1>4. IsRecursion(Step, D, V, rank, l)
  BY <1>1, <1>2, <1>3 DEF IsRecursion
<1>5. \E f \in [D -> V] : \A p \in D : f[p] = Step[p][f]
  BY ONLY <1>4, RankedRecursion, SMT
<1>. QED  BY <1>5 DEF D

LEMMA UpwardRecursion ==
    ASSUME NEW Step, NEW V, NEW l, IsUpward(Step, V, l)
    PROVE  \E f \in [0..l -> V] : \A p \in 0..l : f[p] = Step[p][f]
<1>. DEFINE D    == 0..l
            rank == [p \in D |-> p]
<1>1. /\ l \in Nat /\ V # {} /\ Step \in [D -> [[D -> V] -> V]]
      /\ \A p \in D : \A g, h \in [D -> V] :
           (\A q \in 0..(p - 1) : g[q] = h[q]) => Step[p][g] = Step[p][h]
  BY DEF IsUpward
<1>2. rank \in [D -> 0..l] /\ \A p \in D : rank[p] = p
  BY <1>1
<1>. HIDE DEF rank
<1>3. ASSUME NEW p \in D, NEW g \in [D -> V], NEW h \in [D -> V],
             \A q \in D : rank[q] < rank[p] => g[q] = h[q]
      PROVE  Step[p][g] = Step[p][h]
  <2>1. ASSUME NEW q \in 0..(p - 1) PROVE g[q] = h[q]
    <3>1. q \in D /\ rank[q] < rank[p]
      BY <1>1, <1>2
    <3>. QED  BY <1>3, <3>1
  <2>. QED  BY <1>1, <2>1
<1>. HIDE DEF D
<1>4. IsRecursion(Step, D, V, rank, l)
  BY <1>1, <1>2, <1>3 DEF IsRecursion
<1>5. \E f \in [D -> V] : \A p \in D : f[p] = Step[p][f]
  BY ONLY <1>4, RankedRecursion, SMT
<1>. QED  BY <1>5 DEF D

(* A function that is given at 0, and at n + 1 by what it is at n. *)
IsIteration(Go, v, V, l) == l \in Nat /\ v \in V /\ Go \in [1..l -> [V -> V]]

LEMMA Iteration ==
    ASSUME NEW Go, NEW v, NEW V, NEW l, IsIteration(Go, v, V, l)
    PROVE  \E f \in [0..l -> V] : /\ f[0] = v
                                  /\ \A n \in 1..l : f[n] = Go[n][f[n - 1]]
<1>. DEFINE F == [0..l -> V]
            At(n, g) == IF n = 0 THEN v ELSE Go[n][g[n - 1]]
            Step == [n \in 0..l |-> [g \in F |-> At(n, g)]]
<1>. l \in Nat /\ v \in V /\ Go \in [1..l -> [V -> V]]
  BY DEF IsIteration
<1>1. ASSUME NEW n \in 0..l, NEW g \in F PROVE At(n, g) \in V
  <2>1. CASE n = 0
    BY <2>1
  <2>2. CASE n # 0
    <3>1. n \in 1..l /\ n - 1 \in 0..l
      BY <2>2
    <3>. QED  BY <2>2, <3>1
  <2>. QED  BY <2>1, <2>2
<1>2. ASSUME NEW n \in 0..l, NEW g \in F, NEW h \in F, \A q \in 0..(n - 1) : g[q] = h[q]
      PROVE  At(n, g) = At(n, h)
  <2>1. CASE n = 0
    BY <2>1
  <2>2. CASE n # 0
    <3>1. n - 1 \in 0..(n - 1)
      BY <2>2
    <3>. QED  BY <1>2, <2>2, <3>1
  <2>. QED  BY <2>1, <2>2
<1>3. \A n \in 1..l : \A g : At(n, g) = Go[n][g[n - 1]]
  OBVIOUS
<1>4. \A g : At(0, g) = v
  OBVIOUS
<1>. HIDE DEF At
<1>5. /\ Step \in [0..l -> [F -> V]]
      /\ \A n \in 0..l : \A g \in F : Step[n][g] = At(n, g)
  BY <1>1
<1>. HIDE DEF Step
<1>6. IsUpward(Step, V, l)
  <2>1. \A n \in 0..l : \A g, h \in F :
          (\A q \in 0..(n - 1) : g[q] = h[q]) => Step[n][g] = Step[n][h]
    <3>. HIDE DEF F
    <3>. QED  BY <1>2, <1>5
  <2>. QED  BY <1>5, <2>1 DEF IsUpward
<1>7. PICK f \in [0..l -> V] : \A n \in 0..l : f[n] = Step[n][f]
  <2>1. \E f \in [0..l -> V] : \A n \in 0..l : f[n] = Step[n][f]
    BY ONLY <1>6, UpwardRecursion, SMT
  <2>. QED  BY <2>1
<1>8. f[0] = v
  BY <1>4, <1>5, <1>7
<1>9. ASSUME NEW n \in 1..l PROVE f[n] = Go[n][f[n - 1]]
  <2>1. n \in 0..l
    OBVIOUS
  <2>. QED  BY <1>3, <1>5, <1>7, <2>1
<1>. QED  BY <1>7, <1>8, <1>9

(* There is only one such function. *)
Alike(f, g, l) ==
    /\ l \in Nat /\ f[0] = g[0]
    /\ \A n \in 1..l : f[n - 1] = g[n - 1] => f[n] = g[n]

LEMMA SameIteration ==
    ASSUME NEW f, NEW g, NEW l, Alike(f, g, l)
    PROVE  \A n \in 0..l : f[n] = g[n]
<1>. l \in Nat /\ f[0] = g[0] /\ \A n \in 1..l : f[n - 1] = g[n - 1] => f[n] = g[n]
  BY DEF Alike
<1>. DEFINE T == {n \in Nat : n =< l => f[n] = g[n]}
<1>1. 0 \in T
  OBVIOUS
<1>2. ASSUME NEW n \in Nat, n \in T PROVE n + 1 \in T
  <2>1. ASSUME n + 1 =< l PROVE f[n + 1] = g[n + 1]
    <3>1. n + 1 \in 1..l /\ (n + 1) - 1 = n /\ f[n] = g[n]
      BY <1>2, <2>1
    <3>. QED  BY <3>1
  <2>. QED  BY <2>1
<1>3. Nat \subseteq T
  <2>. HIDE DEF T
  <2>. QED  BY <1>1, <1>2, SetInduction
<1>. QED  BY <1>3

-----------------------------------------------------------------------------
(* Slices                                                                  *)

(* First(s, n) is the first n elements of s. *)
LEMMA FirstSlice ==
    ASSUME NEW S, NEW s \in Seq(S), NEW n \in 0..Len(s)
    PROVE  /\ First(s, n) \in Seq(S)
           /\ Len(First(s, n)) = n
           /\ \A i \in 1..n : First(s, n)[i] = s[i]
BY DEF First

(* From(s, n) is s without its first n elements. *)
LEMMA FromSlice ==
    ASSUME NEW S, NEW s \in Seq(S), NEW n \in 0..Len(s)
    PROVE  /\ From(s, n) \in Seq(S)
           /\ Len(From(s, n)) = Len(s) - n
           /\ \A i \in 1..(Len(s) - n) : From(s, n)[i] = s[n + i]
BY DEF From

(* Last(s, n) is the last n elements of s. *)
LEMMA LastSlice ==
    ASSUME NEW S, NEW s \in Seq(S), NEW n \in 0..Len(s)
    PROVE  /\ Last(s, n) \in Seq(S)
           /\ Len(Last(s, n)) = n
           /\ \A i \in 1..n : Last(s, n)[i] = s[Len(s) - n + i]
<1>1. Len(s) - n \in 0..Len(s)
  OBVIOUS
<1>. QED  BY <1>1, FromSlice DEF Last

(* Two slices, one after the other: the chunk that arrives extends pending. *)
LEMMA Extend ==
    ASSUME NEW S, NEW s \in Seq(S), NEW b \in Nat, NEW f \in Nat, NEW n \in Nat,
           b =< f, f + n =< Len(s)
    PROVE  SubSeq(s, b + 1, f) \o SubSeq(s, f + 1, f + n)
             = SubSeq(s, b + 1, f + n)
<1>1. b + 1 \in 1..(Len(s) + 1) /\ f \in (b + 1 - 1)..Len(s)
      /\ f + n \in f..Len(s)
  OBVIOUS
<1>. QED  BY <1>1, ConcatAdjacentSubSeq

(* The same, for steps that expand the definition. *)
Adjoins(s, b, f, n) ==
    SubSeq(s, b + 1, f) \o SubSeq(s, f + 1, f + n) = SubSeq(s, b + 1, f + n)

LEMMA Adjoining ==
    ASSUME NEW S, NEW s \in Seq(S), NEW b \in Nat, NEW f \in Nat, NEW n \in Nat,
           b =< f, f + n =< Len(s)
    PROVE  Adjoins(s, b, f, n)
<1>1. SubSeq(s, b + 1, f) \o SubSeq(s, f + 1, f + n) = SubSeq(s, b + 1, f + n)
  BY Extend
<1>. QED  BY ONLY <1>1, Zenon DEF Adjoins

(* Dropping n elements of a slice leaves the slice that begins n later. *)
LEMMA Shrink ==
    ASSUME NEW S, NEW s \in Seq(S), NEW b \in Nat, NEW f \in Nat,
           b =< f, f =< Len(s), NEW n \in 0..(f - b)
    PROVE  From(SubSeq(s, b + 1, f), n) = SubSeq(s, b + n + 1, f)
<1>. DEFINE t == SubSeq(s, b + 1, f)
            r == SubSeq(s, b + n + 1, f)
<1>1. /\ t \in Seq(S)
      /\ Len(t) = f - b
      /\ \A i \in 1..(f - b) : t[i] = s[b + i]
  OBVIOUS
<1>2. /\ r \in Seq(S)
      /\ Len(r) = f - b - n
      /\ \A i \in 1..(f - b - n) : r[i] = s[b + n + i]
  OBVIOUS
<1>. HIDE DEF t, r
<1>3. /\ From(t, n) \in Seq(S)
      /\ Len(From(t, n)) = f - b - n
      /\ \A i \in 1..(f - b - n) : From(t, n)[i] = t[n + i]
  <2>1. n \in 0..Len(t) /\ Len(t) - n = f - b - n
    BY <1>1
  <2>2. /\ From(t, n) \in Seq(S)
        /\ Len(From(t, n)) = Len(t) - n
        /\ \A i \in 1..(Len(t) - n) : From(t, n)[i] = t[n + i]
    BY <1>1, <2>1, FromSlice
  <2>. QED  BY <2>1, <2>2, Zenon
<1>4. \A i \in 1..(f - b - n) : From(t, n)[i] = r[i]
  <2>. TAKE i \in 1..(f - b - n)
  <2>1. n + i \in 1..(f - b) /\ From(t, n)[i] = t[n + i] /\ r[i] = s[b + n + i]
    BY <1>2, <1>3
  <2>2. t[n + i] = s[b + (n + i)]
    BY <2>1, <1>1
  <2>. QED  BY <2>1, <2>2
<1>5. From(t, n) = r
  BY <1>2, <1>3, <1>4, SeqEqual
<1>. QED  BY <1>5 DEF t, r

(* Three sequences put together in two ways are the same sequence.  Stated  *)
(* with a definition that the steps using it expand, since the SMT backend  *)
(* takes a concatenation apart wherever it sees one.                        *)
Regroups(S, a, b, c) ==
    /\ a \o b \in Seq(S) /\ b \o c \in Seq(S)
    /\ (a \o b) \o c = a \o (b \o c)

LEMMA Reassociate ==
    ASSUME NEW S, NEW a \in Seq(S), NEW b \in Seq(S), NEW c \in Seq(S)
    PROVE  Regroups(S, a, b, c)
<1>1. a \o b \in Seq(S) /\ b \o c \in Seq(S)
  BY ConcatProperties
<1>2. (a \o b) \o c = a \o (b \o c)
  BY ConcatAssociative
<1>. QED  BY <1>1, <1>2, Zenon DEF Regroups

(* What is put together begins with its first part. *)
LEMMA PrefixOfConcat ==
    ASSUME NEW S, NEW s \in Seq(S), NEW t \in Seq(S)
    PROVE  StartsWith(s \o t, s)
BY DEF StartsWith, OccursAt

-----------------------------------------------------------------------------
(* Beginnings                                                              *)

LEMMA StartsIs ==
    ASSUME NEW S, NEW t \in Seq(S), NEW s \in Seq(S)
    PROVE  StartsWith(t, s)
             <=> Len(s) =< Len(t) /\ \A i \in 1..Len(s) : t[i] = s[i]
<1>1. Len(s) \in Nat /\ Len(t) \in Nat /\ 0 + Len(s) = Len(s)
  OBVIOUS
<1>2. \A i \in 1..Len(s) : 0 + i = i
  OBVIOUS
<1>. QED  BY <1>1, <1>2 DEF StartsWith, OccursAt

LEMMA StartsTransitive ==
    ASSUME NEW S, NEW u \in Seq(S), NEW t \in Seq(S), NEW s \in Seq(S),
           StartsWith(u, t), StartsWith(t, s)
    PROVE  StartsWith(u, s)
<1>1. /\ Len(t) =< Len(u) /\ \A i \in 1..Len(t) : u[i] = t[i]
      /\ Len(s) =< Len(t) /\ \A i \in 1..Len(s) : t[i] = s[i]
      /\ Len(s) \in Nat /\ Len(t) \in Nat /\ Len(u) \in Nat
  BY StartsIs
<1>2. ASSUME NEW i \in 1..Len(s) PROVE u[i] = s[i]
  <2>1. i \in 1..Len(t)
    BY <1>1
  <2>. QED  BY <1>1, <2>1
<1>3. Len(s) =< Len(u)
  BY <1>1
<1>. QED  BY <1>2, <1>3, StartsIs

(* What begins with s is s and the rest. *)
LEMMA StartsSplit ==
    ASSUME NEW S, NEW t \in Seq(S), NEW s \in Seq(S), StartsWith(t, s)
    PROVE  /\ From(t, Len(s)) \in Seq(S)
           /\ t = s \o From(t, Len(s))
<1>. DEFINE n == Len(s)
            r == From(t, n)
<1>1. /\ n \in Nat /\ Len(t) \in Nat /\ n =< Len(t)
      /\ \A i \in 1..n : t[i] = s[i]
  BY StartsIs
<1>2. /\ r \in Seq(S) /\ Len(r) = Len(t) - n
      /\ \A i \in 1..(Len(t) - n) : r[i] = t[n + i]
  BY <1>1, FromSlice
<1>. HIDE DEF r
<1>3. /\ s \o r \in Seq(S) /\ Len(s \o r) = Len(s) + Len(r)
      /\ \A i \in 1..(Len(s) + Len(r)) :
           (s \o r)[i] = IF i =< Len(s) THEN s[i] ELSE r[i - Len(s)]
  BY <1>2, ConcatProperties
<1>4. Len(s \o r) = Len(t)
  BY <1>1, <1>2, <1>3
<1>5. ASSUME NEW i \in 1..Len(t) PROVE (s \o r)[i] = t[i]
  <2>1. i \in 1..(Len(s) + Len(r))
    BY <1>1, <1>2
  <2>2. CASE i =< n
    <3>1. i \in 1..n
      BY <2>2
    <3>. QED  BY <1>1, <1>3, <2>1, <2>2, <3>1
  <2>3. CASE ~(i =< n)
    <3>1. i - n \in 1..(Len(t) - n) /\ n + (i - n) = i
      BY <1>1, <2>3
    <3>2. (s \o r)[i] = r[i - n]
      BY <1>3, <2>1, <2>3
    <3>. QED  BY <1>2, <3>1, <3>2
  <2>. QED  BY <2>2, <2>3
<1>6. s \o r = t
  BY <1>3, <1>4, <1>5, SeqEqual
<1>. QED  BY <1>2, <1>6 DEF r

LEMMA StartsConcat ==
    ASSUME NEW S, NEW a \in Seq(S), NEW t \in Seq(S), NEW s \in Seq(S),
           StartsWith(t, s)
    PROVE  StartsWith(a \o t, a \o s)
<1>. DEFINE r == From(t, Len(s))
<1>1. r \in Seq(S) /\ t = s \o r
  BY StartsSplit
<1>. HIDE DEF r
<1>2. a \o (s \o r) = (a \o s) \o r /\ a \o s \in Seq(S)
  <2>1. Regroups(S, a, s, r)
    BY <1>1, Reassociate
  <2>. QED  BY ONLY <2>1, Zenon DEF Regroups
<1>3. StartsWith((a \o s) \o r, a \o s)
  BY <1>1, <1>2, PrefixOfConcat
<1>. QED  BY <1>1, <1>2, <1>3

LEMMA StartsEmpty ==
    ASSUME NEW S, NEW s \in Seq(S)
    PROVE  StartsWith(s, <<>>)
BY DEF StartsWith, OccursAt

(* A beginning that is not shorter is everything. *)
LEMMA StartsSame ==
    ASSUME NEW S, NEW s \in Seq(S), NEW t \in Seq(S), StartsWith(t, s),
           Len(t) =< Len(s)
    PROVE  t = s
<1>1. Len(s) = Len(t) /\ \A i \in 1..Len(s) : t[i] = s[i]
  BY StartsIs
<1>. QED  BY <1>1, SeqEqual

(* A slice is the same in a sequence and in what continues it. *)
LEMMA SliceOfStart ==
    ASSUME NEW S, NEW t \in Seq(S), NEW s \in Seq(S), StartsWith(t, s),
           NEW a \in Nat, NEW e \in Int, e =< Len(s)
    PROVE  /\ SubSeq(t, a + 1, e) = SubSeq(s, a + 1, e)
           /\ SubSeq(s, a + 1, e) \in Seq(S)
<1>1. Len(s) =< Len(t) /\ \A i \in 1..Len(s) : t[i] = s[i]
  BY StartsIs
<1>2. CASE a >= e
  <2>1. SubSeq(t, a + 1, e) = <<>> /\ SubSeq(s, a + 1, e) = <<>>
    BY <1>2
  <2>. QED  BY <2>1
<1>3. CASE a < e
  <2>. DEFINE x == SubSeq(t, a + 1, e)
              y == SubSeq(s, a + 1, e)
              n == e - a
  <2>1. /\ n \in Nat
        /\ x \in Seq(S) /\ Len(x) = n /\ \A i \in 1..n : x[i] = t[a + i]
        /\ y \in Seq(S) /\ Len(y) = n /\ \A i \in 1..n : y[i] = s[a + i]
    BY <1>1, <1>3
  <2>2. ASSUME NEW i \in 1..n PROVE a + i \in 1..Len(s)
    BY <1>3
  <2>. HIDE DEF x, y, n
  <2>3. \A i \in 1..n : x[i] = y[i]
    BY <1>1, <2>1, <2>2
  <2>4. x = y
    BY <2>1, <2>3, SeqEqual
  <2>. QED  BY <2>1, <2>4 DEF x, y
<1>. QED  BY <1>2, <1>3

(* Slices that begin at the same offset. *)
LEMMA SliceStarts ==
    ASSUME NEW S, NEW s \in Seq(S), NEW a \in Nat, NEW e \in Int, NEW f \in Int,
           e =< f, f =< Len(s)
    PROVE  /\ SubSeq(s, a + 1, e) \in Seq(S)
           /\ SubSeq(s, a + 1, f) \in Seq(S)
           /\ StartsWith(SubSeq(s, a + 1, f), SubSeq(s, a + 1, e))
<1>1. SubSeq(s, a + 1, f) \in Seq(S)
  <2>1. StartsWith(s, s)
    BY StartsIs
  <2>. QED  BY <2>1, SliceOfStart
<1>2. CASE a >= e
  <2>. DEFINE x == SubSeq(s, a + 1, f)
  <2>1. SubSeq(s, a + 1, e) = <<>> /\ <<>> \in Seq(S)
    BY <1>2
  <2>2. x \in Seq(S)
    BY <1>1
  <2>. HIDE DEF x
  <2>3. StartsWith(x, <<>>)
    BY ONLY <2>2, StartsEmpty
  <2>. QED  BY <2>1, <2>2, <2>3 DEF x
<1>3. CASE a < e
  <2>1. a \in Nat /\ e \in Nat /\ f \in Nat /\ f - e \in Nat /\ e + (f - e) = f /\ a =< e
    BY <1>3
  <2>2. SubSeq(s, a + 1, e) \o SubSeq(s, e + 1, e + (f - e)) = SubSeq(s, a + 1, e + (f - e))
    BY <2>1, Extend
  <2>3. SubSeq(s, a + 1, e) \in Seq(S) /\ SubSeq(s, e + 1, f) \in Seq(S)
    BY <2>1
  <2>4. StartsWith(SubSeq(s, a + 1, e) \o SubSeq(s, e + 1, f), SubSeq(s, a + 1, e))
    BY <2>3, PrefixOfConcat
  <2>. QED  BY <1>1, <2>1, <2>2, <2>3, <2>4
<1>. QED  BY <1>2, <1>3

(* What is at an offset of s is at that offset of what continues s. *)
LEMMA OccursInStart ==
    ASSUME NEW S, NEW t \in Seq(S), NEW s \in Seq(S), StartsWith(t, s),
           NEW literal \in Seq(S), NEW p \in Nat, p + Len(literal) =< Len(s)
    PROVE  OccursAt(t, p, literal) <=> OccursAt(s, p, literal)
<1>1. /\ Len(s) =< Len(t) /\ \A i \in 1..Len(s) : t[i] = s[i]
      /\ Len(s) \in Nat /\ Len(t) \in Nat /\ Len(literal) \in Nat
  BY StartsIs
<1>2. p + Len(literal) =< Len(t)
  BY <1>1
<1>3. \A k \in 1..Len(literal) : p + k \in 1..Len(s)
  BY <1>1
<1>4. \A k \in 1..Len(literal) : t[p + k] = s[p + k]
  BY <1>1, <1>3
<1>. QED  BY <1>2, <1>4 DEF OccursAt

LEMMA FromStarts ==
    ASSUME NEW S, NEW t \in Seq(S), NEW s \in Seq(S), StartsWith(t, s),
           NEW n \in 0..Len(s)
    PROVE  /\ From(s, n) \in Seq(S) /\ Len(From(s, n)) = Len(s) - n
           /\ From(t, n) \in Seq(S) /\ Len(From(t, n)) = Len(t) - n
           /\ StartsWith(From(t, n), From(s, n))
<1>. DEFINE x == From(t, n)
            y == From(s, n)
<1>1. /\ Len(s) =< Len(t) /\ \A i \in 1..Len(s) : t[i] = s[i]
      /\ Len(s) \in Nat /\ Len(t) \in Nat
  BY StartsIs
<1>2. n \in 0..Len(t)
  BY <1>1
<1>3. /\ y \in Seq(S) /\ Len(y) = Len(s) - n
      /\ \A i \in 1..(Len(s) - n) : y[i] = s[n + i]
  BY FromSlice
<1>4. /\ x \in Seq(S) /\ Len(x) = Len(t) - n
      /\ \A i \in 1..(Len(t) - n) : x[i] = t[n + i]
  BY <1>2, FromSlice
<1>. HIDE DEF x, y
<1>5. ASSUME NEW i \in 1..Len(y) PROVE x[i] = y[i]
  <2>1. i \in 1..(Len(s) - n) /\ i \in 1..(Len(t) - n) /\ n + i \in 1..Len(s)
    BY <1>1, <1>3
  <2>. QED  BY <1>1, <1>3, <1>4, <2>1
<1>6. Len(y) =< Len(x)
  BY <1>1, <1>3, <1>4
<1>7. StartsWith(x, y)
  BY <1>3, <1>4, <1>5, <1>6, StartsIs
<1>. QED  BY <1>3, <1>4, <1>7 DEF x, y

LEMMA StartsOfThree ==
    ASSUME NEW S, NEW x \in Seq(S), NEW y \in Seq(S), NEW z \in Seq(S)
    PROVE  x \o y \o z \in Seq(S) /\ StartsWith(x \o y \o z, x)
<1>1. (x \o y) \o z = x \o (y \o z) /\ y \o z \in Seq(S)
  <2>1. Regroups(S, x, y, z)
    BY Reassociate
  <2>. QED  BY ONLY <2>1, Zenon DEF Regroups
<1>. DEFINE r == y \o z
<1>2. r \in Seq(S) /\ (x \o y) \o z = x \o r
  BY <1>1
<1>. HIDE DEF r
<1>3. StartsWith(x \o r, x) /\ x \o r \in Seq(S)
  BY <1>2, PrefixOfConcat
<1>. QED  BY <1>2, <1>3

-----------------------------------------------------------------------------
(* What is put together                                                    *)

(* From offset i on, w is z. *)
Follows(w, i, z) ==
    /\ i \in 0..Len(w)
    /\ Len(w) = i + Len(z)
    /\ \A k \in 1..Len(z) : w[i + k] = z[k]

LEMMA FollowsFrom ==
    ASSUME NEW S, NEW w \in Seq(S), NEW i, NEW z \in Seq(S)
    PROVE  /\ Follows(w, i, z) => From(w, i) = z
           /\ i \in 0..Len(w) => Follows(w, i, From(w, i))
<1>1. ASSUME i \in 0..Len(w)
      PROVE  /\ From(w, i) \in Seq(S)
             /\ Len(From(w, i)) = Len(w) - i
             /\ \A k \in 1..(Len(w) - i) : From(w, i)[k] = w[i + k]
  BY <1>1, FromSlice
<1>2. ASSUME Follows(w, i, z) PROVE From(w, i) = z
  <2>1. /\ From(w, i) \in Seq(S) /\ Len(From(w, i)) = Len(z)
        /\ \A k \in 1..Len(z) : From(w, i)[k] = z[k]
    BY <1>1, <1>2 DEF Follows
  <2>. QED  BY <2>1, SeqEqual
<1>3. ASSUME i \in 0..Len(w) PROVE Follows(w, i, From(w, i))
  <2>. DEFINE t == From(w, i)
  <2>1. /\ t \in Seq(S) /\ Len(t) = Len(w) - i
        /\ \A k \in 1..(Len(w) - i) : t[k] = w[i + k]
    BY <1>1, <1>3
  <2>. HIDE DEF t
  <2>2. i \in Nat /\ Len(w) \in Nat /\ Len(w) = i + Len(t)
    BY <1>3, <2>1
  <2>3. Follows(w, i, t)
    BY ONLY <1>3, <2>1, <2>2, SMT DEF Follows
  <2>. QED  BY <2>3 DEF t
<1>. QED  BY <1>2, <1>3

(* What is put together is there part by part. *)
LEMMA FollowsSplit ==
    ASSUME NEW S, NEW w \in Seq(S), NEW i, NEW x \in Seq(S), NEW z \in Seq(S),
           Follows(w, i, x \o z)
    PROVE  /\ OccursAt(w, i, x)
           /\ i + Len(x) \in 0..Len(w)
           /\ Follows(w, i + Len(x), z)
<1>. DEFINE n == Len(x)
            m == Len(z)
            y == x \o z
<1>1. /\ n \in Nat /\ m \in Nat /\ Len(y) = n + m
      /\ \A k \in 1..n : y[k] = x[k]
      /\ \A k \in 1..m : y[n + k] = z[k]
  OBVIOUS
<1>0. Follows(w, i, y)
  OBVIOUS
<1>. HIDE DEF y
<1>2. /\ i \in 0..Len(w) /\ Len(w) \in Nat /\ Len(w) = i + n + m
      /\ \A k \in 1..(n + m) : w[i + k] = y[k]
  BY <1>0, <1>1 DEF Follows
<1>3. OccursAt(w, i, x)
  <2>1. \A k \in 1..n : k \in 1..(n + m)
    BY <1>1
  <2>2. i + n =< Len(w) /\ \A k \in 1..n : w[i + k] = x[k]
    BY <1>1, <1>2, <2>1
  <2>. QED  BY <2>2 DEF OccursAt
<1>4. Follows(w, i + n, z)
  <2>1. ASSUME NEW k \in 1..m PROVE w[(i + n) + k] = z[k]
    <3>1. n + k \in 1..(n + m) /\ (i + n) + k = i + (n + k)
      BY <1>1, <1>2
    <3>2. w[i + (n + k)] = y[n + k]
      BY <1>2, <3>1
    <3>3. y[n + k] = z[k]
      BY <1>1
    <3>. QED  BY <3>1, <3>2, <3>3
  <2>2. i + n \in 0..Len(w) /\ Len(w) = (i + n) + m
    BY <1>1, <1>2
  <2>. QED  BY <2>1, <2>2 DEF Follows
<1>. QED  BY <1>3, <1>4 DEF Follows

(* Where a literal occurs, its parts do. *)
LEMMA OccursSplit ==
    ASSUME NEW S, NEW w \in Seq(S), NEW i \in Nat, NEW x \in Seq(S),
           NEW z \in Seq(S)
    PROVE  OccursAt(w, i, x \o z)
             <=> OccursAt(w, i, x) /\ OccursAt(w, i + Len(x), z)
<1>. DEFINE n == Len(x)
            m == Len(z)
            y == x \o z
<1>1. /\ n \in Nat /\ m \in Nat /\ Len(y) = n + m /\ Len(w) \in Nat
      /\ \A k \in 1..n : y[k] = x[k]
      /\ \A k \in 1..m : y[n + k] = z[k]
  OBVIOUS
<1>. HIDE DEF y
<1>2. ASSUME OccursAt(w, i, y) PROVE OccursAt(w, i, x) /\ OccursAt(w, i + n, z)
  <2>1. i + (n + m) =< Len(w) /\ \A k \in 1..(n + m) : w[i + k] = y[k]
    BY <1>1, <1>2 DEF OccursAt
  <2>2. i + n =< Len(w) /\ (i + n) + m =< Len(w)
    BY <1>1, <2>1
  <2>3. ASSUME NEW k \in 1..n PROVE w[i + k] = x[k]
    <3>1. k \in 1..(n + m)
      BY <1>1
    <3>. QED  BY <1>1, <2>1, <3>1
  <2>4. ASSUME NEW k \in 1..m PROVE w[(i + n) + k] = z[k]
    <3>1. n + k \in 1..(n + m) /\ (i + n) + k = i + (n + k)
      BY <1>1
    <3>2. w[i + (n + k)] = y[n + k]
      BY <2>1, <3>1
    <3>. QED  BY <1>1, <3>1, <3>2
  <2>. QED  BY <2>2, <2>3, <2>4 DEF OccursAt
<1>3. ASSUME OccursAt(w, i, x), OccursAt(w, i + n, z) PROVE OccursAt(w, i, y)
  <2>1. /\ (i + n) + m =< Len(w)
        /\ \A k \in 1..n : w[i + k] = x[k]
        /\ \A k \in 1..m : w[(i + n) + k] = z[k]
    BY <1>3 DEF OccursAt
  <2>2. ASSUME NEW k \in 1..(n + m) PROVE w[i + k] = y[k]
    <3>1. CASE k =< n
      <4>1. k \in 1..n
        BY <3>1, <1>1
      <4>. QED  BY <1>1, <2>1, <4>1
    <3>2. CASE k > n
      <4>1. k - n \in 1..m /\ (i + n) + (k - n) = i + k /\ n + (k - n) = k
        BY <3>2, <1>1
      <4>2. w[(i + n) + (k - n)] = z[k - n]
        BY <2>1, <4>1
      <4>3. y[n + (k - n)] = z[k - n]
        BY <1>1, <4>1
      <4>. QED  BY <4>1, <4>2, <4>3
    <3>. QED  BY <1>1, <3>1, <3>2
  <2>3. i + (n + m) =< Len(w)
    BY <1>1, <2>1
  <2>. QED  BY <1>1, <2>2, <2>3 DEF OccursAt
<1>. QED  BY <1>2, <1>3 DEF y

(* A literal that occurs is the slice there. *)
LEMMA LiteralThere ==
    ASSUME NEW S, NEW s \in Seq(S), NEW q \in Nat, NEW literal \in Seq(S),
           OccursAt(s, q, literal)
    PROVE  SubSeq(s, q + 1, q + Len(literal)) = literal
<1>. DEFINE n == Len(literal)
            z == SubSeq(s, q + 1, q + n)
<1>1. n \in Nat /\ q + n =< Len(s) /\ \A k \in 1..n : s[q + k] = literal[k]
  BY DEF OccursAt
<1>2. z \in Seq(S) /\ Len(z) = n /\ \A k \in 1..n : z[k] = s[q + k]
  BY <1>1
<1>. HIDE DEF z
<1>3. z = literal
  BY <1>1, <1>2, SeqEqual
<1>. QED  BY <1>3 DEF z

(* A slice of s that stands at i of w: what occurs within it occurs in both. *)
LEMMA OccursInCopy ==
    ASSUME NEW S, NEW w \in Seq(S), NEW s \in Seq(S), NEW literal \in Seq(S),
           NEW i \in Nat, NEW p \in Nat, NEW q \in p..Len(s),
           OccursAt(w, i, SubSeq(s, p + 1, q)),
           NEW j \in Nat, j + Len(literal) =< q - p
    PROVE  OccursAt(w, i + j, literal) <=> OccursAt(s, p + j, literal)
<1>. DEFINE n == Len(literal)
            x == SubSeq(s, p + 1, q)
<1>1. /\ x \in Seq(S) /\ Len(x) = q - p
      /\ \A k \in 1..(q - p) : x[k] = s[p + k]
  <2>1. /\ p + 1 \in Int /\ q \in Int /\ q - (p + 1) + 1 = q - p
        /\ p + 1 =< q \/ q - p = 0
        /\ \A k \in (p + 1)..q : k \in 1..Len(s)
        /\ \A k \in 1..(q - p) : (p + 1) + k - 1 = p + k
    OBVIOUS
  <2>2. \A k \in (p + 1)..q : s[k] \in S
    BY <2>1
  <2>3. /\ x \in Seq(S)
        /\ Len(x) = IF p + 1 =< q THEN q - (p + 1) + 1 ELSE 0
        /\ \A k \in 1..(q - (p + 1) + 1) : x[k] = s[(p + 1) + k - 1]
    BY <2>1, <2>2, SubSeqProperties
  <2>. HIDE DEF x
  <2>4. q - p \in Nat
    OBVIOUS
  <2>. QED  BY <2>1, <2>3, <2>4
<1>. HIDE DEF x
<1>2. i + (q - p) =< Len(w) /\ \A k \in 1..(q - p) : w[i + k] = x[k]
  BY <1>1 DEF OccursAt, x
<1>3. n \in Nat /\ j + n =< q - p /\ Len(w) \in Nat /\ Len(s) \in Nat
  OBVIOUS
<1>. HIDE DEF n
<1>4. i + j + n =< Len(w) /\ p + j + n =< Len(s)
  BY <1>2, <1>3
<1>5. ASSUME NEW k \in 1..n PROVE w[i + j + k] = s[p + j + k]
  <2>1. /\ j + k \in 1..(q - p)
        /\ i + j + k = i + (j + k) /\ p + j + k = p + (j + k)
    BY <1>3
  <2>. QED  BY <1>1, <1>2, <2>1
<1>6. /\ OccursAt(w, i + j, literal) <=> \A k \in 1..n : w[i + j + k] = literal[k]
      /\ OccursAt(s, p + j, literal) <=> \A k \in 1..n : s[p + j + k] = literal[k]
  BY <1>4 DEF OccursAt, n
<1>. QED  BY <1>5, <1>6
=============================================================================
