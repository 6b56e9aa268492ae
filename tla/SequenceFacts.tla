----------------------------- MODULE SequenceFacts -----------------------------
(***************************************************************************)
(* What selecting, flattening, folding, counting and applying a function   *)
(* to each element compute, for every sequence.                            *)
(*                                                                         *)
(* These are inductions over data.  The induction theorems of the library  *)
(* take a predicate as an operator, which no prover here can instantiate;  *)
(* InductionOnNat and InductionOnSeq take the set of what has the property *)
(* instead, and follow from WFMin, which is about sets.                    *)
(***************************************************************************)
EXTENDS Selection, SequenceTheorems, FiniteSetTheorems, WellFoundedInduction, TLAPS

-----------------------------------------------------------------------------
(* Induction *)

\* Every set of numbers that is not empty has a least one.
LEMMA LeastNat ==
    ASSUME NEW T, T \subseteq Nat, T # {}
    PROVE  \E m \in T : \A n \in T : m <= n
<1>1. IsWellFoundedOn(OpToRel(<, Nat), Nat)
  BY NatLessThanWellFounded
<1>2. PICK m \in T : \A n \in T : ~(<<n, m>> \in OpToRel(<, Nat))
  BY <1>1, WFMin
<1>3. \A n \in T : ~(n < m)
  BY <1>2 DEF OpToRel
<1>4. \A n \in T : n \in Nat /\ m \in Nat
  OBVIOUS
<1>. QED  BY <1>3, <1>4

\* A set that has 0, and with each number the next one, has them all.
LEMMA InductionOnNat ==
    ASSUME NEW T, 0 \in T, \A n \in Nat : n \in T => n + 1 \in T
    PROVE  Nat \subseteq T
<1> DEFINE B == {n \in Nat : n \notin T}
<1>1. ASSUME B # {} PROVE FALSE
  <2>1. PICK m \in B : \A n \in B : m <= n
    BY <1>1, LeastNat
  <2>2. m \in Nat /\ m # 0
    OBVIOUS
  <2>3. m - 1 \in Nat /\ ~(m <= m - 1) /\ m - 1 + 1 = m
    BY <2>2
  <2>4. m - 1 \in T
    BY <2>1, <2>3
  <2>. QED  BY <2>1, <2>3, <2>4
<1>. QED  BY <1>1

\* A set that has the empty sequence, and each sequence with one element more, has all.
LEMMA InductionOnSeq ==
    ASSUME NEW S, NEW T, << >> \in T,
           \A s \in Seq(S), x \in S : s \in T => Append(s, x) \in T
    PROVE  Seq(S) \subseteq T
<1> DEFINE N == {n \in Nat : \A s \in Seq(S) : Len(s) = n => s \in T}
<1>1. 0 \in N
  BY EmptySeq
<1>2. ASSUME NEW n \in Nat, n \in N PROVE n + 1 \in N
  <2>1. SUFFICES ASSUME NEW s \in Seq(S), Len(s) = n + 1 PROVE s \in T
    OBVIOUS
  <2>2. s # << >>
    BY <2>1, EmptySeq
  <2>3. PICK r \in Seq(S), x \in S : s = Append(r, x)
    BY <2>2, SequenceEmptyOrAppend
  <2>4. Len(r) = n
    BY <2>1, <2>3, AppendProperties, LenProperties
  <2>. QED  BY <1>2, <2>3, <2>4
<1>. HIDE DEF N
<1>3. Nat \subseteq N
  BY <1>1, <1>2, InductionOnNat
<1>. QED  BY <1>3, LenProperties DEF N

\* The domain of a sequence says its length.
LEMMA SameInterval ==
    ASSUME NEW m \in Nat, NEW n \in Nat, 1..m = 1..n
    PROVE  m = n
<1>1. ASSUME NEW j \in Nat, NEW k \in Nat, 1..j = 1..k PROVE ~(j < k)
  <2>1. j < k => k \in 1..k /\ k \notin 1..j
    OBVIOUS
  <2>. QED  BY <1>1, <2>1
<1>. QED  BY <1>1

\* An element more after two sequences.
LEMMA AppendAfterConcat ==
    ASSUME NEW S, NEW a \in Seq(S), NEW b \in Seq(S), NEW x \in S
    PROVE  a \o b \in Seq(S) /\ a \o Append(b, x) = Append(a \o b, x)
<1>1. a \o b \in Seq(S) /\ <<x>> \in Seq(S)
  BY ConcatProperties
<1>2. Append(b, x) = b \o <<x>> /\ Append(a \o b, x) = (a \o b) \o <<x>>
  BY <1>1, AppendIsConcat
<1>. QED  BY <1>1, <1>2, ConcatAssociative

-----------------------------------------------------------------------------
(* Recursion: values that are defined from the values before them exist *)

\* From the value before it, step makes each value of f.
IsStep(step, V, n) == step \in [V \X (1..n) -> V]

IsRecursion(f, n, base, step) ==
    f = [i \in 0..n |-> IF i = 0 THEN base ELSE step[<<f[i - 1], i>>]]

\* There is a function that takes step from each value to the next.
LEMMA RecursionExists ==
    ASSUME NEW V, NEW n \in Nat, NEW base \in V, NEW step, IsStep(step, V, n)
    PROVE  \E f : f \in [0..n -> V] /\ IsRecursion(f, n, base, step)
<1>. USE DEF IsStep
<1> DEFINE Good(f, m) ==
               /\ f[0] = base
               /\ \A i \in 1..m : f[i] = step[<<f[i - 1], i>>]
           M == {m \in Nat : m <= n => \E f \in [0..m -> V] : Good(f, m)}
<1>1. 0 \in M
  <2> DEFINE f == [i \in 0..0 |-> base]
  <2>1. f \in [0..0 -> V] /\ Good(f, 0)
    OBVIOUS
  <2>. QED  BY <2>1
<1>2. ASSUME NEW m \in Nat, m \in M PROVE m + 1 \in M
  <2>1. SUFFICES ASSUME m + 1 <= n PROVE \E f \in [0..(m + 1) -> V] : Good(f, m + 1)
    OBVIOUS
  <2>2. PICK f \in [0..m -> V] : Good(f, m)
    BY <1>2, <2>1
  <2> DEFINE g == [i \in 0..(m + 1) |-> IF i = m + 1 THEN step[<<f[m], m + 1>>] ELSE f[i]]
  <2>3. step[<<f[m], m + 1>>] \in V
    BY <2>1
  <2>4. \A i \in 0..(m + 1) : g[i] \in V
    BY <2>3
  <2>5. Good(g, m + 1)
    <3>1. g[0] = base
      BY <2>2
    <3>2. ASSUME NEW i \in 1..(m + 1) PROVE g[i] = step[<<g[i - 1], i>>]
      <4>1. CASE i = m + 1
        <5>1. i - 1 = m /\ g[m] = f[m] /\ g[i] = step[<<f[m], m + 1>>]
          BY <4>1
        <5>. HIDE DEF g
        <5>. QED  BY <4>1, <5>1
      <4>2. CASE i # m + 1
        <5>1. i \in 1..m /\ i - 1 \in 0..m
          BY <4>2
        <5>2. g[i] = f[i] /\ g[i - 1] = f[i - 1]
          BY <5>1
        <5>3. f[i] = step[<<f[i - 1], i>>]
          BY <2>2, <5>1
        <5>. HIDE DEF g
        <5>. QED  BY <5>2, <5>3
      <4>. QED  BY <4>1, <4>2
    <3>. QED  BY <3>1, <3>2
  <2>. QED  BY <2>4, <2>5
<1>. HIDE DEF M
<1>3. n \in M
  BY <1>1, <1>2, InductionOnNat
<1>4. PICK f \in [0..n -> V] : Good(f, n)
  BY <1>3 DEF M
<1>5. f = [i \in 0..n |-> IF i = 0 THEN base ELSE step[<<f[i - 1], i>>]]
  <2>1. \A i \in 0..n : f[i] = IF i = 0 THEN base ELSE step[<<f[i - 1], i>>]
    BY <1>4
  <2>. HIDE DEF Good
  <2>. QED  BY <2>1
<1>. QED  BY <1>5 DEF IsRecursion

-----------------------------------------------------------------------------
(* FoldLeft goes through sets of positions and takes the greatest one of each *)

\* The greatest of some of the first numbers.
LEMMA MaxOfSome ==
    ASSUME NEW n \in Nat, NEW u \in SUBSET (1..n), u # {}
    PROVE  Max(u) \in u /\ \A x \in u : x <= Max(u)
<1> DEFINE T == {n - x : x \in u}
<1>1. T \subseteq Nat /\ T # {}
  OBVIOUS
<1>2. PICK m \in T : \A y \in T : m <= y
  BY <1>1, LeastNat
<1>3. PICK x \in u : m = n - x
  BY <1>2
<1>4. ASSUME NEW y \in u PROVE x >= y
  <2>1. n - y \in T
    OBVIOUS
  <2>2. m <= n - y
    <3>. HIDE DEF T
    <3>. QED  BY ONLY <1>2, <2>1
  <2>3. x \in 1..n /\ y \in 1..n
    BY ONLY u \in SUBSET (1..n), x \in u, y \in u
  <2>. QED  BY ONLY n \in Nat, <1>3, <2>2, <2>3
<1>5. Max(u) \in u /\ \A y \in u : Max(u) >= y
  BY <1>4, Zenon DEF Max
<1>6. \A y \in u : y \in Nat
  OBVIOUS
<1>. QED  BY <1>5, <1>6

\* The least of some of the first numbers.
LEMMA MinOfSome ==
    ASSUME NEW n \in Nat, NEW u \in SUBSET (1..n), u # {}
    PROVE  Min(u) \in u /\ \A x \in u : Min(u) <= x
<1>1. u \subseteq Nat
  OBVIOUS
<1>2. PICK m \in u : \A y \in u : m <= y
  BY <1>1, LeastNat
<1>. QED  BY <1>2, Zenon DEF Min

IsFold(it, n, base, step) ==
    it = [u \in SUBSET (1..n) |->
            IF u = {} THEN base ELSE step[<<it[u \ {Max(u)}], Max(u)>>]]

\* There is a function that folds step over every set of positions, from the least up.
LEMMA FoldExists ==
    ASSUME NEW V, NEW n \in Nat, NEW base \in V, NEW step, IsStep(step, V, n)
    PROVE  \E it : it \in [SUBSET (1..n) -> V] /\ IsFold(it, n, base, step)
<1> DEFINE Good(it, m) ==
               \A u \in SUBSET (1..m) :
                  it[u] = IF u = {} THEN base ELSE step[<<it[u \ {Max(u)}], Max(u)>>]
           Has(m) == \E it \in [SUBSET (1..m) -> V] : Good(it, m)
           M == {m \in Nat : m <= n => Has(m)}
<1>1. 0 \in M
  <2> DEFINE it == [u \in SUBSET (1..0) |-> base]
  <2>1. 1..0 = {}
    OBVIOUS
  <2>2. it \in [SUBSET (1..0) -> V] /\ Good(it, 0)
    BY <2>1
  <2>. QED  BY <2>2
<1>2. ASSUME NEW m \in Nat, m \in M PROVE m + 1 \in M
  <2>1. SUFFICES ASSUME m + 1 <= n PROVE Has(m + 1)
    <3>. HIDE DEF Has
    <3>. QED  OBVIOUS
  <2>0. Has(m)
    <3>. HIDE DEF Has
    <3>. QED  BY <1>2, <2>1
  <2>2. PICK f \in [SUBSET (1..m) -> V] : Good(f, m)
    <3>. HIDE DEF Good
    <3>. QED  BY <2>0
  <2> DEFINE g == [u \in SUBSET (1..(m + 1)) |->
                     IF m + 1 \in u THEN step[<<f[u \ {m + 1}], m + 1>>] ELSE f[u]]
  <2>3. ASSUME NEW u \in SUBSET (1..(m + 1)) PROVE m + 1 \notin u => u \in SUBSET (1..m)
    OBVIOUS
  <2>4. ASSUME NEW u \in SUBSET (1..(m + 1)) PROVE g[u] \in V
    <3>1. u \ {m + 1} \in SUBSET (1..m)
      OBVIOUS
    <3>2. f[u \ {m + 1}] \in V /\ m + 1 \in 1..n
      BY <2>1, <3>1
    <3>3. step[<<f[u \ {m + 1}], m + 1>>] \in V
      BY <3>2 DEF IsStep
    <3>. QED  BY <2>3, <3>3
  <2>5. ASSUME NEW u \in SUBSET (1..(m + 1))
        PROVE  g[u] = IF u = {} THEN base ELSE step[<<g[u \ {Max(u)}], Max(u)>>]
    <3>1. CASE m + 1 \in u
      <4>1. Max(u) \in u /\ \A x \in u : x <= Max(u)
        <5>1. m + 1 \in Nat /\ u # {}
          BY <3>1
        <5>. QED  BY <5>1, MaxOfSome
      <4>2. Max(u) = m + 1
        <5>1. Max(u) \in 1..(m + 1) /\ m + 1 <= Max(u)
          BY <3>1, <4>1
        <5>. QED  BY <5>1
      <4>3. u \ {m + 1} \in SUBSET (1..(m + 1)) /\ m + 1 \notin u \ {m + 1}
        OBVIOUS
      <4>4. g[u \ {m + 1}] = f[u \ {m + 1}] /\ g[u] = step[<<f[u \ {m + 1}], m + 1>>]
        BY <3>1, <4>3
      <4>. HIDE DEF g
      <4>. QED  BY <3>1, <4>2, <4>4
    <3>2. CASE m + 1 \notin u /\ u = {}
      <4>1. f[u] = base
        BY <2>2, <2>3, <3>2
      <4>. QED  BY <3>2, <4>1
    <3>3. CASE m + 1 \notin u /\ u # {}
      <4>1. u \in SUBSET (1..m)
        BY <2>3, <3>3
      <4>2. u \ {Max(u)} \in SUBSET (1..(m + 1)) /\ m + 1 \notin u \ {Max(u)}
        BY <3>3
      <4>3. g[u] = f[u] /\ g[u \ {Max(u)}] = f[u \ {Max(u)}]
        BY <3>3, <4>2
      <4>4. f[u] = step[<<f[u \ {Max(u)}], Max(u)>>]
        BY <2>2, <3>3, <4>1
      <4>. HIDE DEF g
      <4>. QED  BY <3>3, <4>3, <4>4
    <3>. QED  BY <3>1, <3>2, <3>3
  <2>6. g \in [SUBSET (1..(m + 1)) -> V]
    BY <2>4
  <2>7. Good(g, m + 1)
    BY <2>5
  <2>. HIDE DEF g, Good
  <2>. QED  BY <2>6, <2>7
<1>. HIDE DEF M, Has
<1>3. n \in M
  BY <1>1, <1>2, InductionOnNat
<1>4. PICK it \in [SUBSET (1..n) -> V] : Good(it, n)
  <2>1. Has(n)
    BY <1>3 DEF M
  <2>. HIDE DEF Good
  <2>. QED  BY <2>1 DEF Has
<1>5. IsFold(it, n, base, step)
  BY <1>4, Zenon DEF IsFold
<1>. QED  BY <1>5

\* The values of a fold: without a position, and with one position more.
LEMMA FoldGoesUp ==
    ASSUME NEW n \in Nat, NEW i \in 1..n
    PROVE  /\ 1..i \in SUBSET (1..n) /\ 1..i # {} /\ 1..0 = {}
           /\ Max(1..i) = i /\ (1..i) \ {i} = 1..(i - 1)
<1>1. 1..i \in SUBSET (1..n) /\ i \in 1..i /\ 1..0 = {} /\ (1..i) \ {i} = 1..(i - 1)
  OBVIOUS
<1>2. Max(1..i) \in 1..i /\ i <= Max(1..i)
  BY <1>1, MaxOfSome
<1>. QED  BY <1>1, <1>2

-----------------------------------------------------------------------------
(* Those *)

\* The values that Those goes through.
LEMMA ThoseSteps ==
    ASSUME NEW S, NEW s \in Seq(S), NEW T
    PROVE  \E kept : /\ kept[0] = << >>
                     /\ \A n \in 1..Len(s) :
                          kept[n] = IF s[n] \in T THEN Append(kept[n - 1], s[n]) ELSE kept[n - 1]
                     /\ Those(s, T) = kept[Len(s)]
<1> DEFINE V == Seq(S)
           step == [vn \in V \X (1..Len(s)) |->
                       IF s[vn[2]] \in T THEN Append(vn[1], s[vn[2]]) ELSE vn[1]]
<1>1. Len(s) \in Nat /\ << >> \in V
  BY EmptySeq, LenProperties
<1>2. IsStep(step, V, Len(s))
  BY ElementOfSeq, AppendProperties DEF IsStep
<1>. HIDE DEF V
<1>3. PICK f : f \in [0..Len(s) -> V] /\ IsRecursion(f, Len(s), << >>, step)
  <2>. HIDE DEF step
  <2>. QED  BY <1>1, <1>2, RecursionExists
<1>4. f = [n \in 0..Len(s) |->
             IF n = 0 THEN << >>
             ELSE IF s[n] \in T THEN Append(f[n - 1], s[n]) ELSE f[n - 1]]
  <2>1. ASSUME NEW n \in 0..Len(s), n # 0
        PROVE  step[<<f[n - 1], n>>] = IF s[n] \in T THEN Append(f[n - 1], s[n]) ELSE f[n - 1]
    <3>1. n - 1 \in 0..Len(s) /\ n \in 1..Len(s)
      BY <1>1, <2>1
    <3>2. f[n - 1] \in V
      BY <1>3, <3>1
    <3>. QED  BY <3>1, <3>2
  <2>. HIDE DEF step
  <2>. QED  BY <1>3, <2>1 DEF IsRecursion
<1>5. PICK kept :
        /\ Those(s, T) = kept[Len(s)]
        /\ kept = [n \in 0..Len(s) |->
                     IF n = 0 THEN << >>
                     ELSE IF s[n] \in T THEN Append(kept[n - 1], s[n]) ELSE kept[n - 1]]
  BY <1>4, Zenon DEF Those
<1>6. kept[0] = << >>
  BY <1>1, <1>5
<1>7. ASSUME NEW n \in 1..Len(s)
      PROVE  kept[n] = IF s[n] \in T THEN Append(kept[n - 1], s[n]) ELSE kept[n - 1]
  <2>1. n \in 0..Len(s) /\ n # 0
    BY <1>1
  <2>. QED  BY <1>5, <2>1, Zenon
<1>. QED  BY <1>5, <1>6, <1>7

\* Of no element.
LEMMA ThoseOfNone == ASSUME NEW T PROVE Those(<< >>, T) = << >>
<1> DEFINE e == << >>
<1>1. e \in Seq({}) /\ Len(e) = 0
  BY EmptySeq
<1>. HIDE DEF e
<1>2. PICK kept : /\ kept[0] = << >>
                  /\ \A n \in 1..Len(e) :
                       kept[n] = IF e[n] \in T THEN Append(kept[n - 1], e[n]) ELSE kept[n - 1]
                  /\ Those(e, T) = kept[Len(e)]
  BY <1>1, ThoseSteps
<1>3. Those(e, T) = << >>
  BY <1>1, <1>2
<1>. QED  BY <1>3 DEF e

\* Of one element more.
LEMMA ThoseOfOneMore ==
    ASSUME NEW S, NEW T, NEW s \in Seq(S), NEW x \in S
    PROVE  Those(Append(s, x), T) = IF x \in T THEN Append(Those(s, T), x) ELSE Those(s, T)
<1> DEFINE r == Append(s, x)
<1>1. /\ r \in Seq(S) /\ Len(r) = Len(s) + 1 /\ Len(s) \in Nat
      /\ \A i \in 1..Len(s) : r[i] = s[i]
      /\ r[Len(s) + 1] = x
  BY AppendProperties, LenProperties
<1>. HIDE DEF r
<1>2. PICK a : /\ a[0] = << >>
               /\ \A n \in 1..Len(s) :
                    a[n] = IF s[n] \in T THEN Append(a[n - 1], s[n]) ELSE a[n - 1]
               /\ Those(s, T) = a[Len(s)]
  BY ThoseSteps
<1>3. PICK b : /\ b[0] = << >>
               /\ \A n \in 1..Len(r) :
                    b[n] = IF r[n] \in T THEN Append(b[n - 1], r[n]) ELSE b[n - 1]
               /\ Those(r, T) = b[Len(r)]
  BY <1>1, ThoseSteps
<1> DEFINE N == {n \in Nat : n <= Len(s) => a[n] = b[n]}
<1>4. 0 \in N
  BY <1>2, <1>3
<1>5. ASSUME NEW n \in Nat, n \in N PROVE n + 1 \in N
  <2>1. SUFFICES ASSUME n + 1 <= Len(s) PROVE a[n + 1] = b[n + 1]
    OBVIOUS
  <2>2. /\ n + 1 \in 1..Len(s) /\ n + 1 \in 1..Len(r) /\ n + 1 - 1 = n
        /\ a[n] = b[n] /\ r[n + 1] = s[n + 1]
    BY <1>1, <1>5, <2>1
  <2>. QED  BY <1>2, <1>3, <2>2
<1>. HIDE DEF N
<1>6. Nat \subseteq N
  BY <1>4, <1>5, InductionOnNat
<1>7. a[Len(s)] = b[Len(s)]
  BY <1>1, <1>6 DEF N
<1>8. Len(r) \in 1..Len(r) /\ Len(r) - 1 = Len(s) /\ r[Len(r)] = x
  BY <1>1
<1>9. Those(r, T) = IF x \in T THEN Append(Those(s, T), x) ELSE Those(s, T)
  BY <1>2, <1>3, <1>7, <1>8
<1>. QED  BY <1>9 DEF r

\* They are a sequence.
LEMMA ThoseAreSeq ==
    ASSUME NEW S, NEW T, NEW s \in Seq(S)
    PROVE  Those(s, T) \in Seq(S)
<1> DEFINE G == {r \in Seq(S) : Those(r, T) \in Seq(S)}
<1>1. << >> \in G
  BY ThoseOfNone, EmptySeq
<1>2. ASSUME NEW r \in Seq(S), NEW x \in S, r \in G PROVE Append(r, x) \in G
  <2>1. Those(Append(r, x), T) \in {Append(Those(r, T), x), Those(r, T)}
    BY ThoseOfOneMore
  <2>2. Append(Those(r, T), x) \in Seq(S) /\ Append(r, x) \in Seq(S)
    BY <1>2, AppendProperties
  <2>. QED  BY <1>2, <2>1, <2>2
<1>. HIDE DEF G
<1>3. Seq(S) \subseteq G
  BY <1>1, <1>2, InductionOnSeq
<1>. QED  BY <1>3 DEF G

\* Of two sequences after each other.
LEMMA ThoseOfConcat ==
    ASSUME NEW S, NEW T, NEW a \in Seq(S), NEW b \in Seq(S)
    PROVE  Those(a \o b, T) = Those(a, T) \o Those(b, T)
<1> DEFINE G == {c \in Seq(S) : Those(a \o c, T) = Those(a, T) \o Those(c, T)}
<1>1. << >> \in G
  <2>1. << >> \in Seq(S) /\ Those(a, T) \in Seq(S)
    BY EmptySeq, ThoseAreSeq
  <2>. QED  BY <2>1, ThoseOfNone, ConcatEmptySeq
<1>2. ASSUME NEW c \in Seq(S), NEW x \in S, c \in G PROVE Append(c, x) \in G
  <2> DEFINE t == Those(a, T)
             u == Those(c, T)
  <2>1. t \in Seq(S) /\ u \in Seq(S)
    BY ThoseAreSeq
  <2>2. a \o Append(c, x) = Append(a \o c, x) /\ a \o c \in Seq(S)
    BY AppendAfterConcat
  <2>3. t \o Append(u, x) = Append(t \o u, x)
    BY <2>1, AppendAfterConcat
  <2>4. Those(a \o c, T) = t \o u
    BY <1>2
  <2>5. Those(Append(c, x), T) = IF x \in T THEN Append(u, x) ELSE u
    BY ThoseOfOneMore
  <2>6. Those(Append(a \o c, x), T) = IF x \in T THEN Append(t \o u, x) ELSE t \o u
    <3> DEFINE ac == a \o c
    <3>1. ac \in Seq(S)
      BY <2>2
    <3>. HIDE DEF ac
    <3>2. Those(Append(ac, x), T) = IF x \in T THEN Append(Those(ac, T), x) ELSE Those(ac, T)
      BY <3>1, ThoseOfOneMore
    <3>. HIDE DEF t, u
    <3>. QED  BY <2>4, <3>2 DEF ac
  <2>7. Append(c, x) \in Seq(S)
    BY AppendProperties
  <2>. HIDE DEF t, u
  <2>8. Those(a \o Append(c, x), T) = t \o Those(Append(c, x), T)
    BY <2>2, <2>3, <2>5, <2>6
  <2>. QED  BY <2>7, <2>8 DEF t
<1>. HIDE DEF G
<1>3. Seq(S) \subseteq G
  BY <1>1, <1>2, InductionOnSeq
<1>. QED  BY <1>3 DEF G

\* What is selected are elements of both, and nothing when there are none.
LEMMA ThoseAreBoth ==
    ASSUME NEW S, NEW T, NEW s \in Seq(S)
    PROVE  /\ Those(s, T) \in Seq(S \cap T)
           /\ Those(s, T) = << >> <=> \A i \in 1..Len(s) : s[i] \notin T
           /\ (\A i \in 1..Len(s) : s[i] \in T) => Those(s, T) = s
<1> DEFINE Fine(r) == /\ Those(r, T) \in Seq(S \cap T)
                      /\ Those(r, T) = << >> <=> \A i \in 1..Len(r) : r[i] \notin T
                      /\ (\A i \in 1..Len(r) : r[i] \in T) => Those(r, T) = r
           G == {r \in Seq(S) : Fine(r)}
<1>1. << >> \in G
  <2> DEFINE e == << >>
  <2>1. e \in Seq(S \cap T) /\ e \in Seq(S) /\ Len(e) = 0
    BY EmptySeq
  <2>2. Those(e, T) = e
    BY ThoseOfNone
  <2>. HIDE DEF e
  <2>3. 1..Len(e) = {}
    BY <2>1
  <2>4. Those(e, T) = << >>
    BY <2>2 DEF e
  <2>5. Fine(e)
    BY <2>1, <2>2, <2>3, <2>4
  <2>. QED  BY <2>1, <2>5 DEF e
<1>2. ASSUME NEW r \in Seq(S), NEW x \in S, r \in G PROVE Append(r, x) \in G
  <2> DEFINE rx == Append(r, x)
  <2>1. /\ rx \in Seq(S) /\ Len(rx) = Len(r) + 1 /\ Len(r) \in Nat
        /\ \A i \in 1..Len(r) : rx[i] = r[i]
        /\ rx[Len(r) + 1] = x
    BY AppendProperties, LenProperties
  <2>2. Those(rx, T) = IF x \in T THEN Append(Those(r, T), x) ELSE Those(r, T)
    BY ThoseOfOneMore
  <2>3. Fine(r)
    BY <1>2
  <2>. HIDE DEF rx
  <2>4. \A i \in 1..Len(rx) : i \in 1..Len(r) \/ (i = Len(r) + 1 /\ rx[i] = x)
    BY <2>1
  <2>5. 1..Len(r) \subseteq 1..Len(rx) /\ Len(r) + 1 \in 1..Len(rx)
    BY <2>1
  <2>6. CASE x \in T
    <3>1. Those(rx, T) = Append(Those(r, T), x)
      BY <2>2, <2>6
    <3>2. Those(rx, T) \in Seq(S \cap T) /\ Those(rx, T) # << >>
      BY <2>3, <2>6, <3>1, AppendProperties
    <3>3. (\A i \in 1..Len(rx) : rx[i] \in T) => Those(rx, T) = rx
      BY <2>1, <2>3, <2>5, <3>1 DEF rx
    <3>4. ~ \A i \in 1..Len(rx) : rx[i] \notin T
      BY <2>1, <2>5, <2>6
    <3>5. Fine(rx)
      BY <3>2, <3>3, <3>4
    <3>. QED  BY <2>1, <3>5 DEF rx
  <2>7. CASE x \notin T
    <3>1. Those(rx, T) = Those(r, T)
      BY <2>2, <2>7
    <3>2. ~ \A i \in 1..Len(rx) : rx[i] \in T
      BY <2>1, <2>5, <2>7
    <3>3. (\A i \in 1..Len(rx) : rx[i] \notin T) <=> (\A i \in 1..Len(r) : r[i] \notin T)
      BY <2>1, <2>4, <2>5, <2>7
    <3>4. Fine(rx)
      BY <2>3, <3>1, <3>2, <3>3
    <3>. QED  BY <2>1, <3>4 DEF rx
  <2>. QED  BY <2>6, <2>7
<1>. HIDE DEF G
<1>3. Seq(S) \subseteq G
  BY <1>1, <1>2, InductionOnSeq
<1>. QED  BY <1>3 DEF G

\* Two sets that have the same elements of a sequence select the same of it.
LEMMA ThoseAgree ==
    ASSUME NEW S, NEW T, NEW U, \A x \in S : x \in T <=> x \in U
    PROVE  \A s \in Seq(S) : Those(s, T) = Those(s, U)
<1> DEFINE G == {r \in Seq(S) : Those(r, T) = Those(r, U)}
<1>1. << >> \in G
  BY ThoseOfNone, EmptySeq
<1>2. ASSUME NEW r \in Seq(S), NEW x \in S, r \in G PROVE Append(r, x) \in G
  <2>1. Those(Append(r, x), T) = IF x \in T THEN Append(Those(r, T), x) ELSE Those(r, T)
    BY ThoseOfOneMore
  <2>2. Those(Append(r, x), U) = IF x \in U THEN Append(Those(r, U), x) ELSE Those(r, U)
    BY ThoseOfOneMore
  <2>. QED  BY <1>2, <2>1, <2>2, AppendProperties
<1>. HIDE DEF G
<1>3. Seq(S) \subseteq G
  BY <1>1, <1>2, InductionOnSeq
<1>. QED  BY <1>3 DEF G

\* A sequence has its own elements.
LEMMA OwnElements ==
    ASSUME NEW S, NEW s \in Seq(S)
    PROVE  s \in Seq(ToSet(s)) /\ ToSet(s) \subseteq S
<1>1. DOMAIN s = 1..Len(s) /\ Len(s) \in Nat /\ s \in [1..Len(s) -> S]
  BY LenProperties
<1>2. s \in [1..Len(s) -> ToSet(s)]
  BY <1>1 DEF ToSet
<1>3. \A n \in Nat : [1..n -> ToSet(s)] \subseteq Seq(ToSet(s))
  BY SeqDef
<1>4. s \in Seq(ToSet(s))
  BY <1>1, <1>2, <1>3
<1>. QED  BY <1>1, <1>4 DEF ToSet

\* It does not matter what else a set has.
LEMMA ThoseOfElements ==
    ASSUME NEW S, NEW s \in Seq(S), NEW T
    PROVE  Those(s, ToSet(s) \cap T) = Those(s, T)
<1>1. s \in Seq(ToSet(s))
  BY OwnElements
<1>2. \A x \in ToSet(s) : x \in ToSet(s) \cap T <=> x \in T
  OBVIOUS
<1>. QED  BY <1>1, <1>2, ThoseAgree

\* An element is in a sequence when it is selected.
LEMMA MembersAreThose ==
    ASSUME NEW S, NEW s \in Seq(S), NEW T
    PROVE  ToSet(s) \cap T # {} <=> Those(s, T) # << >>
<1>1. DOMAIN s = 1..Len(s)
  BY LenProperties
<1>2. ToSet(s) \cap T = {} <=> \A i \in 1..Len(s) : s[i] \notin T
  BY <1>1 DEF ToSet
<1>. QED  BY <1>2, ThoseAreBoth

\* To select twice is to select once, when the first selection has all of the second.
LEMMA ThoseOfThose ==
    ASSUME NEW S, NEW T, NEW U, \A x \in S : x \in U => x \in T
    PROVE  \A s \in Seq(S) : Those(Those(s, T), U) = Those(s, U)
<1> DEFINE G == {r \in Seq(S) : Those(Those(r, T), U) = Those(r, U)}
<1>1. << >> \in G
  BY ThoseOfNone, EmptySeq
<1>2. ASSUME NEW r \in Seq(S), NEW x \in S, r \in G PROVE Append(r, x) \in G
  <2> DEFINE t == Those(r, T)
  <2>1. t \in Seq(S) /\ Those(t, U) = Those(r, U)
    BY <1>2, ThoseAreSeq
  <2>2. Those(Append(r, x), T) = IF x \in T THEN Append(t, x) ELSE t
    BY ThoseOfOneMore
  <2>3. Those(Append(r, x), U) = IF x \in U THEN Append(Those(r, U), x) ELSE Those(r, U)
    BY ThoseOfOneMore
  <2>. HIDE DEF t
  <2>4. Those(Append(t, x), U) = IF x \in U THEN Append(Those(t, U), x) ELSE Those(t, U)
    BY <2>1, ThoseOfOneMore
  <2>5. Those(Those(Append(r, x), T), U) = Those(Append(r, x), U)
    BY <2>1, <2>2, <2>3, <2>4
  <2>. QED  BY <2>5, AppendProperties
<1>. HIDE DEF G
<1>3. Seq(S) \subseteq G
  BY <1>1, <1>2, InductionOnSeq
<1>. QED  BY <1>3 DEF G

-----------------------------------------------------------------------------
(* FlattenSeq *)

\* The values that FlattenSeq goes through.
LEMMA FlattenSteps ==
    ASSUME NEW S, NEW ss \in Seq(Seq(S)), Len(ss) > 0
    PROVE  \E flat : /\ flat[1] = ss[1]
                     /\ \A n \in 2..Len(ss) : flat[n] = flat[n - 1] \o ss[n]
                     /\ FlattenSeq(ss) = flat[Len(ss)]
<1> DEFINE V == Seq(S)
           step == [vn \in V \X (1..Len(ss)) |-> vn[1] \o ss[vn[2]]]
<1>1. Len(ss) \in Nat /\ << >> \in V /\ \A n \in 1..Len(ss) : ss[n] \in V
  BY EmptySeq, LenProperties, ElementOfSeq
<1>2. IsStep(step, V, Len(ss))
  BY <1>1, ConcatProperties DEF IsStep
<1>3. PICK f : f \in [0..Len(ss) -> V] /\ IsRecursion(f, Len(ss), << >>, step)
  <2>. HIDE DEF step, V
  <2>. QED  BY <1>1, <1>2, RecursionExists
<1> DEFINE g == [n \in 1..Len(ss) |-> f[n]]
<1>4. g = [n \in 1..Len(ss) |-> IF n = 1 THEN ss[n] ELSE g[n - 1] \o ss[n]]
  <2>1. ASSUME NEW n \in 1..Len(ss) PROVE f[n] = f[n - 1] \o ss[n]
    <3>1. n \in 0..Len(ss) /\ n # 0 /\ n - 1 \in 0..Len(ss)
      BY <1>1
    <3>2. f[n - 1] \in V /\ f[n] = step[<<f[n - 1], n>>]
      BY <1>3, <3>1 DEF IsRecursion
    <3>. HIDE DEF V
    <3>. QED  BY <3>2
  <2>2. f[0] = << >> /\ 0 \in 0..Len(ss)
    BY <1>1, <1>3 DEF IsRecursion
  <2>3. 1 \in 1..Len(ss) /\ f[1] = ss[1]
    <3>1. 1 \in 1..Len(ss)
      BY <1>1
    <3>2. << >> \o ss[1] = ss[1]
      BY <1>1, <3>1, ConcatEmptySeq
    <3>3. ASSUME NEW n \in 1..Len(ss), n = 1 PROVE f[n] = << >> \o ss[n]
      <4>1. f[n] = f[n - 1] \o ss[n]
        BY <2>1, Zenon
      <4>2. n - 1 = 0
        BY <3>3
      <4>. QED  BY <2>2, <4>1, <4>2
    <3>4. f[1] = << >> \o ss[1]
      BY <3>1, <3>3
    <3>. QED  BY <3>1, <3>2, <3>4
  <2>4. ASSUME NEW n \in 1..Len(ss), n # 1 PROVE g[n] = g[n - 1] \o ss[n]
    <3>1. n - 1 \in 1..Len(ss)
      BY <1>1, <2>4
    <3>. QED  BY <2>1, <3>1
  <2>5. \A n \in 1..Len(ss) : g[n] = IF n = 1 THEN ss[n] ELSE g[n - 1] \o ss[n]
    BY <2>3, <2>4
  <2>6. \A n \in 1..Len(ss) : f[n] = IF n = 1 THEN ss[n] ELSE g[n - 1] \o ss[n]
    BY <2>5, Zenon
  <2>. QED  BY <2>6, Zenon
<1>. HIDE DEF g
<1>5. PICK flat :
        /\ FlattenSeq(ss) = flat[Len(ss)]
        /\ flat = [n \in 1..Len(ss) |-> IF n = 1 THEN ss[n] ELSE flat[n - 1] \o ss[n]]
  <2>1. Len(ss) # 0
    BY <1>1
  <2>. QED  BY <1>4, <2>1, Zenon DEF FlattenSeq
<1>6. flat[1] = ss[1]
  BY <1>1, <1>5
<1>7. ASSUME NEW n \in 2..Len(ss) PROVE flat[n] = flat[n - 1] \o ss[n]
  <2>1. n \in 1..Len(ss) /\ n # 1
    BY <1>1
  <2>. QED  BY <1>5, <2>1, Zenon
<1>. QED  BY <1>5, <1>6, <1>7

\* Of no sequence.
LEMMA FlattenOfNone == FlattenSeq(<< >>) = << >>
  BY EmptySeq DEF FlattenSeq

\* Of one sequence more.
LEMMA FlattenOfOneMore ==
    ASSUME NEW S, NEW ss \in Seq(Seq(S)), NEW r \in Seq(S)
    PROVE  FlattenSeq(Append(ss, r)) = FlattenSeq(ss) \o r
<1> DEFINE rr == Append(ss, r)
<1>1. /\ rr \in Seq(Seq(S)) /\ Len(rr) = Len(ss) + 1 /\ Len(ss) \in Nat
      /\ \A i \in 1..Len(ss) : rr[i] = ss[i]
      /\ rr[Len(ss) + 1] = r
  BY AppendProperties, LenProperties
<1>. HIDE DEF rr
<1>2. PICK b : /\ b[1] = rr[1]
               /\ \A n \in 2..Len(rr) : b[n] = b[n - 1] \o rr[n]
               /\ FlattenSeq(rr) = b[Len(rr)]
  <2>1. Len(rr) > 0
    BY <1>1
  <2>. QED  BY <1>1, <2>1, FlattenSteps
<1>3. CASE Len(ss) = 0
  <2>1. FlattenSeq(rr) = r
    BY <1>1, <1>2, <1>3
  <2>2. ss = << >>
    BY <1>3, EmptySeq
  <2>3. << >> \o r = r
    BY ConcatEmptySeq
  <2>. QED  BY <2>1, <2>2, <2>3, FlattenOfNone DEF rr
<1>4. CASE Len(ss) > 0
  <2>1. PICK a : /\ a[1] = ss[1]
                 /\ \A n \in 2..Len(ss) : a[n] = a[n - 1] \o ss[n]
                 /\ FlattenSeq(ss) = a[Len(ss)]
    BY <1>4, FlattenSteps
  <2> DEFINE N == {n \in Nat : n + 1 <= Len(ss) => a[n + 1] = b[n + 1]}
  <2>2. 0 \in N
    <3>1. 1 \in 1..Len(ss)
      BY <1>1, <1>4
    <3>. QED  BY <1>1, <1>2, <2>1, <3>1
  <2>3. ASSUME NEW n \in Nat, n \in N PROVE n + 1 \in N
    <3> DEFINE m == n + 2
    <3>1. n + 1 + 1 = m /\ m - 1 = n + 1 /\ m \in Nat
      OBVIOUS
    <3>2. SUFFICES ASSUME m <= Len(ss) PROVE a[m] = b[m]
      BY <3>1
    <3>3. m \in 2..Len(ss) /\ m \in 2..Len(rr) /\ m \in 1..Len(ss)
      BY <1>1, <3>2
    <3>4. a[m - 1] = b[m - 1]
      BY <1>1, <2>3, <3>1, <3>2
    <3>. HIDE DEF m
    <3>5. a[m] = a[m - 1] \o ss[m] /\ b[m] = b[m - 1] \o rr[m] /\ rr[m] = ss[m]
      BY <1>1, <1>2, <2>1, <3>3
    <3>. QED  BY <3>4, <3>5
  <2>. HIDE DEF N
  <2>4. Nat \subseteq N
    BY <2>2, <2>3, InductionOnNat
  <2>5. a[Len(ss)] = b[Len(ss)]
    <3>1. Len(ss) - 1 \in N /\ Len(ss) - 1 + 1 = Len(ss)
      BY <1>1, <1>4, <2>4
    <3>. QED  BY <1>1, <3>1 DEF N
  <2>6. Len(rr) \in 2..Len(rr) /\ Len(rr) - 1 = Len(ss) /\ rr[Len(rr)] = r
    BY <1>1, <1>4
  <2>7. FlattenSeq(rr) = FlattenSeq(ss) \o r
    BY <1>2, <2>1, <2>5, <2>6
  <2>. QED  BY <2>7 DEF rr
<1>. QED  BY <1>1, <1>3, <1>4

\* It is a sequence.
LEMMA FlattenIsSeq ==
    ASSUME NEW S, NEW ss \in Seq(Seq(S))
    PROVE  FlattenSeq(ss) \in Seq(S)
<1> DEFINE G == {rr \in Seq(Seq(S)) : FlattenSeq(rr) \in Seq(S)}
<1>1. << >> \in G
  BY FlattenOfNone, EmptySeq
<1>2. ASSUME NEW rr \in Seq(Seq(S)), NEW r \in Seq(S), rr \in G PROVE Append(rr, r) \in G
  <2>1. FlattenSeq(Append(rr, r)) = FlattenSeq(rr) \o r
    BY FlattenOfOneMore
  <2>2. FlattenSeq(rr) \o r \in Seq(S) /\ Append(rr, r) \in Seq(Seq(S))
    BY <1>2, ConcatProperties, AppendProperties
  <2>. QED  BY <2>1, <2>2
<1>. HIDE DEF G
<1>3. Seq(Seq(S)) \subseteq G
  BY <1>1, <1>2, InductionOnSeq
<1>. QED  BY <1>3 DEF G

-----------------------------------------------------------------------------
(* A function over a sequence *)

Mapped(s, f) == [i \in DOMAIN s |-> f[s[i]]]

IsMap(f, S, V) == f \in [S -> V]

\* It gives a sequence as long, whose elements are the values of those of s.
LEMMA MappedIsSeq ==
    ASSUME NEW S, NEW V, NEW f, IsMap(f, S, V), NEW s \in Seq(S)
    PROVE  /\ Mapped(s, f) \in Seq(V) /\ Len(Mapped(s, f)) = Len(s)
           /\ \A i \in 1..Len(s) : Mapped(s, f)[i] = f[s[i]]
<1>1. DOMAIN s = 1..Len(s) /\ Len(s) \in Nat /\ \A i \in 1..Len(s) : s[i] \in S
  BY LenProperties, ElementOfSeq
<1>2. Mapped(s, f) = [i \in 1..Len(s) |-> f[s[i]]]
  BY <1>1 DEF Mapped
<1>3. Mapped(s, f) \in [1..Len(s) -> V]
  BY <1>1, <1>2 DEF IsMap
<1>4. Mapped(s, f) \in Seq(V)
  BY <1>1, <1>3, SeqDef
<1>5. 1..Len(Mapped(s, f)) = 1..Len(s) /\ Len(Mapped(s, f)) \in Nat
  BY <1>2, <1>4, LenProperties
<1>. QED  BY <1>1, <1>2, <1>4, <1>5, SameInterval

\* Over no element there is no value.
LEMMA MappedOfNone == ASSUME NEW f PROVE Mapped(<< >>, f) = << >>
  BY EmptySeq DEF Mapped

\* One element more gives one value more.
LEMMA MappedOfOneMore ==
    ASSUME NEW S, NEW V, NEW f, IsMap(f, S, V), NEW s \in Seq(S), NEW x \in S
    PROVE  Mapped(Append(s, x), f) = Append(Mapped(s, f), f[x])
<1> DEFINE r == Append(s, x)
           m == Mapped(s, f)
           n == Append(m, f[x])
<1>1. /\ r \in Seq(S) /\ Len(r) = Len(s) + 1 /\ Len(s) \in Nat
      /\ \A i \in 1..Len(s) : r[i] = s[i]
      /\ r[Len(s) + 1] = x
  BY AppendProperties, LenProperties
<1>2. /\ m \in Seq(V) /\ Len(m) = Len(s) /\ \A i \in 1..Len(s) : m[i] = f[s[i]]
  BY MappedIsSeq
<1>. HIDE DEF r, m
<1>3. /\ n \in Seq(V) /\ Len(n) = Len(m) + 1
      /\ \A i \in 1..Len(m) : n[i] = m[i]
      /\ n[Len(m) + 1] = f[x]
  BY <1>2, AppendProperties DEF IsMap
<1>. HIDE DEF n
<1>4. /\ Mapped(r, f) \in Seq(V) /\ Len(Mapped(r, f)) = Len(r)
      /\ \A i \in 1..Len(r) : Mapped(r, f)[i] = f[r[i]]
  BY <1>1, MappedIsSeq
<1>5. ASSUME NEW i \in 1..Len(r) PROVE Mapped(r, f)[i] = n[i]
  <2>1. CASE i = Len(s) + 1
    BY <1>1, <1>2, <1>3, <1>4, <2>1
  <2>2. CASE i \in 1..Len(s)
    BY <1>1, <1>2, <1>3, <1>4, <2>2
  <2>. QED  BY <1>1, <2>1, <2>2
<1>6. Mapped(r, f) = n
  BY <1>1, <1>2, <1>3, <1>4, <1>5, SeqEqual
<1>. QED  BY <1>6 DEF r, m, n

\* What a function leaves alone and makes of nothing else is selected before and after it.
LEMMA ThoseOfMapped ==
    ASSUME NEW S, NEW V, NEW f, IsMap(f, S, V), NEW U,
           \A x \in S : (f[x] \in U <=> x \in U) /\ (x \in U => f[x] = x)
    PROVE  \A s \in Seq(S) : Those(Mapped(s, f), U) = Those(s, U)
<1> DEFINE G == {r \in Seq(S) : Those(Mapped(r, f), U) = Those(r, U)}
<1>1. << >> \in G
  BY ThoseOfNone, MappedOfNone, EmptySeq
<1>2. ASSUME NEW r \in Seq(S), NEW x \in S, r \in G PROVE Append(r, x) \in G
  <2> DEFINE m == Mapped(r, f)
             y == f[x]
  <2>1. m \in Seq(V) /\ y \in V
    BY MappedIsSeq DEF IsMap
  <2>2. Mapped(Append(r, x), f) = Append(m, y)
    BY MappedOfOneMore
  <2>3. Those(Append(r, x), U) = IF x \in U THEN Append(Those(r, U), x) ELSE Those(r, U)
    BY ThoseOfOneMore
  <2>4. (y \in U <=> x \in U) /\ (x \in U => y = x) /\ Those(m, U) = Those(r, U)
    BY <1>2
  <2>. HIDE DEF m, y
  <2>5. Those(Append(m, y), U) = IF y \in U THEN Append(Those(m, U), y) ELSE Those(m, U)
    BY <2>1, ThoseOfOneMore
  <2>6. Those(Mapped(Append(r, x), f), U) = Those(Append(r, x), U)
    BY <2>2, <2>3, <2>4, <2>5
  <2>. QED  BY <2>6, AppendProperties
<1>. HIDE DEF G
<1>3. Seq(S) \subseteq G
  BY <1>1, <1>2, InductionOnSeq
<1>. QED  BY <1>3 DEF G

\* What is dropped before a function is applied is not missed when nothing is selected of
\* what the function makes of it.
LEMMA ThoseOfMappedThose ==
    ASSUME NEW S, NEW V, NEW f, IsMap(f, S, V), NEW T, NEW U,
           \A x \in S : f[x] \in U => x \in T
    PROVE  \A s \in Seq(S) : Those(Mapped(Those(s, T), f), U) = Those(Mapped(s, f), U)
<1> DEFINE G == {r \in Seq(S) : Those(Mapped(Those(r, T), f), U) = Those(Mapped(r, f), U)}
<1>1. << >> \in G
  BY ThoseOfNone, MappedOfNone, EmptySeq
<1>2. ASSUME NEW r \in Seq(S), NEW x \in S, r \in G PROVE Append(r, x) \in G
  <2> DEFINE t == Those(r, T)
             m == Mapped(r, f)
             n == Mapped(t, f)
             y == f[x]
  <2>1. t \in Seq(S) /\ Those(n, U) = Those(m, U) /\ (y \in U => x \in T)
    BY <1>2, ThoseAreSeq
  <2>2. Those(Append(r, x), T) = IF x \in T THEN Append(t, x) ELSE t
    BY ThoseOfOneMore
  <2>. HIDE DEF t
  <2>3. m \in Seq(V) /\ n \in Seq(V) /\ y \in V
    BY <2>1, MappedIsSeq DEF IsMap
  <2>4. Mapped(Append(r, x), f) = Append(m, y) /\ Mapped(Append(t, x), f) = Append(n, y)
    BY <2>1, MappedOfOneMore
  <2>. HIDE DEF m, n, y
  <2>5. Those(Append(m, y), U) = IF y \in U THEN Append(Those(m, U), y) ELSE Those(m, U)
    BY <2>3, ThoseOfOneMore
  <2>6. Those(Append(n, y), U) = IF y \in U THEN Append(Those(n, U), y) ELSE Those(n, U)
    BY <2>3, ThoseOfOneMore
  <2>7. Those(Mapped(Those(Append(r, x), T), f), U) = Those(Mapped(Append(r, x), f), U)
    BY <2>1, <2>2, <2>4, <2>5, <2>6 DEF n
  <2>. QED  BY <2>7, AppendProperties
<1>. HIDE DEF G
<1>3. Seq(S) \subseteq G
  BY <1>1, <1>2, InductionOnSeq
<1>. QED  BY <1>3 DEF G

\* A function over two sequences after each other.
LEMMA MappedOfConcat ==
    ASSUME NEW S, NEW V, NEW f, IsMap(f, S, V), NEW a \in Seq(S), NEW b \in Seq(S)
    PROVE  Mapped(a \o b, f) = Mapped(a, f) \o Mapped(b, f)
<1> DEFINE G == {c \in Seq(S) : Mapped(a \o c, f) = Mapped(a, f) \o Mapped(c, f)}
<1>1. << >> \in G
  <2>1. << >> \in Seq(S) /\ Mapped(a, f) \in Seq(V)
    BY EmptySeq, MappedIsSeq
  <2>. QED  BY <2>1, MappedOfNone, ConcatEmptySeq
<1>2. ASSUME NEW c \in Seq(S), NEW x \in S, c \in G PROVE Append(c, x) \in G
  <2> DEFINE m == Mapped(a, f)
             n == Mapped(c, f)
             y == f[x]
             ac == a \o c
  <2>1. m \in Seq(V) /\ n \in Seq(V) /\ y \in V
    BY MappedIsSeq DEF IsMap
  <2>2. a \o Append(c, x) = Append(ac, x) /\ ac \in Seq(S)
    BY AppendAfterConcat
  <2>3. Mapped(ac, f) = m \o n
    BY <1>2
  <2>4. Mapped(Append(c, x), f) = Append(n, y)
    BY MappedOfOneMore
  <2>. HIDE DEF ac
  <2>5. Mapped(Append(ac, x), f) = Append(Mapped(ac, f), y)
    BY <2>2, MappedOfOneMore
  <2>. HIDE DEF m, n, y
  <2>6. m \o Append(n, y) = Append(m \o n, y)
    BY <2>1, AppendAfterConcat
  <2>7. Mapped(a \o Append(c, x), f) = m \o Mapped(Append(c, x), f)
    BY <2>2, <2>3, <2>4, <2>5, <2>6
  <2>. QED  BY <2>7, AppendProperties DEF m
<1>. HIDE DEF G
<1>3. Seq(S) \subseteq G
  BY <1>1, <1>2, InductionOnSeq
<1>. QED  BY <1>3 DEF G

\* A function that leaves all the elements alone.
LEMMA MappedSame ==
    ASSUME NEW S, NEW V, NEW f, IsMap(f, S, V), NEW s \in Seq(S),
           \A i \in 1..Len(s) : f[s[i]] = s[i]
    PROVE  Mapped(s, f) = s
<1>1. /\ Mapped(s, f) \in Seq(V) /\ Len(Mapped(s, f)) = Len(s)
      /\ \A i \in 1..Len(s) : Mapped(s, f)[i] = f[s[i]]
  BY MappedIsSeq
<1>. QED  BY <1>1, SeqEqual

-----------------------------------------------------------------------------
(* Parts of sequences *)

\* A sequence stands at the start of itself with more.
LEMMA PrefixOfConcat ==
    ASSUME NEW S, NEW s \in Seq(S), NEW t \in Seq(S)
    PROVE  IsPrefix(s, s \o t)
<1> DEFINE u == s \o t
           v == SubSeq(u, 1, Len(s))
<1>1. /\ u \in Seq(S) /\ Len(u) = Len(s) + Len(t) /\ Len(s) \in Nat /\ Len(t) \in Nat
      /\ \A i \in 1..Len(u) : u[i] = IF i <= Len(s) THEN s[i] ELSE t[i - Len(s)]
  BY ConcatProperties, LenProperties
<1>. HIDE DEF u
<1>2. /\ v \in Seq(S) /\ Len(v) = Len(s) /\ \A i \in 1..Len(s) : v[i] = u[i]
  BY <1>1, SubSeqProperties
<1>. HIDE DEF v
<1>3. \A i \in 1..Len(s) : i \in 1..Len(u) /\ i <= Len(s)
  BY <1>1
<1>4. v = s
  BY <1>1, <1>2, <1>3, SeqEqual
<1>. QED  BY <1>1, <1>4 DEF IsPrefix, u, v

\* The first element that is not in a set: the part in front of it, and the rest.
LEMMA FirstOutside ==
    ASSUME NEW S, NEW s \in Seq(S), NEW B
    PROVE  LET out == {i \in DOMAIN s : s[i] \notin B}
           IN out # {} =>
                \E a \in Seq(B), t \in Seq(S) :
                   /\ s = a \o t /\ t # << >> /\ t[1] \notin B /\ a \in Seq(S)
                   /\ t = SubSeq(s, Min(out), Len(s)) /\ Min(out) = Len(a) + 1
<1> DEFINE out == {i \in DOMAIN s : s[i] \notin B}
           m == Min(out)
           a == SubSeq(s, 1, m - 1)
           t == SubSeq(s, m, Len(s))
<1> SUFFICES ASSUME out # {}
             PROVE  /\ a \in Seq(B) /\ t \in Seq(S) /\ s = a \o t /\ t # << >>
                    /\ t[1] \notin B /\ a \in Seq(S) /\ m = Len(a) + 1
  BY Zenon
<1>1. Len(s) \in Nat /\ DOMAIN s = 1..Len(s) /\ \A i \in 1..Len(s) : s[i] \in S
  BY LenProperties, ElementOfSeq
<1>2. m \in out /\ \A x \in out : m <= x
  <2>1. out \in SUBSET (1..Len(s))
    BY <1>1
  <2>. HIDE DEF out
  <2>. QED  BY <1>1, <2>1, MinOfSome
<1>3. m \in 1..Len(s) /\ s[m] \notin B
  BY <1>1, <1>2
<1>4. \A i \in 1..(m - 1) : i \in 1..Len(s) /\ s[i] \in B
  <2>1. ASSUME NEW i \in 1..(m - 1) PROVE i \in 1..Len(s) /\ i \notin out
    <3>1. ~(m <= i) /\ i \in 1..Len(s)
      BY <1>1, <1>3
    <3>. QED  BY <1>2, <3>1
  <2>. QED  BY <1>1, <2>1
<1>. HIDE DEF m
<1>5. /\ a \in Seq(B) /\ a \in Seq(S) /\ Len(a) = m - 1
  <2>1. \A i \in 1..(m - 1) : s[i] \in B /\ s[i] \in S
    BY <1>1, <1>4
  <2>2. SubSeq(s, 1, m - 1) \in Seq(B)
    BY <1>3, <2>1, SubSeqProperties
  <2>3. SubSeq(s, 1, m - 1) \in Seq(S)
    BY <1>3, <2>1, SubSeqProperties
  <2>4. Len(a) = IF 1 <= m - 1 THEN m - 1 - 1 + 1 ELSE 0
    BY <1>3, <2>1, SubSeqProperties
  <2>. QED  BY <1>3, <2>2, <2>3, <2>4
<1>6. /\ t \in Seq(S) /\ Len(t) = Len(s) - m + 1 /\ t[1] = s[m]
  <2>1. \A i \in m..Len(s) : s[i] \in S
    BY <1>1, <1>3
  <2>2. /\ t \in Seq(S) /\ Len(t) = IF m <= Len(s) THEN Len(s) - m + 1 ELSE 0
        /\ \A i \in 1..(Len(s) - m + 1) : t[i] = s[m + i - 1]
    BY <1>1, <1>3, <2>1, SubSeqProperties
  <2>3. 1 \in 1..(Len(s) - m + 1) /\ m + 1 - 1 = m
    BY <1>1, <1>3
  <2>. QED  BY <1>1, <1>3, <2>2, <2>3
<1>7. s = a \o t
  <2> DEFINE k == m - 1
             one == 1
             n == Len(s)
  <2>1. /\ one \in 1..(Len(s) + 1) /\ k \in (one - 1)..Len(s) /\ n \in k..Len(s)
        /\ k + 1 = m
    BY <1>1, <1>3
  <2>2. SubSeq(s, 1, Len(s)) = s
    BY <1>1, SubSeqFull
  <2>. HIDE DEF k, one, n
  <2>3. SubSeq(s, one, k) \o SubSeq(s, k + 1, n) = SubSeq(s, one, n)
    BY <2>1, ConcatAdjacentSubSeq
  <2>4. SubSeq(s, one, k) = a /\ SubSeq(s, k + 1, n) = t
    BY <2>1 DEF k, one, n
  <2>. QED  BY <2>2, <2>3, <2>4 DEF one, n
<1>8. Len(t) # 0
  BY <1>1, <1>3, <1>6
<1>9. t # << >>
  <2>. HIDE DEF t
  <2>. QED  BY <1>6, <1>8, EmptySeq
<1>. QED  BY <1>3, <1>5, <1>6, <1>7, <1>9

\* A sequence is its first elements and the rest.
LEMMA CutSeq ==
    ASSUME NEW S, NEW s \in Seq(S), NEW k \in 0..Len(s)
    PROVE  /\ SubSeq(s, 1, k) \in Seq(S) /\ Len(SubSeq(s, 1, k)) = k
           /\ \A i \in 1..k : SubSeq(s, 1, k)[i] = s[i]
           /\ SubSeq(s, k + 1, Len(s)) \in Seq(S)
           /\ s = SubSeq(s, 1, k) \o SubSeq(s, k + 1, Len(s))
<1> DEFINE n == Len(s)
           one == 1
<1>1. n \in Nat /\ k \in 0..n /\ \A i \in 1..n : s[i] \in S
  BY LenProperties, ElementOfSeq
<1>2. \A i \in 1..k : s[i] \in S
  BY <1>1
<1>3. \A i \in (k + 1)..n : s[i] \in S
  BY <1>1
<1>4. SubSeq(s, 1, n) = s
  BY SubSeqFull
<1>. HIDE DEF n
<1>5. /\ SubSeq(s, 1, k) \in Seq(S) /\ Len(SubSeq(s, 1, k)) = IF 1 <= k THEN k - 1 + 1 ELSE 0
      /\ \A i \in 1..(k - 1 + 1) : SubSeq(s, 1, k)[i] = s[1 + i - 1]
  BY <1>1, <1>2, SubSeqProperties
<1>6. SubSeq(s, k + 1, n) \in Seq(S)
  BY <1>1, <1>3, SubSeqProperties
<1>7. /\ (IF 1 <= k THEN k - 1 + 1 ELSE 0) = k /\ k - 1 + 1 = k
      /\ \A i \in 1..k : 1 + i - 1 = i
  BY <1>1
<1>8. one \in 1..(Len(s) + 1) /\ k \in (one - 1)..Len(s) /\ n \in k..Len(s)
  BY <1>1 DEF n
<1>. HIDE DEF one
<1>9. SubSeq(s, one, k) \o SubSeq(s, k + 1, n) = SubSeq(s, one, n)
  BY <1>8, ConcatAdjacentSubSeq
<1>10. s = SubSeq(s, 1, k) \o SubSeq(s, k + 1, n)
  BY <1>4, <1>9 DEF one
<1>11. Len(SubSeq(s, 1, k)) = k /\ \A i \in 1..k : SubSeq(s, 1, k)[i] = s[i]
  BY <1>5, <1>7
<1>. QED  BY <1>5, <1>6, <1>10, <1>11 DEF n

\* A sequence is its first element and the rest.
LEMMA HeadAndTail ==
    ASSUME NEW S, NEW s \in Seq(S), s # << >>
    PROVE  /\ Head(s) = s[1] /\ Head(s) \in S /\ Tail(s) \in Seq(S) /\ Len(Tail(s)) = Len(s) - 1
           /\ s = <<s[1]>> \o Tail(s) /\ \A i \in 1..Len(Tail(s)) : Tail(s)[i] = s[i + 1]
<1> DEFINE n == Len(s)
           one == 1
<1>1. n \in Nat /\ n # 0
  BY LenProperties, EmptySeq
<1>2. one \in 1..n /\ n \in one..n
  BY <1>1
<1>3. Tail(s) = SubSeq(s, 2, n) /\ SubSeq(s, 1, n) = s
  BY TailIsSubSeq, SubSeqFull
<1>4. /\ Head(s) \in S /\ Tail(s) \in Seq(S) /\ Len(Tail(s)) = Len(s) - 1
      /\ \A i \in 1..Len(Tail(s)) : Tail(s)[i] = s[i + 1]
  BY HeadTailProperties
<1>5. one + 1 = 2
  OBVIOUS
<1>. HIDE DEF one
<1>6. SubSeq(s, one, n) = <<s[one]>> \o SubSeq(s, one + 1, n)
  BY <1>2, SubSeqRecursiveFirst
<1>. HIDE DEF n
<1>7. s = <<s[1]>> \o Tail(s)
  BY <1>3, <1>5, <1>6 DEF one
<1>8. Head(s) = s[1]
  OBVIOUS
<1>. QED  BY <1>4, <1>7, <1>8

-----------------------------------------------------------------------------
(* Counting *)

Count(s, T, i) == Cardinality({j \in 1..i : s[j] \in T})

\* The number of those up to an element says where it stands among those.
LEMMA CountsThose ==
    ASSUME NEW S, NEW s \in Seq(S), NEW T
    PROVE  /\ Count(s, T, Len(s)) = Len(Those(s, T))
           /\ \A i \in 1..Len(s) : s[i] \in T =>
                /\ Count(s, T, i) \in 1..Len(Those(s, T))
                /\ Those(s, T)[Count(s, T, i)] = s[i]
<1> DEFINE Fine(r) == /\ Count(r, T, Len(r)) = Len(Those(r, T))
                      /\ \A i \in 1..Len(r) : r[i] \in T =>
                           /\ Count(r, T, i) \in 1..Len(Those(r, T))
                           /\ Those(r, T)[Count(r, T, i)] = r[i]
           G == {r \in Seq(S) : Fine(r)}
<1>1. << >> \in G
  <2> DEFINE e == << >>
  <2>1. e \in Seq(S) /\ Len(e) = 0 /\ Those(e, T) = e
    BY EmptySeq, ThoseOfNone
  <2>. HIDE DEF e
  <2>2. 1..Len(e) = {} /\ {j \in 1..Len(e) : e[j] \in T} = {}
    BY <2>1
  <2>3. Count(e, T, Len(e)) = 0
    BY <2>2, FS_EmptySet DEF Count
  <2>4. Fine(e)
    BY <2>1, <2>2, <2>3
  <2>. QED  BY <2>1, <2>4 DEF e
<1>2. ASSUME NEW r \in Seq(S), NEW x \in S, r \in G PROVE Append(r, x) \in G
  <2> DEFINE rx == Append(r, x)
             t == Those(r, T)
             tx == Those(rx, T)
             n == Len(r)
             before == {j \in 1..n : r[j] \in T}
  <2>1. /\ rx \in Seq(S) /\ Len(rx) = n + 1 /\ n \in Nat
        /\ \A i \in 1..n : rx[i] = r[i]
        /\ rx[n + 1] = x
    BY AppendProperties, LenProperties
  <2>2. tx = IF x \in T THEN Append(t, x) ELSE t
    BY ThoseOfOneMore
  <2>3. t \in Seq(S) /\ Len(t) \in Nat
    BY ThoseAreSeq, LenProperties
  <2>4. Fine(r)
    BY <1>2
  <2>. HIDE DEF rx, t, n
  <2>5. IsFiniteSet(before) /\ Cardinality(before) = Len(t)
    <3>1. IsFiniteSet(1..n) /\ before \subseteq 1..n
      BY <2>1, FS_Interval
    <3>2. IsFiniteSet(before)
      BY <3>1, FS_Subset
    <3>. QED  BY <2>4, <3>2 DEF Count, n, t
  <2>6. \A i \in 1..n : Count(rx, T, i) = Count(r, T, i)
    <3>1. ASSUME NEW i \in 1..n PROVE {j \in 1..i : rx[j] \in T} = {j \in 1..i : r[j] \in T}
      <4>1. \A j \in 1..i : rx[j] = r[j]
        BY <2>1
      <4>. QED  BY <4>1
    <3>. QED  BY <3>1 DEF Count
  <2>7. \A i \in 1..n : rx[i] \in T =>
           Count(rx, T, i) \in 1..Len(t) /\ t[Count(rx, T, i)] = rx[i]
    BY <2>1, <2>4, <2>6 DEF n, t
  <2> DEFINE up == {j \in 1..(n + 1) : rx[j] \in T}
  <2>8. Count(rx, T, n + 1) = Cardinality(up)
    BY DEF Count
  <2>9. CASE x \in T
    <3>1. tx \in Seq(S) /\ Len(tx) = Len(t) + 1 /\ tx[Len(t) + 1] = x
          /\ \A i \in 1..Len(t) : tx[i] = t[i]
      BY <2>2, <2>3, <2>9, AppendProperties
    <3>2. up = before \cup {n + 1} /\ n + 1 \notin before
      BY <2>1, <2>9
    <3>3. Cardinality(before \cup {n + 1}) = Cardinality(before) + 1
      <4>. HIDE DEF before
      <4>. QED  BY <2>5, <3>2, FS_AddElement
    <3>4. Count(rx, T, n + 1) = Len(tx)
      <4>. HIDE DEF up, before
      <4>. QED  BY <2>5, <2>8, <3>1, <3>2, <3>3
    <3>. HIDE DEF tx, up, before
    <3>5. ASSUME NEW i \in 1..(n + 1), rx[i] \in T
          PROVE  Count(rx, T, i) \in 1..Len(tx) /\ tx[Count(rx, T, i)] = rx[i]
      <4>1. CASE i = n + 1
        BY <2>1, <2>3, <3>1, <3>4, <4>1
      <4>2. CASE i \in 1..n
        <5>1. Count(rx, T, i) \in 1..Len(t) /\ t[Count(rx, T, i)] = rx[i]
          BY <2>7, <3>5, <4>2
        <5>. QED  BY <2>3, <3>1, <5>1
      <4>. QED  BY <2>1, <4>1, <4>2
    <3>6. Fine(rx)
      BY <2>1, <3>4, <3>5 DEF tx
    <3>. QED  BY <2>1, <3>6 DEF rx
  <2>10. CASE x \notin T
    <3>1. tx = t /\ up = before
      BY <2>1, <2>2, <2>10
    <3>2. Count(rx, T, n + 1) = Len(tx)
      BY <2>5, <2>8, <3>1
    <3>. HIDE DEF tx, up, before
    <3>3. ASSUME NEW i \in 1..(n + 1), rx[i] \in T
          PROVE  Count(rx, T, i) \in 1..Len(tx) /\ tx[Count(rx, T, i)] = rx[i]
      <4>1. i \in 1..n
        BY <2>1, <2>10, <3>3
      <4>. QED  BY <2>7, <3>1, <3>3, <4>1
    <3>4. Fine(rx)
      BY <2>1, <3>2, <3>3 DEF tx
    <3>. QED  BY <2>1, <3>4 DEF rx
  <2>. QED  BY <2>9, <2>10
<1>. HIDE DEF G
<1>3. Seq(S) \subseteq G
  BY <1>1, <1>2, InductionOnSeq
<1>. QED  BY <1>3 DEF G
=============================================================================
