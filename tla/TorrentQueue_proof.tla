-------------------------- MODULE TorrentQueue_proof --------------------------
(***************************************************************************)
(* Theorems about TorrentQueue, for every set of torrents: each torrent    *)
(* has one place in the queue, batches move as they stand, and the order   *)
(* survives a crash, and a close if no magnet link becomes a torrent.      *)
(* First come lemmas about sequences: that a finite set in an order is one *)
(* sequence, what is left of a filtered one, and what a move does.         *)
(***************************************************************************)
EXTENDS TorrentQueue, TLAPS, FiniteSetTheorems, SequenceTheorems

-----------------------------------------------------------------------------
(* Sets as sequences.                                                      *)

\* As many are counted as there are numbers to n.
LEMMA CountUpTo ==
    ASSUME NEW n \in Nat
    PROVE  IsFiniteSet(1..n) /\ Cardinality(1..n) = n
<1>1. IsFiniteSet(1..n) /\ Cardinality(1..n) = IF 1 > n THEN 0 ELSE n - 1 + 1
  BY FS_Interval
<1> QED
  BY <1>1

\* A strict order of a set, as a set of pairs, in which any two are ordered.
IsOrderOf(R, S) ==
    /\ \A x, y \in S : <<x, y>> \in R => <<y, x>> \notin R
    /\ \A x, y, z \in S : <<x, y>> \in R /\ <<y, z>> \in R => <<x, z>> \in R
    /\ \A x, y \in S : x # y => <<x, y>> \in R \/ <<y, x>> \in R

\* A sequence that goes up in an order.
Rises(r, R) == \A i, j \in DOMAIN r : i < j => <<r[i], r[j]>> \in R

\* A sequence of the members of a finite set, each once, has them all.
LEMMA EachIsThere ==
    ASSUME NEW S, IsFiniteSet(S), NEW r \in SetToSeqs(S)
    PROVE  /\ Cardinality(S) \in Nat
           /\ r \in [1..Cardinality(S) -> S]
           /\ DOMAIN r = 1..Cardinality(S)
           /\ IsInjective(r)
           /\ \A x \in S : \E i \in DOMAIN r : r[i] = x
<1> DEFINE n == Cardinality(S)
<1>1. n \in Nat
  BY FS_CardinalityType
<1>2. r \in [1..n -> S] /\ \A i, j \in 1..n : i # j => r[i] # r[j]
  BY DEF SetToSeqs
<1>3. r \in Injection(1..n, S)
  BY <1>2 DEF Injection, IsInjective
<1>4. Cardinality(1..n) = n
  BY <1>1, CountUpTo
<1>5. r \in Surjection(1..n, S)
  BY <1>3, <1>4, FS_Injection
<1> QED
  BY <1>1, <1>2, <1>3, <1>5 DEF Injection, Surjection, IsInjective

\* A sequence as long as a set that goes up in an order of it has each member once.
LEMMA RisesEachOnce ==
    ASSUME NEW S, IsFiniteSet(S), NEW R, IsOrderOf(R, S),
           NEW r \in [1..Cardinality(S) -> S], Rises(r, R)
    PROVE  r \in SetToSeqs(S)
<1> DEFINE D == 1..Cardinality(S)
<1>1. Cardinality(S) \in Nat
  BY FS_CardinalityType
<1>2. \A x \in S : <<x, x>> \notin R
  BY DEF IsOrderOf
<1>3. \A i, j \in D : i < j => r[i] # r[j]
  BY <1>2 DEF Rises
<1>4. \A i, j \in D : i # j => i < j \/ j < i
  BY <1>1
<1> HIDE DEF D
<1>5. \A i, j \in D : i # j => r[i] # r[j]
  BY <1>3, <1>4
<1> QED
  BY <1>5 DEF SetToSeqs, D

\* A finite set in an order is a sequence: each member has its rank.
LEMMA ArrangedExists ==
    ASSUME NEW S, IsFiniteSet(S), NEW R, IsOrderOf(R, S)
    PROVE  \E r \in SetToSeqs(S) : Rises(r, R)
<1> DEFINE n == Cardinality(S)
           down(y) == {x \in S : x = y \/ <<x, y>> \in R}
           rank == [y \in S |-> Cardinality(down(y))]
           r == [i \in 1..n |-> CHOOSE y \in S : rank[y] = i]
<1>1. n \in Nat /\ Cardinality(1..n) = n /\ IsFiniteSet(1..n)
  <2>1. n \in Nat
    BY FS_CardinalityType
  <2> QED
    BY <2>1, CountUpTo
<1>2. \A y \in S : rank[y] \in 1..n
  <2>1. SUFFICES ASSUME NEW y \in S PROVE Cardinality(down(y)) \in 1..n
    OBVIOUS
  <2>2. down(y) \in SUBSET S /\ y \in down(y)
    BY <2>1
  <2> HIDE DEF down
  <2>3. IsFiniteSet(down(y)) /\ Cardinality(down(y)) <= n
    BY <2>2, FS_Subset
  <2>4. Cardinality(down(y)) \in Nat /\ Cardinality(down(y)) # 0
    BY <2>2, <2>3, FS_CardinalityType, FS_EmptySet
  <2> QED
    BY <1>1, <2>3, <2>4
<1>3. \A x, y \in S : <<x, y>> \in R => rank[x] < rank[y]
  <2>1. SUFFICES ASSUME NEW x \in S, NEW y \in S, <<x, y>> \in R
                 PROVE  Cardinality(down(x)) < Cardinality(down(y))
    OBVIOUS
  <2>2. down(x) \in SUBSET down(y) /\ down(y) \in SUBSET S
    BY <2>1 DEF IsOrderOf
  <2>3. y \in down(y) /\ y \notin down(x)
    BY <2>1 DEF IsOrderOf
  <2> HIDE DEF down
  <2>4. IsFiniteSet(down(y))
    BY <2>2, FS_Subset
  <2>5. IsFiniteSet(down(x)) /\ Cardinality(down(x)) <= Cardinality(down(y))
    BY <2>2, <2>4, FS_Subset
  <2>6. Cardinality(down(x)) # Cardinality(down(y))
    BY <2>2, <2>3, <2>4, FS_Subset
  <2>7. Cardinality(down(x)) \in Nat /\ Cardinality(down(y)) \in Nat
    BY <2>4, <2>5, FS_CardinalityType
  <2> QED
    BY <2>5, <2>6, <2>7
<1>4. rank \in [S -> 1..n]
  BY <1>2
<1> HIDE DEF rank, n
<1>5. rank \in Injection(S, 1..n)
  <2>1. ASSUME NEW x \in S, NEW y \in S, rank[x] = rank[y] PROVE x = y
    <3>1. rank[x] \in Int /\ ~(rank[x] < rank[y]) /\ ~(rank[y] < rank[x])
      BY <1>1, <1>2, <2>1
    <3>2. <<x, y>> \notin R /\ <<y, x>> \notin R
      BY <1>3, <3>1
    <3> QED
      BY <3>2 DEF IsOrderOf
  <2>2. DOMAIN rank = S
    BY <1>4
  <2> QED
    BY <1>4, <2>1, <2>2 DEF Injection, IsInjective
<1>6. \A i \in 1..n : \E y \in S : rank[y] = i
  <2>1. rank \in Surjection(S, 1..n)
    BY <1>1, <1>5, FS_Injection DEF n
  <2> QED
    BY <2>1 DEF Surjection
<1>7. \A i \in 1..n : r[i] \in S /\ rank[r[i]] = i
  BY <1>6
<1>8. r \in SetToSeqs(S)
  <2>1. r \in [1..n -> S] /\ \A i, j \in 1..n : i # j => r[i] # r[j]
    BY <1>7
  <2> QED
    BY <2>1 DEF SetToSeqs, n
<1>9. Rises(r, R)
  <2>1. SUFFICES ASSUME NEW i \in 1..n, NEW j \in 1..n, i < j PROVE <<r[i], r[j]>> \in R
    BY DEF Rises
  <2>2. r[i] \in S /\ r[j] \in S /\ rank[r[i]] = i /\ rank[r[j]] = j
    BY <1>7
  <2> HIDE DEF r
  <2>3. r[i] # r[j] /\ <<r[j], r[i]>> \notin R
    BY <1>1, <1>3, <2>1, <2>2
  <2> QED
    BY <2>2, <2>3 DEF IsOrderOf
<1> QED
  BY <1>8, <1>9

\* There is only one: what stands first up to a member is what is not after it.
LEMMA ArrangedUnique ==
    ASSUME NEW S, IsFiniteSet(S), NEW R, IsOrderOf(R, S),
           NEW r \in SetToSeqs(S), Rises(r, R), NEW s \in SetToSeqs(S), Rises(s, R)
    PROVE  r = s
<1> DEFINE n == Cardinality(S)
           upto(f, k) == {f[i] : i \in 1..k}
           down(y) == {x \in S : x = y \/ <<x, y>> \in R}
<1>1. /\ n \in Nat
      /\ r \in [1..n -> S] /\ IsInjective(r) /\ \A x \in S : \E i \in 1..n : r[i] = x
      /\ s \in [1..n -> S] /\ IsInjective(s) /\ \A x \in S : \E i \in 1..n : s[i] = x
  BY EachIsThere
<1> HIDE DEF n
<1>n. n \in Nat
  BY <1>1
<1>2. ASSUME NEW f \in [1..n -> S], IsInjective(f), Rises(f, R),
             \A x \in S : \E i \in 1..n : f[i] = x, NEW k \in 1..n
      PROVE  upto(f, k) = down(f[k]) /\ Cardinality(upto(f, k)) = k
  <2>1. ASSUME NEW x \in upto(f, k) PROVE x \in down(f[k])
    <3>1. PICK i \in 1..k : x = f[i]
      OBVIOUS
    <3>2. i \in 1..n /\ (i < k \/ i = k)
      BY <1>n
    <3>3. x \in S
      BY <1>2, <3>1, <3>2
    <3> QED
      BY <1>2, <3>1, <3>2, <3>3 DEF Rises
  <2>2. ASSUME NEW x \in down(f[k]) PROVE x \in upto(f, k)
    <3>1. PICK i \in 1..n : f[i] = x
      BY <1>2
    <3>2. f[k] \in S /\ x \in S
      BY <1>2
    <3>3. CASE i <= k
      BY <1>1, <3>1, <3>3
    <3>4. CASE k < i
      <4>1. <<f[k], x>> \in R
        BY <1>2, <3>1, <3>4 DEF Rises
      <4>2. x = f[k]
        BY <3>2, <4>1 DEF IsOrderOf
      <4> QED
        BY <1>1, <4>2
    <3> QED
      BY <1>1, <3>3, <3>4
  <2>3. Cardinality(upto(f, k)) = k
    <3> DEFINE g == [i \in 1..k |-> f[i]]
    <3>1. k \in Nat /\ 1..k \subseteq 1..n
      BY <1>1
    <3>2. g \in Surjection(1..k, upto(f, k))
      BY DEF Surjection
    <3>3. \A i, j \in 1..k : g[i] = g[j] => i = j
      BY <1>2, <3>1 DEF IsInjective
    <3>4. ExistsBijection(1..k, upto(f, k))
      BY <3>2, <3>3 DEF ExistsBijection, Bijection, Injection, IsInjective, Surjection
    <3> QED
      BY <3>1, <3>4, FS_CountingElements
  <2> QED
    BY <2>1, <2>2, <2>3
<1>3. ASSUME NEW k \in 1..n PROVE r[k] = s[k]
  <2>1. PICK l \in 1..n : s[l] = r[k]
    BY <1>1
  <2>2. upto(r, k) = down(r[k]) /\ Cardinality(upto(r, k)) = k
    BY <1>1, <1>2
  <2>3. upto(s, l) = down(s[l]) /\ Cardinality(upto(s, l)) = l
    BY <1>1, <1>2
  <2>4. k = l
    BY <2>1, <2>2, <2>3
  <2> QED
    BY <2>1, <2>4
<1> QED
  BY <1>1, <1>3

-----------------------------------------------------------------------------
(* What is left of a sequence.                                             *)

\* A function on the first numbers is a sequence.
LEMMA FunctionIsSeq ==
    ASSUME NEW T, NEW n \in Nat, NEW s \in [1..n -> T]
    PROVE  s \in Seq(T) /\ Len(s) = n /\ DOMAIN s = 1..n
OBVIOUS

Places(q, S) == {i \in DOMAIN q : q[i] \in S}

UpOn(P) == {p \in P \X P : p[1] < p[2]}

\* Filtering a sequence goes through its places upwards.
LEMMA OnlyByPlaces ==
    ASSUME NEW T, NEW q \in Seq(T), NEW S
    PROVE  /\ IsFiniteSet(Places(q, S))
           /\ IsOrderOf(UpOn(Places(q, S)), Places(q, S))
           /\ \E at \in SetToSeqs(Places(q, S)) :
                /\ Rises(at, UpOn(Places(q, S)))
                /\ Only(q, S) = [n \in DOMAIN at |-> q[at[n]]]
<1> DEFINE P == Places(q, S)
           R == UpOn(P)
           at == Arranged(P, <)
<1>1. Len(q) \in Nat /\ DOMAIN q = 1..Len(q)
  OBVIOUS
<1>2. P \in SUBSET (1..Len(q))
  BY <1>1 DEF Places
<1>3. IsFiniteSet(P)
  <2>1. IsFiniteSet(1..Len(q))
    BY <1>1, CountUpTo
  <2> QED
    BY <1>2, <2>1, FS_Subset
<1>4. \A i, j \in P : <<i, j>> \in R <=> i < j
  BY DEF UpOn
<1>5. P \subseteq Int
  BY <1>1, <1>2
<1>6. Only(q, S) = [n \in DOMAIN at |-> q[at[n]]]
  BY DEF Only, Places
<1> HIDE DEF P, R
<1>7. IsOrderOf(R, P)
  BY <1>4, <1>5 DEF IsOrderOf
<1>8. \A r \in [1..Cardinality(P) -> P] : Rises(r, R) <=> \A i, j \in DOMAIN r : i < j => r[i] < r[j]
  BY <1>4 DEF Rises
<1>9. \E r \in [1..Cardinality(P) -> P] : \A i, j \in DOMAIN r : i < j => r[i] < r[j]
  <2>1. PICK r \in SetToSeqs(P) : Rises(r, R)
    BY <1>3, <1>7, ArrangedExists
  <2>2. r \in [1..Cardinality(P) -> P]
    BY <1>3, EachIsThere
  <2> QED
    BY <1>8, <2>1, <2>2
<1>10. at \in [1..Cardinality(P) -> P] /\ \A i, j \in DOMAIN at : i < j => at[i] < at[j]
  BY <1>9 DEF Arranged
<1> HIDE DEF at
<1>11. Rises(at, R)
  BY <1>8, <1>10
<1>12. at \in SetToSeqs(P)
  BY <1>3, <1>7, <1>10, <1>11, RisesEachOnce
<1> QED
  BY <1>3, <1>6, <1>7, <1>11, <1>12 DEF P, R, at

\* What is left has the members asked for, each once if it was, as they stood.
LEMMA OnlyFacts ==
    ASSUME NEW T, NEW q \in Seq(T), NEW S
    PROVE  /\ Only(q, S) \in Seq(T)
           /\ Range(Only(q, S)) = Range(q) \cap S
           /\ \A i, j \in DOMAIN Only(q, S) : i < j =>
                \E k, l \in DOMAIN q : k < l /\ Only(q, S)[i] = q[k] /\ Only(q, S)[j] = q[l]
           /\ IsInjective(q) => IsInjective(Only(q, S))
<1> DEFINE P == Places(q, S)
           r == Only(q, S)
<1>1. IsFiniteSet(P)
  BY OnlyByPlaces
<1>2. PICK at \in SetToSeqs(P) : Rises(at, UpOn(P)) /\ r = [n \in DOMAIN at |-> q[at[n]]]
  BY OnlyByPlaces
<1>3. /\ Cardinality(P) \in Nat
      /\ at \in [1..Cardinality(P) -> P]
      /\ DOMAIN at = 1..Cardinality(P)
      /\ IsInjective(at)
      /\ \A x \in P : \E i \in DOMAIN at : at[i] = x
  BY <1>1, EachIsThere
<1>4. \A i \in P : i \in DOMAIN q /\ q[i] \in S /\ q[i] \in T
  BY DEF Places
<1>5. \A x \in Range(q) \cap S : \E i \in P : q[i] = x
  BY DEF Range, Places
<1>6. r \in [1..Cardinality(P) -> T] /\ DOMAIN r = DOMAIN at
  BY <1>2, <1>3, <1>4
<1>7. \A i \in DOMAIN at : at[i] \in P /\ r[i] = q[at[i]]
  BY <1>2, <1>3
<1> HIDE DEF P, r
<1>8. r \in Seq(T)
  BY <1>3, <1>6, FunctionIsSeq
<1>9. Range(r) = Range(q) \cap S
  <2>1. \A x \in Range(r) : x \in Range(q) \cap S
    BY <1>4, <1>6, <1>7 DEF Range
  <2>2. ASSUME NEW x \in Range(q) \cap S PROVE x \in Range(r)
    <3>1. PICK i \in P : q[i] = x
      BY <1>5
    <3>2. PICK n \in DOMAIN at : at[n] = i
      BY <1>3
    <3> QED
      BY <1>6, <1>7, <3>1, <3>2 DEF Range
  <2> QED
    BY <2>1, <2>2
<1>10. \A i, j \in DOMAIN r : i < j => \E k, l \in DOMAIN q : k < l /\ r[i] = q[k] /\ r[j] = q[l]
  <2>1. SUFFICES ASSUME NEW i \in DOMAIN at, NEW j \in DOMAIN at, i < j
                 PROVE  at[i] < at[j]
    BY <1>4, <1>6, <1>7
  <2> QED
    BY <1>2, <2>1 DEF Rises, UpOn
<1>11. IsInjective(q) => IsInjective(r)
  BY <1>3, <1>4, <1>6, <1>7 DEF IsInjective
<1> QED
  BY <1>8, <1>9, <1>10, <1>11 DEF r

\* The members in S stand in r as they stand in q.
SameOrder(q, r, S) ==
    \A i, j \in DOMAIN q, k, l \in DOMAIN r :
        q[i] \in S /\ q[j] \in S /\ q[i] = r[k] /\ q[j] = r[l] /\ i < j => k < l

LEMMA SameOrderBack ==
    ASSUME NEW T, NEW q \in Seq(T), NEW r \in Seq(T), NEW S, IsInjective(r), SameOrder(q, r, S)
    PROVE  SameOrder(r, q, S)
<1>1. SUFFICES ASSUME NEW i \in DOMAIN r, NEW j \in DOMAIN r, NEW k \in DOMAIN q, NEW l \in DOMAIN q,
                      r[i] \in S, r[j] \in S, r[i] = q[k], r[j] = q[l], i < j
               PROVE  k < l
  BY DEF SameOrder
<1>2. k \in Int /\ l \in Int /\ i \in Int /\ j \in Int
  OBVIOUS
<1>3. k # l
  BY <1>1, <1>2 DEF IsInjective
<1>4. ~(l < k)
  <2>1. SUFFICES ASSUME l < k PROVE FALSE
    OBVIOUS
  <2>2. j < i
    BY <1>1, <2>1 DEF SameOrder
  <2> QED
    BY <1>1, <1>2, <2>2
<1> QED
  BY <1>2, <1>3, <1>4

\* A sequence of the members asked for, as they stand, is what is left.
LEMMA OnlyIs ==
    ASSUME NEW T, NEW q \in Seq(T), IsInjective(q), NEW S,
           NEW r \in Seq(T), IsInjective(r), Range(r) = Range(q) \cap S, SameOrder(r, q, S)
    PROVE  Only(q, S) = r
<1> DEFINE P == Places(q, S)
           at == [n \in DOMAIN r |-> CHOOSE k \in DOMAIN q : q[k] = r[n]]
<1>1. IsFiniteSet(P) /\ IsOrderOf(UpOn(P), P)
  BY OnlyByPlaces
<1>2. PICK as \in SetToSeqs(P) :
        Rises(as, UpOn(P)) /\ Only(q, S) = [n \in DOMAIN as |-> q[as[n]]]
  BY OnlyByPlaces
<1>3. Len(r) \in Nat /\ DOMAIN r = 1..Len(r)
  OBVIOUS
<1>4. \A n \in DOMAIN r : r[n] \in S /\ \E k \in DOMAIN q : q[k] = r[n]
  <2>1. SUFFICES ASSUME NEW n \in DOMAIN r PROVE r[n] \in Range(q) \cap S
    BY DEF Range
  <2>2. r[n] \in Range(r)
    BY DEF Range
  <2> QED
    BY <2>2
<1>5. \A n \in DOMAIN r : at[n] \in P /\ at[n] \in DOMAIN q /\ q[at[n]] = r[n]
  BY <1>4 DEF Places
<1>6. \A x \in P : \E n \in DOMAIN r : at[n] = x
  <2>1. SUFFICES ASSUME NEW x \in P PROVE \E n \in DOMAIN r : at[n] = x
    OBVIOUS
  <2>2. x \in DOMAIN q /\ q[x] \in Range(q) \cap S
    BY DEF Places, Range
  <2>3. q[x] \in Range(r)
    BY <2>2
  <2>4. PICK n \in DOMAIN r : r[n] = q[x]
    BY <2>3 DEF Range
  <2>5. at[n] \in DOMAIN q /\ q[at[n]] = q[x]
    BY <1>5, <2>4
  <2> QED
    BY <2>2, <2>5 DEF IsInjective
<1>7. at \in [1..Len(r) -> P] /\ DOMAIN at = DOMAIN r
  BY <1>3, <1>5
<1> HIDE DEF at, P
<1>8. \A m, n \in DOMAIN r : at[m] = at[n] => m = n
  BY <1>5 DEF IsInjective
<1>9. Cardinality(P) = Len(r)
  <2>1. at \in Bijection(1..Len(r), P)
    BY <1>3, <1>6, <1>7, <1>8 DEF Bijection, Injection, Surjection, IsInjective
  <2>2. ExistsBijection(1..Len(r), P)
    BY <2>1 DEF ExistsBijection
  <2> QED
    BY <1>3, <2>2, FS_CountingElements
<1>10. at \in SetToSeqs(P)
  BY <1>3, <1>7, <1>8, <1>9 DEF SetToSeqs
<1>11. Rises(at, UpOn(P))
  <2>1. SUFFICES ASSUME NEW m \in DOMAIN r, NEW n \in DOMAIN r, m < n
                 PROVE  at[m] < at[n]
    BY <1>5, <1>7 DEF Rises, UpOn
  <2> QED
    BY <1>4, <1>5, <2>1 DEF SameOrder
<1>12. at = as
  BY <1>1, <1>2, <1>10, <1>11, ArrangedUnique
<1>13. Only(q, S) = [n \in DOMAIN r |-> r[n]]
  BY <1>2, <1>5, <1>7, <1>12
<1> QED
  BY <1>3, <1>13

\* Two sequences with the same members asked for, as they stand, leave the same.
LEMMA OnlySame ==
    ASSUME NEW T, NEW q \in Seq(T), IsInjective(q), NEW r \in Seq(T), IsInjective(r), NEW S,
           Range(q) \cap S = Range(r) \cap S, SameOrder(q, r, S)
    PROVE  Only(q, S) = Only(r, S)
<1> DEFINE s == Only(r, S)
<1>1. /\ s \in Seq(T) /\ IsInjective(s)
      /\ Range(s) = Range(r) \cap S
      /\ \A i, j \in DOMAIN s : i < j =>
            \E k, l \in DOMAIN r : k < l /\ s[i] = r[k] /\ s[j] = r[l]
  BY OnlyFacts
<1>2. SameOrder(r, q, S)
  BY SameOrderBack
<1> HIDE DEF s
<1>3. SameOrder(s, q, S)
  <2>1. SUFFICES ASSUME NEW i \in DOMAIN s, NEW j \in DOMAIN s, NEW k \in DOMAIN q, NEW l \in DOMAIN q,
                        s[i] \in S, s[j] \in S, s[i] = q[k], s[j] = q[l], i < j
                 PROVE  k < l
    BY DEF SameOrder
  <2>2. PICK m, n \in DOMAIN r : m < n /\ s[i] = r[m] /\ s[j] = r[n]
    BY <1>1, <2>1
  <2> QED
    BY <1>2, <2>1, <2>2 DEF SameOrder
<1>4. Only(q, S) = s
  BY <1>1, <1>3, OnlyIs
<1> QED
  BY <1>4 DEF s

-----------------------------------------------------------------------------
(* Taking out and putting in.                                              *)

LEMMA RemoveAtFacts ==
    ASSUME NEW T, NEW q \in Seq(T), NEW o \in 1..Len(q)
    PROVE  /\ RemoveAt(q, o) \in Seq(T)
           /\ Len(RemoveAt(q, o)) = Len(q) - 1
           /\ \A i \in 1..Len(q) - 1 : RemoveAt(q, o)[i] = IF i < o THEN q[i] ELSE q[i + 1]
<1> DEFINE a == SubSeq(q, 1, o - 1)
           b == SubSeq(q, o + 1, Len(q))
<1>1. Len(q) \in Nat /\ o \in Int /\ \A i \in 1..Len(q) : q[i] \in T
  OBVIOUS
<1>2. /\ a \in Seq(T) /\ Len(a) = o - 1
      /\ \A i \in 1..o - 1 : a[i] = q[i]
  <2>1. o - 1 \in Int /\ \A i \in 1..o - 1 : q[i] \in T
    BY <1>1
  <2>2. /\ a \in Seq(T) /\ Len(a) = IF 1 <= o - 1 THEN o - 1 - 1 + 1 ELSE 0
        /\ \A i \in 1..o - 1 - 1 + 1 : a[i] = q[1 + i - 1]
    BY <2>1, SubSeqProperties
  <2> HIDE DEF a
  <2>3. Len(a) = o - 1
    BY <1>1, <2>2
  <2>4. ASSUME NEW i \in 1..o - 1 PROVE a[i] = q[i]
    <3>1. i \in 1..o - 1 - 1 + 1 /\ 1 + i - 1 = i
      BY <1>1
    <3> QED
      BY <2>2, <3>1
  <2> QED
    BY <2>2, <2>3, <2>4
<1>3. /\ b \in Seq(T) /\ Len(b) = Len(q) - o
      /\ \A i \in 1..Len(q) - o : b[i] = q[o + i]
  <2>1. o + 1 \in Int /\ Len(q) \in Int /\ \A i \in o + 1..Len(q) : q[i] \in T
    BY <1>1
  <2>2. /\ b \in Seq(T) /\ Len(b) = IF o + 1 <= Len(q) THEN Len(q) - (o + 1) + 1 ELSE 0
        /\ \A i \in 1..Len(q) - (o + 1) + 1 : b[i] = q[o + 1 + i - 1]
    BY <2>1, SubSeqProperties
  <2> HIDE DEF b
  <2>3. Len(b) = Len(q) - o
    BY <1>1, <2>2
  <2>4. ASSUME NEW i \in 1..Len(q) - o PROVE b[i] = q[o + i]
    <3>1. i \in 1..Len(q) - (o + 1) + 1 /\ o + 1 + i - 1 = o + i
      BY <1>1
    <3> QED
      BY <2>2, <3>1
  <2> QED
    BY <2>2, <2>3, <2>4
<1>4. RemoveAt(q, o) = a \o b
  BY DEF RemoveAt
<1> HIDE DEF a, b
<1>5. /\ a \o b \in Seq(T) /\ Len(a \o b) = Len(a) + Len(b)
      /\ \A i \in 1..Len(a) + Len(b) : (a \o b)[i] = IF i <= Len(a) THEN a[i] ELSE b[i - Len(a)]
  BY <1>2, <1>3, ConcatProperties
<1>6. ASSUME NEW i \in 1..Len(q) - 1
      PROVE  (a \o b)[i] = IF i < o THEN q[i] ELSE q[i + 1]
  <2>1. i \in 1..Len(a) + Len(b)
    BY <1>1, <1>2, <1>3
  <2>2. CASE i < o
    BY <1>1, <1>2, <1>5, <2>1, <2>2
  <2>3. CASE ~(i < o)
    <3>1. i - Len(a) = i + 1 - o /\ i + 1 - o \in 1..Len(q) - o /\ ~(i <= Len(a))
      BY <1>1, <1>2, <2>3
    <3>2. (a \o b)[i] = b[i + 1 - o]
      BY <1>5, <2>1, <3>1
    <3>3. b[i + 1 - o] = q[i + 1]
      BY <1>1, <1>3, <3>1
    <3> QED
      BY <2>3, <3>2, <3>3
  <2> QED
    BY <2>2, <2>3
<1> QED
  BY <1>1, <1>2, <1>3, <1>4, <1>5, <1>6

LEMMA InsertAtFacts ==
    ASSUME NEW T, NEW q \in Seq(T), NEW n \in 1..Len(q) + 1, NEW e \in T
    PROVE  /\ InsertAt(q, n, e) \in Seq(T)
           /\ Len(InsertAt(q, n, e)) = Len(q) + 1
           /\ \A i \in 1..Len(q) + 1 :
                InsertAt(q, n, e)[i] = IF i < n THEN q[i] ELSE IF i = n THEN e ELSE q[i - 1]
<1> DEFINE a == SubSeq(q, 1, n - 1)
           b == SubSeq(q, n, Len(q))
           c == a \o <<e>>
<1>1. Len(q) \in Nat /\ n \in Int /\ \A i \in 1..Len(q) : q[i] \in T
  OBVIOUS
<1>2. /\ a \in Seq(T) /\ Len(a) = n - 1
      /\ \A i \in 1..n - 1 : a[i] = q[i]
  <2>1. n - 1 \in Int /\ \A i \in 1..n - 1 : q[i] \in T
    BY <1>1
  <2>2. /\ a \in Seq(T) /\ Len(a) = IF 1 <= n - 1 THEN n - 1 - 1 + 1 ELSE 0
        /\ \A i \in 1..n - 1 - 1 + 1 : a[i] = q[1 + i - 1]
    BY <2>1, SubSeqProperties
  <2> HIDE DEF a
  <2> QED
    BY <1>1, <2>2
<1>3. /\ b \in Seq(T) /\ Len(b) = Len(q) - n + 1
      /\ \A i \in 1..Len(q) - n + 1 : b[i] = q[n + i - 1]
  <2>1. n \in Int /\ Len(q) \in Int /\ \A i \in n..Len(q) : q[i] \in T
    BY <1>1
  <2>2. /\ b \in Seq(T) /\ Len(b) = IF n <= Len(q) THEN Len(q) - n + 1 ELSE 0
        /\ \A i \in 1..Len(q) - n + 1 : b[i] = q[n + i - 1]
    BY <2>1, SubSeqProperties
  <2> HIDE DEF b
  <2> QED
    BY <1>1, <2>2
<1>4. InsertAt(q, n, e) = c \o b
  BY DEF InsertAt
<1> HIDE DEF a, b
<1>5. /\ c \in Seq(T) /\ Len(c) = n
      /\ \A i \in 1..n : c[i] = IF i < n THEN q[i] ELSE e
  <2>1. <<e>> \in Seq(T) /\ Len(<<e>>) = 1 /\ <<e>>[1] = e
    OBVIOUS
  <2>2. /\ c \in Seq(T) /\ Len(c) = Len(a) + Len(<<e>>)
        /\ \A i \in 1..Len(a) + Len(<<e>>) : c[i] = IF i <= Len(a) THEN a[i] ELSE <<e>>[i - Len(a)]
    BY <1>2, <2>1, ConcatProperties
  <2> HIDE DEF c
  <2>3. Len(c) = n
    BY <1>1, <1>2, <2>1, <2>2
  <2>4. ASSUME NEW i \in 1..n PROVE c[i] = IF i < n THEN q[i] ELSE e
    <3>1. CASE i < n
      BY <1>1, <1>2, <2>1, <2>2, <3>1
    <3>2. CASE i = n
      <4>1. i - Len(a) = 1 /\ ~(i <= Len(a)) /\ i \in 1..Len(a) + Len(<<e>>)
        BY <1>1, <1>2, <2>1, <3>2
      <4> QED
        BY <2>1, <2>2, <3>2, <4>1
    <3> QED
      BY <1>1, <3>1, <3>2
  <2> QED
    BY <2>2, <2>3, <2>4
<1> HIDE DEF c
<1>6. /\ c \o b \in Seq(T) /\ Len(c \o b) = Len(c) + Len(b)
      /\ \A i \in 1..Len(c) + Len(b) : (c \o b)[i] = IF i <= Len(c) THEN c[i] ELSE b[i - Len(c)]
  BY <1>3, <1>5, ConcatProperties
<1>7. ASSUME NEW i \in 1..Len(q) + 1
      PROVE  (c \o b)[i] = IF i < n THEN q[i] ELSE IF i = n THEN e ELSE q[i - 1]
  <2>1. i \in 1..Len(c) + Len(b)
    BY <1>1, <1>3, <1>5
  <2>2. CASE i <= n
    BY <1>1, <1>5, <1>6, <2>1, <2>2
  <2>3. CASE ~(i <= n)
    <3>1. i - Len(c) = i - n /\ i - n \in 1..Len(q) - n + 1 /\ ~(i <= Len(c))
      BY <1>1, <1>5, <2>3
    <3>2. (c \o b)[i] = b[i - n]
      BY <1>6, <2>1, <3>1
    <3>3. b[i - n] = q[i - 1]
      BY <1>1, <1>3, <3>1
    <3>4. ~(i < n) /\ i # n
      BY <1>1, <2>3
    <3> QED
      BY <3>2, <3>3, <3>4
  <2> QED
    BY <2>2, <2>3
<1> QED
  BY <1>1, <1>3, <1>4, <1>5, <1>6, <1>7

\* What is taken out of a sequence without repetitions is gone, and nothing else.
LEMMA RemoveAtKeeps ==
    ASSUME NEW T, NEW q \in Seq(T), IsInjective(q), NEW o \in 1..Len(q)
    PROVE  /\ RemoveAt(q, o) \in Seq(T)
           /\ IsInjective(RemoveAt(q, o))
           /\ Range(RemoveAt(q, o)) = Range(q) \ {q[o]}
<1> DEFINE r == RemoveAt(q, o)
<1>1. /\ r \in Seq(T)
      /\ Len(r) = Len(q) - 1
      /\ \A i \in 1..Len(q) - 1 : r[i] = IF i < o THEN q[i] ELSE q[i + 1]
  BY RemoveAtFacts
<1> HIDE DEF r
<1>2. Len(q) \in Nat /\ o \in Int /\ DOMAIN q = 1..Len(q) /\ DOMAIN r = 1..Len(q) - 1
  BY <1>1
<1>3. IsInjective(r)
  <2>1. SUFFICES ASSUME NEW i \in 1..Len(q) - 1, NEW j \in 1..Len(q) - 1, r[i] = r[j] PROVE i = j
    BY <1>2 DEF IsInjective
  <2>2. \A k, l \in 1..Len(q) : q[k] = q[l] => k = l
    BY <1>2 DEF IsInjective
  <2>3. i \in 1..Len(q) /\ i + 1 \in 1..Len(q) /\ j \in 1..Len(q) /\ j + 1 \in 1..Len(q)
    BY <1>2
  <2>4. r[i] = (IF i < o THEN q[i] ELSE q[i + 1]) /\ r[j] = IF j < o THEN q[j] ELSE q[j + 1]
    BY <1>1
  <2>5. (i < o /\ j < o) \/ (i < o /\ ~(j < o)) \/ (~(i < o) /\ j < o) \/ (~(i < o) /\ ~(j < o))
    OBVIOUS
  <2>6. CASE i < o /\ j < o
    BY <2>1, <2>2, <2>3, <2>4, <2>6
  <2>7. CASE i < o /\ ~(j < o)
    <3>1. i = j + 1
      BY <2>1, <2>2, <2>3, <2>4, <2>7
    <3> QED
      BY <1>2, <2>7, <3>1
  <2>8. CASE ~(i < o) /\ j < o
    <3>1. i + 1 = j
      BY <2>1, <2>2, <2>3, <2>4, <2>8
    <3> QED
      BY <1>2, <2>8, <3>1
  <2>9. CASE ~(i < o) /\ ~(j < o)
    <3>1. i + 1 = j + 1
      BY <2>1, <2>2, <2>3, <2>4, <2>9
    <3> QED
      BY <1>2, <3>1
  <2> QED
    BY <2>5, <2>6, <2>7, <2>8, <2>9
<1>4. Range(r) = Range(q) \ {q[o]}
  <2>1. ASSUME NEW i \in 1..Len(q) - 1 PROVE r[i] \in Range(q) \ {q[o]}
    <3>1. PICK k \in 1..Len(q) : r[i] = q[k] /\ k # o
      <4>1. i \in 1..Len(q) /\ i + 1 \in 1..Len(q) /\ (i < o \/ i + 1 # o) /\ (i < o => i # o)
        BY <1>2
      <4> QED
        BY <1>1, <4>1
    <3> QED
      BY <1>2, <3>1 DEF Range, IsInjective
  <2>2. ASSUME NEW k \in 1..Len(q), k # o PROVE \E i \in 1..Len(q) - 1 : r[i] = q[k]
    <3>1. CASE k < o
      <4>1. k \in 1..Len(q) - 1
        BY <1>2, <3>1
      <4> QED
        BY <1>1, <3>1, <4>1
    <3>2. CASE o < k
      <4>1. k - 1 \in 1..Len(q) - 1 /\ ~(k - 1 < o) /\ k - 1 + 1 = k
        BY <1>2, <3>2
      <4> QED
        BY <1>1, <4>1
    <3> QED
      BY <1>2, <2>2, <3>1, <3>2
  <2>3. Range(q) = {q[k] : k \in 1..Len(q)} /\ Range(r) = {r[i] : i \in 1..Len(q) - 1}
    BY <1>2 DEF Range
  <2>4. ASSUME NEW x \in Range(q) \ {q[o]} PROVE x \in Range(r)
    <3>1. PICK k \in 1..Len(q) : x = q[k]
      BY <2>3
    <3> QED
      BY <2>2, <2>3, <2>4, <3>1
  <2> QED
    BY <2>1, <2>3, <2>4
<1> QED
  BY <1>1, <1>3, <1>4 DEF r

-----------------------------------------------------------------------------
(* A move.                                                                 *)

\* Where what is at place i came from when the member at place o went to place n.
From(o, n, i) ==
    IF i = n THEN o
    ELSE IF i < n THEN IF i < o THEN i ELSE i + 1
                  ELSE IF i - 1 < o THEN i - 1 ELSE i

\* The places change places; but for the one that moves, they stay in their order.
Shuffles(len, o, n) ==
    /\ \A i \in 1..len : From(o, n, i) \in 1..len
    /\ \A i \in 1..len : From(o, n, i) = o <=> i = n
    /\ \A i, j \in 1..len : i # n /\ j # n /\ i < j => From(o, n, i) < From(o, n, j)
    /\ \A i, j \in 1..len : From(o, n, i) = From(o, n, j) => i = j
    /\ \A k \in 1..len : \E i \in 1..len : From(o, n, i) = k

LEMMA FromShuffles ==
    ASSUME NEW len \in Nat, NEW o \in 1..len, NEW n \in 1..len
    PROVE  Shuffles(len, o, n)
<1>1. o \in Int /\ n \in Int /\ \A i \in 1..len : i \in Int
  OBVIOUS
<1>2. \A i \in 1..len : From(o, n, i) \in 1..len
  BY <1>1 DEF From
<1>3. \A i \in 1..len : From(o, n, i) = o <=> i = n
  BY <1>1 DEF From
<1>4. \A i, j \in 1..len : i # n /\ j # n /\ i < j => From(o, n, i) < From(o, n, j)
  BY <1>1 DEF From
<1>5. ASSUME NEW i \in 1..len, NEW j \in 1..len, From(o, n, i) = From(o, n, j) PROVE i = j
  <2>1. CASE i = n \/ j = n
    BY <1>3, <1>5, <2>1
  <2>2. CASE i # n /\ j # n
    <3>1. ~(i < j) /\ ~(j < i)
      <4>1. From(o, n, i) \in Int /\ From(o, n, j) \in Int
        BY <1>2
      <4> QED
        BY <1>4, <1>5, <2>2, <4>1
    <3> QED
      BY <1>1, <3>1
  <2> QED
    BY <2>1, <2>2
<1>6. ASSUME NEW k \in 1..len PROVE \E i \in 1..len : From(o, n, i) = k
  <2>1. CASE k = o
    BY <1>3, <2>1
  <2>2. CASE k < o
    <3>1. CASE k < n
      BY <1>1, <2>2, <3>1 DEF From
    <3>2. CASE n <= k
      <4>1. k + 1 \in 1..len /\ From(o, n, k + 1) = k
        BY <1>1, <2>2, <3>2 DEF From
      <4> QED
        BY <4>1
    <3> QED
      BY <1>1, <3>1, <3>2
  <2>3. CASE o < k
    <3>1. CASE k <= n
      <4>1. k - 1 \in 1..len /\ From(o, n, k - 1) = k
        BY <1>1, <2>3, <3>1 DEF From
      <4> QED
        BY <4>1
    <3>2. CASE n < k
      BY <1>1, <2>3, <3>2 DEF From
    <3> QED
      BY <1>1, <3>1, <3>2
  <2> QED
    BY <1>1, <2>1, <2>2, <2>3
<1> QED
  BY <1>2, <1>3, <1>4, <1>5, <1>6 DEF Shuffles

\* m is q with the member at place o moved to place n: the members are kept, and the
\* order of the others.
IsMove(q, m, o, n, T) ==
    /\ m \in Seq(T) /\ Len(m) = Len(q)
    /\ \A i \in 1..Len(q) : m[i] = q[From(o, n, i)]
    /\ IsInjective(m)
    /\ Range(m) = Range(q)
    /\ SameOrder(q, m, T \ {q[o]})

LEMMA MoveFacts ==
    ASSUME NEW T, NEW q \in Seq(T), IsInjective(q), NEW o \in 1..Len(q), NEW n \in 1..Len(q),
           NEW m, m = InsertAt(RemoveAt(q, o), n, q[o])
    PROVE  IsMove(q, m, o, n, T)
<1> DEFINE r == RemoveAt(q, o)
<1>1. /\ r \in Seq(T) /\ Len(r) = Len(q) - 1
      /\ \A i \in 1..Len(q) - 1 : r[i] = IF i < o THEN q[i] ELSE q[i + 1]
  BY RemoveAtFacts
<1>2. Len(q) \in Nat /\ o \in Int /\ n \in Int /\ DOMAIN q = 1..Len(q) /\ q[o] \in T
  OBVIOUS
<1>3. m = InsertAt(r, n, q[o])
  OBVIOUS
<1> HIDE DEF r
<1>4. /\ m \in Seq(T) /\ Len(m) = Len(q)
      /\ \A i \in 1..Len(q) : m[i] = IF i < n THEN r[i] ELSE IF i = n THEN q[o] ELSE r[i - 1]
  <2>1. n \in 1..Len(r) + 1 /\ Len(r) + 1 = Len(q)
    BY <1>1, <1>2
  <2> DEFINE v == InsertAt(r, n, q[o])
  <2>2. /\ v \in Seq(T) /\ Len(v) = Len(r) + 1
        /\ \A i \in 1..Len(r) + 1 : v[i] = IF i < n THEN r[i] ELSE IF i = n THEN q[o] ELSE r[i - 1]
    <3>1. r \in Seq(T) /\ q[o] \in T
      BY <1>1, <1>2
    <3>2. v \in Seq(T)
      BY <2>1, <3>1, InsertAtFacts
    <3>3. Len(v) = Len(r) + 1
      BY <2>1, <3>1, InsertAtFacts
    <3>4. ASSUME NEW i \in 1..Len(r) + 1
          PROVE  v[i] = IF i < n THEN r[i] ELSE IF i = n THEN q[o] ELSE r[i - 1]
      BY <2>1, <3>1, InsertAtFacts
    <3> QED
      BY <3>2, <3>3, <3>4
  <2>3. m = v
    BY <1>3
  <2> HIDE DEF v
  <2> QED
    BY <2>1, <2>2, <2>3
<1>5. DOMAIN m = 1..Len(q)
  BY <1>4
<1>6. ASSUME NEW i \in 1..Len(q) PROVE m[i] = q[From(o, n, i)]
  <2>1. i \in Int
    OBVIOUS
  <2>2. CASE i < n
    <3>1. i \in 1..Len(q) - 1 /\ From(o, n, i) = IF i < o THEN i ELSE i + 1
      BY <1>2, <2>1, <2>2 DEF From
    <3> QED
      BY <1>1, <1>4, <2>2, <3>1
  <2>3. CASE i = n
    BY <1>2, <1>4, <2>3 DEF From
  <2>4. CASE n < i
    <3>1. /\ i - 1 \in 1..Len(q) - 1 /\ i - 1 + 1 = i
          /\ From(o, n, i) = IF i - 1 < o THEN i - 1 ELSE i
          /\ ~(i < n) /\ i # n
      BY <1>2, <2>1, <2>4 DEF From
    <3> QED
      BY <1>1, <1>4, <3>1
  <2> QED
    BY <1>2, <2>1, <2>2, <2>3, <2>4
<1>s. Shuffles(Len(q), o, n)
  BY <1>2, FromShuffles
<1>7. \A i \in 1..Len(q) : From(o, n, i) \in 1..Len(q)
  BY <1>s DEF Shuffles
<1>o. \A i \in 1..Len(q) : From(o, n, i) = o <=> i = n
  BY <1>s DEF Shuffles
<1>u. \A i, j \in 1..Len(q) : i # n /\ j # n /\ i < j => From(o, n, i) < From(o, n, j)
  BY <1>s DEF Shuffles
<1>i. \A i, j \in 1..Len(q) : From(o, n, i) = From(o, n, j) => i = j
  BY <1>s DEF Shuffles
<1>e. \A k \in 1..Len(q) : \E i \in 1..Len(q) : From(o, n, i) = k
  BY <1>s DEF Shuffles
<1>8. \A k, l \in 1..Len(q) : q[k] = q[l] => k = l
  BY <1>2 DEF IsInjective
<1>9. IsInjective(m)
  <2>1. ASSUME NEW i \in 1..Len(q), NEW j \in 1..Len(q), m[i] = m[j] PROVE i = j
    <3>1. q[From(o, n, i)] = q[From(o, n, j)]
      BY <1>6, <2>1
    <3>2. From(o, n, i) = From(o, n, j)
      BY <1>7, <1>8, <3>1
    <3> QED
      BY <1>i, <3>2
  <2> QED
    BY <1>5, <2>1 DEF IsInjective
<1>10. Range(m) = Range(q)
  <2>1. Range(q) = {q[k] : k \in 1..Len(q)} /\ Range(m) = {m[i] : i \in 1..Len(q)}
    BY <1>2, <1>5 DEF Range
  <2>2. \A k \in 1..Len(q) : \E i \in 1..Len(q) : m[i] = q[k]
    BY <1>6, <1>e
  <2>3. \A i \in 1..Len(q) : \E k \in 1..Len(q) : m[i] = q[k]
    BY <1>6, <1>7
  <2>4. \A x \in Range(m) : x \in Range(q)
    BY <2>1, <2>3
  <2>5. \A x \in Range(q) : x \in Range(m)
    BY <2>1, <2>2
  <2> QED
    BY <2>4, <2>5
<1>11. SameOrder(q, m, T \ {q[o]})
  <2>1. SUFFICES ASSUME NEW i \in 1..Len(q), NEW j \in 1..Len(q), NEW k \in 1..Len(q), NEW l \in 1..Len(q),
                        q[i] # q[o], q[j] # q[o], q[i] = m[k], q[j] = m[l], i < j
                 PROVE  k < l
    BY <1>2, <1>5 DEF SameOrder
  <2>2. From(o, n, k) = i /\ From(o, n, l) = j
    <3>1. q[From(o, n, k)] = q[i] /\ q[From(o, n, l)] = q[j]
      BY <1>6, <2>1
    <3>2. From(o, n, k) \in 1..Len(q) /\ From(o, n, l) \in 1..Len(q)
      BY <1>7
    <3> QED
      BY <1>8, <3>1, <3>2
  <2>3. k # n /\ l # n /\ k # l /\ ~(l < k)
    <3>1. i \in Int /\ j \in Int /\ i # j /\ ~(j < i) /\ i # o /\ j # o
      BY <2>1
    <3> QED
      BY <1>o, <1>u, <2>2, <3>1
  <2> QED
    BY <2>3
<1> QED
  BY <1>4, <1>6, <1>9, <1>10, <1>11 DEF IsMove

-----------------------------------------------------------------------------
(* The queue in the midst of a command.                                    *)

\* No id twice, and no more than there are torrents.
Good(s) ==
    /\ s \in [queue : Seq(Ids), cache : [Ids -> Positions], dirty : BOOLEAN]
    /\ IsInjective(s.queue)
    /\ Len(s.queue) <= Cardinality(Torrents)

\* From s to t the ids stay and those in S keep their order; a change is marked.
Reaches(s, t, S) ==
    /\ Good(t)
    /\ Len(t.queue) = Len(s.queue)
    /\ Range(t.queue) = Range(s.queue)
    /\ SameOrder(s.queue, t.queue, S)
    /\ t.dirty \/ (t.queue = s.queue /\ t.dirty = s.dirty)

LEMMA TorrentsCount == Cardinality(Torrents) \in Nat \ {0}
<1>1. IsFiniteSet(Torrents) /\ Torrents # {}
  BY QueueAssumption
<1> QED
  BY <1>1, FS_CardinalityType, FS_EmptySet

\* What is known of a good queue and one of its ids.
LEMMA GoodFacts ==
    ASSUME NEW s, Good(s)
    PROVE  /\ s.queue \in Seq(Ids) /\ IsInjective(s.queue)
           /\ Len(s.queue) \in Nat /\ DOMAIN s.queue = 1..Len(s.queue)
           /\ Len(s.queue) <= Cardinality(Torrents)
           /\ s.cache \in [Ids -> Positions] /\ s.dirty \in BOOLEAN
           /\ \A id \in Range(s.queue) : id \in Ids /\ \E i \in 1..Len(s.queue) : s.queue[i] = id
<1>1. s.queue \in Seq(Ids) /\ IsInjective(s.queue) /\ Len(s.queue) <= Cardinality(Torrents)
      /\ s.cache \in [Ids -> Positions] /\ s.dirty \in BOOLEAN
  BY DEF Good
<1>2. Len(s.queue) \in Nat /\ DOMAIN s.queue = 1..Len(s.queue)
  BY <1>1
<1> QED
  BY <1>1, <1>2 DEF Range

LEMMA SameOrderSelf ==
    ASSUME NEW q, IsInjective(q), NEW S
    PROVE  SameOrder(q, q, S)
BY DEF SameOrder, IsInjective

LEMMA ReachesSelf ==
    ASSUME NEW s, Good(s), NEW t, Good(t), t.queue = s.queue, t.dirty = s.dirty, NEW S
    PROVE  Reaches(s, t, S)
BY GoodFacts, SameOrderSelf DEF Reaches

LEMMA ReachesOn ==
    ASSUME NEW s, Good(s), NEW t, NEW u, NEW S, NEW U, NEW V,
           Reaches(s, t, S), Reaches(t, u, U), V \subseteq S, V \subseteq U
    PROVE  Reaches(s, u, V)
<1>1. Good(t) /\ Good(u)
  BY DEF Reaches
<1>2. SameOrder(s.queue, u.queue, V)
  <2>1. SUFFICES ASSUME NEW i \in DOMAIN s.queue, NEW j \in DOMAIN s.queue,
                        NEW k \in DOMAIN u.queue, NEW l \in DOMAIN u.queue,
                        s.queue[i] \in V, s.queue[j] \in V,
                        s.queue[i] = u.queue[k], s.queue[j] = u.queue[l], i < j
                 PROVE  k < l
    BY DEF SameOrder
  <2>2. s.queue[i] \in Range(t.queue) /\ s.queue[j] \in Range(t.queue)
    BY DEF Reaches, Range
  <2>3. PICK a \in DOMAIN t.queue, b \in DOMAIN t.queue : t.queue[a] = s.queue[i] /\ t.queue[b] = s.queue[j]
    BY <2>2 DEF Range
  <2>4. a < b
    BY <2>1, <2>3 DEF Reaches, SameOrder
  <2> QED
    BY <2>1, <2>3, <2>4 DEF Reaches, SameOrder
<1> QED
  BY <1>1, <1>2 DEF Reaches

\* Whatever was cached, the position that get_pos() tells is the true one.
LEMMA AskedFacts ==
    ASSUME NEW s, Good(s), NEW id \in Range(s.queue)
    PROVE  /\ Good(Asked(s, id))
           /\ Asked(s, id).queue = s.queue /\ Asked(s, id).dirty = s.dirty
           /\ GetPos(s, id) \in 0..Len(s.queue) - 1
           /\ s.queue[GetPos(s, id) + 1] = id
<1> DEFINE L == Len(s.queue)
           pos == PositionIn(s.queue, id)
<1>1. /\ L \in Nat /\ DOMAIN s.queue = 1..L /\ L <= Cardinality(Torrents)
      /\ s.cache \in [Ids -> Positions]
      /\ id \in Ids /\ \E i \in 1..L : s.queue[i] = id
  BY GoodFacts
<1>2. s.cache[id] \in Positions /\ s.cache[id] \in Int /\ 0 <= s.cache[id]
  BY <1>1, TorrentsCount DEF Positions
<1>3. CASE Holds(s, id)
  <2>1. Asked(s, id) = s
    BY <1>3 DEF Asked
  <2>2. GetPos(s, id) = s.cache[id]
    BY <2>1 DEF GetPos
  <2> QED
    BY <1>1, <1>2, <1>3, <2>1, <2>2 DEF Holds
<1>4. CASE ~Holds(s, id)
  <2> DEFINE place == CHOOSE i \in DOMAIN s.queue : s.queue[i] = id
  <2>1. place \in 1..L /\ s.queue[place] = id
    BY <1>1
  <2>2. pos = place - 1
    BY DEF PositionIn
  <2> HIDE DEF place, pos
  <2>3. pos \in 0..L - 1 /\ s.queue[pos + 1] = id
    <3>1. place \in Int /\ pos + 1 = place
      BY <1>1, <2>1, <2>2
    <3> QED
      BY <1>1, <2>1, <2>2, <3>1
  <2>4. pos \in Positions
    BY <1>1, <2>3, TorrentsCount DEF Positions
  <2>5. Asked(s, id) = [s EXCEPT !.cache[id] = pos]
    BY <1>4 DEF Asked, pos
  <2>6. s \in [queue : Seq(Ids), cache : [Ids -> Positions], dirty : BOOLEAN]
    BY DEF Good
  <2>7. /\ Asked(s, id) \in [queue : Seq(Ids), cache : [Ids -> Positions], dirty : BOOLEAN]
        /\ Asked(s, id).queue = s.queue /\ Asked(s, id).dirty = s.dirty
        /\ Asked(s, id).cache[id] = pos
    BY <1>1, <2>4, <2>5, <2>6
  <2> QED
    BY <2>3, <2>7 DEF Good, GetPos
<1> QED
  BY <1>3, <1>4

\* The queue of t is that of s with an id moved to place n.
Placed(s, t, id, n) ==
    \E o \in 1..Len(s.queue) :
        /\ s.queue[o] = id
        /\ \A i \in 1..Len(s.queue) : t.queue[i] = s.queue[From(o, n, i)]

\* The place at which set_pos() puts an id.
PlaceFor(s, pos) == IF pos < Len(s.queue) THEN pos + 1 ELSE Len(s.queue)

\* A move of one id.
LEMMA SetPosFacts ==
    ASSUME NEW s, Good(s), NEW id \in Range(s.queue), NEW pos \in Nat
    PROVE  /\ Reaches(s, SetPos(s, id, pos), Ids \ {id})
           /\ Placed(s, SetPos(s, id, pos), id, PlaceFor(s, pos))
<1> USE DEF Placed, PlaceFor
<1> DEFINE L == Len(s.queue)
           a == Asked(s, id)
           old == GetPos(s, id)
           new == IF pos < L THEN pos ELSE L - 1
           n == IF pos < L THEN pos + 1 ELSE L
           m == InsertAt(RemoveAt(s.queue, old + 1), new + 1, id)
           t == SetPos(s, id, pos)
<1>1. /\ s.queue \in Seq(Ids) /\ IsInjective(s.queue)
      /\ L \in Nat /\ DOMAIN s.queue = 1..L /\ L <= Cardinality(Torrents)
  BY GoodFacts
<1>2. /\ Good(a) /\ a.queue = s.queue /\ a.dirty = s.dirty
      /\ old \in 0..L - 1 /\ s.queue[old + 1] = id
  BY AskedFacts
<1>3. /\ t = IF old = new THEN a
             ELSE [a EXCEPT !.queue = InsertAt(RemoveAt(@, old + 1), new + 1, id), !.dirty = TRUE]
  BY DEF SetPos, GetPos
<1> HIDE DEF a, old, t
<1>4. old + 1 \in 1..L /\ new + 1 = n /\ n \in 1..L
  BY <1>1, <1>2
<1>5. CASE old = new
  <2>1. t = a
    BY <1>3, <1>5
  <2>2. Reaches(s, t, Ids \ {id})
    BY <1>2, <2>1, ReachesSelf
  <2>3. \A i \in 1..L : From(n, n, i) = i
    BY <1>1, <1>4 DEF From
  <2>4. old + 1 = n
    BY <1>4, <1>5
  <2>5. \A i \in 1..L : t.queue[i] = s.queue[From(old + 1, n, i)]
    BY <1>2, <2>1, <2>3, <2>4
  <2> QED
    BY <1>2, <1>4, <2>2, <2>5 DEF t
<1>6. CASE old # new
  <2>1. t = [a EXCEPT !.queue = m, !.dirty = TRUE]
    BY <1>2, <1>3, <1>6
  <2>2. m = InsertAt(RemoveAt(s.queue, old + 1), n, s.queue[old + 1])
    BY <1>2, <1>4
  <2> HIDE DEF m, n, new
  <2>3. /\ m \in Seq(Ids) /\ Len(m) = L
        /\ \A i \in 1..L : m[i] = s.queue[From(old + 1, n, i)]
        /\ IsInjective(m)
        /\ Range(m) = Range(s.queue)
        /\ SameOrder(s.queue, m, Ids \ {s.queue[old + 1]})
    <3>1. IsMove(s.queue, m, old + 1, n, Ids)
      BY <1>1, <1>4, <2>2, MoveFacts
    <3> QED
      BY <3>1 DEF IsMove
  <2>4. a \in [queue : Seq(Ids), cache : [Ids -> Positions], dirty : BOOLEAN]
    BY <1>2 DEF Good
  <2>5. /\ t \in [queue : Seq(Ids), cache : [Ids -> Positions], dirty : BOOLEAN]
        /\ t.queue = m /\ t.dirty = TRUE
    BY <2>1, <2>3, <2>4
  <2>6. Good(t)
    BY <1>1, <2>3, <2>5 DEF Good
  <2>7. Reaches(s, t, Ids \ {id})
    BY <1>2, <2>3, <2>5, <2>6 DEF Reaches
  <2> QED
    BY <1>2, <1>4, <2>3, <2>5, <2>7 DEF t, n
<1> QED
  BY <1>5, <1>6

-----------------------------------------------------------------------------
(* Batches.                                                                *)

\* A sequence that has its members from S in front, all as they stand in q.
LEMMA FrontAndBack ==
    ASSUME NEW T, NEW q \in Seq(T), IsInjective(q), NEW m \in Seq(T), IsInjective(m),
           Range(m) = Range(q), NEW S, NEW c \in 0..Len(m),
           \A i \in 1..Len(m) : m[i] \in S <=> i <= c,
           SameOrder(m, q, S), SameOrder(m, q, T \ S)
    PROVE  m = Only(q, S) \o Only(q, T \ S)
<1> DEFINE h == [i \in 1..c |-> m[i]]
           t == [i \in 1..Len(m) - c |-> m[c + i]]
<1>1. /\ Len(m) \in Nat /\ c \in Nat /\ Len(m) - c \in Nat
      /\ DOMAIN m = 1..Len(m) /\ \A i \in 1..Len(m) : m[i] \in T
  OBVIOUS
<1>2. \A i \in 1..c : i \in 1..Len(m) /\ i <= c
  BY <1>1
<1>3. \A i \in 1..Len(m) - c : c + i \in 1..Len(m) /\ ~(c + i <= c)
  BY <1>1
<1>4. h \in [1..c -> T] /\ t \in [1..Len(m) - c -> T]
  BY <1>1, <1>2, <1>3
<1>5. \A i \in 1..c : h[i] = m[i]
  OBVIOUS
<1>6. \A i \in 1..Len(m) - c : t[i] = m[c + i]
  OBVIOUS
<1> HIDE DEF h, t
<1>7. h \in Seq(T) /\ Len(h) = c /\ DOMAIN h = 1..c
  BY <1>1, <1>4, FunctionIsSeq
<1>8. t \in Seq(T) /\ Len(t) = Len(m) - c /\ DOMAIN t = 1..Len(m) - c
  <2> DEFINE d == Len(m) - c
  <2>1. d \in Nat /\ t \in [1..d -> T]
    BY <1>1, <1>4
  <2> HIDE DEF d
  <2>2. t \in Seq(T) /\ Len(t) = d /\ DOMAIN t = 1..d
    BY <2>1, FunctionIsSeq
  <2> QED
    BY <2>2 DEF d
<1>9. Only(q, S) = h
  <2>1. IsInjective(h)
    BY <1>1, <1>2, <1>5, <1>7 DEF IsInjective
  <2>2. Range(h) = Range(q) \cap S
    <3>1. ASSUME NEW x \in Range(h) PROVE x \in Range(m) \cap S
      BY <1>1, <1>2, <1>5, <1>7 DEF Range
    <3>2. ASSUME NEW x \in Range(m) \cap S PROVE x \in Range(h)
      <4>1. PICK i \in 1..Len(m) : m[i] = x
        BY <1>1 DEF Range
      <4>2. i \in 1..c
        BY <4>1
      <4> QED
        BY <1>5, <1>7, <4>1, <4>2 DEF Range
    <3> QED
      BY <3>1, <3>2
  <2>3. SameOrder(h, q, S)
    <3>1. SUFFICES ASSUME NEW i \in 1..c, NEW j \in 1..c, NEW k \in DOMAIN q, NEW l \in DOMAIN q,
                          h[i] \in S, h[j] \in S, h[i] = q[k], h[j] = q[l], i < j
                   PROVE  k < l
      BY <1>7 DEF SameOrder
    <3>2. i \in DOMAIN m /\ j \in DOMAIN m /\ h[i] = m[i] /\ h[j] = m[j]
      BY <1>1, <1>2, <1>5
    <3> QED
      BY <3>1, <3>2 DEF SameOrder
  <2> QED
    BY <1>7, <2>1, <2>2, <2>3, OnlyIs
<1>10. Only(q, T \ S) = t
  <2>1. IsInjective(t)
    <3>1. SUFFICES ASSUME NEW i \in 1..Len(m) - c, NEW j \in 1..Len(m) - c, t[i] = t[j] PROVE i = j
      BY <1>8 DEF IsInjective
    <3>2. m[c + i] = m[c + j] /\ c + i \in DOMAIN m /\ c + j \in DOMAIN m
      BY <1>1, <1>3, <1>6, <3>1
    <3>3. c + i = c + j
      BY <3>2 DEF IsInjective
    <3> QED
      BY <1>1, <3>3
  <2>2. Range(t) = Range(q) \cap (T \ S)
    <3>1. ASSUME NEW x \in Range(t) PROVE x \in Range(m) \cap (T \ S)
      <4>1. PICK i \in 1..Len(m) - c : x = t[i]
        BY <1>8 DEF Range
      <4>2. c + i \in 1..Len(m) /\ ~(c + i <= c) /\ x = m[c + i]
        BY <1>3, <1>6, <4>1
      <4> QED
        BY <1>1, <4>2 DEF Range
    <3>2. ASSUME NEW x \in Range(m) \cap (T \ S) PROVE x \in Range(t)
      <4>1. PICK i \in 1..Len(m) : m[i] = x
        BY <1>1 DEF Range
      <4>2. ~(i <= c)
        BY <4>1
      <4>3. i - c \in 1..Len(m) - c /\ c + (i - c) = i
        BY <1>1, <4>2
      <4>4. t[i - c] = x
        BY <1>6, <4>1, <4>3
      <4> QED
        BY <1>8, <4>3, <4>4 DEF Range
    <3> QED
      BY <3>1, <3>2
  <2>3. SameOrder(t, q, T \ S)
    <3>1. SUFFICES ASSUME NEW i \in 1..Len(m) - c, NEW j \in 1..Len(m) - c,
                          NEW k \in DOMAIN q, NEW l \in DOMAIN q,
                          t[i] \in T \ S, t[j] \in T \ S, t[i] = q[k], t[j] = q[l], i < j
                   PROVE  k < l
      BY <1>8 DEF SameOrder
    <3>2. c + i \in DOMAIN m /\ c + j \in DOMAIN m /\ t[i] = m[c + i] /\ t[j] = m[c + j]
      BY <1>1, <1>3, <1>6
    <3>3. c + i < c + j
      BY <1>1, <3>1
    <3> QED
      BY <3>1, <3>2, <3>3 DEF SameOrder
  <2> QED
    BY <1>8, <2>1, <2>2, <2>3, OnlyIs
<1>11. m = h \o t
  <2>1. /\ h \o t \in Seq(T) /\ Len(h \o t) = Len(h) + Len(t)
        /\ \A i \in 1..Len(h) + Len(t) : (h \o t)[i] = IF i <= Len(h) THEN h[i] ELSE t[i - Len(h)]
    BY <1>7, <1>8, ConcatProperties
  <2>2. Len(h) + Len(t) = Len(m)
    BY <1>1, <1>7, <1>8
  <2>3. ASSUME NEW i \in 1..Len(m) PROVE (h \o t)[i] = m[i]
    <3>1. (h \o t)[i] = IF i <= c THEN h[i] ELSE t[i - c]
      BY <1>7, <2>1, <2>2
    <3>2. CASE i <= c
      BY <1>1, <1>5, <3>1, <3>2
    <3>3. CASE ~(i <= c)
      <4>1. i - c \in 1..Len(m) - c /\ c + (i - c) = i
        BY <1>1, <3>3
      <4> QED
        BY <1>6, <3>1, <3>3, <4>1
    <3> QED
      BY <3>2, <3>3
  <2> QED
    BY <2>1, <2>2, <2>3, SeqEqual
<1> QED
  BY <1>9, <1>10, <1>11

\* Asking for all positions of a batch caches each.
LEMMA AskedInBatch ==
    ASSUME NEW s, Good(s), NEW batch, batch \subseteq Range(s.queue)
    PROVE  \A id \in batch : AllAsked(s, batch).cache[id] = GetPos(s, id)
<1> DEFINE c == [id \in Ids |-> IF id \in batch THEN GetPos(s, id) ELSE s.cache[id]]
<1>1. s \in [queue : Seq(Ids), cache : [Ids -> Positions], dirty : BOOLEAN]
  BY DEF Good
<1>2. AllAsked(s, batch) = [s EXCEPT !.cache = c]
  BY DEF AllAsked
<1>3. batch \subseteq Ids
  BY <1>1 DEF Range
<1>4. \A id \in batch : c[id] = GetPos(s, id)
  BY <1>3
<1> HIDE DEF c
<1>5. AllAsked(s, batch).cache = c
  BY <1>1, <1>2
<1> QED
  BY <1>4, <1>5

\* A batch is sorted by the true positions.
LEMMA SortedFacts ==
    ASSUME NEW s, Good(s), NEW batch, IsFiniteSet(batch), Cardinality(batch) = 2,
           batch \subseteq Range(s.queue)
    PROVE  LET r == Sorted(s, batch)
           IN  /\ batch = {r[1], r[2]} /\ r[1] # r[2]
               /\ GetPos(s, r[1]) < GetPos(s, r[2])
               /\ Reverse(r)[1] = r[2] /\ Reverse(r)[2] = r[1]
<1> DEFINE R == {p \in batch \X batch : GetPos(s, p[1]) < GetPos(s, p[2])}
           r == Sorted(s, batch)
           c == AllAsked(s, batch).cache
<1>1. \A x \in batch : c[x] = GetPos(s, x)
  BY AskedInBatch
<1>2. \A x, y \in batch : <<x, y>> \in R <=> c[x] < c[y]
  BY <1>1
<1>3. \A x \in batch : GetPos(s, x) \in Int /\ s.queue[GetPos(s, x) + 1] = x
  <2>1. Len(s.queue) \in Nat
    BY GoodFacts
  <2>2. \A x \in batch : GetPos(s, x) \in 0..Len(s.queue) - 1 /\ s.queue[GetPos(s, x) + 1] = x
    BY AskedFacts
  <2> QED
    BY <2>1, <2>2
<1> HIDE DEF R
<1>4. IsOrderOf(R, batch)
  <2>1. \A x, y \in batch : x # y => GetPos(s, x) # GetPos(s, y)
    BY <1>3
  <2> QED
    BY <1>1, <1>2, <1>3, <2>1 DEF IsOrderOf
<1>5. \E o \in [1..Cardinality(batch) -> batch] : \A i, j \in DOMAIN o : i < j => c[o[i]] < c[o[j]]
  <2>1. PICK o \in SetToSeqs(batch) : Rises(o, R)
    BY <1>4, ArrangedExists
  <2>2. o \in [1..Cardinality(batch) -> batch]
    BY EachIsThere
  <2>3. ASSUME NEW i \in DOMAIN o, NEW j \in DOMAIN o, i < j
        PROVE  c[o[i]] < c[o[j]]
    <3>1. <<o[i], o[j]>> \in R
      BY <2>1, <2>3 DEF Rises
    <3> QED
      BY <1>2, <2>2, <3>1
  <2> QED
    BY <2>2, <2>3
<1>6. r \in [1..Cardinality(batch) -> batch] /\ \A i, j \in DOMAIN r : i < j => c[r[i]] < c[r[j]]
  BY <1>5 DEF Sorted, Arranged
<1> HIDE DEF r
<1>7. /\ r \in [1..2 -> batch] /\ DOMAIN r = 1..2 /\ IsInjective(r)
      /\ \A x \in batch : \E i \in DOMAIN r : r[i] = x
  <2>1. Rises(r, R)
    BY <1>2, <1>6 DEF Rises
  <2>2. r \in SetToSeqs(batch)
    BY <1>4, <1>6, <2>1, RisesEachOnce
  <2> QED
    BY <2>2, EachIsThere
<1>8. 1 \in DOMAIN r /\ 2 \in DOMAIN r /\ \A i \in DOMAIN r : i = 1 \/ i = 2
  BY <1>7
<1>9. batch = {r[1], r[2]} /\ r[1] # r[2]
  BY <1>7, <1>8 DEF IsInjective
<1>10. GetPos(s, r[1]) < GetPos(s, r[2])
  <2>1. c[r[1]] < c[r[2]]
    BY <1>6, <1>8
  <2>2. r[1] \in batch /\ r[2] \in batch
    BY <1>9
  <2> QED
    BY <1>1, <2>1, <2>2
<1>11. Reverse(r)[1] = r[2] /\ Reverse(r)[2] = r[1]
  <2>1. Len(r) = 2
    BY <1>7
  <2> QED
    BY <2>1 DEF Reverse
<1> QED
  BY <1>9, <1>10, <1>11 DEF r

\* To ask for the positions of a batch changes nothing but what is cached.
LEMMA AllAskedFacts ==
    ASSUME NEW s, Good(s), NEW batch, batch \subseteq Range(s.queue)
    PROVE  /\ Good(AllAsked(s, batch))
           /\ AllAsked(s, batch).queue = s.queue /\ AllAsked(s, batch).dirty = s.dirty
<1> DEFINE c == [id \in Ids |-> IF id \in batch THEN GetPos(s, id) ELSE s.cache[id]]
<1>1. /\ Len(s.queue) \in Nat /\ Len(s.queue) <= Cardinality(Torrents)
      /\ s.cache \in [Ids -> Positions]
  BY GoodFacts
<1>2. \A id \in batch : GetPos(s, id) \in 0..Len(s.queue) - 1
  BY AskedFacts
<1>3. \A id \in batch : GetPos(s, id) \in Positions
  BY <1>1, <1>2, TorrentsCount DEF Positions
<1>4. c \in [Ids -> Positions]
  BY <1>1, <1>3
<1>5. AllAsked(s, batch) = [s EXCEPT !.cache = c]
  BY DEF AllAsked
<1> HIDE DEF c
<1>6. s \in [queue : Seq(Ids), cache : [Ids -> Positions], dirty : BOOLEAN]
  BY DEF Good
<1>7. /\ AllAsked(s, batch) \in [queue : Seq(Ids), cache : [Ids -> Positions], dirty : BOOLEAN]
      /\ AllAsked(s, batch).queue = s.queue /\ AllAsked(s, batch).dirty = s.dirty
  BY <1>4, <1>5, <1>6
<1> QED
  BY <1>7 DEF Good

\* Two that stand in both sequences as they do.
LEMMA TwoInOrder ==
    ASSUME NEW m, NEW q, IsInjective(m), IsInjective(q),
           DOMAIN m \subseteq Int, DOMAIN q \subseteq Int,
           NEW i \in DOMAIN m, NEW j \in DOMAIN m, i < j,
           NEW k \in DOMAIN q, NEW l \in DOMAIN q, k < l, m[i] = q[k], m[j] = q[l]
    PROVE  SameOrder(m, q, {m[i], m[j]})
<1>1. SUFFICES ASSUME NEW e \in DOMAIN m, NEW f \in DOMAIN m, NEW g \in DOMAIN q, NEW h \in DOMAIN q,
                      m[e] \in {m[i], m[j]}, m[f] \in {m[i], m[j]}, m[e] = q[g], m[f] = q[h], e < f
               PROVE  g < h
  BY DEF SameOrder
<1>2. (e = i \/ e = j) /\ (f = i \/ f = j)
  BY <1>1 DEF IsInjective
<1>3. e = i /\ f = j
  BY <1>1, <1>2
<1>4. g = k /\ h = l
  BY <1>1, <1>3 DEF IsInjective
<1> QED
  BY <1>4

\* A batch of a good queue: its two ids, where they are, and that they were asked for.
LEMMA BatchFacts ==
    ASSUME NEW s, Good(s), NEW batch, IsFiniteSet(batch), Cardinality(batch) = 2,
           batch \subseteq Range(s.queue)
    PROVE  \E a, b \in batch :
             /\ Sorted(s, batch)[1] = a /\ Sorted(s, batch)[2] = b
             /\ Reverse(Sorted(s, batch))[1] = b /\ Reverse(Sorted(s, batch))[2] = a
             /\ batch = {a, b} /\ a # b
             /\ \E k, l \in 1..Len(s.queue) : k < l /\ s.queue[k] = a /\ s.queue[l] = b
<1> DEFINE r == Sorted(s, batch)
<1>1. /\ batch = {r[1], r[2]} /\ r[1] # r[2]
      /\ GetPos(s, r[1]) < GetPos(s, r[2])
      /\ Reverse(r)[1] = r[2] /\ Reverse(r)[2] = r[1]
  BY SortedFacts
<1> HIDE DEF r
<1>2. r[1] \in batch /\ r[2] \in batch
  BY <1>1
<1>3. Len(s.queue) \in Nat
  BY GoodFacts
<1>4. /\ GetPos(s, r[1]) \in 0..Len(s.queue) - 1 /\ s.queue[GetPos(s, r[1]) + 1] = r[1]
      /\ GetPos(s, r[2]) \in 0..Len(s.queue) - 1 /\ s.queue[GetPos(s, r[2]) + 1] = r[2]
  BY <1>2, AskedFacts
<1>5. \E k, l \in 1..Len(s.queue) : k < l /\ s.queue[k] = r[1] /\ s.queue[l] = r[2]
  <2>1. /\ GetPos(s, r[1]) + 1 \in 1..Len(s.queue) /\ GetPos(s, r[2]) + 1 \in 1..Len(s.queue)
        /\ GetPos(s, r[1]) + 1 < GetPos(s, r[2]) + 1
    <3> DEFINE x == GetPos(s, r[1])
               y == GetPos(s, r[2])
               len == Len(s.queue)
    <3>1. len \in Nat /\ x \in 0..len - 1 /\ y \in 0..len - 1 /\ x < y
      BY <1>1, <1>3, <1>4
    <3> HIDE DEF x, y, len
    <3>2. x + 1 \in 1..len /\ y + 1 \in 1..len /\ x + 1 < y + 1
      BY <3>1
    <3> QED
      BY <3>2 DEF x, y, len
  <2> QED
    BY <1>4, <2>1
<1> QED
  BY <1>1, <1>2, <1>5 DEF r

\* tr_torrentsQueueMoveTop()
LEMMA TopFacts ==
    ASSUME NEW s, Good(s), NEW batch, IsFiniteSet(batch), Cardinality(batch) = 2,
           batch \subseteq Range(s.queue)
    PROVE  /\ Reaches(s, ToTop(s, batch), Ids \ batch)
           /\ ToTop(s, batch).queue = Only(s.queue, batch) \o Only(s.queue, Ids \ batch)
<1>1. PICK a \in batch, b \in batch :
        /\ Reverse(Sorted(s, batch))[1] = b /\ Reverse(Sorted(s, batch))[2] = a
        /\ batch = {a, b} /\ a # b
        /\ \E k, l \in 1..Len(s.queue) : k < l /\ s.queue[k] = a /\ s.queue[l] = b
  BY BatchFacts
<1> DEFINE w == AllAsked(s, batch)
           u == SetPos(w, b, 0)
           t == SetPos(u, a, 0)
           q == s.queue
           m == t.queue
           L == Len(q)
<1>2. ToTop(s, batch) = t
  BY <1>1 DEF ToTop, Moved, MinPos
<1>3. Good(w) /\ w.queue = q /\ w.dirty = s.dirty
  BY AllAskedFacts
<1> HIDE DEF w
<1>4. PICK k \in 1..L, l \in 1..L : k < l /\ q[k] = a /\ q[l] = b
  BY <1>1
<1>5. /\ q \in Seq(Ids) /\ IsInjective(q) /\ DOMAIN q = 1..L /\ L \in Nat
      /\ a \in Ids /\ b \in Ids
  BY <1>1, GoodFacts
<1>6. L >= 2 /\ 1 \in 1..L /\ 2 \in 1..L /\ 0 < L /\ 0 \in Nat
  BY <1>4, <1>5
<1>7. b \in Range(w.queue)
  BY <1>1, <1>3
<1>8. /\ Reaches(w, u, Ids \ {b})
      /\ \E o \in 1..L : q[o] = b /\ \A i \in 1..L : u.queue[i] = q[From(o, 1, i)]
  <2>1. Reaches(w, u, Ids \ {b}) /\ Placed(w, u, b, PlaceFor(w, 0))
    BY <1>3, <1>6, <1>7, SetPosFacts
  <2>2. PlaceFor(w, 0) = 1
    BY <1>3, <1>6 DEF PlaceFor
  <2> HIDE DEF u
  <2> QED
    BY <1>3, <2>1, <2>2 DEF Placed
<1> HIDE DEF u
<1>9. Good(u) /\ Len(u.queue) = L /\ Range(u.queue) = Range(q)
  BY <1>3, <1>8 DEF Reaches
<1>10. u.queue[1] = b
  BY <1>6, <1>8 DEF From
<1>11. a \in Range(u.queue)
  BY <1>1, <1>9
<1>12. /\ Reaches(u, t, Ids \ {a})
       /\ \E o \in 1..L : u.queue[o] = a /\ \A i \in 1..L : m[i] = u.queue[From(o, 1, i)]
  <2>1. Reaches(u, t, Ids \ {a}) /\ Placed(u, t, a, PlaceFor(u, 0))
    BY <1>6, <1>9, <1>11, SetPosFacts
  <2>2. PlaceFor(u, 0) = 1
    BY <1>6, <1>9 DEF PlaceFor
  <2> HIDE DEF t
  <2> QED
    BY <1>9, <2>1, <2>2 DEF Placed
<1> HIDE DEF t
<1>13. m[1] = a /\ m[2] = b
  <2>1. PICK o \in 1..L : u.queue[o] = a /\ \A i \in 1..L : m[i] = u.queue[From(o, 1, i)]
    BY <1>12
  <2>2. o # 1 /\ o \in Int
    BY <1>1, <1>10, <2>1
  <2>3. From(o, 1, 1) = o /\ From(o, 1, 2) = 1
    BY <2>2, <2>1 DEF From
  <2> QED
    BY <1>6, <1>10, <2>1, <2>3
<1>14. Reaches(s, t, Ids \ batch)
  <2>1. Reaches(s, w, Ids)
    BY <1>3, ReachesSelf
  <2>2. Reaches(s, u, Ids \ {b})
    BY <1>8, <2>1, ReachesOn
  <2> QED
    BY <1>1, <1>12, <2>2, ReachesOn
<1>15. /\ m \in Seq(Ids) /\ IsInjective(m) /\ DOMAIN m = 1..L /\ Len(m) = L
       /\ Range(m) = Range(q) /\ SameOrder(q, m, Ids \ batch)
  <2>1. Good(t) /\ Len(m) = L /\ Range(m) = Range(q) /\ SameOrder(q, m, Ids \ batch)
    BY <1>14 DEF Reaches
  <2> QED
    BY <2>1, GoodFacts
<1> HIDE DEF m, q
<1>16. SameOrder(m, q, Ids \ batch)
  BY <1>5, <1>15, SameOrderBack
<1>17. SameOrder(m, q, batch)
  <2>1. SameOrder(m, q, {m[1], m[2]})
    <3>1. DOMAIN m \subseteq Int /\ DOMAIN q \subseteq Int
      BY <1>5, <1>15
    <3>2. 1 \in DOMAIN m /\ 2 \in DOMAIN m /\ k \in DOMAIN q /\ l \in DOMAIN q /\ 1 < 2
      BY <1>5, <1>6, <1>15
    <3>3. m[1] = q[k] /\ m[2] = q[l] /\ k < l
      BY <1>4, <1>13 DEF q
    <3> QED
      BY <1>5, <1>15, <3>1, <3>2, <3>3, TwoInOrder
  <2> QED
    BY <1>1, <1>13, <2>1
<1>18. \A i \in 1..Len(m) : m[i] \in batch <=> i <= 2
  <2>1. \A i \in 1..L : m[i] = m[1] => i = 1
    BY <1>6, <1>15 DEF IsInjective
  <2>2. \A i \in 1..L : m[i] = m[2] => i = 2
    BY <1>6, <1>15 DEF IsInjective
  <2>3. \A i \in 1..L : i <= 2 <=> i = 1 \/ i = 2
    BY <1>5
  <2> QED
    BY <1>1, <1>13, <1>15, <2>1, <2>2, <2>3
<1>19. 2 \in 0..Len(m)
  BY <1>5, <1>6, <1>15
<1>20. m = Only(q, batch) \o Only(q, Ids \ batch)
  <2>1. q \in Seq(Ids) /\ IsInjective(q) /\ m \in Seq(Ids) /\ IsInjective(m) /\ Range(m) = Range(q)
    BY <1>5, <1>15
  <2> QED
    BY ONLY <2>1, <1>16, <1>17, <1>18, <1>19, FrontAndBack
<1> QED
  BY <1>2, <1>14, <1>20 DEF m, q

\* tr_torrentsQueueMoveBottom()
LEMMA BottomFacts ==
    ASSUME NEW s, Good(s), NEW batch, IsFiniteSet(batch), Cardinality(batch) = 2,
           batch \subseteq Range(s.queue)
    PROVE  /\ Reaches(s, ToBottom(s, batch), Ids \ batch)
           /\ ToBottom(s, batch).queue = Only(s.queue, Ids \ batch) \o Only(s.queue, batch)
<1>1. PICK a \in batch, b \in batch :
        /\ Sorted(s, batch)[1] = a /\ Sorted(s, batch)[2] = b
        /\ batch = {a, b} /\ a # b
        /\ \E k, l \in 1..Len(s.queue) : k < l /\ s.queue[k] = a /\ s.queue[l] = b
  BY BatchFacts
<1> DEFINE w == AllAsked(s, batch)
           u == SetPos(w, a, MaxPos)
           t == SetPos(u, b, MaxPos)
           q == s.queue
           m == t.queue
           L == Len(q)
<1>2. ToBottom(s, batch) = t
  BY <1>1 DEF ToBottom, Moved
<1>3. Good(w) /\ w.queue = q /\ w.dirty = s.dirty
  BY AllAskedFacts
<1> HIDE DEF w
<1>4. PICK k \in 1..L, l \in 1..L : k < l /\ q[k] = a /\ q[l] = b
  BY <1>1
<1>5. /\ q \in Seq(Ids) /\ IsInjective(q) /\ DOMAIN q = 1..L /\ L \in Nat
      /\ L <= Cardinality(Torrents)
      /\ a \in Ids /\ b \in Ids
  BY <1>1, GoodFacts
<1>6. /\ L >= 2 /\ L \in 1..L /\ L - 1 \in 1..L
      /\ MaxPos \in Nat /\ ~(MaxPos < L)
  <2>1. L \in Nat /\ k \in Int /\ l \in Int /\ 1 <= k /\ k < l /\ l <= L
    BY <1>4, <1>5
  <2> HIDE DEF L
  <2>2. L >= 2 /\ L \in 1..L /\ L - 1 \in 1..L
    BY <2>1
  <2> QED
    BY <1>5, <2>1, <2>2, TorrentsCount DEF MaxPos
<1>7. a \in Range(w.queue)
  BY <1>1, <1>3
<1>8. /\ Reaches(w, u, Ids \ {a})
      /\ \E o \in 1..L : q[o] = a /\ \A i \in 1..L : u.queue[i] = q[From(o, L, i)]
  <2>1. Reaches(w, u, Ids \ {a}) /\ Placed(w, u, a, PlaceFor(w, MaxPos))
    BY <1>3, <1>6, <1>7, SetPosFacts
  <2>2. PlaceFor(w, MaxPos) = L
    BY <1>3, <1>6 DEF PlaceFor
  <2> HIDE DEF u
  <2> QED
    BY <1>3, <2>1, <2>2 DEF Placed
<1> HIDE DEF u
<1>9. Good(u) /\ Len(u.queue) = L /\ Range(u.queue) = Range(q)
  BY <1>3, <1>8 DEF Reaches
<1>10. u.queue[L] = a
  BY <1>6, <1>8 DEF From
<1>11. b \in Range(u.queue)
  BY <1>1, <1>9
<1>12. /\ Reaches(u, t, Ids \ {b})
       /\ \E o \in 1..L : u.queue[o] = b /\ \A i \in 1..L : m[i] = u.queue[From(o, L, i)]
  <2>1. Reaches(u, t, Ids \ {b}) /\ Placed(u, t, b, PlaceFor(u, MaxPos))
    BY <1>6, <1>9, <1>11, SetPosFacts
  <2>2. PlaceFor(u, MaxPos) = L
    BY <1>6, <1>9 DEF PlaceFor
  <2> HIDE DEF t
  <2> QED
    BY <1>9, <2>1, <2>2 DEF Placed
<1> HIDE DEF t
<1>13. m[L - 1] = a /\ m[L] = b
  <2>1. PICK o \in 1..L : u.queue[o] = b /\ \A i \in 1..L : m[i] = u.queue[From(o, L, i)]
    BY <1>12
  <2>2. o # L /\ o \in Int
    BY <1>1, <1>10, <2>1
  <2>3. From(o, L, L) = o /\ From(o, L, L - 1) = L
    BY <1>5, <2>2, <2>1 DEF From
  <2> QED
    BY <1>6, <1>10, <2>1, <2>3
<1>14. Reaches(s, t, Ids \ batch)
  <2>1. Reaches(s, w, Ids)
    BY <1>3, ReachesSelf
  <2>2. Reaches(s, u, Ids \ {a})
    BY <1>8, <2>1, ReachesOn
  <2> QED
    BY <1>1, <1>12, <2>2, ReachesOn
<1>15. /\ m \in Seq(Ids) /\ IsInjective(m) /\ DOMAIN m = 1..L /\ Len(m) = L
       /\ Range(m) = Range(q) /\ SameOrder(q, m, Ids \ batch)
  <2>1. Good(t) /\ Len(m) = L /\ Range(m) = Range(q) /\ SameOrder(q, m, Ids \ batch)
    BY <1>14 DEF Reaches
  <2> QED
    BY <2>1, GoodFacts
<1> HIDE DEF m, q
<1>16. SameOrder(m, q, Ids \ batch)
  BY <1>5, <1>15, SameOrderBack
<1>17. SameOrder(m, q, Ids \ (Ids \ batch))
  <2>1. SameOrder(m, q, {m[L - 1], m[L]})
    <3>1. DOMAIN m \subseteq Int /\ DOMAIN q \subseteq Int
      BY <1>5, <1>15
    <3>2. L - 1 \in DOMAIN m /\ L \in DOMAIN m /\ k \in DOMAIN q /\ l \in DOMAIN q /\ L - 1 < L
      BY <1>5, <1>6, <1>15
    <3>3. m[L - 1] = q[k] /\ m[L] = q[l] /\ k < l
      BY <1>4, <1>13 DEF q
    <3> QED
      BY <1>5, <1>15, <3>1, <3>2, <3>3, TwoInOrder
  <2>2. Ids \ (Ids \ batch) = {m[L - 1], m[L]}
    BY <1>1, <1>5, <1>13
  <2> QED
    BY <2>1, <2>2
<1>18. \A i \in 1..Len(m) : m[i] \in Ids \ batch <=> i <= L - 2
  <2> HIDE DEF L
  <2>1. \A i, j \in 1..L : m[i] = m[j] => i = j
    BY <1>15 DEF IsInjective
  <2>2. L \in Int /\ L \in 1..L /\ L - 1 \in 1..L
    BY <1>5, <1>6
  <2>3. SUFFICES ASSUME NEW i \in 1..L PROVE m[i] \in Ids \ batch <=> i <= L - 2
    BY <1>15
  <2>4. m[i] \in Ids
    BY <1>15
  <2>5. (m[i] = a <=> i = L - 1) /\ (m[i] = b <=> i = L)
    BY <1>13, <2>1, <2>2
  <2>6. i <= L - 2 <=> i # L - 1 /\ i # L
    BY <2>2
  <2> QED
    BY <1>1, <2>4, <2>5, <2>6
<1>19. L - 2 \in 0..Len(m)
  BY <1>5, <1>6, <1>15
<1>20. m = Only(q, Ids \ batch) \o Only(q, Ids \ (Ids \ batch))
  <2>1. q \in Seq(Ids) /\ IsInjective(q) /\ m \in Seq(Ids) /\ IsInjective(m) /\ Range(m) = Range(q)
    BY <1>5, <1>15
  <2> QED
    BY ONLY <2>1, <1>16, <1>17, <1>18, <1>19, FrontAndBack
<1>21. Ids \ (Ids \ batch) = batch
  BY <1>1, <1>5
<1> QED
  BY <1>2, <1>14, <1>20, <1>21 DEF m, q

\* One id by one place, or not at all at the front.
UpOne(r, id) ==
    IF GetPos(r, id) > MinPos THEN SetPos(r, id, GetPos(r, id) - 1) ELSE Asked(r, id)
DownOne(r, id) == SetPos(r, id, GetPos(r, id) + 1)

LEMMA OneFacts ==
    ASSUME NEW s, Good(s), NEW id \in Range(s.queue)
    PROVE  Reaches(s, UpOne(s, id), Ids \ {id}) /\ Reaches(s, DownOne(s, id), Ids \ {id})
<1>1. Len(s.queue) \in Nat
  BY GoodFacts
<1>2. /\ Good(Asked(s, id)) /\ Asked(s, id).queue = s.queue /\ Asked(s, id).dirty = s.dirty
      /\ GetPos(s, id) \in 0..Len(s.queue) - 1
  BY AskedFacts
<1>3. Reaches(s, Asked(s, id), Ids \ {id})
  BY <1>2, ReachesSelf
<1>4. GetPos(s, id) > MinPos => GetPos(s, id) - 1 \in Nat
  BY <1>1, <1>2 DEF MinPos
<1>5. GetPos(s, id) + 1 \in Nat
  BY <1>1, <1>2
<1>6. GetPos(s, id) > MinPos => Reaches(s, SetPos(s, id, GetPos(s, id) - 1), Ids \ {id})
  BY <1>4, SetPosFacts
<1>7. Reaches(s, SetPos(s, id, GetPos(s, id) + 1), Ids \ {id})
  BY <1>5, SetPosFacts
<1> QED
  BY <1>3, <1>6, <1>7 DEF UpOne, DownOne

\* What is reached leaves the same of the others.
LEMMA OthersStay ==
    ASSUME NEW s, Good(s), NEW t, NEW batch, Reaches(s, t, Ids \ batch)
    PROVE  Others(t.queue, batch) = Others(s.queue, batch)
<1>1. /\ s.queue \in Seq(Ids) /\ IsInjective(s.queue)
      /\ t.queue \in Seq(Ids) /\ IsInjective(t.queue)
      /\ Range(t.queue) = Range(s.queue)
      /\ SameOrder(s.queue, t.queue, Ids \ batch)
  BY GoodFacts DEF Reaches
<1>2. Only(s.queue, Ids \ batch) = Only(t.queue, Ids \ batch)
  BY <1>1, OnlySame
<1> QED
  BY <1>2 DEF Others

\* tr_torrentsQueueMoveUp(), tr_torrentsQueueMoveDown()
LEMMA UpDownFacts ==
    ASSUME NEW s, Good(s), NEW batch, IsFiniteSet(batch), Cardinality(batch) = 2,
           batch \subseteq Range(s.queue)
    PROVE  Reaches(s, Up(s, batch), Ids \ batch) /\ Reaches(s, Down(s, batch), Ids \ batch)
<1>1. PICK a \in batch, b \in batch :
        /\ Sorted(s, batch)[1] = a /\ Sorted(s, batch)[2] = b
        /\ Reverse(Sorted(s, batch))[1] = b /\ Reverse(Sorted(s, batch))[2] = a
        /\ batch = {a, b}
  BY BatchFacts
<1> DEFINE w == AllAsked(s, batch)
<1>2. Up(s, batch) = UpOne(UpOne(w, a), b)
  BY <1>1 DEF Up, Moved, UpOne
<1>3. Down(s, batch) = DownOne(DownOne(w, b), a)
  BY <1>1 DEF Down, Moved, DownOne
<1>4. Good(w) /\ w.queue = s.queue /\ w.dirty = s.dirty
  BY AllAskedFacts
<1> HIDE DEF w
<1>5. Reaches(s, w, Ids)
  BY <1>4, ReachesSelf
<1>6. a \in Range(w.queue) /\ b \in Range(w.queue)
  BY <1>1, <1>4
<1>7. Reaches(w, UpOne(w, a), Ids \ {a}) /\ Reaches(w, DownOne(w, b), Ids \ {b})
  BY <1>4, <1>6, OneFacts
<1>8. /\ Good(UpOne(w, a)) /\ b \in Range(UpOne(w, a).queue)
      /\ Good(DownOne(w, b)) /\ a \in Range(DownOne(w, b).queue)
  BY <1>6, <1>7 DEF Reaches
<1>9. /\ Reaches(UpOne(w, a), UpOne(UpOne(w, a), b), Ids \ {b})
      /\ Reaches(DownOne(w, b), DownOne(DownOne(w, b), a), Ids \ {a})
  BY <1>8, OneFacts
<1>10. Reaches(s, UpOne(w, a), Ids \ {a}) /\ Reaches(s, DownOne(w, b), Ids \ {b})
  BY <1>5, <1>7, ReachesOn
<1>11. Reaches(s, UpOne(UpOne(w, a), b), Ids \ batch)
  BY <1>1, <1>9, <1>10, ReachesOn
<1>12. Reaches(s, DownOne(DownOne(w, b), a), Ids \ batch)
  BY <1>1, <1>9, <1>10, ReachesOn
<1> QED
  BY <1>2, <1>3, <1>11, <1>12

-----------------------------------------------------------------------------
(* The invariant.                                                          *)

IdsGiven == DOMAIN torrents \subseteq 1..used

NoneTwice == IsInjective(torrents) /\ IsInjective(file)

\* Unless a save failed or one is due, queue.json has the torrents of the queue, in its
\* order, but those that were magnet links when it was saved are named so.
FileIsOrder ==
    \/ is_dirty
    \/ missed
    \/ DOMAIN queue = {}
    \/ /\ Len(file) = Len(queue)
       /\ \A i \in DOMAIN queue :
            /\ file[i].tor = torrents[queue[i]]
            /\ torrents[queue[i]] \in magnets => file[i].magnet

IInv ==
    /\ TypeOK
    /\ EachOnce
    /\ IdsGiven
    /\ NoneTwice
    /\ FileIsOrder

\* The queue as it is between commands.
LEMMA NowIsGood ==
    ASSUME TypeOK, EachOnce, NoneTwice
    PROVE  Good(Now) /\ Now.queue = queue /\ Now.cache = pos_cache /\ Now.dirty = is_dirty
<1> DEFINE f == [i \in DOMAIN queue |-> torrents[queue[i]]]
<1>1. /\ queue \in Seq(Ids) /\ Len(queue) \in Nat /\ DOMAIN queue = 1..Len(queue)
      /\ IsInjective(queue) /\ Range(queue) = DOMAIN torrents
      /\ torrents \in [DOMAIN torrents -> Torrents] /\ IsInjective(torrents)
      /\ pos_cache \in [Ids -> Positions] /\ is_dirty \in BOOLEAN
  BY DEF TypeOK, EachOnce, NoneTwice
<1>2. \A i \in 1..Len(queue) : queue[i] \in DOMAIN torrents
  BY <1>1 DEF Range
<1>3. f \in Injection(1..Len(queue), Torrents)
  <2>1. f \in [1..Len(queue) -> Torrents]
    BY <1>1, <1>2
  <2>2. ASSUME NEW i \in 1..Len(queue), NEW j \in 1..Len(queue), f[i] = f[j] PROVE i = j
    <3>1. torrents[queue[i]] = torrents[queue[j]]
      BY <1>1, <2>2
    <3>2. queue[i] = queue[j]
      BY <1>1, <1>2, <3>1 DEF IsInjective
    <3> QED
      BY <1>1, <3>2 DEF IsInjective
  <2> HIDE DEF f
  <2>3. DOMAIN f = 1..Len(queue)
    BY <2>1
  <2> QED
    BY <2>1, <2>2, <2>3 DEF Injection, IsInjective
<1>4. IsFiniteSet(Torrents) /\ Cardinality(1..Len(queue)) = Len(queue)
  BY <1>1, QueueAssumption, CountUpTo
<1>5. Len(queue) <= Cardinality(Torrents)
  <2> HIDE DEF f
  <2>1. Cardinality(1..Len(queue)) <= Cardinality(Torrents)
    BY <1>3, <1>4, FS_Injection
  <2> QED
    BY <1>4, <2>1
<1> QED
  BY <1>1, <1>5 DEF Now, Good

LEMMA BatchIsThere ==
    ASSUME TypeOK, EachOnce, NEW batch \in Batches
    PROVE  IsFiniteSet(batch) /\ Cardinality(batch) = 2 /\ batch \subseteq Range(queue)
<1>1. batch \subseteq DOMAIN torrents /\ Cardinality(batch) = 2
  BY DEF Batches, kSubset
<1>2. IsFiniteSet(Ids)
  BY QueueAssumption, CountUpTo DEF Ids
<1>3. batch \in SUBSET Ids /\ batch \subseteq Range(queue)
  BY <1>1 DEF TypeOK, EachOnce
<1> QED
  BY <1>1, <1>2, <1>3, FS_Subset

\* A command that reaches a state of the queue from the one it was in.
LEMMA BecomesKeeps ==
    ASSUME IInv, NEW t, NEW S, Reaches(Now, t, S), Becomes(t)
    PROVE  IInv'
<1>1. /\ Now.queue = queue /\ Now.dirty = is_dirty
  BY DEF Now
<1>2. /\ t \in [queue : Seq(Ids), cache : [Ids -> Positions], dirty : BOOLEAN]
      /\ IsInjective(t.queue) /\ Range(t.queue) = Range(queue)
      /\ t.dirty \/ (t.queue = queue /\ t.dirty = is_dirty)
  BY <1>1 DEF Reaches, Good
<1>3. /\ queue' = t.queue /\ pos_cache' = t.cache /\ is_dirty' = t.dirty
      /\ torrents' = torrents /\ used' = used /\ magnets' = magnets
      /\ file' = file /\ missed' = missed
  BY DEF Becomes
<1>4. TypeOK'
  <2>1. queue' \in Seq(Ids) /\ pos_cache' \in [Ids -> Positions] /\ is_dirty' \in BOOLEAN
    BY <1>2, <1>3
  <2> QED
    BY <1>3, <2>1 DEF IInv, TypeOK
<1>5. EachOnce'
  BY <1>2, <1>3 DEF IInv, EachOnce
<1>6. IdsGiven' /\ NoneTwice'
  BY <1>3 DEF IInv, IdsGiven, NoneTwice
<1>7. FileIsOrder'
  BY <1>2, <1>3 DEF IInv, FileIsOrder
<1> QED
  BY <1>4, <1>5, <1>6, <1>7 DEF IInv

LEMMA InitIInv == Init => IInv
<1> SUFFICES ASSUME Init PROVE IInv
  OBVIOUS
<1>1. 0 \in Positions
  BY TorrentsCount DEF Positions
<1>2. TypeOK
  <2>1. torrents \in [DOMAIN torrents -> Torrents] /\ DOMAIN torrents = {}
    BY DEF Init
  <2>2. used \in 0..MaxId
    BY QueueAssumption DEF Init
  <2>3. /\ magnets = {} /\ is_dirty = FALSE /\ missed = FALSE
        /\ queue \in Seq(Ids) /\ file \in Seq(Names)
        /\ pos_cache = [id \in Ids |-> 0]
    BY DEF Init
  <2>4. pos_cache \in [Ids -> Positions]
    BY <1>1, <2>3
  <2> QED
    BY <2>1, <2>2, <2>3, <2>4 DEF TypeOK
<1>3. EachOnce /\ IdsGiven /\ NoneTwice
  BY DEF Init, EachOnce, IdsGiven, NoneTwice, IsInjective, Range
<1>4. FileIsOrder
  BY DEF Init, FileIsOrder
<1> QED
  BY <1>2, <1>3, <1>4 DEF IInv

LEMMA AddKeeps ==
    ASSUME IInv, NEW t \in Torrents, NEW magnet \in BOOLEAN, Add(t, magnet)
    PROVE  IInv'
<1>1. /\ used \in 0..MaxId /\ used < MaxId /\ MaxId \in Nat /\ used' = used + 1
      /\ queue \in Seq(Ids) /\ IsInjective(queue) /\ Range(queue) = DOMAIN torrents
      /\ DOMAIN torrents \subseteq 1..used
  BY QueueAssumption DEF Add, IInv, TypeOK, EachOnce, IdsGiven
<1>2. used' \in Ids /\ used' \notin DOMAIN torrents /\ used' \in 0..MaxId
  BY <1>1 DEF Ids
<1>3. /\ torrents' = [id \in DOMAIN torrents \cup {used'} |-> IF id = used' THEN t ELSE torrents[id]]
      /\ DOMAIN torrents' = DOMAIN torrents \cup {used'}
      /\ \A id \in DOMAIN torrents : torrents[id] # t
      /\ queue' = Append(queue, used') /\ is_dirty' = TRUE
      /\ pos_cache' = pos_cache /\ file' = file /\ missed' = missed
      /\ magnets' = IF magnet THEN magnets \cup {t} ELSE magnets \ {t}
  BY DEF Add
<1>4. /\ queue' \in Seq(Ids) /\ Len(queue') = Len(queue) + 1
      /\ \A i \in 1..Len(queue) : queue'[i] = queue[i]
      /\ queue'[Len(queue) + 1] = used'
      /\ Len(queue) \in Nat /\ DOMAIN queue = 1..Len(queue) /\ DOMAIN queue' = 1..Len(queue) + 1
  BY <1>1, <1>2, <1>3, AppendProperties
<1>5. \A i \in 1..Len(queue) : queue[i] \in DOMAIN torrents /\ queue[i] # used'
  BY <1>1, <1>2, <1>4 DEF Range
<1>6. \A i \in 1..Len(queue) + 1 : i \in 1..Len(queue) \/ i = Len(queue) + 1
  BY <1>4
<1>7. EachOnce'
  <2>1. IsInjective(queue')
    BY <1>1, <1>4, <1>5, <1>6 DEF IsInjective
  <2>2. Range(queue') = Range(queue) \cup {used'}
    <3>1. ASSUME NEW x \in Range(queue') PROVE x \in Range(queue) \cup {used'}
      BY <1>4, <1>6 DEF Range
    <3>2. ASSUME NEW x \in Range(queue) \cup {used'} PROVE x \in Range(queue')
      <4>1. CASE x = used'
        <5>1. Len(queue) + 1 \in DOMAIN queue'
          BY <1>4
        <5> QED
          BY <1>4, <4>1, <5>1 DEF Range
      <4>2. CASE x # used'
        <5>1. PICK i \in 1..Len(queue) : queue[i] = x
          BY <1>4, <4>2 DEF Range
        <5>2. i \in DOMAIN queue'
          BY <1>4
        <5> QED
          BY <1>4, <5>1, <5>2 DEF Range
      <4> QED
        BY <4>1, <4>2
    <3> QED
      BY <3>1, <3>2
  <2> QED
    BY <1>1, <1>3, <2>1, <2>2 DEF EachOnce
<1>8. TypeOK'
  <2>1. torrents \in [DOMAIN torrents -> Torrents]
    BY DEF IInv, TypeOK
  <2>2. torrents' \in [DOMAIN torrents' -> Torrents]
    BY <1>3, <2>1
  <2>3. magnets' \subseteq Torrents
    BY <1>3 DEF IInv, TypeOK
  <2> QED
    BY <1>2, <1>3, <1>4, <2>2, <2>3 DEF IInv, TypeOK
<1>9. IdsGiven'
  BY <1>1, <1>3 DEF IdsGiven
<1>10. NoneTwice'
  <2>1. IsInjective(torrents')
    BY <1>2, <1>3 DEF IInv, NoneTwice, IsInjective
  <2> QED
    BY <1>3, <2>1 DEF IInv, NoneTwice
<1>11. FileIsOrder'
  BY <1>3 DEF FileIsOrder
<1> QED
  BY <1>7, <1>8, <1>9, <1>10, <1>11 DEF IInv

LEMMA GetMetainfoKeeps ==
    ASSUME IInv, NEW t \in Torrents, GetMetainfo(t)
    PROVE  IInv'
<1>1. /\ magnets' = magnets \ {t}
      /\ torrents' = torrents /\ used' = used /\ queue' = queue /\ pos_cache' = pos_cache
      /\ is_dirty' = is_dirty /\ file' = file /\ missed' = missed
  BY DEF GetMetainfo
<1>2. TypeOK' /\ EachOnce' /\ IdsGiven' /\ NoneTwice'
  BY <1>1 DEF IInv, TypeOK, EachOnce, IdsGiven, NoneTwice
<1>3. FileIsOrder'
  BY <1>1 DEF IInv, FileIsOrder
<1> QED
  BY <1>2, <1>3 DEF IInv

LEMMA FreeTorrentKeeps ==
    ASSUME IInv, NEW id \in DOMAIN torrents, FreeTorrent(id)
    PROVE  IInv'
<1>1. /\ queue \in Seq(Ids) /\ IsInjective(queue) /\ Range(queue) = DOMAIN torrents
      /\ pos_cache \in [Ids -> Positions] /\ DOMAIN torrents \subseteq Ids
      /\ torrents \in [DOMAIN torrents -> Torrents]
  BY DEF IInv, TypeOK, EachOnce
<1>2. /\ torrents' = [i \in DOMAIN torrents \ {id} |-> torrents[i]]
      /\ DOMAIN torrents' = DOMAIN torrents \ {id}
      /\ queue' = IF Holds(Now, id) THEN RemoveAt(queue, pos_cache[id] + 1)
                  ELSE Only(queue, Ids \ {id})
      /\ is_dirty' = TRUE
      /\ magnets' = magnets \ {torrents[id]}
      /\ pos_cache' = [pos_cache EXCEPT ![id] = 0]
      /\ used' = used /\ file' = file /\ missed' = missed
  BY DEF FreeTorrent
<1>3. queue' \in Seq(Ids) /\ IsInjective(queue') /\ Range(queue') = Range(queue) \ {id}
  <2>1. CASE Holds(Now, id)
    <3>1. pos_cache[id] < Len(queue) /\ queue[pos_cache[id] + 1] = id
      BY <2>1 DEF Holds, Now
    <3>2. pos_cache[id] \in Positions
      BY <1>1
    <3>3. pos_cache[id] + 1 \in 1..Len(queue)
      BY <1>1, <3>1, <3>2, TorrentsCount DEF Positions
    <3>4. queue' = RemoveAt(queue, pos_cache[id] + 1)
      BY <1>2, <2>1
    <3> QED
      BY <1>1, <3>1, <3>3, <3>4, RemoveAtKeeps
  <2>2. CASE ~Holds(Now, id)
    <3>1. queue' = Only(queue, Ids \ {id})
      BY <1>2, <2>2
    <3>2. /\ queue' \in Seq(Ids) /\ IsInjective(queue')
          /\ Range(queue') = Range(queue) \cap (Ids \ {id})
      BY <1>1, <3>1, OnlyFacts
    <3> QED
      BY <1>1, <3>2
  <2> QED
    BY <2>1, <2>2
<1>4. TypeOK'
  <2>1. torrents' \in [DOMAIN torrents' -> Torrents] /\ DOMAIN torrents' \subseteq Ids
    BY <1>1, <1>2
  <2>2. magnets' \subseteq Torrents
    BY <1>2 DEF IInv, TypeOK
  <2>3. 0 \in Positions
    BY TorrentsCount DEF Positions
  <2>4. pos_cache' \in [Ids -> Positions]
    BY <1>1, <1>2, <2>3
  <2> QED
    BY <1>2, <1>3, <2>1, <2>2, <2>4 DEF IInv, TypeOK
<1>5. EachOnce'
  BY <1>1, <1>2, <1>3 DEF EachOnce
<1>6. IdsGiven' /\ NoneTwice'
  BY <1>2 DEF IInv, IdsGiven, NoneTwice, IsInjective
<1>7. FileIsOrder'
  BY <1>2 DEF FileIsOrder
<1> QED
  BY <1>4, <1>5, <1>6, <1>7 DEF IInv

-----------------------------------------------------------------------------
(* Loading.                                                                *)

\* The files of the torrents there are: as many at most as there are ids, and one name
\* only for each torrent.
LEMMA StoredFacts ==
    ASSUME TypeOK
    PROVE  /\ Stored \subseteq Names
           /\ IsFiniteSet(Stored) /\ Cardinality(Stored) \in Nat /\ Cardinality(Stored) <= MaxId
           /\ \A n \in Stored : n.tor \in Torrents /\ n = Name(n.tor)
<1> DEFINE f == [id \in DOMAIN torrents |-> Name(torrents[id])]
<1>1. /\ DOMAIN torrents \subseteq Ids /\ torrents \in [DOMAIN torrents -> Torrents]
  BY DEF TypeOK
<1>2. \A id \in DOMAIN torrents : torrents[id] \in Torrents
  BY <1>1
<1>3. \A t \in Torrents : Name(t) \in Names /\ Name(t).tor = t
  BY DEF Name, Names
<1>4. Stored \subseteq Names /\ \A n \in Stored : n.tor \in Torrents /\ n = Name(n.tor)
  BY <1>2, <1>3 DEF Stored
<1>5. f \in Surjection(DOMAIN torrents, Stored)
  BY DEF Surjection, Stored
<1> HIDE DEF f
<1>6. IsFiniteSet(Ids) /\ Cardinality(Ids) = MaxId
  BY QueueAssumption, CountUpTo DEF Ids
<1>7. IsFiniteSet(DOMAIN torrents) /\ Cardinality(DOMAIN torrents) <= MaxId
  BY <1>1, <1>6, FS_Subset
<1>8. IsFiniteSet(Stored) /\ Cardinality(Stored) <= Cardinality(DOMAIN torrents)
  BY <1>5, <1>7, FS_Surjection
<1>9. Cardinality(Stored) \in Nat /\ Cardinality(DOMAIN torrents) \in Nat /\ MaxId \in Nat
  BY <1>7, <1>8, FS_CardinalityType, QueueAssumption
<1> QED
  BY <1>4, <1>7, <1>8, <1>9

\* Of two names one is before the other.
LEMMA NamesOrdered ==
    ASSUME NEW S, S \subseteq Names
    PROVE  IsOrderOf({p \in S \X S : IsBefore(p[1], p[2])}, S)
<1> DEFINE R == {p \in S \X S : IsBefore(p[1], p[2])}
<1>1. \A m, n \in S : <<m, n>> \in R <=> IsBefore(m, n)
  OBVIOUS
<1>2. \A n \in S : /\ n.tor \in Int /\ n.magnet \in BOOLEAN
                   /\ n = [tor |-> n.tor, magnet |-> n.magnet]
  <2>1. SUFFICES ASSUME NEW n \in Names
                 PROVE  n.tor \in Int /\ n.magnet \in BOOLEAN /\ n = [tor |-> n.tor, magnet |-> n.magnet]
    OBVIOUS
  <2>2. n \in [tor : Torrents, magnet : BOOLEAN]
    BY DEF Names
  <2>3. n.tor \in Torrents /\ n.magnet \in BOOLEAN /\ n = [tor |-> n.tor, magnet |-> n.magnet]
    BY <2>2
  <2> QED
    BY <2>3, QueueAssumption
<1> HIDE DEF R
<1>3. \A x, y \in S : IsBefore(x, y) => ~IsBefore(y, x)
  BY <1>2 DEF IsBefore
<1>4. \A x, y, z \in S : IsBefore(x, y) /\ IsBefore(y, z) => IsBefore(x, z)
  BY <1>2 DEF IsBefore
<1>5. ASSUME NEW x \in S, NEW y \in S, x # y PROVE IsBefore(x, y) \/ IsBefore(y, x)
  <2>1. x.tor # y.tor \/ x.magnet # y.magnet
    BY <1>2, <1>5
  <2> QED
    BY <1>2, <2>1 DEF IsBefore
<1>6. IsOrderOf(R, S)
  BY <1>1, <1>3, <1>4, <1>5 DEF IsOrderOf
<1> QED
  BY <1>6 DEF R

\* get_remaining_files(): every stored name once that the file does not have.
LEMMA RemainingFacts ==
    ASSUME TypeOK, NEW f
    PROVE  /\ Remaining(f) \in Seq(Names) /\ IsInjective(Remaining(f))
           /\ Range(Remaining(f)) = Stored \ Range(f)
<1> DEFINE S == Stored \ Range(f)
           R == {p \in S \X S : IsBefore(p[1], p[2])}
           r == Remaining(f)
<1>1. S \subseteq Names /\ IsFiniteSet(S)
  BY StoredFacts, FS_Subset
<1>2. \A m, n \in S : <<m, n>> \in R <=> IsBefore(m, n)
  OBVIOUS
<1>3. IsOrderOf(R, S)
  BY <1>1, NamesOrdered
<1> HIDE DEF R
<1>4. \E o \in [1..Cardinality(S) -> S] : \A i, j \in DOMAIN o : i < j => IsBefore(o[i], o[j])
  <2>1. PICK o \in SetToSeqs(S) : Rises(o, R)
    BY <1>1, <1>3, ArrangedExists
  <2>2. o \in [1..Cardinality(S) -> S]
    BY <1>1, EachIsThere
  <2> QED
    BY <1>2, <2>1, <2>2 DEF Rises
<1>5. r \in [1..Cardinality(S) -> S] /\ \A i, j \in DOMAIN r : i < j => IsBefore(r[i], r[j])
  BY <1>4 DEF Remaining, Arranged
<1> HIDE DEF r, S
<1>6. Rises(r, R)
  BY <1>2, <1>5 DEF Rises
<1>7. r \in SetToSeqs(S)
  BY <1>1, <1>3, <1>5, <1>6, RisesEachOnce
<1>8. /\ Cardinality(S) \in Nat /\ r \in [1..Cardinality(S) -> S] /\ IsInjective(r)
      /\ DOMAIN r = 1..Cardinality(S)
      /\ \A x \in S : \E i \in DOMAIN r : r[i] = x
  BY <1>1, <1>7, EachIsThere
<1>9. r \in [1..Cardinality(S) -> Names]
  BY <1>1, <1>8
<1>10. r \in Seq(Names)
  BY <1>8, <1>9, FunctionIsSeq
<1>11. Range(r) = S
  BY <1>8 DEF Range
<1> QED
  BY <1>8, <1>10, <1>11 DEF r, S

\* session_load_torrents(): every stored name once, those of the file as they stand there.
LEMMA LoadFacts ==
    ASSUME TypeOK, NEW f \in Seq(Names), IsInjective(f)
    PROVE  /\ LoadOrder(f) \in Seq(Names) /\ IsInjective(LoadOrder(f))
           /\ Range(LoadOrder(f)) = Stored
           /\ Len(LoadOrder(f)) \in 0..MaxId
           /\ DOMAIN LoadOrder(f) = 1..Len(LoadOrder(f))
           /\ SameOrder(f, LoadOrder(f), Range(f) \cap Stored)
<1> DEFINE o == Only(f, Stored)
           r == Remaining(f)
           names == LoadOrder(f)
<1>1. names = o \o r
  BY DEF LoadOrder
<1>2. /\ o \in Seq(Names) /\ IsInjective(o) /\ Range(o) = Range(f) \cap Stored
      /\ \A i, j \in DOMAIN o : i < j => \E k, l \in DOMAIN f : k < l /\ o[i] = f[k] /\ o[j] = f[l]
  BY OnlyFacts
<1>3. r \in Seq(Names) /\ IsInjective(r) /\ Range(r) = Stored \ Range(f)
  BY RemainingFacts
<1> HIDE DEF names, o, r
<1>4. /\ names \in Seq(Names) /\ Len(names) = Len(o) + Len(r)
      /\ \A i \in 1..Len(o) + Len(r) : names[i] = IF i <= Len(o) THEN o[i] ELSE r[i - Len(o)]
  BY <1>1, <1>2, <1>3, ConcatProperties
<1>5. /\ Len(o) \in Nat /\ DOMAIN o = 1..Len(o) /\ Len(r) \in Nat /\ DOMAIN r = 1..Len(r)
      /\ DOMAIN names = 1..Len(o) + Len(r) /\ Len(names) \in Nat
  BY <1>2, <1>3, <1>4
<1>6. \A i \in 1..Len(o) : i \in DOMAIN names /\ names[i] = o[i] /\ o[i] \in Range(o)
  BY <1>4, <1>5 DEF Range
<1>7. ASSUME NEW i \in DOMAIN names, ~(i <= Len(o))
      PROVE  i - Len(o) \in DOMAIN r /\ names[i] = r[i - Len(o)] /\ r[i - Len(o)] \in Range(r)
  <2>1. i - Len(o) \in DOMAIN r
    BY <1>5, <1>7
  <2> QED
    BY <1>4, <1>5, <1>7, <2>1 DEF Range
<1>8. Range(o) \cap Range(r) = {}
  BY <1>2, <1>3
<1>9. IsInjective(names)
  <2>1. SUFFICES ASSUME NEW i \in DOMAIN names, NEW j \in DOMAIN names, names[i] = names[j]
                 PROVE  i = j
    BY DEF IsInjective
  <2>2. i \in Int /\ j \in Int /\ 1 <= i /\ 1 <= j
    BY <1>5
  <2>3. CASE i <= Len(o) /\ j <= Len(o)
    <3>1. i \in 1..Len(o) /\ j \in 1..Len(o)
      BY <1>5, <2>2, <2>3
    <3> QED
      BY <1>2, <1>5, <1>6, <2>1, <3>1 DEF IsInjective
  <2>4. CASE ~(i <= Len(o)) /\ ~(j <= Len(o))
    <3>1. i - Len(o) = j - Len(o)
      BY <1>3, <1>7, <2>1, <2>4 DEF IsInjective
    <3> QED
      BY <1>5, <2>2, <3>1
  <2>5. CASE i <= Len(o) /\ ~(j <= Len(o))
    <3>1. i \in 1..Len(o)
      BY <1>5, <2>2, <2>5
    <3> QED
      BY <1>6, <1>7, <1>8, <2>1, <2>5, <3>1
  <2>6. CASE ~(i <= Len(o)) /\ j <= Len(o)
    <3>1. j \in 1..Len(o)
      BY <1>5, <2>2, <2>6
    <3> QED
      BY <1>6, <1>7, <1>8, <2>1, <2>6, <3>1
  <2> QED
    BY <2>3, <2>4, <2>5, <2>6
<1>10. Range(names) = Stored
  <2>1. Range(names) = Range(o) \cup Range(r)
    BY <1>1, <1>2, <1>3, RangeConcatenation
  <2> QED
    BY <1>2, <1>3, <2>1
<1>11. Len(names) \in 0..MaxId
  <2>1. names \in [1..Len(names) -> Stored]
    <3>1. names \in [1..Len(names) -> Names] /\ DOMAIN names = 1..Len(names)
      BY <1>4, LenProperties
    <3>2. \A i \in 1..Len(names) : names[i] \in Stored
      BY <1>10, <3>1 DEF Range
    <3> QED
      BY <3>1, <3>2
  <2>2. names \in Injection(1..Len(names), Stored)
    BY <1>9, <2>1 DEF Injection
  <2>3. Cardinality(1..Len(names)) = Len(names)
    BY <1>5, CountUpTo
  <2>4. /\ IsFiniteSet(Stored) /\ Cardinality(Stored) \in Nat /\ Cardinality(Stored) <= MaxId
    BY StoredFacts
  <2>5. Cardinality(1..Len(names)) <= Cardinality(Stored)
    BY <2>2, <2>4, FS_Injection
  <2> QED
    BY <1>5, <2>3, <2>4, <2>5, QueueAssumption
<1>12. SameOrder(f, names, Range(f) \cap Stored)
  <2>1. SameOrder(o, f, Range(f) \cap Stored)
    <3>1. SUFFICES ASSUME NEW i \in DOMAIN o, NEW j \in DOMAIN o, NEW k \in DOMAIN f, NEW l \in DOMAIN f,
                          o[i] = f[k], o[j] = f[l], i < j
                   PROVE  k < l
      BY DEF SameOrder
    <3>2. PICK g, h \in DOMAIN f : g < h /\ o[i] = f[g] /\ o[j] = f[h]
      BY <1>2, <3>1
    <3> QED
      BY <3>1, <3>2 DEF IsInjective
  <2>2. SameOrder(f, o, Range(f) \cap Stored)
    BY <1>2, <2>1, SameOrderBack
  <2>3. SUFFICES ASSUME NEW i \in DOMAIN f, NEW j \in DOMAIN f, NEW k \in DOMAIN names, NEW l \in DOMAIN names,
                        f[i] \in Range(f) \cap Stored, f[j] \in Range(f) \cap Stored,
                        f[i] = names[k], f[j] = names[l], i < j
                 PROVE  k < l
    BY DEF SameOrder
  <2>4. k <= Len(o) /\ l <= Len(o)
    BY <1>3, <1>7, <2>3
  <2>5. k \in DOMAIN o /\ l \in DOMAIN o
    BY <1>5, <2>4
  <2>6. names[k] = o[k] /\ names[l] = o[l]
    BY <1>5, <1>6, <2>5
  <2> QED
    BY <2>2, <2>3, <2>5, <2>6 DEF SameOrder
<1>13. DOMAIN names = 1..Len(names)
  BY <1>4, <1>5
<1> QED
  BY <1>4, <1>9, <1>10, <1>11, <1>12, <1>13 DEF names

\* A new session, whatever the file is.
LEMMA LoadKeeps ==
    ASSUME IInv, LoadTorrents, file' \in Seq(Names), IsInjective(file)', missed' \in BOOLEAN
    PROVE  IInv'
<1> DEFINE names == LoadOrder(file')
<1>1. TypeOK
  BY DEF IInv
<1>2. /\ names \in Seq(Names) /\ IsInjective(names) /\ Range(names) = Stored
      /\ Len(names) \in 0..MaxId /\ DOMAIN names = 1..Len(names)
  BY <1>1, LoadFacts
<1>3. /\ torrents' = [i \in DOMAIN names |-> names[i].tor]
      /\ used' = Len(names)
      /\ queue' = [i \in DOMAIN names |-> i]
      /\ pos_cache' = [id \in Ids |-> 0]
      /\ is_dirty' = (names # <<>>)
      /\ magnets' = magnets
  BY DEF LoadTorrents
<1> HIDE DEF names
<1>4. \A i \in DOMAIN names : names[i] \in Stored
  BY <1>2 DEF Range
<1>5. \A n \in Stored : n.tor \in Torrents /\ n = Name(n.tor)
  BY <1>1, StoredFacts
<1>6. Len(names) \in Nat /\ 1..Len(names) \subseteq Ids
  BY <1>2, QueueAssumption DEF Ids
<1>7. queue' \in Seq(Ids) /\ DOMAIN queue' = DOMAIN names
  <2>1. queue' \in [1..Len(names) -> Ids]
    BY <1>2, <1>3, <1>6
  <2> QED
    BY <1>2, <1>6, <2>1, FunctionIsSeq
<1>8. TypeOK'
  <2>1. DOMAIN torrents' = DOMAIN names /\ torrents' \in [DOMAIN torrents' -> Torrents]
    BY <1>3, <1>4, <1>5
  <2>2. 0 \in Positions
    BY TorrentsCount DEF Positions
  <2>3. pos_cache' \in [Ids -> Positions]
    BY <1>3, <2>2
  <2> QED
    BY <1>2, <1>3, <1>6, <1>7, <2>1, <2>3 DEF IInv, TypeOK
<1>9. EachOnce'
  BY <1>3 DEF EachOnce, IsInjective, Range
<1>10. IdsGiven'
  BY <1>2, <1>3 DEF IdsGiven
<1>11. NoneTwice'
  <2>1. ASSUME NEW i \in DOMAIN names, NEW j \in DOMAIN names, names[i].tor = names[j].tor
        PROVE  i = j
    <3>1. names[i] = Name(names[i].tor) /\ names[j] = Name(names[j].tor)
      BY <1>4, <1>5
    <3>2. names[i] = names[j]
      BY <2>1, <3>1
    <3> QED
      BY <1>2, <3>2 DEF IsInjective
  <2> QED
    BY <1>3, <2>1 DEF NoneTwice, IsInjective
<1>12. FileIsOrder'
  <2>1. CASE names = <<>>
    <3>1. DOMAIN names = {}
      BY <2>1
    <3> QED
      BY <1>7, <3>1 DEF FileIsOrder
  <2>2. CASE names # <<>>
    BY <1>3, <2>2 DEF FileIsOrder
  <2> QED
    BY <2>1, <2>2
<1> QED
  BY <1>8, <1>9, <1>10, <1>11, <1>12 DEF IInv

\* The names of the queue, each once.
LEMMA NamesOfQueue ==
    ASSUME TypeOK, EachOnce, NoneTwice
    PROVE  /\ NamesOf(queue) \in Seq(Names) /\ IsInjective(NamesOf(queue))
           /\ Range(NamesOf(queue)) = Stored
           /\ Len(NamesOf(queue)) = Len(queue) /\ DOMAIN NamesOf(queue) = DOMAIN queue
           /\ \A i \in DOMAIN queue : /\ NamesOf(queue)[i] = Name(torrents[queue[i]])
                                      /\ NamesOf(queue)[i].tor = torrents[queue[i]]
<1> DEFINE nq == NamesOf(queue)
<1>1. /\ queue \in Seq(Ids) /\ Len(queue) \in Nat /\ DOMAIN queue = 1..Len(queue)
      /\ IsInjective(queue) /\ Range(queue) = DOMAIN torrents
      /\ torrents \in [DOMAIN torrents -> Torrents] /\ IsInjective(torrents)
  BY DEF TypeOK, EachOnce, NoneTwice
<1>2. \A i \in DOMAIN queue : queue[i] \in DOMAIN torrents /\ torrents[queue[i]] \in Torrents
  BY <1>1 DEF Range
<1>3. \A t \in Torrents : Name(t) \in Names /\ Name(t).tor = t
  BY DEF Name, Names
<1>4. nq = [i \in DOMAIN queue |-> Name(torrents[queue[i]])]
  BY DEF NamesOf
<1> HIDE DEF nq
<1>5. nq \in [1..Len(queue) -> Names] /\ DOMAIN nq = DOMAIN queue
  BY <1>1, <1>2, <1>3, <1>4
<1>6. nq \in Seq(Names) /\ Len(nq) = Len(queue)
  BY <1>1, <1>5, FunctionIsSeq
<1>7. \A i \in DOMAIN queue : nq[i] = Name(torrents[queue[i]]) /\ nq[i].tor = torrents[queue[i]]
  BY <1>2, <1>3, <1>4
<1>8. IsInjective(nq)
  <2>1. SUFFICES ASSUME NEW i \in DOMAIN queue, NEW j \in DOMAIN queue, nq[i] = nq[j] PROVE i = j
    BY <1>5 DEF IsInjective
  <2>2. torrents[queue[i]] = torrents[queue[j]]
    BY <1>7, <2>1
  <2>3. queue[i] = queue[j]
    BY <1>1, <1>2, <2>2 DEF IsInjective
  <2> QED
    BY <1>1, <2>3 DEF IsInjective
<1>9. Range(nq) = Stored
  <2>1. ASSUME NEW n \in Stored PROVE n \in Range(nq)
    <3>1. PICK id \in Range(queue) : n = Name(torrents[id])
      BY <1>1 DEF Stored
    <3>2. PICK i \in DOMAIN queue : queue[i] = id
      BY DEF Range
    <3> QED
      BY <1>5, <1>7, <3>1, <3>2 DEF Range
  <2>2. ASSUME NEW n \in Range(nq) PROVE n \in Stored
    BY <1>2, <1>5, <1>7 DEF Range, Stored
  <2> QED
    BY <2>1, <2>2
<1> QED
  BY <1>5, <1>6, <1>7, <1>8, <1>9 DEF nq

\* to_file() writes the names of the queue, or fails.
LEMMA ToFileFacts ==
    ASSUME IInv, ToFile
    PROVE  file' \in Seq(Names) /\ IsInjective(file)' /\ missed' \in BOOLEAN
<1>1. /\ file \in Seq(Names) /\ IsInjective(file) /\ missed \in BOOLEAN
  BY DEF IInv, TypeOK, NoneTwice
<1>2. NamesOf(queue) \in Seq(Names) /\ IsInjective(NamesOf(queue))
  BY NamesOfQueue DEF IInv
<1>3. (file' = file \/ file' = NamesOf(queue)) /\ missed' \in BOOLEAN
  BY <1>1 DEF ToFile
<1>4. CASE file' = file
  BY <1>1, <1>3, <1>4
<1>5. CASE file' = NamesOf(queue)
  <2>1. file' \in Seq(Names)
    BY <1>2, <1>5
  <2>2. IsInjective(file)' <=> IsInjective(file')
    BY DEF IsInjective
  <2> QED
    BY <1>2, <1>3, <1>5, <2>1, <2>2
<1> QED
  BY <1>3, <1>4, <1>5

LEMMA SaveTimerKeeps ==
    ASSUME IInv, SaveTimer
    PROVE  IInv'
<1>1. /\ ToFile /\ is_dirty' = FALSE
      /\ torrents' = torrents /\ used' = used /\ magnets' = magnets
      /\ queue' = queue /\ pos_cache' = pos_cache
  BY DEF SaveTimer
<1>2. file' \in Seq(Names) /\ IsInjective(file)' /\ missed' \in BOOLEAN
  BY <1>1, ToFileFacts
<1>3. TypeOK' /\ EachOnce' /\ IdsGiven' /\ NoneTwice'
  BY <1>1, <1>2 DEF IInv, TypeOK, EachOnce, IdsGiven, NoneTwice
<1>4. FileIsOrder'
  <2>1. CASE ~is_dirty
    <3>1. file' = file /\ missed' = missed
      BY <1>1, <2>1 DEF ToFile
    <3> QED
      BY <1>1, <2>1, <3>1 DEF IInv, FileIsOrder
  <2>2. CASE is_dirty /\ file' = NamesOf(queue)
    <3>1. /\ Len(NamesOf(queue)) = Len(queue)
          /\ \A i \in DOMAIN queue : /\ NamesOf(queue)[i] = Name(torrents[queue[i]])
                                     /\ NamesOf(queue)[i].tor = torrents[queue[i]]
      BY NamesOfQueue DEF IInv
    <3>2. \A t \in magnets : Name(t).magnet
      BY DEF Name
    <3> QED
      BY <1>1, <2>2, <3>1, <3>2 DEF FileIsOrder
  <2>3. CASE is_dirty /\ file' # NamesOf(queue)
    <3>1. missed' = TRUE
      BY <1>1, <2>3 DEF ToFile
    <3> QED
      BY <3>1 DEF FileIsOrder
  <2> QED
    BY <2>1, <2>2, <2>3
<1> QED
  BY <1>3, <1>4 DEF IInv

LEMMA StepIInv ==
    ASSUME IInv, [Next]_vars
    PROVE  IInv'
<1>1. Good(Now) /\ Now.queue = queue
  BY NowIsGood DEF IInv
<1>2. ASSUME NEW t \in Torrents, Add(t, FALSE) PROVE IInv'
  BY <1>2, AddKeeps
<1>3. ASSUME NEW t \in MayBeMagnets, Add(t, TRUE) PROVE IInv'
  <2>1. t \in Torrents
    BY QueueAssumption
  <2> QED
    BY <1>3, <2>1, AddKeeps
<1>4. ASSUME NEW t \in Torrents, GetMetainfo(t) PROVE IInv'
  BY <1>4, GetMetainfoKeeps
<1>5. ASSUME NEW id \in DOMAIN torrents, FreeTorrent(id) PROVE IInv'
  BY <1>5, FreeTorrentKeeps
<1>6. ASSUME NEW id \in DOMAIN torrents, NEW pos \in Positions, SetQueuePosition(id, pos)
      PROVE  IInv'
  <2>1. id \in Range(Now.queue) /\ pos \in Nat
    BY <1>1, TorrentsCount DEF IInv, EachOnce, Positions
  <2>2. Reaches(Now, SetPos(Now, id, pos), Ids \ {id})
    BY <1>1, <2>1, SetPosFacts
  <2>3. Becomes(SetPos(Now, id, pos))
    BY <1>6 DEF SetQueuePosition
  <2> QED
    BY <2>2, <2>3, BecomesKeeps
<1>7. ASSUME NEW batch \in Batches,
             MoveTop(batch) \/ MoveUp(batch) \/ MoveDown(batch) \/ MoveBottom(batch)
      PROVE  IInv'
  <2>1. IsFiniteSet(batch) /\ Cardinality(batch) = 2 /\ batch \subseteq Range(Now.queue)
    BY <1>1, BatchIsThere DEF IInv
  <2>2. /\ Reaches(Now, ToTop(Now, batch), Ids \ batch)
        /\ Reaches(Now, Up(Now, batch), Ids \ batch)
        /\ Reaches(Now, Down(Now, batch), Ids \ batch)
        /\ Reaches(Now, ToBottom(Now, batch), Ids \ batch)
    BY <1>1, <2>1, TopFacts, UpDownFacts, BottomFacts
  <2>3. CASE MoveTop(batch)
    BY <2>2, <2>3, BecomesKeeps DEF MoveTop
  <2>4. CASE MoveUp(batch)
    BY <2>2, <2>4, BecomesKeeps DEF MoveUp
  <2>5. CASE MoveDown(batch)
    BY <2>2, <2>5, BecomesKeeps DEF MoveDown
  <2>6. CASE MoveBottom(batch)
    BY <2>2, <2>6, BecomesKeeps DEF MoveBottom
  <2> QED
    BY <1>7, <2>3, <2>4, <2>5, <2>6
<1>8. CASE SaveTimer
  BY <1>8, SaveTimerKeeps
<1>9. CASE CloseAndLoad
  BY <1>9, ToFileFacts, LoadKeeps DEF CloseAndLoad
<1>10. CASE CrashAndLoad
  <2>1. file' = file /\ missed' = missed /\ LoadTorrents
    BY <1>10 DEF CrashAndLoad
  <2>2. file' \in Seq(Names) /\ IsInjective(file)' /\ missed' \in BOOLEAN
    BY <2>1 DEF IInv, TypeOK, NoneTwice
  <2> QED
    BY <2>1, <2>2, LoadKeeps
<1>11. CASE UNCHANGED vars
  BY <1>11 DEF vars, IInv, TypeOK, EachOnce, IdsGiven, NoneTwice, FileIsOrder
<1> QED
  BY <1>2, <1>3, <1>4, <1>5, <1>6, <1>7, <1>8, <1>9, <1>10, <1>11 DEF Next

-----------------------------------------------------------------------------
(* Theorems.                                                               *)

\* The invariant holds of every session, through closes, crashes and failed saves.
THEOREM Invariance == Spec => []IInv
<1>1. Init => IInv
  BY InitIInv
<1>2. IInv /\ [Next]_vars => IInv'
  BY StepIInv
<1> QED
  BY <1>1, <1>2, PTL DEF Spec

\* Every variable has its type: no id is given past the last one, no position past the
\* torrents is cached.
THEOREM TypeCorrect == Spec => []TypeOK
<1>1. IInv => TypeOK
  BY DEF IInv
<1> QED
  BY <1>1, Invariance, PTL

\* Every torrent of the session has one place in the queue, however stale the cached
\* positions are (remove(), set_pos()).
THEOREM EachHasOnePlace == Spec => []EachOnce
<1>1. IInv => EachOnce
  BY DEF IInv
<1> QED
  BY <1>1, Invariance, PTL

\* A batch goes to the front or the back as it stands, and no move of a batch changes
\* the order of the others (tr_torrentsQueueMove...(), get_pos()).
THEOREM BatchesStay == Spec => []BatchesStayInOrder
<1>1. IInv => BatchesStayInOrder
  <2> SUFFICES ASSUME IInv PROVE BatchesStayInOrder
    OBVIOUS
  <2>1. Good(Now) /\ Now.queue = queue
    BY NowIsGood DEF IInv
  <2>2. SUFFICES ASSUME NEW batch \in Batches
                 PROVE  /\ ToTop(Now, batch).queue = Only(queue, batch) \o Others(queue, batch)
                        /\ ToBottom(Now, batch).queue = Others(queue, batch) \o Only(queue, batch)
                        /\ Others(Up(Now, batch).queue, batch) = Others(queue, batch)
                        /\ Others(Down(Now, batch).queue, batch) = Others(queue, batch)
    BY DEF BatchesStayInOrder
  <2>3. IsFiniteSet(batch) /\ Cardinality(batch) = 2 /\ batch \subseteq Range(Now.queue)
    BY <2>1, BatchIsThere DEF IInv
  <2>4. ToTop(Now, batch).queue = Only(queue, batch) \o Others(queue, batch)
    BY <2>1, <2>3, TopFacts DEF Others
  <2>5. ToBottom(Now, batch).queue = Others(queue, batch) \o Only(queue, batch)
    BY <2>1, <2>3, BottomFacts DEF Others
  <2>6. Reaches(Now, Up(Now, batch), Ids \ batch) /\ Reaches(Now, Down(Now, batch), Ids \ batch)
    BY <2>1, <2>3, UpDownFacts
  <2>7. /\ Others(Up(Now, batch).queue, batch) = Others(queue, batch)
        /\ Others(Down(Now, batch).queue, batch) = Others(queue, batch)
    BY <2>1, <2>6, OthersStay
  <2> QED
    BY <2>4, <2>5, <2>7
<1> QED
  BY <1>1, Invariance, PTL

\* If a file has the torrents of the queue in its order, they are loaded in that order.
LEMMA FileOrderLoads ==
    ASSUME TypeOK, EachOnce, NoneTwice, NEW f \in Seq(Names), IsInjective(f),
           DOMAIN queue # {} =>
             /\ Len(f) = Len(queue)
             /\ \A i \in DOMAIN queue : f[i].tor = torrents[queue[i]]
    PROVE  SameOrder(NamesOf(queue), LoadOrder(f), Range(f) \cap Stored)
<1> DEFINE nq == NamesOf(queue)
           names == LoadOrder(f)
           E == Range(f) \cap Stored
<1>1. /\ nq \in Seq(Names) /\ IsInjective(nq) /\ Range(nq) = Stored
      /\ DOMAIN nq = DOMAIN queue
      /\ \A i \in DOMAIN queue : nq[i] = Name(torrents[queue[i]]) /\ nq[i].tor = torrents[queue[i]]
  BY NamesOfQueue
<1>2. SameOrder(f, names, E)
  BY LoadFacts
<1>3. queue \in Seq(Ids) /\ IsInjective(queue) /\ Range(queue) = DOMAIN torrents /\ IsInjective(torrents)
  BY DEF TypeOK, EachOnce, NoneTwice
<1> HIDE DEF nq, names, E
<1>4. ASSUME NEW i \in DOMAIN nq, nq[i] \in E PROVE i \in DOMAIN f /\ f[i] = nq[i]
  <2>1. i \in DOMAIN queue /\ DOMAIN queue # {}
    BY <1>1, <1>4
  <2>2. DOMAIN f = DOMAIN queue /\ \A j \in DOMAIN queue : f[j].tor = torrents[queue[j]]
    BY <1>3, <2>1
  <2>3. PICK j \in DOMAIN queue : f[j] = nq[i]
    BY <1>4, <2>2 DEF E, Range
  <2>4. torrents[queue[j]] = torrents[queue[i]]
    BY <1>1, <2>1, <2>2, <2>3
  <2>5. queue[j] = queue[i]
    BY <1>3, <2>1, <2>4 DEF IsInjective, Range
  <2>6. j = i
    BY <1>3, <2>1, <2>5 DEF IsInjective
  <2> QED
    BY <2>1, <2>2, <2>3, <2>6
<1>5. SameOrder(nq, names, E)
  <2>1. SUFFICES ASSUME NEW i \in DOMAIN nq, NEW j \in DOMAIN nq, NEW k \in DOMAIN names, NEW l \in DOMAIN names,
                        nq[i] \in E, nq[j] \in E, nq[i] = names[k], nq[j] = names[l], i < j
                 PROVE  k < l
    BY DEF SameOrder
  <2>2. i \in DOMAIN f /\ f[i] = nq[i] /\ j \in DOMAIN f /\ f[j] = nq[j]
    BY <1>4, <2>1
  <2> QED
    BY <1>2, <2>1, <2>2 DEF SameOrder
<1> QED
  BY <1>5 DEF nq, names, E

\* After a crash the torrents are loaded in the order in which they were, as far as
\* their files have the names that queue.json says, unless a save failed or one is due.
THEOREM OrderComesBack == Spec => []OrderSurvives
<1>1. IInv => OrderSurvives
  <2> SUFFICES ASSUME IInv, ~is_dirty, ~missed PROVE OrderSurvives
    BY DEF OrderSurvives
  <2> DEFINE E == Range(file) \cap Stored
  <2>1. file \in Seq(Names) /\ IsInjective(file)
    BY DEF IInv, TypeOK, NoneTwice
  <2>2. /\ DOMAIN queue # {} =>
             /\ Len(file) = Len(queue)
             /\ \A i \in DOMAIN queue : file[i].tor = torrents[queue[i]]
    BY DEF IInv, FileIsOrder
  <2>3. SameOrder(NamesOf(queue), LoadOrder(file), E)
    BY <2>1, <2>2, FileOrderLoads DEF IInv
  <2>4. /\ NamesOf(queue) \in Seq(Names) /\ IsInjective(NamesOf(queue))
        /\ Range(NamesOf(queue)) = Stored
    BY NamesOfQueue DEF IInv
  <2>5. /\ LoadOrder(file) \in Seq(Names) /\ IsInjective(LoadOrder(file))
        /\ Range(LoadOrder(file)) = Stored
    BY <2>1, LoadFacts DEF IInv
  <2> HIDE DEF E
  <2>6. Only(NamesOf(queue), E) = Only(LoadOrder(file), E)
    BY <2>3, <2>4, <2>5, OnlySame
  <2> QED
    BY <2>6 DEF OrderSurvives, E
<1> QED
  BY <1>1, Invariance, PTL

-----------------------------------------------------------------------------
(* The order between sessions, if there are no magnet links.               *)

NoMagnets == magnets = {} /\ \A i \in DOMAIN file : ~file[i].magnet

LEMMA NamedNoMagnets ==
    ASSUME magnets = {}
    PROVE  \A i \in DOMAIN NamesOf(queue) : ~NamesOf(queue)[i].magnet
  BY DEF NamesOf, Name

LEMMA NoMagnetsKept ==
    ASSUME MayBeMagnets = {}, NoMagnets, [Next]_vars
    PROVE  NoMagnets'
<1>1. magnets = {} /\ \A i \in DOMAIN file : ~file[i].magnet
  BY DEF NoMagnets
<1>2. ASSUME ToFile, magnets' = magnets PROVE NoMagnets'
  <2>1. file' = file \/ file' = NamesOf(queue)
    BY <1>2 DEF ToFile
  <2> QED
    BY <1>1, <1>2, <2>1, NamedNoMagnets DEF NoMagnets
<1>3. ASSUME file' = file, magnets' \subseteq magnets PROVE NoMagnets'
  BY <1>1, <1>3 DEF NoMagnets
<1>4. CASE UNCHANGED vars
  BY <1>3, <1>4 DEF vars
<1>5. ASSUME NEW t \in Torrents, Add(t, FALSE) PROVE NoMagnets'
  BY <1>3, <1>5 DEF Add
<1>6. ASSUME NEW t \in Torrents, GetMetainfo(t) PROVE NoMagnets'
  BY <1>3, <1>6 DEF GetMetainfo
<1>7. ASSUME NEW id \in DOMAIN torrents, FreeTorrent(id) PROVE NoMagnets'
  BY <1>3, <1>7 DEF FreeTorrent
<1>8. ASSUME NEW s, Becomes(s) PROVE NoMagnets'
  BY <1>3, <1>8 DEF Becomes
<1>9. ASSUME NEW id \in DOMAIN torrents, NEW pos \in Positions, SetQueuePosition(id, pos) PROVE NoMagnets'
  BY <1>8, <1>9 DEF SetQueuePosition
<1>10. ASSUME NEW b \in Batches, MoveTop(b) \/ MoveUp(b) \/ MoveDown(b) \/ MoveBottom(b) PROVE NoMagnets'
  BY <1>8, <1>10 DEF MoveTop, MoveUp, MoveDown, MoveBottom
<1>11. CASE SaveTimer
  BY <1>2, <1>11 DEF SaveTimer
<1>12. CASE CloseAndLoad
  BY <1>2, <1>12 DEF CloseAndLoad, LoadTorrents
<1>13. CASE CrashAndLoad
  BY <1>3, <1>13 DEF CrashAndLoad, LoadTorrents
<1> QED
  BY <1>4, <1>5, <1>6, <1>7, <1>9, <1>10, <1>11, <1>12, <1>13 DEF Next

\* Two sequences with the same members, as they stand, are the same.
LEMMA SameAsItIs ==
    ASSUME NEW T, NEW q \in Seq(T), IsInjective(q), NEW r \in Seq(T), IsInjective(r),
           NEW S, Range(q) = S, Range(r) = S, SameOrder(q, r, S)
    PROVE  q = r
<1>1. Only(r, S) = q
  <2>1. Range(q) = Range(r) \cap S
    OBVIOUS
  <2> QED
    BY <2>1, OnlyIs
<1>2. Only(r, S) = r
  <2>1. Range(r) = Range(r) \cap S
    OBVIOUS
  <2>2. SameOrder(r, r, S)
    BY DEF SameOrder, IsInjective
  <2> QED
    BY <2>1, <2>2, OnlyIs
<1> QED
  BY <1>1, <1>2

\* The names of the queue, saved, are loaded as they stand.
LEMMA NamesComeBack ==
    ASSUME TypeOK, EachOnce, NoneTwice
    PROVE  LoadOrder(NamesOf(queue)) = NamesOf(queue)
<1> DEFINE nq == NamesOf(queue)
           names == LoadOrder(nq)
<1>1. nq \in Seq(Names) /\ IsInjective(nq) /\ Range(nq) = Stored
  BY NamesOfQueue
<1>2. /\ names \in Seq(Names) /\ IsInjective(names) /\ Range(names) = Stored
      /\ SameOrder(nq, names, Stored)
  <2>1. Range(nq) \cap Stored = Stored
    BY <1>1
  <2> QED
    BY <1>1, <2>1, LoadFacts
<1> HIDE DEF nq, names
<1>3. nq = names
  BY <1>1, <1>2, SameAsItIs
<1> QED
  BY <1>3 DEF names, nq

\* If no torrent comes as a magnet link, a close whose save does not fail keeps the order
\* of the torrents for the next session (to_file(), session_load_torrents()).
THEOREM OrderKeptWithoutMagnets ==
    ASSUME MayBeMagnets = {}
    PROVE  Spec => OrderKept
<1>1. Init => NoMagnets
  BY DEF Init, NoMagnets
<1>2. NoMagnets /\ [Next]_vars => NoMagnets'
  BY NoMagnetsKept
<1>3. IInv /\ NoMagnets => [CloseAndLoad /\ ~missed' => order' = order]_vars
  <2> SUFFICES ASSUME IInv, NoMagnets, CloseAndLoad, ~missed' PROVE order' = order
    OBVIOUS
  <2> DEFINE nq == NamesOf(queue)
             names == LoadOrder(file')
  <2>1. /\ nq \in Seq(Names) /\ IsInjective(nq) /\ Range(nq) = Stored /\ DOMAIN nq = DOMAIN queue
        /\ Len(nq) = Len(queue) /\ queue \in Seq(Ids) /\ file \in Seq(Names)
        /\ \A i \in DOMAIN queue : nq[i] = Name(torrents[queue[i]]) /\ nq[i].tor = torrents[queue[i]]
    BY NamesOfQueue DEF IInv, TypeOK
  <2>2. file' \in Seq(Names) /\ IsInjective(file')
    <3>1. file' \in Seq(Names) /\ IsInjective(file)'
      BY ToFileFacts DEF CloseAndLoad
    <3>2. IsInjective(file)' <=> IsInjective(file')
      BY DEF IsInjective
    <3> QED
      BY <3>1, <3>2
  <2>3. file' = nq \/ DOMAIN queue = {}
    <3>1. CASE is_dirty
      BY <3>1 DEF CloseAndLoad, ToFile
    <3>2. CASE ~is_dirty /\ DOMAIN queue # {}
      <4>1. file' = file /\ ~missed
        BY <3>2 DEF CloseAndLoad, ToFile
      <4>2. Len(file) = Len(queue) /\ \A i \in DOMAIN queue : file[i].tor = torrents[queue[i]]
        BY <3>2, <4>1 DEF IInv, FileIsOrder
      <4>3. DOMAIN file = DOMAIN nq
        BY <2>1, <4>2
      <4>4. ASSUME NEW i \in DOMAIN file PROVE file[i] = nq[i]
        <5>1. i \in DOMAIN queue /\ file[i] \in Names /\ ~file[i].magnet
          <6>1. file[i] \in Names
            BY <2>1, <4>4
          <6> QED
            BY <2>1, <4>3, <4>4, <6>1 DEF NoMagnets
        <5>2. file[i] = [tor |-> file[i].tor, magnet |-> FALSE]
          BY <5>1 DEF Names
        <5>3. nq[i] = Name(torrents[queue[i]]) /\ file[i].tor = torrents[queue[i]]
          BY <2>1, <4>2, <5>1
        <5>4. nq[i] = [tor |-> torrents[queue[i]], magnet |-> FALSE]
          <6>1. (torrents[queue[i]] \in magnets) = FALSE
            BY DEF NoMagnets
          <6>2. Name(torrents[queue[i]]) = [tor |-> torrents[queue[i]], magnet |-> FALSE]
            BY <6>1 DEF Name
          <6> QED
            BY <5>3, <6>2
        <5> QED
          BY <5>2, <5>3, <5>4
      <4> HIDE DEF nq
      <4>5. file = nq
        BY <2>1, <4>3, <4>4
      <4> QED
        BY <4>1, <4>5
    <3> QED
      BY <3>1, <3>2
  <2>4. names = nq
    <3>1. CASE file' = nq
      BY <3>1, NamesComeBack DEF IInv
    <3>2. CASE DOMAIN queue = {}
      <4>1. names \in Seq(Names) /\ Range(names) = Stored
        BY <2>2, LoadFacts DEF IInv
      <4>2. Stored = {}
        BY <2>1, <3>2 DEF Range
      <4> HIDE DEF names, nq
      <4>3. DOMAIN names = {}
        <5>1. \A i \in DOMAIN names : names[i] \in Range(names)
          BY DEF Range
        <5> QED
          BY <4>1, <4>2, <5>1
      <4>4. DOMAIN nq = {}
        BY <2>1, <3>2
      <4>5. Len(names) = 0 /\ Len(nq) = 0
        BY <2>1, <4>1, <4>3, <4>4
      <4> QED
        BY <2>1, <4>1, <4>5, EmptySeq
    <3> QED
      BY <2>3, <3>1, <3>2
  <2>5. /\ torrents' = [i \in DOMAIN names |-> names[i].tor]
        /\ queue' = [i \in DOMAIN names |-> i]
    BY DEF CloseAndLoad, LoadTorrents
  <2>6. order' = [i \in DOMAIN queue' |-> torrents'[queue'[i]]]
    BY DEF order, TorrentsOf
  <2> HIDE DEF nq, names
  <2>7. order' = [i \in DOMAIN nq |-> nq[i].tor]
    BY <2>4, <2>5, <2>6
  <2> QED
    BY <2>1, <2>7 DEF order, TorrentsOf
<1> QED
  BY <1>1, <1>2, <1>3, Invariance, PTL DEF Spec, OrderKept

=============================================================================
