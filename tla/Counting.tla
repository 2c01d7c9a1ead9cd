-------------------------------- MODULE Counting -------------------------------
(***************************************************************************)
(* What the proofs need of numbers and finite sets beyond the library: a   *)
(* least element, induction over a finite set without an operator          *)
(* parameter, cardinalities that bound or are bounded by something, and    *)
(* what a table in some order is.                                          *)
(***************************************************************************)
EXTENDS Tables, Sequences, FiniteSetTheorems, WellFoundedInduction, TLAPS

\* A set of naturals that is not empty has a least element.
LEMMA LeastNatural ==
  ASSUME NEW T, T \subseteq Nat, T # {}
  PROVE  \E x \in T : \A y \in T : x <= y
  <1> DEFINE R == {p \in Nat \X Nat : p[1] < p[2]}
  <1>1. IsWellFoundedOn(R, Nat)
    BY NatLessThanWellFounded DEF OpToRel
  <1>2. PICK x \in T : \A y \in T : ~ (<<y, x>> \in R)
    <2> HIDE DEF R
    <2> QED BY <1>1, WFMin
  <1>3. \A y \in T : x <= y
    <2> SUFFICES ASSUME NEW y \in T PROVE x <= y
      OBVIOUS
    <2>1. x \in Nat /\ y \in Nat /\ <<y, x>> \notin R
      BY <1>2
    <2> QED BY <2>1
  <1> QED BY <1>3

\* A family that has the empty set, and every member with one more element of S,
\* has S, when S is finite.
LEMMA SetInduction ==
  ASSUME NEW S, IsFiniteSet(S), NEW F, {} \in F,
         \A T \in F : \A x \in S : T \cup {x} \in F
  PROVE  S \in F
  <1> DEFINE Sizes == {n \in Nat : \E T \in SUBSET S : T \in F /\ Cardinality(S \ T) = n}
  <1>1. Cardinality(S) \in Nat /\ S \ {} = S
    BY FS_CardinalityType
  <1>2. Sizes # {}
    BY <1>1
  <1>3. PICK n \in Sizes : \A m \in Sizes : n <= m
    <2>1. Sizes \subseteq Nat
      OBVIOUS
    <2> HIDE DEF Sizes
    <2> QED BY <1>2, <2>1, LeastNatural
  <1>4. PICK T \in SUBSET S : T \in F /\ Cardinality(S \ T) = n
    BY <1>3
  <1>5. ASSUME NEW x \in S, x \notin T PROVE FALSE
    <2>1. T \cup {x} \in F /\ T \cup {x} \in SUBSET S
      BY <1>4
    <2>2. S \ (T \cup {x}) = (S \ T) \ {x}
      OBVIOUS
    <2>3. IsFiniteSet(S \ T)
      BY FS_Difference
    <2>4. /\ IsFiniteSet((S \ T) \ {x})
          /\ Cardinality((S \ T) \ {x}) = n - 1
      BY <2>3, <1>5, <1>4, FS_RemoveElement
    <2>5. n - 1 \in Nat
      BY <2>4, FS_CardinalityType
    <2>6. n - 1 \in Sizes
      BY <2>1, <2>2, <2>4, <2>5
    <2>7. n \in Nat /\ n <= n - 1
      BY <2>6, <1>3
    <2> QED BY <2>7
  <1> QED BY <1>5, <1>4

\* A set whose members are all one has at most one.
LEMMA AtMostOne ==
  ASSUME NEW S, \A x, y \in S : x = y
  PROVE  IsFiniteSet(S) /\ Cardinality(S) <= 1
  <1>1. CASE S = {}
    BY <1>1, FS_EmptySet
  <1>2. CASE S # {}
    <2>1. PICK x : S = {x}
      BY <1>2
    <2>2. IsFiniteSet({x}) /\ Cardinality({x}) = 1
      BY FS_Singleton
    <2> QED BY <2>1, <2>2
  <1> QED BY <1>1, <1>2

\* A sequence that has nothing twice has as many elements as it is long.
LEMMA DistinctCount ==
  ASSUME NEW S, NEW s \in Seq(S), \A i, j \in DOMAIN s : s[i] = s[j] => i = j
  PROVE  /\ IsFiniteSet({s[i] : i \in DOMAIN s})
         /\ Cardinality({s[i] : i \in DOMAIN s}) = Len(s)
  <1> DEFINE T == {s[i] : i \in DOMAIN s}
  <1>1. Len(s) \in Nat /\ DOMAIN s = 1..Len(s)
    OBVIOUS
  <1>2. s \in Bijection(1..Len(s), T)
    BY <1>1 DEF Bijection, Injection, Surjection, IsInjective
  <1>3. ExistsBijection(1..Len(s), T)
    BY <1>2 DEF ExistsBijection
  <1>4. IsFiniteSet(T)
    BY <1>1, <1>3, FS_NatBijection
  <1> QED BY <1>1, <1>3, <1>4, FS_CountingElements

\* A function of a finite set has a finite range.
LEMMA FiniteImage ==
  ASSUME NEW S, IsFiniteSet(S), NEW h, h = [x \in S |-> h[x]]
  PROVE  IsFiniteSet({h[x] : x \in S})
  <1> DEFINE T == {h[x] : x \in S}
  <1>1. h \in Surjection(S, T)
    <2>1. h \in [S -> T]
      OBVIOUS
    <2> QED BY <2>1 DEF Surjection
  <1> HIDE DEF T
  <1>2. IsFiniteSet(T)
    BY <1>1, FS_Surjection
  <1> QED BY <1>2 DEF T

\* A set that has 0, and the next of every natural it has, has them all.
LEMMA NaturalInduction ==
  ASSUME NEW S, 0 \in S, \A k \in Nat : k \in S => k + 1 \in S
  PROVE  \A k \in Nat : k \in S
  <1> SUFFICES ASSUME Nat \ S # {} PROVE FALSE
    OBVIOUS
  <1>1. PICK k \in Nat \ S : \A j \in Nat \ S : k <= j
    <2> DEFINE T == Nat \ S
    <2>1. T \subseteq Nat /\ T # {}
      OBVIOUS
    <2> HIDE DEF T
    <2>2. \E x \in T : \A y \in T : x <= y
      BY <2>1, LeastNatural
    <2> QED BY <2>2 DEF T
  <1>2. k # 0 /\ k - 1 \in Nat
    BY <1>1
  <1>3. k - 1 \in S
    BY <1>1, <1>2
  <1>4. (k - 1) + 1 \in S /\ (k - 1) + 1 = k
    BY <1>2, <1>3
  <1> QED BY <1>1, <1>4

-----------------------------------------------------------------------------
(* Tables *)

\* over[t] is what is before t, in a strict total order of S.
Orders(over, S) ==
    /\ over \in [S -> SUBSET S]
    /\ \A t \in S : t \notin over[t]
    /\ \A t, u \in S : t \in over[u] => over[t] \subseteq over[u]
    /\ \A t, u \in S : t = u \/ t \in over[u] \/ u \in over[t]

\* E has, at each place that is anybody's, somebody whose place it is.
Lists(E, over, S) ==
    \A i \in 1..Cardinality(S), t \in S :
        Cardinality(over[t]) = i - 1 => E[i] \in S /\ Cardinality(over[E[i]]) = i - 1

\* In a strict total order of a finite set, each place is somebody's,
\* and to take the members by their places is to list them in order.
LEMMA PlacesSort ==
  ASSUME NEW S, IsFiniteSet(S), NEW over, Orders(over, S), NEW E, Lists(E, over, S)
  PROVE  /\ Cardinality(S) \in Nat
         /\ \A i \in 1..Cardinality(S) : E[i] \in S /\ Cardinality(over[E[i]]) = i - 1
         /\ \A i, j \in 1..Cardinality(S) : i < j => E[i] \in over[E[j]]
         /\ \A t \in S : \E i \in 1..Cardinality(S) : E[i] = t
  <1> USE DEF Orders, Lists
  <1> DEFINE n == Cardinality(S)
             rank == [t \in S |-> Cardinality(over[t])]
  <1>1. n \in Nat /\ \A t \in S : IsFiniteSet(over[t]) /\ Cardinality(over[t]) \in Nat
    BY FS_CardinalityType, FS_Subset
  <1>2. ASSUME NEW t \in S PROVE Cardinality(over[t]) \in 0..(n - 1)
    <2>1. IsFiniteSet(S \ {t}) /\ Cardinality(S \ {t}) = n - 1
      BY FS_RemoveElement
    <2>2. over[t] \in SUBSET (S \ {t})
      OBVIOUS
    <2>3. Cardinality(over[t]) <= n - 1
      BY <2>1, <2>2, FS_Subset
    <2> QED BY <1>1, <2>3
  <1>3. ASSUME NEW t \in S, NEW u \in S, t \in over[u]
        PROVE  Cardinality(over[t]) < Cardinality(over[u])
    <2>1. over[t] \in SUBSET over[u] /\ over[t] # over[u]
      BY <1>3
    <2>2. Cardinality(over[t]) <= Cardinality(over[u]) /\ Cardinality(over[u]) # Cardinality(over[t])
      BY <2>1, <1>1, FS_Subset
    <2> QED BY <2>2, <1>1
  <1>4. ASSUME NEW k \in 0..(n - 1) PROVE \E t \in S : Cardinality(over[t]) = k
    <2>1. rank \in Injection(S, 0..(n - 1))
      <3>1. rank \in [S -> 0..(n - 1)]
        BY <1>2
      <3>2. \A t, u \in S : rank[t] = rank[u] => t = u
        BY <1>1, <1>3
      <3> HIDE DEF rank
      <3> QED BY <3>1, <3>2 DEF Injection, IsInjective
    <2>2. IsFiniteSet(0..(n - 1)) /\ Cardinality(0..(n - 1)) = n
      <3> HIDE DEF n
      <3>1. 0 \in Int /\ n - 1 \in Int
        BY <1>1
      <3>2. /\ IsFiniteSet(0..(n - 1))
            /\ Cardinality(0..(n - 1)) = IF 0 > n - 1 THEN 0 ELSE (n - 1) - 0 + 1
        BY <3>1, FS_Interval
      <3> QED BY <3>2, <1>1
    <2>3. rank \in Surjection(S, 0..(n - 1))
      <3> HIDE DEF rank
      <3> QED BY <2>1, <2>2, FS_Injection
    <2>4. \E t \in S : rank[t] = k
      <3> HIDE DEF rank
      <3> QED BY <2>3, <1>4 DEF Surjection
    <2> QED BY <2>4
  <1>5. \A i \in 1..n : E[i] \in S /\ Cardinality(over[E[i]]) = i - 1
    <2> SUFFICES ASSUME NEW i \in 1..n PROVE E[i] \in S /\ Cardinality(over[E[i]]) = i - 1
      OBVIOUS
    <2>1. i - 1 \in 0..(n - 1)
      BY <1>1
    <2>2. \E t \in S : Cardinality(over[t]) = i - 1
      BY <2>1, <1>4
    <2> QED BY <2>2
  <1>6. ASSUME NEW i \in 1..n, NEW j \in 1..n, i < j PROVE E[i] \in over[E[j]]
    <2>1. /\ E[i] \in S /\ E[j] \in S
          /\ Cardinality(over[E[i]]) = i - 1 /\ Cardinality(over[E[j]]) = j - 1
      BY <1>5
    <2>2. E[i] # E[j] /\ E[j] \notin over[E[i]]
      BY <2>1, <1>1, <1>3, <1>6
    <2> QED BY <2>1, <2>2
  <1>7. ASSUME NEW t \in S PROVE \E i \in 1..n : E[i] = t
    <2> DEFINE i == Cardinality(over[t]) + 1
    <2>1. i \in 1..n /\ i - 1 = Cardinality(over[t])
      BY <1>1, <1>2
    <2>2. Cardinality(over[E[i]]) = Cardinality(over[t]) /\ E[i] \in S
      BY <2>1, <1>5
    <2>3. E[i] = t
      BY <2>2, <1>1, <1>3
    <2> QED BY <2>1, <2>3
  <1> QED BY <1>1, <1>5, <1>6, <1>7

Older(S, t) == {u \in S : u < t}

\* A listing has every row once, none before a later one.
LEMMA ListingFacts ==
  ASSUME NEW rows, IsFiniteSet(rows), NEW time, NEW seq \in Listings(rows, time)
  PROVE  /\ Cardinality(rows) \in Nat
         /\ seq \in [1..Cardinality(rows) -> rows]
         /\ \A i, j \in 1..Cardinality(rows) :
               i < j => seq[i] # seq[j] /\ time[seq[i]] >= time[seq[j]]
         /\ \A r \in rows : \E i \in 1..Cardinality(rows) : seq[i] = r
  <1> DEFINE n == Cardinality(rows)
  <1>1. n \in Nat
    BY FS_CardinalityType
  <1>2. /\ seq \in [1..n -> rows]
        /\ \A i, j \in 1..n : i < j => seq[i] # seq[j] /\ time[seq[i]] >= time[seq[j]]
    BY DEF Listings
  <1> HIDE DEF n
  <1>3. \A i, j \in 1..n : seq[i] = seq[j] => i = j
    <2> SUFFICES ASSUME NEW i \in 1..n, NEW j \in 1..n, seq[i] = seq[j] PROVE i = j
      OBVIOUS
    <2>1. ~(i < j) /\ ~(j < i)
      BY <1>2
    <2> QED BY <2>1, <1>1
  <1>4. seq \in Injection(1..n, rows)
    BY <1>2, <1>3 DEF Injection, IsInjective
  <1>5. Cardinality(1..n) = n
    BY <1>1, FS_Interval
  <1>6. seq \in Surjection(1..n, rows)
    BY <1>4, <1>5, FS_Injection DEF n
  <1>7. \A r \in rows : \E i \in 1..n : seq[i] = r
    BY <1>6 DEF Surjection
  <1> QED BY <1>1, <1>2, <1>7 DEF n

Firsts(seq, k) == {seq[i] : i \in 1..k}

LEMMA FirstsOfListing ==
  ASSUME NEW rows, IsFiniteSet(rows), NEW time, NEW seq \in Listings(rows, time),
         NEW k \in Nat, k <= Cardinality(rows)
  PROVE  /\ Firsts(seq, k) \subseteq rows /\ IsFiniteSet(Firsts(seq, k))
         /\ Cardinality(Firsts(seq, k)) = k
  <1> DEFINE n == Cardinality(rows)
             g == [i \in 1..k |-> seq[i]]
             T == Firsts(seq, k)
  <1>1. /\ n \in Nat /\ seq \in [1..n -> rows]
        /\ \A i, j \in 1..n : i < j => seq[i] # seq[j]
    BY ListingFacts
  <1>2. \A i \in 1..k : i \in 1..n
    BY <1>1
  <1> HIDE DEF n
  <1>3. T \subseteq rows /\ g \in [1..k -> T] /\ \A t \in T : \E i \in 1..k : g[i] = t
    BY <1>1, <1>2 DEF Firsts
  <1>4. \A i, j \in 1..k : g[i] = g[j] => i = j
    <2> SUFFICES ASSUME NEW i \in 1..k, NEW j \in 1..k, seq[i] = seq[j] PROVE i = j
      OBVIOUS
    <2>1. ~(i < j) /\ ~(j < i)
      BY <1>1, <1>2
    <2> QED BY <2>1
  <1>5. g \in Surjection(1..k, T) /\ g \in Injection(1..k, T)
    <2> HIDE DEF g, T
    <2> QED BY <1>3, <1>4 DEF Surjection, Injection, IsInjective
  <1>6. IsFiniteSet(1..k) /\ Cardinality(1..k) = k
    BY FS_Interval
  <1> HIDE DEF g, T
  <1>7. IsFiniteSet(T) /\ Cardinality(T) = k
    BY <1>5, <1>6, FS_Surjection
  <1> QED BY <1>3, <1>7 DEF T

LEMMA AscendingIsSorted ==
  ASSUME NEW S \in SUBSET Nat, IsFiniteSet(S)
  PROVE  /\ Cardinality(S) \in Nat
         /\ Ascending(S) \in [1..Cardinality(S) -> S]
         /\ \A i, j \in 1..Cardinality(S) : i < j => Ascending(S)[i] < Ascending(S)[j]
         /\ \A t \in S : \E i \in 1..Cardinality(S) : Ascending(S)[i] = t
  <1> DEFINE over == [t \in S |-> Older(S, t)]
             E == Ascending(S)
  <1>1. over \in [S -> SUBSET S] /\ \A t \in S : over[t] = {u \in S : u < t}
    BY DEF Older
  <1>2. \A i \in 1..Cardinality(S), t \in S :
           Cardinality(over[t]) = i - 1 => E[i] \in S /\ Cardinality(over[E[i]]) = i - 1
    <2> SUFFICES ASSUME NEW i \in 1..Cardinality(S), NEW t \in S, Cardinality(over[t]) = i - 1
                 PROVE  E[i] \in S /\ Cardinality(over[E[i]]) = i - 1
      OBVIOUS
    <2>1. E[i] = CHOOSE v \in S : Cardinality({u \in S : u < v}) = i - 1
      BY DEF Ascending
    <2>2. Cardinality({u \in S : u < t}) = i - 1
      BY <1>1
    <2> HIDE DEF over, E
    <2>3. E[i] \in S /\ Cardinality({u \in S : u < E[i]}) = i - 1
      BY <2>1, <2>2
    <2> QED BY <2>3, <1>1
  <1> HIDE DEF over, E
  <1>3. \A t \in S : t \notin over[t]
    BY <1>1
  <1>4. \A t, u \in S : t \in over[u] => over[t] \subseteq over[u]
    <2> SUFFICES ASSUME NEW t \in S, NEW u \in S, t \in over[u], NEW v \in over[t]
                 PROVE  v \in over[u]
      OBVIOUS
    <2> QED BY <1>1
  <1>5. \A t, u \in S : t = u \/ t \in over[u] \/ u \in over[t]
    BY <1>1
  <1>6. /\ Cardinality(S) \in Nat
        /\ \A i \in 1..Cardinality(S) : E[i] \in S /\ Cardinality(over[E[i]]) = i - 1
        /\ \A i, j \in 1..Cardinality(S) : i < j => E[i] \in over[E[j]]
        /\ \A t \in S : \E i \in 1..Cardinality(S) : E[i] = t
    <2>1. Orders(over, S)
      BY <1>1, <1>3, <1>4, <1>5 DEF Orders
    <2>2. Lists(E, over, S)
      BY <1>2 DEF Lists
    <2> QED BY <2>1, <2>2, PlacesSort
  <1>7. \A i, j \in 1..Cardinality(S) : i < j => E[i] < E[j]
    BY <1>1, <1>6
  <1>8. E \in [1..Cardinality(S) -> S]
    <2> DEFINE place(i) == CHOOSE v \in S : Cardinality({u \in S : u < v}) = i - 1
    <2>1. E = [i \in 1..Cardinality(S) |-> place(i)]
      BY DEF E, Ascending
    <2> HIDE DEF place
    <2> QED BY <2>1, <1>6
  <1> QED BY <1>6, <1>7, <1>8 DEF E

\* What is kept of a sequence is in its order, and is all that was to be kept.
LEMMA KeptFacts ==
  ASSUME NEW S, NEW s \in Seq(S), NEW P \in SUBSET DOMAIN s
  PROVE  /\ Kept(s, P) \in Seq(S)
         /\ DOMAIN Kept(s, P) = 1..Cardinality(P) /\ Cardinality(P) \in Nat
         /\ Len(Kept(s, P)) = Cardinality(P)
         /\ \A k \in DOMAIN Kept(s, P) : Ascending(P)[k] \in P /\ Kept(s, P)[k] = s[Ascending(P)[k]]
         /\ \A j, k \in DOMAIN Kept(s, P) : j < k => Ascending(P)[j] < Ascending(P)[k]
         /\ \A i \in P : \E k \in DOMAIN Kept(s, P) : Ascending(P)[k] = i
  <1> DEFINE c == Cardinality(P)
             E == Ascending(P)
             K == Kept(s, P)
  <1>1. Len(s) \in Nat /\ DOMAIN s = 1..Len(s) /\ P \in SUBSET Nat
    OBVIOUS
  <1>2. IsFiniteSet(P)
    <2>1. IsFiniteSet(1..Len(s))
      BY <1>1, FS_Interval
    <2> QED BY <1>1, <2>1, FS_Subset
  <1>3. /\ c \in Nat /\ E \in [1..c -> P]
        /\ \A i, j \in 1..c : i < j => E[i] < E[j]
        /\ \A t \in P : \E i \in 1..c : E[i] = t
    BY <1>1, <1>2, AscendingIsSorted
  <1>4. K = [k \in 1..c |-> s[E[k]]]
    <2>1. K = [k \in DOMAIN E |-> s[E[k]]]
      BY DEF Kept
    <2> HIDE DEF K, E, c
    <2> QED BY <2>1, <1>3
  <1> HIDE DEF K, E, c
  <1>5. K \in Seq(S) /\ Len(K) = c /\ DOMAIN K = 1..c
    <2>1. \A k \in 1..c : s[E[k]] \in S
      BY <1>3, <1>1
    <2> QED BY <1>3, <1>4, <2>1
  <1>6. \A k \in 1..c : E[k] \in P /\ K[k] = s[E[k]]
    BY <1>3, <1>4
  <1> QED BY <1>3, <1>5, <1>6 DEF K, E, c
=============================================================================
