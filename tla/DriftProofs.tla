------------------------------ MODULE DriftProofs ------------------------------
(***************************************************************************)
(* Proofs about what compares: `drift scan` and the detector of the drift  *)
(* engine, for objects that are nested to any depth, every ignore file and *)
(* all flags.                                                              *)
(***************************************************************************)
EXTENDS DriftScan, DriftDetection, Counting, SequenceTheorems

-----------------------------------------------------------------------------
(* Paths *)

\* A key before a path.
Join(k, q) == <<k>> \o q

LEMMA JoinPath ==
  ASSUME NEW k \in Attributes, NEW q \in Seq(Attributes)
  PROVE  /\ Join(k, q) \in Seq(Attributes)
         /\ Len(q) \in Nat /\ Len(Join(k, q)) = Len(q) + 1
         /\ Join(k, q)[1] = k
         /\ \A i \in 1..Len(q) : Join(k, q)[i + 1] = q[i]
  <1> DEFINE s == <<k>>
  <1>1. s \in Seq(Attributes) /\ Len(s) = 1 /\ s[1] = k
    OBVIOUS
  <1> HIDE DEF s
  <1>2. /\ s \o q \in Seq(Attributes) /\ Len(s \o q) = Len(s) + Len(q)
        /\ \A i \in 1..(Len(s) + Len(q)) : (s \o q)[i] = IF i <= Len(s) THEN s[i] ELSE q[i - Len(s)]
    BY <1>1, ConcatProperties
  <1>3. Len(q) \in Nat
    OBVIOUS
  <1>4. (s \o q)[1] = k
    BY <1>1, <1>2, <1>3
  <1>5. ASSUME NEW i \in 1..Len(q) PROVE (s \o q)[i + 1] = q[i]
    <2>1. i + 1 \in 1..(Len(s) + Len(q)) /\ ~(i + 1 <= Len(s)) /\ (i + 1) - Len(s) = i
      BY <1>1, <1>3
    <2> QED BY <2>1, <1>2
  <1> QED BY <1>1, <1>2, <1>3, <1>4, <1>5 DEF s, Join

\* A path is a first key and the rest.
LEMMA SplitPath ==
  ASSUME NEW p \in Seq(Attributes), p # <<>>
  PROVE  /\ p[1] \in Attributes /\ Tail(p) \in Seq(Attributes)
         /\ Len(p) \in Nat /\ Len(Tail(p)) \in Nat /\ Len(p) = Len(Tail(p)) + 1
         /\ p = Join(p[1], Tail(p))
  <1> DEFINE t == Tail(p)
             k == p[1]
             q == Join(k, t)
  <1>1. /\ t \in Seq(Attributes) /\ Len(t) = Len(p) - 1
        /\ \A i \in 1..Len(t) : t[i] = p[i + 1]
        /\ Len(p) \in Nat \ {0}
    BY HeadTailProperties, EmptySeq
  <1>2. k \in Attributes
    BY <1>1
  <1> HIDE DEF t, k
  <1>3. /\ q \in Seq(Attributes) /\ Len(t) \in Nat /\ Len(q) = Len(t) + 1 /\ q[1] = k
        /\ \A i \in 1..Len(t) : q[i + 1] = t[i]
    BY <1>1, <1>2, JoinPath
  <1> HIDE DEF q
  <1>4. Len(q) = Len(p)
    BY <1>1, <1>3
  <1>5. ASSUME NEW i \in 1..Len(p) PROVE p[i] = q[i]
    <2>1. CASE i = 1
      BY <2>1, <1>3 DEF k
    <2>2. CASE i # 1
      <3>1. i - 1 \in 1..Len(t) /\ (i - 1) + 1 = i
        BY <2>2, <1>1
      <3>2. q[(i - 1) + 1] = t[i - 1] /\ t[i - 1] = p[(i - 1) + 1]
        BY <3>1, <1>1, <1>3
      <3> QED BY <3>1, <3>2
    <2> QED BY <2>1, <2>2
  <1>6. p = q
    BY <1>3, <1>4, <1>5, SeqEqual
  <1> QED BY <1>1, <1>2, <1>3, <1>6 DEF k, t, q

\* What an object is before the first key.
Whole(object) == [kind |-> "object", value |-> object]

\* g is what the object holds along the path.
Holds(g, object, path, n) ==
    g = [i \in 0..n |-> IF i = 0 THEN Whole(object) ELSE Inside(g[i - 1], path[i])]

LEMMA AlongExists ==
  ASSUME NEW o, NEW p
  PROVE  \A n \in Nat : \E g : Holds(g, o, p, n)
  <1> DEFINE S == {n \in Nat : \E g : Holds(g, o, p, n)}
  <1>1. 0 \in S
    <2> DEFINE g == [i \in 0..0 |-> Whole(o)]
    <2>1. Holds(g, o, p, 0)
      BY DEF Holds
    <2> QED BY <2>1
  <1>2. ASSUME NEW n \in Nat, n \in S PROVE n + 1 \in S
    <2>1. PICK g : Holds(g, o, p, n)
      BY <1>2
    <2> DEFINE h == [i \in 0..(n + 1) |-> IF i = n + 1 THEN Inside(g[n], p[n + 1]) ELSE g[i]]
    <2>2. /\ h[n + 1] = Inside(g[n], p[n + 1])
          /\ \A i \in 0..n : h[i] = g[i]
      OBVIOUS
    <2>3. \A i \in 0..(n + 1) : h[i] = IF i = 0 THEN Whole(o) ELSE Inside(h[i - 1], p[i])
      <3> SUFFICES ASSUME NEW i \in 0..(n + 1)
                   PROVE  h[i] = IF i = 0 THEN Whole(o) ELSE Inside(h[i - 1], p[i])
        OBVIOUS
      <3>1. CASE i = n + 1
        <4>1. i - 1 = n /\ n \in 0..n /\ i # 0
          BY <3>1
        <4> HIDE DEF h
        <4> QED BY <4>1, <3>1, <2>2
      <3>2. CASE i # n + 1
        <4>1. i \in 0..n /\ (i # 0 => i - 1 \in 0..n)
          BY <3>2
        <4>2. g[i] = IF i = 0 THEN Whole(o) ELSE Inside(g[i - 1], p[i])
          BY <4>1, <2>1 DEF Holds
        <4> HIDE DEF h
        <4> QED BY <4>1, <4>2, <2>2
      <3> QED BY <3>1, <3>2
    <2>4. Holds(h, o, p, n + 1)
      BY <2>3 DEF Holds
    <2> HIDE DEF h
    <2> QED BY <2>4
  <1> HIDE DEF S
  <1>3. \A n \in Nat : n \in S
    BY <1>1, <1>2, NaturalInduction
  <1> QED BY <1>3 DEF S

LEMMA AlongSteps ==
  ASSUME NEW o, NEW p, Len(p) \in Nat
  PROVE  /\ Along(o, p)[0] = Whole(o)
         /\ \A i \in 1..Len(p) : Along(o, p)[i] = Inside(Along(o, p)[i - 1], p[i])
  <1> DEFINE g == CHOOSE h : Holds(h, o, p, Len(p))
  <1>1. Along(o, p) = g
    BY DEF Along, Holds, Whole
  <1>2. Holds(g, o, p, Len(p))
    BY AlongExists
  <1> HIDE DEF g
  <1>3. g[0] = Whole(o)
    BY <1>2 DEF Holds
  <1>4. ASSUME NEW i \in 1..Len(p) PROVE g[i] = Inside(g[i - 1], p[i])
    <2>1. i \in 0..Len(p) /\ i # 0
      OBVIOUS
    <2> QED BY <2>1, <1>2 DEF Holds
  <1> QED BY <1>1, <1>3, <1>4

\* Below the first key, an object holds what the object under that key holds.
LEMMA AlongBelow ==
  ASSUME NEW o, NEW k \in Attributes, NEW q \in Seq(Attributes)
  PROVE  /\ Along(o, Join(k, q))[1] = Inside(Whole(o), k)
         /\ k \in DOMAIN o /\ IsMap(o[k]) =>
               \A i \in 1..Len(q) : Along(o, Join(k, q))[i + 1] = Along(o[k].value, q)[i]
  <1> DEFINE p == Join(k, q)
             g == Along(o, p)
             h == Along(o[k].value, q)
  <1>1. /\ Len(q) \in Nat /\ Len(p) = Len(q) + 1 /\ p[1] = k
        /\ \A i \in 1..Len(q) : p[i + 1] = q[i]
    BY JoinPath
  <1> HIDE DEF p
  <1>2. g[0] = Whole(o) /\ \A i \in 1..Len(p) : g[i] = Inside(g[i - 1], p[i])
    BY <1>1, AlongSteps
  <1>3. h[0] = Whole(o[k].value) /\ \A i \in 1..Len(q) : h[i] = Inside(h[i - 1], q[i])
    BY <1>1, AlongSteps
  <1> HIDE DEF g, h
  <1>4. g[1] = Inside(Whole(o), k)
    <2>1. 1 \in 1..Len(p) /\ 1 - 1 = 0
      BY <1>1
    <2> QED BY <2>1, <1>1, <1>2
  <1>5. ASSUME k \in DOMAIN o, IsMap(o[k])
        PROVE  \A i \in 1..Len(q) : g[i + 1] = h[i]
    <2>1. g[1] = o[k]
      BY <1>4, <1>5 DEF Inside, Whole, IsMap
    <2>2. \A x : Inside(g[1], x) = Inside(h[0], x)
      BY <2>1, <1>3, <1>5 DEF Inside, Whole, IsMap
    <2> DEFINE T == {i \in Nat : i \in 1..Len(q) => g[i + 1] = h[i]}
    <2>3. 0 \in T
      OBVIOUS
    <2>4. ASSUME NEW i \in Nat, i \in T PROVE i + 1 \in T
      <3> SUFFICES ASSUME i + 1 \in 1..Len(q) PROVE g[(i + 1) + 1] = h[i + 1]
        OBVIOUS
      <3>1. /\ (i + 1) + 1 \in 1..Len(p) /\ ((i + 1) + 1) - 1 = i + 1 /\ (i + 1) - 1 = i
        BY <1>1
      <3>2. g[(i + 1) + 1] = Inside(g[i + 1], q[i + 1]) /\ h[i + 1] = Inside(h[i], q[i + 1])
        BY <3>1, <1>1, <1>2, <1>3
      <3>3. CASE i = 0
        <4>1. i + 1 = 1
          BY <3>3
        <4> QED BY <4>1, <3>2, <3>3, <2>2
      <3>4. CASE i # 0
        <4>1. i \in 1..Len(q)
          BY <3>4, <1>1
        <4>2. g[i + 1] = h[i]
          BY <4>1, <2>4
        <4> QED BY <4>2, <3>2
      <3> QED BY <3>3, <3>4
    <2> HIDE DEF T
    <2>5. \A i \in Nat : i \in T
      BY <2>3, <2>4, NaturalInduction
    <2> QED BY <2>5, <1>1 DEF T
  <1> QED BY <1>4, <1>5 DEF p, g, h

\* An object of a document: what it holds is of the document, one level down for
\* each key, and nothing is held below what is not an object.
Known(o, v, n) ==
    /\ v.kind \in {"null", "scalar", "object", "absent"}
    /\ v.kind = "null" => v = Null
    /\ v.kind = "absent" => v = Absent
    /\ IsMap(v) => v.value \in Objects /\ Nesting[v.value] + n <= Nesting[o]

LEMMA AlongKnown ==
  ASSUME NEW o \in Objects, NEW p, Len(p) \in Nat
  PROVE  /\ \A i \in 0..Len(p) : Known(o, Along(o, p)[i], i)
         /\ \A i \in 1..Len(p) : Along(o, p)[i] # Absent =>
               IsMap(Along(o, p)[i - 1]) /\ p[i] \in DOMAIN Along(o, p)[i - 1].value
  <1> DEFINE g == Along(o, p)
  <1>1. g[0] = Whole(o) /\ \A i \in 1..Len(p) : g[i] = Inside(g[i - 1], p[i])
    BY AlongSteps
  <1> HIDE DEF g
  <1>2. \A i \in 1..Len(p) : g[i] # Absent => IsMap(g[i - 1]) /\ p[i] \in DOMAIN g[i - 1].value
    BY <1>1 DEF Inside
  <1> DEFINE T == {i \in Nat : i \in 0..Len(p) => Known(o, g[i], i)}
  <1>3. 0 \in T
    <2>1. Nesting[o] \in Nat
      BY ObjectsAssumption
    <2> QED BY <1>1, <2>1 DEF Known, Whole, IsMap
  <1>4. ASSUME NEW i \in Nat, i \in T PROVE i + 1 \in T
    <2> SUFFICES ASSUME i + 1 \in 0..Len(p) PROVE Known(o, g[i + 1], i + 1)
      OBVIOUS
    <2>1. Known(o, g[i], i) /\ g[i + 1] = Inside(g[i], p[i + 1])
      <3>1. i \in 0..Len(p) /\ i + 1 \in 1..Len(p) /\ (i + 1) - 1 = i
        OBVIOUS
      <3> HIDE DEF T
      <3> QED BY <3>1, <1>1, <1>4 DEF T
    <2>2. CASE g[i + 1] = Absent
      BY <2>2 DEF Known, Absent, IsMap
    <2>3. CASE g[i + 1] # Absent
      <3> DEFINE c == g[i].value
      <3>1. /\ IsMap(g[i]) /\ c \in Objects /\ p[i + 1] \in DOMAIN c
            /\ g[i + 1] = c[p[i + 1]] /\ Nesting[c] + i <= Nesting[o]
        BY <2>1, <2>3 DEF Inside, Known
      <3> HIDE DEF c
      <3>2. /\ g[i + 1].kind \in {"null", "scalar", "object"}
            /\ g[i + 1].kind = "null" => g[i + 1] = Null
            /\ IsMap(g[i + 1]) => g[i + 1].value \in Objects /\ Nesting[g[i + 1].value] < Nesting[c]
        BY <3>1, ObjectsAssumption DEF IsMap
      <3>3. IsMap(g[i + 1]) => Nesting[g[i + 1].value] + (i + 1) <= Nesting[o]
        <4> DEFINE a == Nesting[g[i + 1].value]
                   b == Nesting[c]
                   d == Nesting[o]
        <4>1. b \in Nat /\ d \in Nat /\ (IsMap(g[i + 1]) => a \in Nat)
          BY <3>1, <3>2, ObjectsAssumption
        <4>2. b + i <= d /\ (IsMap(g[i + 1]) => a < b)
          BY <3>1, <3>2
        <4> HIDE DEF a, b, d
        <4>3. IsMap(g[i + 1]) => a + (i + 1) <= d
          BY <4>1, <4>2
        <4> QED BY <4>3 DEF a, d
      <3> QED BY <3>2, <3>3 DEF Known
    <2> QED BY <2>2, <2>3
  <1> HIDE DEF T
  <1>5. \A i \in Nat : i \in T
    BY <1>3, <1>4, NaturalInduction
  <1>6. \A i \in 0..Len(p) : Known(o, g[i], i)
    BY <1>5 DEF T
  <1> QED BY <1>2, <1>6 DEF g

\* What is there at the end is reached through objects alone.
LEMMA AllThere ==
  ASSUME NEW o \in Objects, NEW p, Len(p) \in Nat, At(o, p) # Absent
  PROVE  /\ \A i \in 0..Len(p) : Along(o, p)[i] # Absent
         /\ \A i \in 1..Len(p) : IsMap(Along(o, p)[i - 1]) /\ p[i] \in DOMAIN Along(o, p)[i - 1].value
  <1> DEFINE g == Along(o, p)
             n == Len(p)
  <1>1. \A i \in 1..n : g[i] # Absent => IsMap(g[i - 1]) /\ p[i] \in DOMAIN g[i - 1].value
    BY AlongKnown
  <1>2. g[n] # Absent /\ n \in Nat
    BY DEF At
  <1> HIDE DEF g, n
  <1>3. ~IsMap(Absent)
    BY DEF IsMap, Absent
  <1> DEFINE T == {j \in Nat : j <= n => g[n - j] # Absent}
  <1>4. 0 \in T
    <2>1. n - 0 = n
      BY <1>2
    <2> QED BY <2>1, <1>2
  <1>5. ASSUME NEW j \in Nat, j \in T PROVE j + 1 \in T
    <2> SUFFICES ASSUME j + 1 <= n PROVE g[n - (j + 1)] # Absent
      OBVIOUS
    <2>1. n - j \in 1..n /\ n - (j + 1) = (n - j) - 1 /\ j <= n
      BY <1>2
    <2>2. g[n - j] # Absent
      BY <2>1, <1>5
    <2>3. IsMap(g[(n - j) - 1])
      BY <2>1, <2>2, <1>1
    <2> QED BY <2>1, <2>3, <1>3
  <1> HIDE DEF T
  <1>6. \A j \in Nat : j \in T
    BY <1>4, <1>5, NaturalInduction
  <1>7. ASSUME NEW i \in 0..n PROVE g[i] # Absent
    <2>1. n - i \in Nat /\ n - i <= n /\ n - (n - i) = i
      BY <1>2
    <2> QED BY <2>1, <1>6 DEF T
  <1>8. \A i \in 1..n : i \in 0..n
    BY <1>2
  <1> QED BY <1>1, <1>7, <1>8 DEF g, n

\* No path is deeper than its object.
LEMMA PathKnown ==
  ASSUME NEW o \in Objects, NEW p \in Seq(Attributes), p # <<>>, At(o, p) # Absent
  PROVE  p \in Paths
  <1> DEFINE g == Along(o, p)
             n == Len(p)
  <1>1. n \in Nat /\ n # 0 /\ p \in [1..n -> Attributes]
    BY EmptySeq, LenProperties
  <1>2. /\ \A i \in 0..n : Known(o, g[i], i)
        /\ \A i \in 1..n : IsMap(g[i - 1])
    BY <1>1, AlongKnown, AllThere
  <1>3. n \in 1..Nesting[o]
    <2> DEFINE c == g[n - 1].value
    <2>1. n \in 1..n /\ n - 1 \in 0..n
      BY <1>1
    <2>2. c \in Objects /\ Nesting[c] + (n - 1) <= Nesting[o]
      BY <2>1, <1>2 DEF Known
    <2>3. Nesting[c] \in Nat \ {0} /\ Nesting[o] \in Nat
      BY <2>2, ObjectsAssumption
    <2> DEFINE a == Nesting[c]
               b == Nesting[o]
    <2>4. a + (n - 1) <= b /\ a \in Nat \ {0} /\ b \in Nat
      BY <2>2, <2>3
    <2> HIDE DEF a, b
    <2>5. n \in 1..b
      BY <2>4, <1>1
    <2> QED BY <2>5 DEF b
  <1> DEFINE D == UNION {1..Nesting[x] : x \in Objects}
  <1>4. n \in D
    BY <1>3
  <1> HIDE DEF n, D
  <1>5. [1..n -> Attributes] \in {[1..m -> Attributes] : m \in D}
    BY <1>4
  <1> QED BY <1>1, <1>5 DEF Paths, D

LEMMA PathIsSeq ==
  ASSUME NEW p \in Paths
  PROVE  p \in Seq(Attributes) /\ p # <<>> /\ Len(p) \in Nat \ {0} /\ DOMAIN p = 1..Len(p)
  <1>1. PICK n : /\ p \in [1..n -> Attributes]
                 /\ n \in UNION {1..Nesting[o] : o \in Objects}
    BY DEF Paths
  <1>2. n \in Nat \ {0}
    BY <1>1, ObjectsAssumption
  <1>3. p \in Seq(Attributes) /\ Len(p) = n
    BY <1>1, <1>2
  <1> QED BY <1>2, <1>3, EmptySeq, LenProperties

\* The paths that part two objects, and those below their first key.
LEMMA PartsBelow ==
  ASSUME NEW s, NEW l, NEW k \in Attributes, NEW q \in Seq(Attributes)
  PROVE  /\ q = <<>> =>
               Parts(s, l, Join(k, q)) <=> ~(IsMap(Inside(Whole(s), k)) /\ IsMap(Inside(Whole(l), k)))
         /\ q # <<>> /\ Parts(s, l, Join(k, q)) =>
               /\ k \in DOMAIN s /\ k \in DOMAIN l /\ IsMap(s[k]) /\ IsMap(l[k])
               /\ Parts(s[k].value, l[k].value, q)
         /\ q # <<>> /\ k \in DOMAIN s /\ k \in DOMAIN l /\ IsMap(s[k]) /\ IsMap(l[k]) =>
               (Parts(s[k].value, l[k].value, q) => Parts(s, l, Join(k, q)))
  <1> DEFINE p == Join(k, q)
             both == k \in DOMAIN s /\ k \in DOMAIN l /\ IsMap(s[k]) /\ IsMap(l[k])
             n == Len(q)
             A == Along(s, p)
             B == Along(l, p)
             C == Along(s[k].value, q)
             D == Along(l[k].value, q)
  <1>1. /\ A[1] = Inside(Whole(s), k) /\ B[1] = Inside(Whole(l), k)
        /\ both => \A i \in 1..n : A[i + 1] = C[i] /\ B[i + 1] = D[i]
    BY AlongBelow
  <1>2. n \in Nat /\ Len(p) = n + 1 /\ (q = <<>> <=> n = 0)
    BY JoinPath, EmptySeq
  <1>3. /\ Parts(s, l, p) <=> /\ \A i \in 1..((n + 1) - 1) : IsMap(A[i]) /\ IsMap(B[i])
                              /\ ~(IsMap(A[n + 1]) /\ IsMap(B[n + 1]))
        /\ Parts(s[k].value, l[k].value, q) <=> /\ \A i \in 1..(n - 1) : IsMap(C[i]) /\ IsMap(D[i])
                                                /\ ~(IsMap(C[n]) /\ IsMap(D[n]))
    <2> HIDE DEF A, B, C, D, n, p
    <2>1. Len(p) = n + 1
      BY <1>2
    <2> QED BY <2>1 DEF Parts, At, A, B, C, D, n
  <1>4. ~IsMap(Absent) /\ (both <=> IsMap(Inside(Whole(s), k)) /\ IsMap(Inside(Whole(l), k)))
    BY DEF IsMap, Absent, Inside, Whole
  <1> HIDE DEF p, both, n, A, B, C, D
  <1>5. q = <<>> => (Parts(s, l, p) <=> ~both)
    <2> SUFFICES ASSUME q = <<>> PROVE Parts(s, l, p) <=> ~both
      OBVIOUS
    <2>1. n + 1 = 1 /\ 1..((n + 1) - 1) = {}
      BY <1>2
    <2> QED BY <2>1, <1>1, <1>3, <1>4
  <1>6. q # <<>> /\ Parts(s, l, p) => both
    <2> SUFFICES ASSUME q # <<>>, Parts(s, l, p) PROVE both
      OBVIOUS
    <2>1. 1 \in 1..((n + 1) - 1)
      BY <1>2
    <2> QED BY <2>1, <1>1, <1>3, <1>4
  <1>7. q # <<>> /\ both => (Parts(s, l, p) <=> Parts(s[k].value, l[k].value, q))
    <2> SUFFICES ASSUME q # <<>>, both PROVE Parts(s, l, p) <=> Parts(s[k].value, l[k].value, q)
      OBVIOUS
    <2>1. n \in 1..n
      BY <1>2
    <2>2. A[n + 1] = C[n] /\ B[n + 1] = D[n]
      BY <2>1, <1>1
    <2>3. ASSUME \A i \in 1..((n + 1) - 1) : IsMap(A[i]) /\ IsMap(B[i]), NEW i \in 1..(n - 1)
          PROVE  IsMap(C[i]) /\ IsMap(D[i])
      <3>1. i + 1 \in 1..((n + 1) - 1) /\ i \in 1..n
        BY <1>2
      <3>2. IsMap(A[i + 1]) /\ IsMap(B[i + 1])
        BY <3>1, <2>3
      <3> QED BY <3>1, <3>2, <1>1
    <2>4. ASSUME \A i \in 1..(n - 1) : IsMap(C[i]) /\ IsMap(D[i]), NEW i \in 1..((n + 1) - 1)
          PROVE  IsMap(A[i]) /\ IsMap(B[i])
      <3>1. CASE i = 1
        BY <3>1, <1>1, <1>4
      <3>2. CASE i # 1
        <4>1. i - 1 \in 1..(n - 1) /\ i - 1 \in 1..n /\ (i - 1) + 1 = i
          BY <3>2, <1>2
        <4> QED BY <4>1, <2>4, <1>1
      <3> QED BY <3>1, <3>2
    <2> QED BY <2>2, <2>3, <2>4, <1>3
  <1> QED BY <1>4, <1>5, <1>6, <1>7 DEF both, p

LEMMA AtBelow ==
  ASSUME NEW o, NEW k \in Attributes, NEW q \in Seq(Attributes)
  PROVE  /\ q = <<>> => At(o, Join(k, q)) = Inside(Whole(o), k)
         /\ q # <<>> /\ k \in DOMAIN o /\ IsMap(o[k]) => At(o, Join(k, q)) = At(o[k].value, q)
  <1> DEFINE p == Join(k, q)
             n == Len(q)
             A == Along(o, p)
             C == Along(o[k].value, q)
  <1>1. /\ A[1] = Inside(Whole(o), k)
        /\ k \in DOMAIN o /\ IsMap(o[k]) => \A i \in 1..n : A[i + 1] = C[i]
    BY AlongBelow
  <1>2. n \in Nat /\ Len(p) = n + 1 /\ (q = <<>> <=> n = 0)
    BY JoinPath, EmptySeq
  <1>3. At(o, p) = A[n + 1] /\ At(o[k].value, q) = C[n]
    <2> HIDE DEF p
    <2> QED BY <1>2 DEF At
  <1> HIDE DEF p, n, A, C
  <1>4. q = <<>> => n + 1 = 1
    BY <1>2
  <1>5. q # <<>> => n \in 1..n
    BY <1>2
  <1> QED BY <1>1, <1>3, <1>4, <1>5 DEF p

LEMMA OneKey == \A k : Join(k, <<>>) = <<k>>
  <1> TAKE k
  <1>1. <<k>> \in Seq({k})
    OBVIOUS
  <1> QED BY <1>1, ConcatEmptySeq DEF Join

-----------------------------------------------------------------------------
(* What a scan compares *)

LEMMA KeyContradicted ==
  ASSUME NEW s \in Objects, NEW l \in Objects, NEW k \in DOMAIN s
  PROVE  Contradicted(s, l, <<k>>) <=>
            /\ k \notin IgnoredKeys
            /\ IF k \notin DOMAIN l THEN s[k] # Null
               ELSE ~(IsMap(s[k]) /\ IsMap(l[k])) /\ s[k] # l[k]
  <1> DEFINE e == <<>>
             p == <<k>>
  <1>1. k \in Attributes /\ e \in Seq(Attributes) /\ p = Join(k, e)
    BY OneKey DEF Attributes
  <1>2. /\ At(s, p) = Inside(Whole(s), k) /\ At(l, p) = Inside(Whole(l), k)
        /\ Parts(s, l, p) <=> ~(IsMap(Inside(Whole(s), k)) /\ IsMap(Inside(Whole(l), k)))
    <2>1. e = <<>>
      OBVIOUS
    <2> HIDE DEF e, p
    <2>2. At(s, Join(k, e)) = Inside(Whole(s), k) /\ At(l, Join(k, e)) = Inside(Whole(l), k)
      BY <1>1, <2>1, AtBelow
    <2>3. Parts(s, l, Join(k, e)) <=> ~(IsMap(Inside(Whole(s), k)) /\ IsMap(Inside(Whole(l), k)))
      BY <1>1, <2>1, PartsBelow
    <2> QED BY <1>1, <2>2, <2>3
  <1>3. (\A i \in DOMAIN p : p[i] \notin IgnoredKeys) <=> k \notin IgnoredKeys
    OBVIOUS
  <1>4. /\ Inside(Whole(s), k) = s[k]
        /\ Inside(Whole(l), k) = IF k \in DOMAIN l THEN l[k] ELSE Absent
    BY DEF Inside, Whole, IsMap
  <1>5. s[k] # Absent /\ ~IsMap(Absent) /\ (k \in DOMAIN l => l[k] # Absent)
    BY ObjectsAssumption DEF Absent, IsMap
  <1> HIDE DEF e, p
  <1>6. Contradicted(s, l, p) <=>
            /\ k \notin IgnoredKeys
            /\ IF k \notin DOMAIN l THEN s[k] # Null
               ELSE ~(IsMap(s[k]) /\ IsMap(l[k])) /\ s[k] # l[k]
    BY <1>2, <1>3, <1>4, <1>5 DEF Contradicted
  <1> QED BY <1>6 DEF p

LEMMA ContradictedBelow ==
  ASSUME NEW s, NEW l, NEW k \in Attributes, NEW q \in Seq(Attributes), q # <<>>
  PROVE  Contradicted(s, l, Join(k, q)) <=>
            /\ k \notin IgnoredKeys
            /\ k \in DOMAIN s /\ k \in DOMAIN l /\ IsMap(s[k]) /\ IsMap(l[k])
            /\ Contradicted(s[k].value, l[k].value, q)
  <1> DEFINE p == Join(k, q)
             both == k \in DOMAIN s /\ k \in DOMAIN l /\ IsMap(s[k]) /\ IsMap(l[k])
  <1>1. /\ p \in Seq(Attributes) /\ Len(q) \in Nat /\ Len(p) = Len(q) + 1 /\ p[1] = k
        /\ \A i \in 1..Len(q) : p[i + 1] = q[i]
    BY JoinPath
  <1>2. Parts(s, l, p) <=> both /\ Parts(s[k].value, l[k].value, q)
    BY PartsBelow
  <1>3. both => At(s, p) = At(s[k].value, q) /\ At(l, p) = At(l[k].value, q)
    BY AtBelow
  <1> HIDE DEF p, both
  <1>4. (\A i \in DOMAIN p : p[i] \notin IgnoredKeys) <=>
            k \notin IgnoredKeys /\ \A i \in DOMAIN q : q[i] \notin IgnoredKeys
    <2>1. DOMAIN p = 1..Len(p) /\ DOMAIN q = 1..Len(q)
      BY <1>1, LenProperties
    <2>2. ASSUME NEW i \in DOMAIN p PROVE p[i] = k \/ \E j \in DOMAIN q : p[i] = q[j]
      <3>1. i = 1 \/ (i - 1 \in DOMAIN q /\ (i - 1) + 1 = i)
        BY <1>1, <2>1
      <3>2. CASE i - 1 \in DOMAIN q /\ (i - 1) + 1 = i
        <4>1. p[(i - 1) + 1] = q[i - 1]
          BY <3>2, <1>1, <2>1
        <4> QED BY <4>1, <3>2
      <3> QED BY <3>1, <3>2, <1>1
    <2>3. 1 \in DOMAIN p /\ \A i \in DOMAIN q : i + 1 \in DOMAIN p
      BY <1>1, <2>1
    <2> QED BY <2>1, <2>2, <2>3, <1>1
  <1>5. Contradicted(s, l, p) <=>
            k \notin IgnoredKeys /\ both /\ Contradicted(s[k].value, l[k].value, q)
    BY <1>2, <1>3, <1>4 DEF Contradicted
  <1> QED BY <1>5 DEF p, both

\* What the recursion computes, path by path.
Contradicting(s, l) == {p \in Paths : Contradicted(s, l, p)}

Closed == [pair \in Objects \X Objects |-> Contradicting(pair[1], pair[2])]

LEMMA ContradictedKnown ==
  ASSUME NEW s \in Objects, NEW l, NEW p \in Seq(Attributes), p # <<>>, Contradicted(s, l, p)
  PROVE  p \in Contradicting(s, l)
  BY PathKnown DEF Contradicted, Contradicting

LEMMA ClosedStep ==
  ASSUME NEW s \in Objects, NEW l \in Objects
  PROVE  Contradicting(s, l) = UNION {Under(Closed, s, l, k) : k \in DOMAIN s \ IgnoredKeys}
  <1>1. ASSUME NEW k \in DOMAIN s \ IgnoredKeys, NEW p
        PROVE  p \in Under(Closed, s, l, k) <=>
                  \/ p = <<k>> /\ Contradicted(s, l, p)
                  \/ /\ k \in DOMAIN l /\ IsMap(s[k]) /\ IsMap(l[k])
                     /\ \E q \in Contradicting(s[k].value, l[k].value) : p = Join(k, q)
    <2>1. CASE k \in DOMAIN l /\ IsMap(s[k]) /\ IsMap(l[k])
      <3> DEFINE a == s[k].value
                 b == l[k].value
      <3>1. a \in Objects /\ b \in Objects
        BY <2>1, ObjectsAssumption DEF IsMap
      <3> HIDE DEF a, b
      <3>2. Closed[<<a, b>>] = Contradicting(a, b)
        BY <3>1 DEF Closed
      <3>3. Under(Closed, s, l, k) = {Join(k, path) : path \in Contradicting(a, b)}
        BY <2>1, <3>2 DEF Under, Join, a, b
      <3>4. ~Contradicted(s, l, <<k>>)
        BY <2>1, KeyContradicted
      <3> QED BY <2>1, <3>3, <3>4 DEF a, b
    <2>2. CASE ~(k \in DOMAIN l /\ IsMap(s[k]) /\ IsMap(l[k]))
      BY <2>2, KeyContradicted DEF Under
    <2> QED BY <2>1, <2>2
  <1>2. ASSUME NEW p \in Contradicting(s, l)
        PROVE  \E k \in DOMAIN s \ IgnoredKeys : p \in Under(Closed, s, l, k)
    <2> DEFINE k == p[1]
               q == Tail(p)
    <2>1. /\ k \in Attributes /\ q \in Seq(Attributes) /\ p = Join(k, q) /\ 1 \in DOMAIN p
          /\ Contradicted(s, l, p)
      <3>1. p \in Paths /\ Contradicted(s, l, p)
        BY DEF Contradicting
      <3>2. p \in Seq(Attributes) /\ p # <<>> /\ Len(p) \in Nat \ {0} /\ DOMAIN p = 1..Len(p)
        BY <3>1, PathIsSeq
      <3>3. 1 \in DOMAIN p
        BY <3>2
      <3> QED BY <3>1, <3>2, <3>3, SplitPath
    <2> HIDE DEF k, q
    <2>2. k \notin IgnoredKeys
      BY <2>1 DEF Contradicted, k
    <2>3. CASE q = <<>>
      <3>1. p = <<k>>
        BY <2>1, <2>3, OneKey
      <3>2. At(s, Join(k, q)) = Inside(Whole(s), k)
        BY <2>1, <2>3, AtBelow
      <3>3. Inside(Whole(s), k) # Absent
        BY <2>1, <3>2 DEF Contradicted
      <3>4. k \in DOMAIN s
        BY <3>3 DEF Inside, Whole
      <3> QED BY <3>1, <3>4, <2>1, <2>2, <1>1
    <2>4. CASE q # <<>>
      <3>1. /\ k \in DOMAIN s /\ k \in DOMAIN l /\ IsMap(s[k]) /\ IsMap(l[k])
            /\ Contradicted(s[k].value, l[k].value, q)
        BY <2>1, <2>4, ContradictedBelow
      <3>2. s[k].value \in Objects
        BY <3>1, ObjectsAssumption DEF IsMap
      <3>3. q \in Contradicting(s[k].value, l[k].value)
        BY <3>1, <3>2, <2>1, <2>4, ContradictedKnown
      <3> QED BY <3>1, <3>3, <2>1, <2>2, <1>1
    <2> QED BY <2>3, <2>4
  <1>3. ASSUME NEW k \in DOMAIN s \ IgnoredKeys, NEW p \in Under(Closed, s, l, k)
        PROVE  p \in Contradicting(s, l)
    <2>1. k \in Attributes
      BY DEF Attributes
    <2>2. CASE p = <<k>> /\ Contradicted(s, l, p)
      <3>1. p \in Seq(Attributes) /\ p # <<>>
        BY <2>1, <2>2
      <3> QED BY <3>1, <2>2, ContradictedKnown
    <2>3. ASSUME k \in DOMAIN l, IsMap(s[k]), IsMap(l[k]),
                 NEW q \in Contradicting(s[k].value, l[k].value), p = Join(k, q)
          PROVE  p \in Contradicting(s, l)
      <3>1. q \in Seq(Attributes) /\ q # <<>> /\ Contradicted(s[k].value, l[k].value, q)
        BY PathIsSeq DEF Contradicting
      <3>2. Contradicted(s, l, p)
        BY <3>1, <2>1, <2>3, ContradictedBelow
      <3>3. p \in Seq(Attributes) /\ p # <<>>
        BY <3>1, <2>1, <2>3, JoinPath, EmptySeq
      <3> QED BY <3>2, <3>3, ContradictedKnown
    <2> QED BY <1>1, <2>2, <2>3
  <1> DEFINE U == UNION {Under(Closed, s, l, k) : k \in DOMAIN s \ IgnoredKeys}
  <1>4. Contradicting(s, l) \subseteq U
    BY <1>2
  <1>5. U \subseteq Contradicting(s, l)
    BY <1>3
  <1> QED BY <1>4, <1>5

\* A function that satisfies the recursion.
Compares(f) ==
    f = [pair \in Objects \X Objects |->
            UNION {Under(f, pair[1], pair[2], key) : key \in DOMAIN pair[1] \ IgnoredKeys}]

LEMMA ComparesUnique ==
  ASSUME NEW f, Compares(f)
  PROVE  \A s, l \in Objects : f[<<s, l>>] = Contradicting(s, l)
  <1> DEFINE T == {n \in Nat : \A s, l \in Objects : Nesting[s] <= n => f[<<s, l>>] = Contradicting(s, l)}
  <1>1. 0 \in T
    <2>1. \A s \in Objects : ~(Nesting[s] <= 0)
      BY ObjectsAssumption
    <2> QED BY <2>1
  <1>2. ASSUME NEW n \in Nat, n \in T PROVE n + 1 \in T
    <2> SUFFICES ASSUME NEW s \in Objects, NEW l \in Objects, Nesting[s] <= n + 1
                 PROVE  f[<<s, l>>] = Contradicting(s, l)
      OBVIOUS
    <2>1. f[<<s, l>>] = UNION {Under(f, s, l, key) : key \in DOMAIN s \ IgnoredKeys}
      <3> DEFINE pair == <<s, l>>
      <3>1. pair \in Objects \X Objects /\ pair[1] = s /\ pair[2] = l
        OBVIOUS
      <3> HIDE DEF pair
      <3>2. f[pair] = UNION {Under(f, pair[1], pair[2], key) : key \in DOMAIN pair[1] \ IgnoredKeys}
        BY <3>1 DEF Compares
      <3> QED BY <3>1, <3>2 DEF pair
    <2>2. ASSUME NEW key \in DOMAIN s PROVE Under(f, s, l, key) = Under(Closed, s, l, key)
      <3>1. CASE key \in DOMAIN l /\ IsMap(s[key]) /\ IsMap(l[key])
        <4> DEFINE a == s[key].value
                   b == l[key].value
        <4>1. a \in Objects /\ b \in Objects /\ Nesting[a] < Nesting[s]
          BY <3>1, ObjectsAssumption DEF IsMap
        <4>2. Nesting[a] <= n
          <5>1. Nesting[a] \in Nat /\ Nesting[s] \in Nat
            BY <4>1, ObjectsAssumption
          <5> QED BY <5>1, <4>1
        <4> HIDE DEF a, b
        <4>3. f[<<a, b>>] = Closed[<<a, b>>]
          BY <4>1, <4>2, <1>2 DEF Closed
        <4> HIDE <1>2
        <4> QED BY <4>3, <3>1 DEF Under, a, b
      <3>2. CASE ~(key \in DOMAIN l /\ IsMap(s[key]) /\ IsMap(l[key]))
        BY <3>2 DEF Under
      <3> QED BY <3>1, <3>2
    <2>3. f[<<s, l>>] = UNION {Under(Closed, s, l, key) : key \in DOMAIN s \ IgnoredKeys}
      <3>1. {Under(f, s, l, key) : key \in DOMAIN s \ IgnoredKeys}
                = {Under(Closed, s, l, key) : key \in DOMAIN s \ IgnoredKeys}
        BY <2>2
      <3> QED BY <2>1, <3>1
    <2> QED BY <2>3, ClosedStep
  <1> HIDE DEF T
  <1>3. \A n \in Nat : n \in T
    BY <1>1, <1>2, NaturalInduction
  <1>4. \A s \in Objects : Nesting[s] \in Nat /\ Nesting[s] <= Nesting[s]
    BY ObjectsAssumption
  <1> QED BY <1>3, <1>4 DEF T

LEMMA ComparesExists == Compares(Closed)
  <1>1. ASSUME NEW pair \in Objects \X Objects
        PROVE  Contradicting(pair[1], pair[2])
                   = UNION {Under(Closed, pair[1], pair[2], key) : key \in DOMAIN pair[1] \ IgnoredKeys}
    BY ClosedStep
  <1>2. Closed = [pair \in Objects \X Objects |-> Contradicting(pair[1], pair[2])]
    BY DEF Closed
  <1> QED BY <1>1, <1>2 DEF Compares

\* However deep they are nested: compareInto finds the paths at which the snapshot
\* contradicts the state, and no others.
LEMMA DifferencesExact == \A s, l \in Objects : Differences[<<s, l>>] = Contradicting(s, l)
  <1> DEFINE f == CHOOSE g : Compares(g)
  <1>1. Differences = f
    BY DEF Differences, Compares
  <1>2. Compares(f)
    BY ComparesExists
  <1> HIDE DEF f
  <1> QED BY <1>1, <1>2, ComparesUnique

-----------------------------------------------------------------------------
(* The ignore rules *)

LEMMA ActiveFacts ==
  ASSUME NEW file \in RuleFiles, NEW day
  PROVE  /\ \E n \in Nat : DOMAIN ActiveRules(file, day) = 1..n
         /\ \A k \in DOMAIN ActiveRules(file, day) :
               \E i \in DOMAIN file : ActiveRules(file, day)[k] = file[i] /\ ~Expired(file[i], day)
         /\ \A i \in DOMAIN file : ~Expired(file[i], day) =>
               \E k \in DOMAIN ActiveRules(file, day) : ActiveRules(file, day)[k] = file[i]
  <1> DEFINE S == {file[i] : i \in DOMAIN file}
             P == {i \in DOMAIN file : ~Expired(file[i], day)}
             K == Kept(file, P)
  <1>1. file \in Seq(S)
    BY ResourcesAssumption
  <1>2. P \in SUBSET DOMAIN file
    OBVIOUS
  <1>3. ActiveRules(file, day) = K
    BY DEF ActiveRules
  <1>4. \A i : i \in P <=> i \in DOMAIN file /\ ~Expired(file[i], day)
    OBVIOUS
  <1> HIDE DEF S, P, K
  <1>5. /\ DOMAIN K = 1..Cardinality(P) /\ Cardinality(P) \in Nat
        /\ \A k \in DOMAIN K : Ascending(P)[k] \in P /\ K[k] = file[Ascending(P)[k]]
        /\ \A i \in P : \E k \in DOMAIN K : Ascending(P)[k] = i
    BY <1>1, <1>2, KeptFacts DEF K
  <1>6. ASSUME NEW k \in DOMAIN K
        PROVE  \E i \in DOMAIN file : K[k] = file[i] /\ ~Expired(file[i], day)
    BY <1>4, <1>5
  <1>7. ASSUME NEW i \in DOMAIN file, ~Expired(file[i], day)
        PROVE  \E k \in DOMAIN K : K[k] = file[i]
    BY <1>4, <1>5, <1>7
  <1> QED BY <1>3, <1>5, <1>6, <1>7

\* Match is zero when no rule covers the finding, and else a rule that does.
LEMMA MatchFacts ==
  ASSUME NEW n \in Nat, NEW active, DOMAIN active = 1..n, NEW address, NEW paths
  PROVE  IF \E i \in DOMAIN active : Covers(active[i], address, paths)
         THEN /\ Match(active, address, paths) \in DOMAIN active
              /\ Match(active, address, paths) # 0
              /\ Covers(active[Match(active, address, paths)], address, paths)
         ELSE Match(active, address, paths) = 0
  <1> DEFINE hits == {i \in DOMAIN active : Covers(active[i], address, paths)}
  <1>1. Match(active, address, paths) =
            IF hits = {} THEN 0 ELSE CHOOSE i \in hits : \A j \in hits : i <= j
    BY DEF Match
  <1>2. hits \subseteq Nat /\ 0 \notin hits
    OBVIOUS
  <1>3. /\ \A i : i \in hits <=> i \in DOMAIN active /\ Covers(active[i], address, paths)
    OBVIOUS
  <1> HIDE DEF hits
  <1>4. hits # {} => \E i \in hits : \A j \in hits : i <= j
    BY <1>2, LeastNatural
  <1>5. hits # {} => Match(active, address, paths) \in hits
    BY <1>1, <1>4
  <1> QED BY <1>1, <1>2, <1>3, <1>5

\* A finding is suppressed if and only if a rule of the file that is in force
\* covers it, and then by one that does.
LEMMA RulesExact ==
  ASSUME NEW file \in RuleFiles, NEW day, NEW address, NEW paths
  PROVE  LET active == ActiveRules(file, day)
             hit == Match(active, address, paths)
         IN  /\ hit # 0 <=> \E i \in DOMAIN file : ~Expired(file[i], day) /\ Covers(file[i], address, paths)
             /\ hit # 0 => ~Expired(active[hit], day) /\ Covers(active[hit], address, paths)
  <1> DEFINE active == ActiveRules(file, day)
             hit == Match(active, address, paths)
  <1>1. PICK n \in Nat : DOMAIN active = 1..n
    BY ActiveFacts
  <1>2. /\ \A k \in DOMAIN active : \E i \in DOMAIN file : active[k] = file[i] /\ ~Expired(file[i], day)
        /\ \A i \in DOMAIN file : ~Expired(file[i], day) => \E k \in DOMAIN active : active[k] = file[i]
    BY ActiveFacts
  <1> HIDE DEF active
  <1>3. IF \E i \in DOMAIN active : Covers(active[i], address, paths)
        THEN hit \in DOMAIN active /\ hit # 0 /\ Covers(active[hit], address, paths)
        ELSE hit = 0
    BY <1>1, MatchFacts
  <1> HIDE DEF hit
  <1>4. hit # 0 <=> \E i \in DOMAIN file : ~Expired(file[i], day) /\ Covers(file[i], address, paths)
    BY <1>2, <1>3
  <1>5. hit # 0 => ~Expired(active[hit], day) /\ Covers(active[hit], address, paths)
    BY <1>2, <1>3
  <1> QED BY <1>4, <1>5 DEF active, hit

-----------------------------------------------------------------------------
(* The scan *)

Found == CompareForDrift(state, live, flags.unmanaged)
Active == ActiveRules(rules, flags.today)
Hit(f) == Match(Active, f.address, f.changes)
Left == {f \in Found : Hit(f) = 0}
Hidden == {[finding |-> f, rule |-> Active[Hit(f)]] : f \in {g \in Found : Hit(g) # 0}}
Shown == IF flags.command = "scan" THEN {f \in Left : f.severity >= flags.minSeverity} ELSE Left
Judged == IF flags.failAt # Nil /\ \E f \in Shown : f.severity >= flags.failAt THEN 3 ELSE 0

\* At each phase the findings are what the inputs say.
ScanInv ==
    /\ state \in States /\ live \in Snapshots /\ rules \in RuleFiles /\ flags \in Invocations
    /\ phase \in {"started", "compared", "ruled", "filtered", "done", "failed"}
    /\ phase = "compared" => findings = Found
    /\ phase = "ruled" => findings = Left /\ suppressed = Hidden
    /\ phase \in {"filtered", "done"} => findings = Shown /\ suppressed = Hidden
    /\ phase = "done" => exit = Judged /\ said = Report

LEMMA ScanStep == ScanInv /\ [ScanNext]_scanVars => ScanInv'
  <1> SUFFICES ASSUME ScanInv, [ScanNext]_scanVars PROVE ScanInv'
    OBVIOUS
  <1>1. UNCHANGED inputs
    BY DEF ScanNext, Compare, ApplyRules, Filter, Gate, Fail, scanVars
  <1>2. /\ Found' = Found /\ Left' = Left /\ Hidden' = Hidden /\ Shown' = Shown /\ Judged' = Judged
    <2>1. state' = state /\ live' = live /\ rules' = rules /\ flags' = flags
      BY <1>1 DEF inputs
    <2>2. Found' = Found
      BY <2>1 DEF Found
    <2>3. Active' = Active
      BY <2>1 DEF Active
    <2>4. Left' = Left /\ Hidden' = Hidden
      BY <2>2, <2>3 DEF Left, Hidden, Hit
    <2>5. Shown' = Shown
      BY <2>1, <2>4 DEF Shown
    <2> QED BY <2>1, <2>2, <2>4, <2>5 DEF Judged
  <1> DEFINE Given == state \in States /\ live \in Snapshots /\ rules \in RuleFiles /\ flags \in Invocations
  <1>3. Given'
    BY <1>1 DEF ScanInv, inputs
  <1> HIDE DEF Given
  <1>4. CASE Compare
    <2>1. phase' = "compared" /\ findings' = Found
      BY <1>4 DEF Compare, Found
    <2> QED BY <2>1, <1>2, <1>3 DEF ScanInv, Given
  <1>5. CASE ApplyRules
    <2>1. phase' = "ruled" /\ findings = Found
      BY <1>5 DEF ApplyRules, ScanInv
    <2>2. findings' = Left /\ suppressed' = Hidden
      BY <1>5, <2>1 DEF ApplyRules, Left, Hidden, Hit, Active
    <2> QED BY <2>1, <2>2, <1>2, <1>3 DEF ScanInv, Given
  <1>6. CASE Filter
    <2>1. phase' = "filtered" /\ findings = Left /\ suppressed' = Hidden
      BY <1>6 DEF Filter, ScanInv
    <2>2. findings' = Shown
      BY <1>6, <2>1 DEF Filter, Shown
    <2> QED BY <2>1, <2>2, <1>2, <1>3 DEF ScanInv, Given
  <1>7. CASE Gate
    <2>1. phase' = "done" /\ findings = Shown /\ findings' = Shown /\ suppressed' = Hidden
      BY <1>7 DEF Gate, ScanInv
    <2>2. exit' = Judged
      BY <1>7, <2>1 DEF Gate, Judged
    <2>3. said' = Report /\ Report' = Report
      <3>1. findings' = findings /\ suppressed' = suppressed /\ flags' = flags
        BY <1>7 DEF Gate, inputs
      <3> QED BY <1>7, <3>1 DEF Gate, Report
    <2> QED BY <2>1, <2>2, <2>3, <1>2, <1>3 DEF ScanInv, Given
  <1>8. CASE Fail
    BY <1>8, <1>2, <1>3 DEF Fail, ScanInv, Given
  <1>9. CASE UNCHANGED scanVars
    <2>1. /\ phase' = phase /\ findings' = findings /\ suppressed' = suppressed
          /\ said' = said /\ exit' = exit /\ flags' = flags
      BY <1>9 DEF scanVars, inputs
    <2>2. Report' = Report
      BY <2>1 DEF Report
    <2> QED BY <2>1, <2>2, <1>2, <1>3 DEF ScanInv, Given
  <1> QED BY <1>4, <1>5, <1>6, <1>7, <1>8, <1>9 DEF ScanNext

Resources == DOMAIN state \cup DOMAIN live
Shared == DOMAIN state \cap DOMAIN live

\* The finding that a resource calls for.
Due(a) ==
    IF a \notin DOMAIN live THEN Finding(a, "missing_in_live", 4, 60, {})
    ELSE IF a \notin DOMAIN state THEN Finding(a, "unmanaged", 3, 35, {})
    ELSE Modified(a, Contradictions(a))

LEMMA FoundExact ==
  ASSUME ScanInv
  PROVE  /\ \A f \in Found : \E a \in Resources : Calls(a) /\ f = Due(a)
         /\ \A a \in Resources : Calls(a) => Due(a) \in Found
  <1>1. \A a \in Shared : Differences[<<state[a], live[a]>>] = Contradictions(a)
    <2> SUFFICES ASSUME NEW a \in Shared PROVE Differences[<<state[a], live[a]>>] = Contradictions(a)
      OBVIOUS
    <2>1. state[a] \in Objects /\ live[a] \in Objects
      BY ResourcesAssumption DEF ScanInv, Shared
    <2> QED BY <2>1, DifferencesExact DEF Contradictions, Contradicting
  <1>2. Found = {Finding(a, "missing_in_live", 4, 60, {}) : a \in DOMAIN state \ DOMAIN live}
                \cup {Modified(a, Contradictions(a)) : a \in {b \in Shared : Contradictions(b) # {}}}
                \cup {Finding(a, "unmanaged", 3, 35, {}) :
                         a \in IF flags.unmanaged THEN DOMAIN live \ DOMAIN state ELSE {}}
    <2>1. {a \in Shared : Differences[<<state[a], live[a]>>] # {}} = {b \in Shared : Contradictions(b) # {}}
      BY <1>1
    <2>2. {Modified(a, Differences[<<state[a], live[a]>>]) :
              a \in {b \in Shared : Differences[<<state[b], live[b]>>] # {}}}
          = {Modified(a, Contradictions(a)) : a \in {b \in Shared : Contradictions(b) # {}}}
      BY <1>1, <2>1
    <2> QED BY <2>2 DEF Found, CompareForDrift, Shared
  <1>3. \A a : Calls(a) <=> IF a \in DOMAIN state /\ a \notin DOMAIN live THEN TRUE
                            ELSE IF a \in DOMAIN live /\ a \notin DOMAIN state THEN flags.unmanaged
                            ELSE Contradictions(a) # {}
    <2>1. flags.unmanaged \in BOOLEAN
      BY InvocationsAssumption DEF ScanInv
    <2> QED BY <2>1 DEF Calls
  <1>4. ASSUME NEW f \in Found PROVE \E a \in Resources : Calls(a) /\ f = Due(a)
    <2>1. CASE \E a \in DOMAIN state \ DOMAIN live : f = Finding(a, "missing_in_live", 4, 60, {})
      BY <2>1, <1>3 DEF Due, Resources
    <2>2. CASE \E a \in Shared : Contradictions(a) # {} /\ f = Modified(a, Contradictions(a))
      BY <2>2, <1>3 DEF Due, Resources, Shared
    <2>3. CASE flags.unmanaged /\ \E a \in DOMAIN live \ DOMAIN state : f = Finding(a, "unmanaged", 3, 35, {})
      BY <2>3, <1>3 DEF Due, Resources
    <2> QED BY <2>1, <2>2, <2>3, <1>2
  <1>5. ASSUME NEW a \in Resources, Calls(a) PROVE Due(a) \in Found
    <2>1. CASE a \in DOMAIN state \ DOMAIN live
      BY <2>1, <1>2 DEF Due
    <2>2. CASE a \in DOMAIN live \ DOMAIN state
      BY <2>2, <1>2, <1>3, <1>5 DEF Due
    <2>3. CASE a \in Shared
      BY <2>3, <1>2, <1>3, <1>5 DEF Due, Shared
    <2> QED BY <2>1, <2>2, <2>3 DEF Resources, Shared
  <1> QED BY <1>4, <1>5

LEMMA DueFacts ==
  ASSUME NEW a
  PROVE  /\ Due(a).address = a /\ Due(a).severity = Gravity(a)
         /\ Due(a).changes = IF a \in DOMAIN live /\ a \in DOMAIN state THEN Contradictions(a) ELSE {}
         /\ Due(a).kind = "modified" <=> a \in DOMAIN live /\ a \in DOMAIN state
  BY DEF Due, Finding, Modified, Gravity

\* What a resource calls for is suppressed exactly when a rule speaks for it.
LEMMA HitExact ==
  ASSUME ScanInv, NEW a \in Resources, Calls(a)
  PROVE  /\ Hit(Due(a)) # 0 <=> Excused(a)
         /\ Hit(Due(a)) # 0 => /\ ~Expired(Active[Hit(Due(a))], flags.today)
                               /\ Covers(Active[Hit(Due(a))], a, Due(a).changes)
  <1> DEFINE c == Due(a).changes
  <1>1. /\ Hit(Due(a)) # 0 <=>
              \E i \in DOMAIN rules : ~Expired(rules[i], flags.today) /\ Covers(rules[i], a, c)
        /\ Hit(Due(a)) # 0 => /\ ~Expired(Active[Hit(Due(a))], flags.today)
                              /\ Covers(Active[Hit(Due(a))], a, c)
    <2>1. rules \in RuleFiles
      BY DEF ScanInv
    <2> QED BY <2>1, RulesExact, DueFacts DEF Hit, Active
  <1>2. /\ a \in DOMAIN state \cap DOMAIN live => c = Contradictions(a) /\ c # {}
        /\ a \notin DOMAIN state \cap DOMAIN live => c = {}
    BY DueFacts DEF Calls
  <1> HIDE DEF c
  <1>3. ASSUME NEW i \in DOMAIN rules
        PROVE  ~Expired(rules[i], flags.today) /\ Covers(rules[i], a, c) <=>
                  /\ rules[i].expires = Nil \/ flags.today <= rules[i].expires
                  /\ MatchPattern(rules[i].address, a)
                  /\ \/ rules[i].attributes = {}
                     \/ /\ a \in DOMAIN state \cap DOMAIN live
                        /\ \A path \in Contradictions(a) :
                              \E p \in rules[i].attributes : MatchPattern(p, path)
    <2>1. ~Expired(rules[i], flags.today) <=> rules[i].expires = Nil \/ flags.today <= rules[i].expires
      <3> DEFINE e == rules[i].expires
                 d == flags.today
      <3>1. e \in {Nil} \cup Nat /\ d \in Nat
        BY ResourcesAssumption, InvocationsAssumption DEF ScanInv
      <3>2. ~Expired(rules[i], d) <=> ~(e # Nil /\ d > e)
        BY DEF Expired
      <3> HIDE DEF e, d
      <3>3. ~Expired(rules[i], d) <=> e = Nil \/ d <= e
        BY <3>1, <3>2
      <3> QED BY <3>3 DEF e, d
    <2> QED BY <2>1, <1>2 DEF Covers
  <1> QED BY <1>1, <1>3 DEF Excused, c

\* What the report holds, resource by resource.
LEMMA ShownExact ==
  ASSUME ScanInv
  PROVE  /\ \A f \in Shown : \E a \in Resources :
               /\ Calls(a) /\ ~Excused(a) /\ f = Due(a)
               /\ flags.command = "scan" => Gravity(a) >= flags.minSeverity
         /\ \A a \in Resources :
               Calls(a) /\ ~Excused(a) /\ (flags.command = "scan" => Gravity(a) >= flags.minSeverity) =>
                   Due(a) \in Shown
  <1>1. ASSUME NEW f \in Shown
        PROVE  \E a \in Resources :
                  /\ Calls(a) /\ ~Excused(a) /\ f = Due(a)
                  /\ flags.command = "scan" => Gravity(a) >= flags.minSeverity
    <2>1. f \in Found /\ Hit(f) = 0 /\ (flags.command = "scan" => f.severity >= flags.minSeverity)
      BY DEF Shown, Left
    <2>2. PICK a \in Resources : Calls(a) /\ f = Due(a)
      BY <2>1, FoundExact
    <2>3. ~Excused(a)
      BY <2>1, <2>2, HitExact
    <2> QED BY <2>1, <2>2, <2>3, DueFacts
  <1>2. ASSUME NEW a \in Resources, Calls(a), ~Excused(a),
               flags.command = "scan" => Gravity(a) >= flags.minSeverity
        PROVE  Due(a) \in Shown
    <2>1. Due(a) \in Found /\ Hit(Due(a)) = 0
      BY <1>2, FoundExact, HitExact
    <2>2. flags.command = "scan" => Due(a).severity >= flags.minSeverity
      BY <1>2, DueFacts
    <2> QED BY <2>1, <2>2 DEF Shown, Left
  <1> QED BY <1>1, <1>2

\* A resource that is excused gives one suppressed finding, and each is of one.
LEMMA HiddenCounts ==
  ASSUME ScanInv
  PROVE  Cardinality(Hidden) = Cardinality(Withheld) /\ IsFiniteSet(Withheld)
  <1> DEFINE Record(a) == [finding |-> Due(a), rule |-> Active[Hit(Due(a))]]
             g == [a \in Withheld |-> Record(a)]
  <1>1. IsFiniteSet(Withheld)
    <2>1. IsFiniteSet(DOMAIN state) /\ IsFiniteSet(DOMAIN live)
      BY ResourcesAssumption DEF ScanInv
    <2>2. IsFiniteSet(DOMAIN state \cup DOMAIN live)
      BY <2>1, FS_Union
    <2> QED BY <2>2, FS_Subset DEF Withheld
  <1>2. \A a : a \in Withheld <=> a \in Resources /\ Calls(a) /\ Excused(a)
    BY DEF Withheld, Resources
  <1>3. ASSUME NEW a \in Withheld PROVE Record(a) \in Hidden
    <2>1. Due(a) \in Found /\ Hit(Due(a)) # 0
      BY <1>2, FoundExact, HitExact
    <2> QED BY <2>1 DEF Hidden
  <1>4. ASSUME NEW s \in Hidden PROVE \E a \in Withheld : s = Record(a)
    <2>1. PICK f \in Found : Hit(f) # 0 /\ s = [finding |-> f, rule |-> Active[Hit(f)]]
      BY DEF Hidden
    <2>2. PICK a \in Resources : Calls(a) /\ f = Due(a)
      BY FoundExact
    <2>3. a \in Withheld
      BY <2>1, <2>2, <1>2, HitExact
    <2> QED BY <2>1, <2>2, <2>3
  <1>5. ASSUME NEW a \in Withheld, NEW b \in Withheld, Record(a) = Record(b) PROVE a = b
    <2>1. Record(a).finding = Due(a) /\ Record(b).finding = Due(b)
      OBVIOUS
    <2> HIDE DEF Record
    <2>2. Due(a) = Due(b)
      BY <2>1, <1>5
    <2> QED BY <2>2, DueFacts
  <1> HIDE DEF Record
  <1>6. g \in [Withheld -> Hidden] /\ \A a \in Withheld : g[a] = Record(a)
    BY <1>3
  <1> HIDE DEF g
  <1>7. g \in Bijection(Withheld, Hidden)
    <2>1. g \in Injection(Withheld, Hidden)
      BY <1>5, <1>6 DEF Injection, IsInjective
    <2>2. g \in Surjection(Withheld, Hidden)
      BY <1>4, <1>6 DEF Surjection
    <2> QED BY <2>1, <2>2 DEF Bijection
  <1>8. ExistsBijection(Withheld, Hidden)
    BY <1>7 DEF ExistsBijection
  <1> QED BY <1>1, <1>8, FS_Bijection

LEMMA ScanInvImplies == ScanInv => ReportIsExact /\ SuppressionIsHonest /\ GateIsHonest
  <1> SUFFICES ASSUME ScanInv PROVE ReportIsExact /\ SuppressionIsHonest /\ GateIsHonest
    OBVIOUS
  <1> DEFINE Spared(a) == flags.command = "scan" => Gravity(a) >= flags.minSeverity
  <1>1. /\ \A f \in Shown : \E a \in Resources : Calls(a) /\ ~Excused(a) /\ f = Due(a) /\ Spared(a)
        /\ \A a \in Resources : Calls(a) /\ ~Excused(a) /\ Spared(a) => Due(a) \in Shown
    BY ShownExact
  <1>2. ReportIsExact
    <2> SUFFICES ASSUME phase = "done"
                 PROVE  {f.address : f \in findings} =
                            {a \in DOMAIN state \cup DOMAIN live :
                                /\ Calls(a) /\ ~Excused(a)
                                /\ flags.command = "scan" => Gravity(a) >= flags.minSeverity}
      BY DEF ReportIsExact
    <2> DEFINE R == {a \in Resources : Calls(a) /\ ~Excused(a) /\ Spared(a)}
               A == {f.address : f \in findings}
    <2>1. findings = Shown
      BY DEF ScanInv
    <2>2. A \subseteq R
      BY <2>1, <1>1, DueFacts
    <2>3. ASSUME NEW a \in R PROVE a \in A
      <3>1. Due(a) \in findings /\ Due(a).address = a
        BY <2>1, <1>1, DueFacts
      <3> QED BY <3>1
    <2> QED BY <2>2, <2>3 DEF Resources
  <1>3. SuppressionIsHonest
    <2> SUFFICES ASSUME phase = "done" PROVE SuppressionIsHonest
      BY DEF SuppressionIsHonest
    <2>1. findings = Shown /\ suppressed = Hidden
      BY DEF ScanInv
    <2>2. ASSUME NEW a \in DOMAIN state \cup DOMAIN live, Calls(a)
          PROVE  \/ \E f \in findings : f.address = a
                 \/ \E s \in suppressed : s.finding.address = a
                 \/ flags.command = "scan" /\ Gravity(a) < flags.minSeverity
      <3>1. a \in Resources
        BY DEF Resources
      <3>2. CASE Excused(a)
        <4> DEFINE s == [finding |-> Due(a), rule |-> Active[Hit(Due(a))]]
        <4>1. Due(a) \in Found /\ Hit(Due(a)) # 0
          BY <3>1, <3>2, <2>2, FoundExact, HitExact
        <4>2. s \in suppressed /\ s.finding = Due(a)
          BY <4>1, <2>1 DEF Hidden
        <4> HIDE DEF s
        <4> QED BY <4>2, DueFacts
      <3>3. CASE ~Excused(a) /\ Spared(a)
        BY <3>1, <3>3, <2>1, <2>2, <1>1, DueFacts
      <3>4. CASE ~Spared(a)
        <4>1. Gravity(a) \in Nat /\ flags.minSeverity \in Nat
          BY InvocationsAssumption DEF ScanInv, Gravity, SeverityForScore
        <4> QED BY <4>1, <3>4
      <3> QED BY <3>2, <3>3, <3>4
    <2>3. ASSUME NEW s \in suppressed
          PROVE  /\ ~Expired(s.rule, flags.today)
                 /\ s.rule.attributes # {} =>
                       /\ s.finding.kind = "modified"
                       /\ \A path \in Contradictions(s.finding.address) :
                             \E p \in s.rule.attributes : MatchPattern(p, path)
      <3>1. PICK f \in Found : Hit(f) # 0 /\ s = [finding |-> f, rule |-> Active[Hit(f)]]
        BY <2>1 DEF Hidden
      <3>2. PICK a \in Resources : Calls(a) /\ f = Due(a)
        BY FoundExact
      <3>3. s.finding = Due(a) /\ s.rule = Active[Hit(Due(a))] /\ Hit(Due(a)) # 0
        BY <3>1, <3>2
      <3>4. ~Expired(s.rule, flags.today) /\ Covers(s.rule, a, Due(a).changes)
        BY <3>2, <3>3, HitExact
      <3>5. s.rule.attributes # {} =>
               /\ Due(a).changes # {}
               /\ \A path \in Due(a).changes : \E p \in s.rule.attributes : MatchPattern(p, path)
        BY <3>4 DEF Covers
      <3>6. Due(a).changes # {} => Due(a).kind = "modified" /\ Due(a).changes = Contradictions(a)
        BY DueFacts
      <3> QED BY <3>3, <3>4, <3>5, <3>6, DueFacts
    <2>4. said = Report /\ Cardinality(suppressed) = Cardinality(Withheld)
      BY <2>1, HiddenCounts DEF ScanInv
    <2>5. said.hidden \in {0, Cardinality(Withheld)}
      BY <2>4 DEF Report
    <2>6. flags.command = "scan" =>
              \/ said.hidden = Cardinality(Withheld)
              \/ flags.output = "findings"
              \/ flags.output = "people" /\ findings = {}
      <3>1. flags.output \in {"people", "whole", "findings"}
        BY InvocationsAssumption DEF ScanInv
      <3> QED BY <2>4, <3>1 DEF Report
    <2>7. ASSUME said.allMatch, Withheld = {}, NEW a \in DOMAIN state \cup DOMAIN live, Calls(a)
          PROVE  Gravity(a) < flags.minSeverity
      <3>1. flags.command = "scan" /\ findings = {}
        BY <2>4, <2>7 DEF Report
      <3>2. suppressed = {}
        <4>2. ASSUME NEW s \in suppressed PROVE FALSE
          <5>1. PICK f \in Found : Hit(f) # 0
            BY <2>1, <4>2 DEF Hidden
          <5>2. PICK b \in Resources : Calls(b) /\ f = Due(b)
            BY FoundExact
          <5>3. b \in Withheld
            BY <5>1, <5>2, HitExact DEF Withheld, Resources
          <5> QED BY <5>3, <2>7
        <4> QED BY <4>2
      <3> QED BY <2>2, <2>7, <3>1, <3>2
    <2> QED BY <2>2, <2>3, <2>5, <2>6, <2>7 DEF SuppressionIsHonest
  <1>4. GateIsHonest
    <2> SUFFICES ASSUME phase = "done", flags.failAt # Nil
                 PROVE  exit = 3 <=> \E a \in DOMAIN state \cup DOMAIN live :
                                        /\ Calls(a) /\ ~Excused(a)
                                        /\ Gravity(a) >= flags.failAt
                                        /\ Gravity(a) >= flags.minSeverity
      BY DEF GateIsHonest
    <2>1. exit = Judged /\ flags.command = "scan"
      BY InvocationsAssumption DEF ScanInv
    <2>2. exit = 3 <=> \E f \in Shown : f.severity >= flags.failAt
      BY <2>1 DEF Judged
    <2>3. ASSUME NEW f \in Shown, f.severity >= flags.failAt
          PROVE  \E a \in Resources : /\ Calls(a) /\ ~Excused(a)
                                      /\ Gravity(a) >= flags.failAt
                                      /\ Gravity(a) >= flags.minSeverity
      <3>1. PICK a \in Resources : Calls(a) /\ ~Excused(a) /\ f = Due(a) /\ Spared(a)
        BY <1>1
      <3> QED BY <3>1, <2>1, <2>3, DueFacts
    <2>4. ASSUME NEW a \in Resources, Calls(a), ~Excused(a),
                 Gravity(a) >= flags.failAt, Gravity(a) >= flags.minSeverity
          PROVE  \E f \in Shown : f.severity >= flags.failAt
      <3>1. Due(a) \in Shown
        BY <2>4, <1>1
      <3> QED BY <3>1, <2>4, DueFacts
    <2> QED BY <2>2, <2>3, <2>4 DEF Resources
  <1> QED BY <1>2, <1>3, <1>4

LEMMA ScanInvariant == ScanSpec => []ScanInv
  <1>1. ScanInit => ScanInv
    BY DEF ScanInit, ScanInv
  <1>2. ScanInv /\ [ScanNext]_scanVars => ScanInv'
    BY ScanStep
  <1> QED BY <1>1, <1>2, PTL DEF ScanSpec

\* What a scan and a run of notify report is what the state, the snapshot, the
\* ignore file and the flags call for, however deep resources are nested:
\* runDriftScan and collectDrift.
THEOREM ScanReportsExactly == ScanSpec => []ReportIsExact
  BY ScanInvariant, ScanInvImplies, PTL

\* Nothing that is called for is lost: it is reported, suppressed by a rule in force
\* that speaks for each change, or below the severity asked for; and the count of
\* what is suppressed is right wherever it is given, which is everywhere but in the
\* formats that hold findings only and in a report for people without findings:
\* applyIgnoreRules, printDriftSummary.
THEOREM ScanSuppressesHonestly == ScanSpec => []SuppressionIsHonest
  BY ScanInvariant, ScanInvImplies, PTL

\* The gate trips exactly for what no rule excuses and both severities let through:
\* the exit code of runDriftScan.
THEOREM ScanGatesHonestly == ScanSpec => []GateIsHonest
  BY ScanInvariant, ScanInvImplies, PTL

-----------------------------------------------------------------------------
(* What the detector finds *)

\* The paths at which two configurations part and are not the same, and what is
\* said of one.
Apart(e, a) == {p \in Paths : Parts(e, a, p) /\ At(e, p) # At(a, p)}
Said(e, a, p) == Diff(p, ValueAt(e, p), ValueAt(a, p))
Reported(e, a) == {Said(e, a, p) : p \in Apart(e, a)}

Settled == [pair \in Objects \X Objects |-> Reported(pair[1], pair[2])]

LEMMA KeyApart ==
  ASSUME NEW e \in Objects, NEW a \in Objects, NEW k \in DOMAIN e \cup DOMAIN a
  PROVE  /\ <<k>> \in Apart(e, a) <=>
               k \notin DOMAIN e \/ k \notin DOMAIN a \/
                  (~(IsMap(e[k]) /\ IsMap(a[k])) /\ e[k] # a[k])
         /\ Said(e, a, <<k>>) = Diff(<<k>>, IF k \in DOMAIN e THEN e[k] ELSE Null,
                                            IF k \in DOMAIN a THEN a[k] ELSE Null)
  <1> DEFINE n == <<>>
             p == <<k>>
  <1>1. k \in Attributes /\ n \in Seq(Attributes) /\ p = Join(k, n) /\ p \in Seq(Attributes) /\ p # <<>>
    BY OneKey DEF Attributes
  <1>2. /\ At(e, p) = Inside(Whole(e), k) /\ At(a, p) = Inside(Whole(a), k)
        /\ Parts(e, a, p) <=> ~(IsMap(Inside(Whole(e), k)) /\ IsMap(Inside(Whole(a), k)))
    <2>1. n = <<>>
      OBVIOUS
    <2> HIDE DEF n, p
    <2>2. At(e, Join(k, n)) = Inside(Whole(e), k) /\ At(a, Join(k, n)) = Inside(Whole(a), k)
      BY <1>1, <2>1, AtBelow
    <2>3. Parts(e, a, Join(k, n)) <=> ~(IsMap(Inside(Whole(e), k)) /\ IsMap(Inside(Whole(a), k)))
      BY <1>1, <2>1, PartsBelow
    <2> QED BY <1>1, <2>2, <2>3
  <1>3. /\ Inside(Whole(e), k) = IF k \in DOMAIN e THEN e[k] ELSE Absent
        /\ Inside(Whole(a), k) = IF k \in DOMAIN a THEN a[k] ELSE Absent
    BY DEF Inside, Whole, IsMap
  <1>4. /\ ~IsMap(Absent) /\ (k \in DOMAIN e => e[k] # Absent) /\ (k \in DOMAIN a => a[k] # Absent)
    BY ObjectsAssumption DEF Absent, IsMap
  <1> HIDE DEF n, p
  <1>5. At(e, p) # Absent \/ At(a, p) # Absent
    BY <1>2, <1>3, <1>4
  <1>6. p \in Paths
    BY <1>1, <1>5, PathKnown
  <1>7. p \in Apart(e, a) <=> Parts(e, a, p) /\ At(e, p) # At(a, p)
    BY <1>6 DEF Apart
  <1>8. p \in Apart(e, a) <=>
            k \notin DOMAIN e \/ k \notin DOMAIN a \/
               (~(IsMap(e[k]) /\ IsMap(a[k])) /\ e[k] # a[k])
    <2>1. CASE k \in DOMAIN e /\ k \in DOMAIN a
      BY <2>1, <1>2, <1>3, <1>7
    <2>2. CASE k \notin DOMAIN e \/ k \notin DOMAIN a
      BY <2>2, <1>2, <1>3, <1>4, <1>7
    <2> QED BY <2>1, <2>2
  <1>9. Said(e, a, p) = Diff(p, IF k \in DOMAIN e THEN e[k] ELSE Null,
                                IF k \in DOMAIN a THEN a[k] ELSE Null)
    <2>1. ValueAt(e, p) = IF k \in DOMAIN e THEN e[k] ELSE Null
      BY <1>2, <1>3, <1>4 DEF ValueAt
    <2>2. ValueAt(a, p) = IF k \in DOMAIN a THEN a[k] ELSE Null
      BY <1>2, <1>3, <1>4 DEF ValueAt
    <2> QED BY <2>1, <2>2 DEF Said
  <1> QED BY <1>8, <1>9 DEF p

LEMMA ApartBelow ==
  ASSUME NEW e \in Objects, NEW a \in Objects, NEW k \in Attributes, NEW q \in Seq(Attributes), q # <<>>
  PROVE  /\ Join(k, q) \in Apart(e, a) <=>
               /\ k \in DOMAIN e /\ k \in DOMAIN a /\ IsMap(e[k]) /\ IsMap(a[k])
               /\ q \in Apart(e[k].value, a[k].value)
         /\ k \in DOMAIN e /\ k \in DOMAIN a /\ IsMap(e[k]) /\ IsMap(a[k]) =>
               Said(e, a, Join(k, q)) =
                  Diff(Join(k, q), ValueAt(e[k].value, q), ValueAt(a[k].value, q))
  <1> DEFINE p == Join(k, q)
             both == k \in DOMAIN e /\ k \in DOMAIN a /\ IsMap(e[k]) /\ IsMap(a[k])
  <1>1. p \in Seq(Attributes) /\ p # <<>>
    BY JoinPath, EmptySeq
  <1>2. Parts(e, a, p) <=> both /\ Parts(e[k].value, a[k].value, q)
    BY PartsBelow
  <1>3. both => At(e, p) = At(e[k].value, q) /\ At(a, p) = At(a[k].value, q)
    BY AtBelow
  <1>4. both => e[k].value \in Objects /\ a[k].value \in Objects
    BY ObjectsAssumption DEF IsMap
  <1> HIDE DEF p, both
  <1>5. At(e, p) # At(a, p) => p \in Paths
    <2> SUFFICES ASSUME At(e, p) # At(a, p) PROVE p \in Paths
      OBVIOUS
    <2>1. CASE At(e, p) # Absent
      BY <2>1, <1>1, PathKnown
    <2>2. CASE At(a, p) # Absent
      BY <2>2, <1>1, PathKnown
    <2> QED BY <2>1, <2>2
  <1>6. both /\ At(e[k].value, q) # At(a[k].value, q) => q \in Paths
    <2> SUFFICES ASSUME both, At(e[k].value, q) # At(a[k].value, q) PROVE q \in Paths
      OBVIOUS
    <2>1. CASE At(e[k].value, q) # Absent
      BY <2>1, <1>4, PathKnown
    <2>2. CASE At(a[k].value, q) # Absent
      BY <2>2, <1>4, PathKnown
    <2> QED BY <2>1, <2>2
  <1>7. p \in Apart(e, a) <=> both /\ q \in Apart(e[k].value, a[k].value)
    BY <1>2, <1>3, <1>5, <1>6 DEF Apart
  <1>8. both => Said(e, a, p) = Diff(p, ValueAt(e[k].value, q), ValueAt(a[k].value, q))
    BY <1>3 DEF Said, ValueAt
  <1> QED BY <1>7, <1>8 DEF p, both

LEMMA ExpectedReported ==
  ASSUME NEW e \in Objects, NEW a \in Objects, NEW k \in DOMAIN e, NEW d
  PROVE  d \in Expected(Settled, e, a, k) <=>
            \/ <<k>> \in Apart(e, a) /\ d = Said(e, a, <<k>>)
            \/ /\ k \in DOMAIN a /\ IsMap(e[k]) /\ IsMap(a[k])
               /\ \E q \in Apart(e[k].value, a[k].value) : d = Said(e, a, Join(k, q))
  <1>1. /\ <<k>> \in Apart(e, a) <=>
              k \notin DOMAIN a \/ (~(IsMap(e[k]) /\ IsMap(a[k])) /\ e[k] # a[k])
        /\ Said(e, a, <<k>>) = Diff(<<k>>, e[k], IF k \in DOMAIN a THEN a[k] ELSE Null)
    <2>1. k \in DOMAIN e \cup DOMAIN a /\ k \in DOMAIN e
      OBVIOUS
    <2>2. <<k>> \in Apart(e, a) <=>
              k \notin DOMAIN e \/ k \notin DOMAIN a \/
                 (~(IsMap(e[k]) /\ IsMap(a[k])) /\ e[k] # a[k])
      BY <2>1, KeyApart
    <2>3. Said(e, a, <<k>>) = Diff(<<k>>, IF k \in DOMAIN e THEN e[k] ELSE Null,
                                          IF k \in DOMAIN a THEN a[k] ELSE Null)
      BY <2>1, KeyApart
    <2> QED BY <2>1, <2>2, <2>3
  <1>2. CASE k \in DOMAIN a /\ IsMap(e[k]) /\ IsMap(a[k])
    <2> DEFINE s == e[k].value
               l == a[k].value
    <2>1. s \in Objects /\ l \in Objects /\ k \in Attributes
      BY <1>2, ObjectsAssumption DEF IsMap, Attributes
    <2>2. ASSUME NEW q \in Apart(s, l)
          PROVE  Said(e, a, Join(k, q)) = Diff(<<k>> \o q, ValueAt(s, q), ValueAt(l, q))
      <3>1. q \in Seq(Attributes) /\ q # <<>>
        BY PathIsSeq DEF Apart
      <3> HIDE DEF s, l
      <3>2. Said(e, a, Join(k, q)) = Diff(Join(k, q), ValueAt(s, q), ValueAt(l, q))
        BY <3>1, <2>1, <1>2, ApartBelow DEF s, l
      <3> QED BY <3>2 DEF Join
    <2> HIDE DEF s, l
    <2>3. Settled[<<s, l>>] = Reported(s, l)
      BY <2>1 DEF Settled
    <2>4. Expected(Settled, e, a, k) = {Diff(<<k>> \o x.path, x.expected, x.actual) : x \in Reported(s, l)}
      BY <1>2, <2>3 DEF Expected, s, l
    <2>5. \A q \in Apart(s, l) : /\ Said(s, l, q) \in Reported(s, l)
                                 /\ Said(s, l, q).path = q
                                 /\ Said(s, l, q).expected = ValueAt(s, q)
                                 /\ Said(s, l, q).actual = ValueAt(l, q)
      BY DEF Reported, Said, Diff
    <2>6. \A x \in Reported(s, l) : \E q \in Apart(s, l) : x = Said(s, l, q)
      BY DEF Reported
    <2>7. d \in Expected(Settled, e, a, k) <=>
              \E x \in Reported(s, l) : d = Diff(<<k>> \o x.path, x.expected, x.actual)
      BY <2>4
    <2>8. d \in Expected(Settled, e, a, k) <=> \E q \in Apart(s, l) : d = Said(e, a, Join(k, q))
      BY <2>2, <2>5, <2>6, <2>7
    <2> QED BY <1>1, <1>2, <2>8 DEF s, l
  <1>3. CASE ~(k \in DOMAIN a /\ IsMap(e[k]) /\ IsMap(a[k]))
    <2>1. CASE k \notin DOMAIN a
      BY <2>1, <1>1 DEF Expected
    <2>2. CASE k \in DOMAIN a
      BY <2>2, <1>1, <1>3 DEF Expected
    <2> QED BY <2>1, <2>2
  <1> QED BY <1>2, <1>3

LEMMA SettledStep ==
  ASSUME NEW e \in Objects, NEW a \in Objects
  PROVE  Reported(e, a) = Both(Settled, e, a)
  <1> DEFINE New == {Diff(<<k>>, Null, a[k]) : k \in DOMAIN a \ DOMAIN e}
             Old == UNION {Expected(Settled, e, a, k) : k \in DOMAIN e}
  <1>1. Both(Settled, e, a) = Old \cup New
    BY DEF Both
  <1>2. ASSUME NEW k \in DOMAIN a \ DOMAIN e
        PROVE  <<k>> \in Apart(e, a) /\ Said(e, a, <<k>>) = Diff(<<k>>, Null, a[k])
    BY KeyApart
  <1>3. ASSUME NEW d \in Reported(e, a) PROVE d \in Old \cup New
    <2>1. PICK p \in Apart(e, a) : d = Said(e, a, p)
      BY DEF Reported
    <2> DEFINE k == p[1]
               q == Tail(p)
    <2>2. k \in Attributes /\ q \in Seq(Attributes) /\ p = Join(k, q)
      <3>1. p \in Seq(Attributes) /\ p # <<>>
        BY <2>1, PathIsSeq DEF Apart
      <3> QED BY <3>1, SplitPath
    <2> HIDE DEF k, q, New, Old
    <2>3. CASE q = <<>>
      <3>1. p = <<k>>
        BY <2>2, <2>3, OneKey
      <3>2. k \in DOMAIN e \cup DOMAIN a
        <4>1. At(e, p) = Inside(Whole(e), k) /\ At(a, p) = Inside(Whole(a), k)
          BY <2>2, <2>3, AtBelow
        <4>2. At(e, p) # At(a, p)
          BY <2>1 DEF Apart
        <4> QED BY <4>1, <4>2 DEF Inside, Whole
      <3>3. CASE k \in DOMAIN e
        <4>1. d \in Expected(Settled, e, a, k)
          BY <3>1, <3>3, <2>1, ExpectedReported
        <4> QED BY <4>1, <3>3 DEF Old
      <3>4. CASE k \notin DOMAIN e
        <4>1. k \in DOMAIN a \ DOMAIN e
          BY <3>2, <3>4
        <4> QED BY <4>1, <3>1, <2>1, <1>2 DEF New
      <3> QED BY <3>3, <3>4
    <2>4. CASE q # <<>>
      <3>1. /\ k \in DOMAIN e /\ k \in DOMAIN a /\ IsMap(e[k]) /\ IsMap(a[k])
            /\ q \in Apart(e[k].value, a[k].value)
        BY <2>1, <2>2, <2>4, ApartBelow
      <3>2. d \in Expected(Settled, e, a, k)
        BY <3>1, <2>1, <2>2, ExpectedReported
      <3> QED BY <3>1, <3>2 DEF Old
    <2> QED BY <2>3, <2>4
  <1>4. ASSUME NEW d \in New PROVE d \in Reported(e, a)
    BY <1>2 DEF Reported
  <1>5. ASSUME NEW k \in DOMAIN e, NEW d \in Expected(Settled, e, a, k) PROVE d \in Reported(e, a)
    <2>1. CASE <<k>> \in Apart(e, a) /\ d = Said(e, a, <<k>>)
      BY <2>1 DEF Reported
    <2>2. ASSUME k \in DOMAIN a, IsMap(e[k]), IsMap(a[k]),
                 NEW q \in Apart(e[k].value, a[k].value), d = Said(e, a, Join(k, q))
          PROVE  d \in Reported(e, a)
      <3>1. q \in Seq(Attributes) /\ q # <<>> /\ k \in Attributes
        BY PathIsSeq DEF Apart, Attributes
      <3>2. Join(k, q) \in Apart(e, a)
        BY <3>1, <2>2, ApartBelow
      <3> QED BY <3>2, <2>2 DEF Reported
    <2> QED BY <2>1, <2>2, ExpectedReported
  <1>6. Old \subseteq Reported(e, a)
    BY <1>5
  <1> QED BY <1>1, <1>3, <1>4, <1>6

\* A function that satisfies the recursion of the detector.
Detects(f) == f = [pair \in Objects \X Objects |-> Both(f, pair[1], pair[2])]

LEMMA DetectsUnique ==
  ASSUME NEW f, Detects(f)
  PROVE  \A e, a \in Objects : f[<<e, a>>] = Reported(e, a)
  <1> DEFINE T == {n \in Nat : \A e, a \in Objects : Nesting[e] <= n => f[<<e, a>>] = Reported(e, a)}
  <1>1. 0 \in T
    <2>1. \A e \in Objects : ~(Nesting[e] <= 0)
      BY ObjectsAssumption
    <2> QED BY <2>1
  <1>2. ASSUME NEW n \in Nat, n \in T PROVE n + 1 \in T
    <2> SUFFICES ASSUME NEW e \in Objects, NEW a \in Objects, Nesting[e] <= n + 1
                 PROVE  f[<<e, a>>] = Reported(e, a)
      OBVIOUS
    <2>1. f[<<e, a>>] = Both(f, e, a)
      <3> DEFINE pair == <<e, a>>
      <3>1. pair \in Objects \X Objects /\ pair[1] = e /\ pair[2] = a
        OBVIOUS
      <3> HIDE DEF pair
      <3>2. f[pair] = Both(f, pair[1], pair[2])
        BY <3>1 DEF Detects
      <3> QED BY <3>1, <3>2 DEF pair
    <2>2. ASSUME NEW k \in DOMAIN e PROVE Expected(f, e, a, k) = Expected(Settled, e, a, k)
      <3>1. CASE k \in DOMAIN a /\ IsMap(e[k]) /\ IsMap(a[k])
        <4> DEFINE s == e[k].value
                   l == a[k].value
        <4>1. s \in Objects /\ l \in Objects /\ Nesting[s] < Nesting[e]
          BY <3>1, ObjectsAssumption DEF IsMap
        <4>2. Nesting[s] <= n
          <5>1. Nesting[s] \in Nat /\ Nesting[e] \in Nat
            BY <4>1, ObjectsAssumption
          <5> QED BY <5>1, <4>1
        <4> HIDE DEF s, l
        <4>3. f[<<s, l>>] = Settled[<<s, l>>]
          BY <4>1, <4>2, <1>2 DEF Settled
        <4> HIDE <1>2
        <4> QED BY <4>3, <3>1 DEF Expected, s, l
      <3>2. CASE ~(k \in DOMAIN a /\ IsMap(e[k]) /\ IsMap(a[k]))
        BY <3>2 DEF Expected
      <3> QED BY <3>1, <3>2
    <2>3. {Expected(f, e, a, k) : k \in DOMAIN e} = {Expected(Settled, e, a, k) : k \in DOMAIN e}
      BY <2>2
    <2>4. Both(f, e, a) = Both(Settled, e, a)
      BY <2>3 DEF Both
    <2> QED BY <2>1, <2>4, SettledStep
  <1> HIDE DEF T
  <1>3. \A n \in Nat : n \in T
    BY <1>1, <1>2, NaturalInduction
  <1>4. \A e \in Objects : Nesting[e] \in Nat /\ Nesting[e] <= Nesting[e]
    BY ObjectsAssumption
  <1> QED BY <1>3, <1>4 DEF T

\* However deep they are nested: compareRecursive reports where two configurations
\* part, and nothing else.
LEMMA DetectsExact == \A e, a \in Objects : CompareRecursive[<<e, a>>] = Reported(e, a)
  <1>1. Detects(Settled)
    <2>1. ASSUME NEW pair \in Objects \X Objects
          PROVE  Reported(pair[1], pair[2]) = Both(Settled, pair[1], pair[2])
      BY SettledStep
    <2>2. Settled = [pair \in Objects \X Objects |-> Reported(pair[1], pair[2])]
      BY DEF Settled
    <2> QED BY <2>1, <2>2 DEF Detects
  <1> DEFINE f == CHOOSE g : Detects(g)
  <1>2. CompareRecursive = f
    BY DEF CompareRecursive, Detects
  <1>3. Detects(f)
    BY <1>1
  <1> HIDE DEF f
  <1> QED BY <1>2, <1>3, DetectsUnique

\* The first keys of a path.
Upto(p, i) == SubSeq(p, 1, i)

LEMMA UptoPath ==
  ASSUME NEW p \in Seq(Attributes), NEW i \in 1..Len(p)
  PROVE  /\ Upto(p, i) \in Seq(Attributes) /\ Upto(p, i) # <<>> /\ Len(Upto(p, i)) = i
         /\ \A j \in 1..i : Upto(p, i)[j] = p[j]
         /\ IsPrefix(Upto(p, i), p)
  <1> DEFINE q == Upto(p, i)
  <1>1. Len(p) \in Nat /\ i \in Nat \ {0} /\ i <= Len(p) /\ \A j \in 1..Len(p) : p[j] \in Attributes
    OBVIOUS
  <1>2. /\ q \in Seq(Attributes) /\ Len(q) = i
        /\ \A j \in 1..i : q[j] = p[j]
    <2>1. 1 \in Int /\ i \in Int /\ \A j \in 1..i : p[j] \in Attributes
      BY <1>1
    <2>2. /\ q \in Seq(Attributes)
          /\ Len(q) = IF 1 <= i THEN i - 1 + 1 ELSE 0
          /\ \A j \in 1..(i - 1 + 1) : q[j] = p[1 + j - 1]
      BY <2>1, SubSeqProperties DEF Upto
    <2> HIDE DEF q
    <2>3. i - 1 + 1 = i /\ 1 <= i /\ \A j \in 1..i : 1 + j - 1 = j
      BY <1>1
    <2> QED BY <2>2, <2>3
  <1>3. SubSeq(q, 1, i) = q
    BY <1>2, SubSeqFull
  <1>4. IsPrefix(q, p)
    BY <1>1, <1>2, <1>3 DEF IsPrefix, Upto
  <1> HIDE DEF q
  <1>5. q # <<>>
    BY <1>1, <1>2, EmptySeq
  <1> QED BY <1>2, <1>4, <1>5 DEF q

LEMMA PrefixIsUpto ==
  ASSUME NEW p \in Seq(Attributes), NEW q \in Seq(Attributes), q # <<>>, IsPrefix(q, p)
  PROVE  Len(q) \in 1..Len(p) /\ q = Upto(p, Len(q))
  <1>1. Len(q) \in Nat /\ Len(p) \in Nat /\ Len(q) # 0 /\ Len(q) <= Len(p)
    BY EmptySeq DEF IsPrefix
  <1>2. SubSeq(q, 1, Len(q)) = q
    BY SubSeqFull
  <1>3. SubSeq(q, 1, Len(q)) = SubSeq(p, 1, Len(q))
    BY DEF IsPrefix
  <1> QED BY <1>1, <1>2, <1>3 DEF Upto

\* What an object holds on the way does not depend on the rest of the path.
LEMMA AlongUpto ==
  ASSUME NEW o, NEW p \in Seq(Attributes), NEW i \in 1..Len(p)
  PROVE  \A j \in 0..i : Along(o, Upto(p, i))[j] = Along(o, p)[j]
  <1> DEFINE q == Upto(p, i)
             g == Along(o, p)
             h == Along(o, q)
  <1>1. Len(p) \in Nat /\ i \in Nat /\ i <= Len(p) /\ Len(q) = i /\ \A j \in 1..i : q[j] = p[j]
    BY UptoPath
  <1>2. g[0] = Whole(o) /\ \A j \in 1..Len(p) : g[j] = Inside(g[j - 1], p[j])
    BY <1>1, AlongSteps
  <1>3. h[0] = Whole(o) /\ \A j \in 1..i : h[j] = Inside(h[j - 1], q[j])
    BY <1>1, AlongSteps
  <1> HIDE DEF q, g, h
  <1> DEFINE T == {j \in Nat : j <= i => h[j] = g[j]}
  <1>4. 0 \in T
    BY <1>2, <1>3
  <1>5. ASSUME NEW j \in Nat, j \in T PROVE j + 1 \in T
    <2> SUFFICES ASSUME j + 1 <= i PROVE h[j + 1] = g[j + 1]
      OBVIOUS
    <2>1. j + 1 \in 1..i /\ j + 1 \in 1..Len(p) /\ (j + 1) - 1 = j /\ j <= i
      BY <1>1
    <2>2. h[j] = g[j]
      BY <2>1, <1>5
    <2>3. h[j + 1] = Inside(h[j], q[j + 1]) /\ g[j + 1] = Inside(g[j], p[j + 1])
      BY <2>1, <1>2, <1>3
    <2> QED BY <2>1, <2>2, <2>3, <1>1
  <1> HIDE DEF T
  <1>6. \A j \in Nat : j \in T
    BY <1>4, <1>5, NaturalInduction
  <1>7. \A j \in 0..i : j \in Nat /\ j <= i
    BY <1>1
  <1> QED BY <1>6, <1>7 DEF T, g, h, q

\* Two objects part at one place on the way along a path.
LEMMA PartOnce ==
  ASSUME NEW e, NEW a, NEW p \in Seq(Attributes), NEW i \in 1..Len(p), NEW j \in 1..Len(p),
         Parts(e, a, Upto(p, i)), Parts(e, a, Upto(p, j))
  PROVE  i = j
  <1> DEFINE A == Along(e, p)
             B == Along(a, p)
  <1>1. ASSUME NEW n \in 1..Len(p), Parts(e, a, Upto(p, n))
        PROVE  ~(IsMap(A[n]) /\ IsMap(B[n])) /\ \A m \in 1..(n - 1) : IsMap(A[m]) /\ IsMap(B[m])
    <2> DEFINE q == Upto(p, n)
               C == Along(e, q)
               D == Along(a, q)
    <2>1. Len(q) = n /\ n \in Nat /\ Len(p) \in Nat
      BY UptoPath
    <2>2. \A m \in 0..n : C[m] = A[m] /\ D[m] = B[m]
      BY AlongUpto
    <2>3. ~(IsMap(C[n]) /\ IsMap(D[n])) /\ \A m \in 1..(n - 1) : IsMap(C[m]) /\ IsMap(D[m])
      <3> HIDE DEF q
      <3> QED BY <1>1, <2>1 DEF Parts, At, q
    <2> HIDE DEF q, C, D, A, B
    <2>4. n \in 0..n /\ \A m \in 1..(n - 1) : m \in 0..n
      BY <2>1
    <2> QED BY <2>2, <2>3, <2>4
  <1> HIDE DEF A, B
  <1>2. /\ ~(IsMap(A[i]) /\ IsMap(B[i])) /\ \A m \in 1..(i - 1) : IsMap(A[m]) /\ IsMap(B[m])
        /\ ~(IsMap(A[j]) /\ IsMap(B[j])) /\ \A m \in 1..(j - 1) : IsMap(A[m]) /\ IsMap(B[m])
    BY <1>1
  <1>3. i \in Nat \ {0} /\ j \in Nat \ {0}
    OBVIOUS
  <1>4. ~(i < j)
    <2>1. i < j => i \in 1..(j - 1)
      BY <1>3
    <2> QED BY <2>1, <1>2
  <1>5. ~(j < i)
    <2>1. j < i => j \in 1..(i - 1)
      BY <1>3
    <2> QED BY <2>1, <1>2
  <1> QED BY <1>3, <1>4, <1>5

\* Objects that do not hold the same at the end of a path part on the way or there.
LEMMA PartSomewhere ==
  ASSUME NEW e \in Objects, NEW a \in Objects, NEW p \in Paths, At(e, p) # At(a, p),
         ~(IsMap(At(e, p)) /\ IsMap(At(a, p)))
  PROVE  \E i \in 1..Len(p) : Upto(p, i) \in Apart(e, a)
  <1> DEFINE A == Along(e, p)
             B == Along(a, p)
             n == Len(p)
             S == {i \in 1..n : ~(IsMap(A[i]) /\ IsMap(B[i]))}
  <1>1. p \in Seq(Attributes) /\ n \in Nat \ {0}
    BY PathIsSeq
  <1>2. /\ \A i \in 1..n : A[i] = Inside(A[i - 1], p[i])
        /\ \A i \in 1..n : B[i] = Inside(B[i - 1], p[i])
    BY <1>1, AlongSteps
  <1>3. A[n] # B[n] /\ ~(IsMap(A[n]) /\ IsMap(B[n]))
    BY DEF At
  <1>4. \A i : i \in S <=> i \in 1..n /\ ~(IsMap(A[i]) /\ IsMap(B[i]))
    OBVIOUS
  <1> HIDE DEF A, B, n, S
  <1>5. PICK i \in S : \A j \in S : i <= j
    <2>1. S \subseteq Nat /\ n \in S
      BY <1>1, <1>3, <1>4
    <2> QED BY <2>1, LeastNatural
  <1>6. i \in 1..n /\ ~(IsMap(A[i]) /\ IsMap(B[i])) /\ \A j \in 1..(i - 1) : IsMap(A[j]) /\ IsMap(B[j])
    <2>1. i \in 1..n /\ ~(IsMap(A[i]) /\ IsMap(B[i])) /\ \A j \in 1..n : j < i => j \notin S
      BY <1>1, <1>4, <1>5
    <2>2. \A j \in 1..(i - 1) : j \in 1..n /\ j < i
      BY <2>1, <1>1
    <2> QED BY <2>1, <2>2, <1>4
  <1>7. A[i] # B[i]
    <2> SUFFICES ASSUME A[i] = B[i] PROVE FALSE
      OBVIOUS
    <2> DEFINE T == {k \in Nat : i + k <= n => A[i + k] = B[i + k]}
    <2>1. 0 \in T
      BY <1>6, <1>1
    <2>2. ASSUME NEW k \in Nat, k \in T PROVE k + 1 \in T
      <3> SUFFICES ASSUME i + (k + 1) <= n PROVE A[i + (k + 1)] = B[i + (k + 1)]
        OBVIOUS
      <3>1. i + (k + 1) \in 1..n /\ (i + (k + 1)) - 1 = i + k /\ i + k <= n
        BY <1>1, <1>6
      <3>2. A[i + k] = B[i + k]
        BY <3>1, <2>2
      <3>3. /\ A[i + (k + 1)] = Inside(A[i + k], p[i + (k + 1)])
            /\ B[i + (k + 1)] = Inside(B[i + k], p[i + (k + 1)])
        BY <3>1, <1>2
      <3> QED BY <3>2, <3>3
    <2> HIDE DEF T
    <2>3. \A k \in Nat : k \in T
      BY <2>1, <2>2, NaturalInduction
    <2>4. n - i \in Nat /\ i + (n - i) = n /\ i + (n - i) <= n
      BY <1>1, <1>6
    <2>5. A[i + (n - i)] = B[i + (n - i)]
      BY <2>3, <2>4 DEF T
    <2> QED BY <2>4, <2>5, <1>3
  <1> DEFINE q == Upto(p, i)
             C == Along(e, q)
             D == Along(a, q)
  <1>8. i \in 1..Len(p)
    BY <1>6 DEF n
  <1>9. q \in Seq(Attributes) /\ q # <<>> /\ Len(q) = i
    BY <1>1, <1>8, UptoPath
  <1>10. (\A j \in 0..i : C[j] = A[j]) /\ (\A j \in 0..i : D[j] = B[j])
    BY <1>1, <1>8, AlongUpto DEF A, B
  <1>11. At(e, q) = C[i] /\ At(a, q) = D[i]
    <2> HIDE DEF q
    <2> QED BY <1>9 DEF At
  <1>12. Parts(e, a, q) <=> ~(IsMap(C[i]) /\ IsMap(D[i])) /\ \A j \in 1..(i - 1) : IsMap(C[j]) /\ IsMap(D[j])
    <2> HIDE DEF q
    <2> QED BY <1>9, <1>11 DEF Parts
  <1> HIDE DEF q, C, D
  <1>13. i \in 0..i /\ \A j \in 1..(i - 1) : j \in 0..i
    BY <1>1, <1>6
  <1>14. Parts(e, a, q) /\ At(e, q) # At(a, q)
    BY <1>6, <1>7, <1>10, <1>11, <1>12, <1>13
  <1>15. q \in Paths
    <2>1. CASE At(e, q) # Absent
      BY <2>1, <1>9, PathKnown
    <2>2. CASE At(a, q) # Absent
      BY <2>2, <1>9, PathKnown
    <2> QED BY <2>1, <2>2, <1>14
  <1> QED BY <1>8, <1>14, <1>15 DEF Apart, q

\* Each scalar that is not the same is at or below exactly one difference.
LEMMA ReportedOnce ==
  ASSUME NEW e \in Objects, NEW a \in Objects,
         NEW p \in ScalarPaths(e) \cup ScalarPaths(a), ValueAt(e, p) # ValueAt(a, p)
  PROVE  Cardinality({d \in Reported(e, a) : IsPrefix(d.path, p)}) = 1
  <1> DEFINE R == {d \in Reported(e, a) : IsPrefix(d.path, p)}
  <1>1. /\ p \in Paths /\ At(e, p) # At(a, p)
        /\ ~(IsMap(At(e, p)) /\ IsMap(At(a, p)))
    BY DEF ScalarPaths, ValueAt, IsMap
  <1>2. p \in Seq(Attributes)
    BY <1>1, PathIsSeq
  <1>3. PICK i \in 1..Len(p) : Upto(p, i) \in Apart(e, a)
    BY <1>1, PartSomewhere
  <1> DEFINE q == Upto(p, i)
  <1>4. IsPrefix(q, p)
    BY <1>2, UptoPath
  <1>5. ASSUME NEW d \in R PROVE d = Said(e, a, q)
    <2>1. PICK r \in Apart(e, a) : d = Said(e, a, r)
      BY DEF Reported
    <2>2. d.path = r
      BY <2>1 DEF Said, Diff
    <2>3. IsPrefix(r, p)
      BY <2>2
    <2>4. r \in Seq(Attributes) /\ r # <<>>
      BY PathIsSeq DEF Apart
    <2>5. Len(r) \in 1..Len(p) /\ r = Upto(p, Len(r))
      BY <2>3, <2>4, <1>2, PrefixIsUpto
    <2> DEFINE j == Len(r)
    <2>6. j \in 1..Len(p) /\ Upto(p, j) \in Apart(e, a)
      BY <2>5
    <2> HIDE DEF j
    <2>7. Parts(e, a, Upto(p, i)) /\ Parts(e, a, Upto(p, j))
      BY <1>3, <2>6 DEF Apart
    <2>8. i = j
      BY <2>6, <2>7, <1>2, PartOnce
    <2> QED BY <2>1, <2>5, <2>8 DEF j
  <1>6. Said(e, a, q) \in R
    <2>1. Said(e, a, q) \in Reported(e, a)
      BY <1>3 DEF Reported
    <2>2. Said(e, a, q).path = q
      BY DEF Said, Diff
    <2> QED BY <2>1, <2>2, <1>4
  <1> HIDE DEF R
  <1>7. R = {Said(e, a, q)}
    BY <1>5, <1>6
  <1>8. Cardinality(R) = 1
    BY <1>7, FS_Singleton
  <1> QED BY <1>8 DEF R

\* What a difference says, and that the other way round the same ones are found.
LEMMA ReportedFacts ==
  ASSUME NEW e \in Objects, NEW a \in Objects
  PROVE  /\ \A d \in Reported(e, a) :
               /\ d.path \in Seq(Attributes) /\ d.path # <<>>
               /\ d = Diff(d.path, d.expected, d.actual)
               /\ d.expected = ValueAt(e, d.path) /\ d.actual = ValueAt(a, d.path)
               /\ d.expected = d.actual => d.expected = Null
         /\ Reported(e, a) = {Diff(d.path, d.actual, d.expected) : d \in Reported(a, e)}
  <1>1. ASSUME NEW d \in Reported(e, a)
        PROVE  /\ d.path \in Seq(Attributes) /\ d.path # <<>>
               /\ d = Diff(d.path, d.expected, d.actual)
               /\ d.expected = ValueAt(e, d.path) /\ d.actual = ValueAt(a, d.path)
               /\ d.expected = d.actual => d.expected = Null
    <2>1. PICK p \in Apart(e, a) : d = Said(e, a, p)
      BY DEF Reported
    <2>2. d.path = p /\ d.expected = ValueAt(e, p) /\ d.actual = ValueAt(a, p)
      BY <2>1 DEF Said, Diff
    <2>3. d = Diff(d.path, d.expected, d.actual)
      BY <2>1, <2>2 DEF Said
    <2>4. p \in Seq(Attributes) /\ p # <<>> /\ At(e, p) # At(a, p)
      BY PathIsSeq DEF Apart
    <2>5. ValueAt(e, p) = ValueAt(a, p) => ValueAt(e, p) = Null
      BY <2>4 DEF ValueAt
    <2> QED BY <2>2, <2>3, <2>4, <2>5
  <1>2. \A p : p \in Apart(e, a) <=> p \in Apart(a, e)
    BY DEF Apart, Parts
  <1>3. \A p : Said(e, a, p) = Diff(Said(a, e, p).path, Said(a, e, p).actual, Said(a, e, p).expected)
    BY DEF Said, Diff
  <1>4. Reported(e, a) = {Diff(d.path, d.actual, d.expected) : d \in Reported(a, e)}
    <2> DEFINE U == {Diff(d.path, d.actual, d.expected) : d \in Reported(a, e)}
    <2>1. ASSUME NEW d \in Reported(e, a) PROVE d \in U
      <3>1. PICK p \in Apart(e, a) : d = Said(e, a, p)
        BY DEF Reported
      <3>2. Said(a, e, p) \in Reported(a, e)
        BY <1>2 DEF Reported
      <3> QED BY <3>1, <3>2, <1>3
    <2>2. ASSUME NEW x \in Reported(a, e) PROVE Diff(x.path, x.actual, x.expected) \in Reported(e, a)
      <3>1. PICK p \in Apart(a, e) : x = Said(a, e, p)
        BY DEF Reported
      <3>2. Diff(x.path, x.actual, x.expected) = Said(e, a, p)
        BY <3>1, <1>3
      <3>3. p \in Apart(e, a)
        BY <1>2
      <3> QED BY <3>2, <3>3 DEF Reported
    <2> QED BY <2>1, <2>2
  <1> QED BY <1>1, <1>4

-----------------------------------------------------------------------------
(* How severe it is *)

\* What compareRecursive returns is finite.
LEMMA ReportedFinite == \A e, a \in Objects : IsFiniteSet(Reported(e, a))
  <1> DEFINE T == {n \in Nat : \A e, a \in Objects : Nesting[e] <= n => IsFiniteSet(Reported(e, a))}
  <1>1. 0 \in T
    <2>1. \A e \in Objects : ~(Nesting[e] <= 0)
      BY ObjectsAssumption
    <2> QED BY <2>1
  <1>2. ASSUME NEW n \in Nat, n \in T PROVE n + 1 \in T
    <2> SUFFICES ASSUME NEW e \in Objects, NEW a \in Objects, Nesting[e] <= n + 1
                 PROVE  IsFiniteSet(Reported(e, a))
      OBVIOUS
    <2> DEFINE h == [k \in DOMAIN e |-> Expected(Settled, e, a, k)]
               g == [k \in DOMAIN a \ DOMAIN e |-> Diff(<<k>>, Null, a[k])]
               H == {h[k] : k \in DOMAIN e}
               G == {g[k] : k \in DOMAIN a \ DOMAIN e}
    <2>1. IsFiniteSet(DOMAIN e) /\ IsFiniteSet(DOMAIN a)
      BY ObjectsAssumption
    <2>2. ASSUME NEW k \in DOMAIN e PROVE IsFiniteSet(Expected(Settled, e, a, k))
      <3>1. CASE k \in DOMAIN a /\ IsMap(e[k]) /\ IsMap(a[k])
        <4> DEFINE s == e[k].value
                   l == a[k].value
                   R == Reported(s, l)
                   f == [d \in R |-> Diff(<<k>> \o d.path, d.expected, d.actual)]
        <4>1. s \in Objects /\ l \in Objects /\ Nesting[s] < Nesting[e]
          BY <3>1, ObjectsAssumption DEF IsMap
        <4>2. Nesting[s] <= n
          <5>1. Nesting[s] \in Nat /\ Nesting[e] \in Nat
            BY <4>1, ObjectsAssumption
          <5> QED BY <5>1, <4>1
        <4> HIDE DEF s, l
        <4>3. IsFiniteSet(R) /\ Settled[<<s, l>>] = R
          BY <4>1, <4>2, <1>2 DEF Settled
        <4> HIDE DEF R
        <4>4. Expected(Settled, e, a, k) = {f[d] : d \in R}
          BY <4>3, <3>1 DEF Expected, s, l
        <4>5. f = [d \in R |-> f[d]]
          OBVIOUS
        <4> HIDE DEF f
        <4>6. IsFiniteSet({f[d] : d \in R})
          BY <4>3, <4>5, FiniteImage
        <4> QED BY <4>4, <4>6
      <3>2. CASE ~(k \in DOMAIN a /\ IsMap(e[k]) /\ IsMap(a[k]))
        <4>1. Expected(Settled, e, a, k) = {} \/ \E x : Expected(Settled, e, a, k) = {x}
          BY <3>2 DEF Expected
        <4> QED BY <4>1, FS_EmptySet, FS_Singleton
      <3> QED BY <3>1, <3>2
    <2>3. Reported(e, a) = (UNION H) \cup G
      <3>1. H = {Expected(Settled, e, a, k) : k \in DOMAIN e}
        OBVIOUS
      <3>2. G = {Diff(<<k>>, Null, a[k]) : k \in DOMAIN a \ DOMAIN e}
        OBVIOUS
      <3> HIDE DEF H, G
      <3>3. Both(Settled, e, a) = (UNION H) \cup G
        BY <3>1, <3>2 DEF Both
      <3> QED BY <3>3, SettledStep
    <2>4. \A x \in H : IsFiniteSet(x)
      BY <2>2
    <2>5. h = [k \in DOMAIN e |-> h[k]] /\ g = [k \in DOMAIN a \ DOMAIN e |-> g[k]]
      OBVIOUS
    <2>6. IsFiniteSet(DOMAIN a \ DOMAIN e)
      BY <2>1, FS_Difference
    <2> HIDE DEF h, g
    <2>7. IsFiniteSet(H) /\ IsFiniteSet(G)
      BY <2>1, <2>5, <2>6, FiniteImage
    <2> HIDE DEF H, G
    <2>8. IsFiniteSet(UNION H)
      BY <2>4, <2>7, FS_UNION
    <2> QED BY <2>3, <2>7, <2>8, FS_Union
  <1> HIDE DEF T
  <1>3. \A n \in Nat : n \in T
    BY <1>1, <1>2, NaturalInduction
  <1>4. \A e \in Objects : Nesting[e] \in Nat /\ Nesting[e] <= Nesting[e]
    BY ObjectsAssumption
  <1> QED BY <1>3, <1>4 DEF T

\* The differences of a class or a graver one.
Among(diff, classes) == {d \in diff : Class(d.path) \in classes}
Gravest == {"critical"}
Graver == {"critical", "high"}
Grave == {"critical", "high", "medium"}

Score(diff) == 40 * Count(diff, "critical") + 25 * Count(diff, "high")
               + 10 * Count(diff, "medium") + 2 * Count(diff, "other")

Level(score) == IF score >= 80 THEN 5
                ELSE IF score >= 50 THEN 4
                ELSE IF score >= 25 THEN 3
                ELSE IF score >= 10 THEN 2
                ELSE 1

LEMMA LevelOfScore == \A diff : ScoreSeverity(diff) = Level(Score(diff))
  BY DEF ScoreSeverity, Score, Level

LEMMA ClassIsOne == \A path : Class(path) \in {"critical", "high", "medium", "other"}
  BY DEF Class

\* The score, by what is of a class or a graver one.
LEMMA ScoreByGravity ==
  ASSUME NEW diff, IsFiniteSet(diff)
  PROVE  /\ Cardinality(diff) \in Nat /\ Cardinality(Among(diff, Grave)) \in Nat
         /\ Cardinality(Among(diff, Graver)) \in Nat /\ Cardinality(Among(diff, Gravest)) \in Nat
         /\ Score(diff) = 15 * Cardinality(Among(diff, Gravest))
                          + 15 * Cardinality(Among(diff, Graver))
                          + 8 * Cardinality(Among(diff, Grave)) + 2 * Cardinality(diff)
         /\ Cardinality(Among(diff, Gravest)) <= Cardinality(Among(diff, Graver))
         /\ Cardinality(Among(diff, Graver)) <= Cardinality(Among(diff, Grave))
         /\ Cardinality(Among(diff, Grave)) <= Cardinality(diff)
  <1> DEFINE C == {d \in diff : Class(d.path) = "critical"}
             H == {d \in diff : Class(d.path) = "high"}
             M == {d \in diff : Class(d.path) = "medium"}
             O == {d \in diff : Class(d.path) = "other"}
  <1>1. /\ Among(diff, Gravest) = C
        /\ Among(diff, Graver) = C \cup H /\ C \cap H = {}
        /\ Among(diff, Grave) = (C \cup H) \cup M /\ (C \cup H) \cap M = {}
        /\ diff = ((C \cup H) \cup M) \cup O /\ ((C \cup H) \cup M) \cap O = {}
    BY ClassIsOne DEF Among, Gravest, Graver, Grave
  <1>2. /\ C \in SUBSET diff /\ H \in SUBSET diff /\ M \in SUBSET diff /\ O \in SUBSET diff
    OBVIOUS
  <1>3. Score(diff) = 40 * Cardinality(C) + 25 * Cardinality(H) + 10 * Cardinality(M) + 2 * Cardinality(O)
    BY DEF Score, Count
  <1> HIDE DEF C, H, M, O
  <1>4. IsFiniteSet(C) /\ IsFiniteSet(H) /\ IsFiniteSet(M) /\ IsFiniteSet(O)
    BY <1>2, FS_Subset
  <1>5. /\ Cardinality(C) \in Nat /\ Cardinality(H) \in Nat
        /\ Cardinality(M) \in Nat /\ Cardinality(O) \in Nat
    BY <1>4, FS_CardinalityType
  <1>6. Cardinality({}) = 0
    BY FS_EmptySet
  <1>7. IsFiniteSet(C \cup H) /\ Cardinality(C \cup H) = Cardinality(C) + Cardinality(H)
    <2>1. IsFiniteSet(C \cup H)
          /\ Cardinality(C \cup H) = Cardinality(C) + Cardinality(H) - Cardinality(C \cap H)
      BY <1>4, FS_Union
    <2>2. C \cap H = {}
      BY <1>1
    <2>3. Cardinality(C \cap H) = 0
      BY <2>2, <1>6
    <2> QED BY <2>1, <2>3, <1>5
  <1> DEFINE CH == C \cup H
  <1>8. IsFiniteSet(CH \cup M) /\ Cardinality(CH \cup M) = Cardinality(CH) + Cardinality(M)
    <2>1. IsFiniteSet(CH)
      BY <1>7
    <2> HIDE DEF CH
    <2>2. IsFiniteSet(CH \cup M)
          /\ Cardinality(CH \cup M) = Cardinality(CH) + Cardinality(M) - Cardinality(CH \cap M)
      BY <2>1, <1>4, FS_Union
    <2>3. Cardinality(CH) \in Nat /\ CH \cap M = {}
      BY <2>1, <1>1, FS_CardinalityType DEF CH
    <2> QED BY <2>2, <2>3, <1>5, <1>6
  <1> DEFINE CHM == CH \cup M
  <1>9. Cardinality(CHM \cup O) = Cardinality(CHM) + Cardinality(O)
    <2>1. IsFiniteSet(CHM)
      BY <1>8
    <2> HIDE DEF CHM
    <2>2. Cardinality(CHM \cup O) = Cardinality(CHM) + Cardinality(O) - Cardinality(CHM \cap O)
      BY <2>1, <1>4, FS_Union
    <2>3. Cardinality(CHM) \in Nat /\ CHM \cap O = {}
      BY <2>1, <1>1, FS_CardinalityType DEF CHM, CH
    <2> QED BY <2>2, <2>3, <1>5, <1>6
  <1> DEFINE c == Cardinality(C)
             h == Cardinality(H)
             m == Cardinality(M)
             o == Cardinality(O)
             s == Score(diff)
             x1 == Cardinality(Among(diff, Gravest))
             x2 == Cardinality(Among(diff, Graver))
             x3 == Cardinality(Among(diff, Grave))
             x4 == Cardinality(diff)
  <1>10. /\ c \in Nat /\ h \in Nat /\ m \in Nat /\ o \in Nat
         /\ s = 40 * c + 25 * h + 10 * m + 2 * o
         /\ x1 = c /\ x2 = c + h /\ x3 = (c + h) + m /\ x4 = ((c + h) + m) + o
    BY <1>1, <1>3, <1>5, <1>7, <1>8, <1>9
  <1> HIDE DEF c, h, m, o, s, x1, x2, x3, x4
  <1>11. /\ x1 \in Nat /\ x2 \in Nat /\ x3 \in Nat /\ x4 \in Nat
         /\ s = 15 * x1 + 15 * x2 + 8 * x3 + 2 * x4
         /\ x1 <= x2 /\ x2 <= x3 /\ x3 <= x4
    BY <1>10
  <1> QED BY <1>11 DEF s, x1, x2, x3, x4

\* A key more before a path.
LEMMA DeeperPath ==
  ASSUME NEW k, NEW p \in Seq(Attributes), p # <<>>
  PROVE  /\ Len(p) \in Nat \ {0} /\ Len(Join(k, p)) = Len(p) + 1
         /\ \A i \in 1..Len(p) : Join(k, p)[i + 1] = p[i]
  <1> DEFINE s == <<k>>
             S == Attributes \cup {k}
  <1>1. s \in Seq(S) /\ Len(s) = 1 /\ p \in Seq(S) /\ Len(p) \in Nat \ {0}
    <2>1. Len(p) \in Nat /\ Len(p) # 0
      BY EmptySeq
    <2>2. p \in Seq(S)
      OBVIOUS
    <2> QED BY <2>1, <2>2
  <1> HIDE DEF s, S
  <1>2. /\ Len(s \o p) = Len(s) + Len(p)
        /\ \A i \in 1..(Len(s) + Len(p)) : (s \o p)[i] = IF i <= Len(s) THEN s[i] ELSE p[i - Len(s)]
    BY <1>1, ConcatProperties
  <1>3. ASSUME NEW i \in 1..Len(p) PROVE (s \o p)[i + 1] = p[i]
    <2>1. i + 1 \in 1..(Len(s) + Len(p)) /\ ~(i + 1 <= Len(s)) /\ (i + 1) - Len(s) = i
      BY <1>1
    <2> QED BY <2>1, <1>2
  <1>4. Len(s \o p) = Len(p) + 1
    BY <1>1, <1>2
  <1> QED BY <1>1, <1>3, <1>4 DEF s, Join

LEMMA DeeperIsOneToOne ==
  ASSUME NEW k, NEW p \in Seq(Attributes), NEW q \in Seq(Attributes), p # <<>>, q # <<>>,
         Join(k, p) = Join(k, q)
  PROVE  p = q
  <1>1. /\ Len(p) \in Nat \ {0} /\ Len(Join(k, p)) = Len(p) + 1
        /\ \A i \in 1..Len(p) : Join(k, p)[i + 1] = p[i]
    BY DeeperPath
  <1>2. /\ Len(q) \in Nat \ {0} /\ Len(Join(k, q)) = Len(q) + 1
        /\ \A i \in 1..Len(q) : Join(k, q)[i + 1] = q[i]
    BY DeeperPath
  <1>3. Len(p) = Len(q)
    BY <1>1, <1>2
  <1>4. \A i \in 1..Len(p) : p[i] = q[i]
    BY <1>1, <1>2, <1>3
  <1> QED BY <1>3, <1>4, SeqEqual

\* The same change one level further down is of its class or a graver one.
LEMMA DeeperIsNoMilder ==
  ASSUME NEW k, NEW p \in Seq(Attributes), p # <<>>
  PROVE  /\ Class(p) \in Gravest => Class(Join(k, p)) \in Gravest
         /\ Class(p) \in Graver => Class(Join(k, p)) \in Graver
         /\ Class(p) \in Grave => Class(Join(k, p)) \in Grave
  <1> DEFINE q == Join(k, p)
  <1>1. /\ Len(p) \in Nat \ {0} /\ Len(q) = Len(p) + 1
        /\ \A i \in 1..Len(p) : q[i + 1] = p[i]
    BY DeeperPath
  <1> HIDE DEF q
  <1>2. Classes(p) \subseteq Classes(q)
    <2>1. q[Len(q)] = p[Len(p)]
      BY <1>1
    <2>2. ASSUME NEW i \in 2..Len(p) PROVE i + 1 \in 2..Len(q) /\ q[i + 1] = p[i]
      BY <1>1
    <2> QED BY <2>1, <2>2 DEF Classes
  <1>3. /\ Class(p) \in Gravest => Class(q) \in Gravest
        /\ Class(p) \in Graver => Class(q) \in Graver
        /\ Class(p) \in Grave => Class(q) \in Grave
    BY <1>2 DEF Class, Gravest, Graver, Grave
  <1> QED BY <1>3 DEF q

Deeper(k, d) == Diff(Join(k, d.path), d.expected, d.actual)

\* So there are no fewer of them.
LEMMA DeeperCount ==
  ASSUME NEW diff, IsFiniteSet(diff), NEW k, NEW classes,
         \A d \in diff : d.path \in Seq(Attributes) /\ d.path # <<>> /\ d = Diff(d.path, d.expected, d.actual),
         \A d \in diff : Class(d.path) \in classes => Class(Join(k, d.path)) \in classes
  PROVE  Cardinality(Among(diff, classes)) <= Cardinality(Among({Deeper(k, d) : d \in diff}, classes))
  <1> DEFINE h == [d \in diff |-> Deeper(k, d)]
             D == {Deeper(k, d) : d \in diff}
             S == Among(diff, classes)
             T == Among(D, classes)
             f == [d \in S |-> Deeper(k, d)]
  <1>1. IsFiniteSet(T)
    <2>1. D = {h[d] : d \in diff} /\ h = [d \in diff |-> h[d]]
      OBVIOUS
    <2> HIDE DEF h
    <2>2. IsFiniteSet({h[d] : d \in diff})
      BY <2>1, FiniteImage
    <2>3. IsFiniteSet(D)
      BY <2>1, <2>2
    <2> HIDE DEF D
    <2>4. T \in SUBSET D
      BY DEF Among
    <2> QED BY <2>3, <2>4, FS_Subset
  <1>2. \A d : Deeper(k, d).path = Join(k, d.path) /\ Deeper(k, d).expected = d.expected
               /\ Deeper(k, d).actual = d.actual
    BY DEF Deeper, Diff
  <1>3. ASSUME NEW d \in S PROVE Deeper(k, d) \in T
    <2>1. d \in diff /\ Class(d.path) \in classes
      BY DEF Among
    <2>2. Class(Deeper(k, d).path) \in classes
      BY <2>1, <1>2
    <2> QED BY <2>1, <2>2 DEF Among
  <1>4. ASSUME NEW c \in S, NEW d \in S, Deeper(k, c) = Deeper(k, d) PROVE c = d
    <2>1. c \in diff /\ d \in diff
      BY DEF Among
    <2>2. Join(k, c.path) = Join(k, d.path) /\ c.expected = d.expected /\ c.actual = d.actual
      BY <1>2, <1>4
    <2>3. /\ c.path \in Seq(Attributes) /\ c.path # <<>>
          /\ d.path \in Seq(Attributes) /\ d.path # <<>>
      BY <2>1
    <2> DEFINE p == c.path
               q == d.path
    <2>4. p \in Seq(Attributes) /\ q \in Seq(Attributes) /\ p # <<>> /\ q # <<>> /\ Join(k, p) = Join(k, q)
      BY <2>2, <2>3
    <2> HIDE DEF p, q
    <2>5. p = q
      BY <2>4, DeeperIsOneToOne
    <2>6. c = Diff(c.path, c.expected, c.actual) /\ d = Diff(d.path, d.expected, d.actual)
      BY <2>1
    <2> QED BY <2>2, <2>5, <2>6 DEF p, q
  <1> HIDE DEF S, T
  <1>5. f \in Injection(S, T)
    BY <1>3, <1>4 DEF Injection, IsInjective
  <1>6. Cardinality(S) <= Cardinality(T)
    BY <1>1, <1>5, FS_Injection
  <1> QED BY <1>6 DEF S, T

LEMMA LevelFacts ==
  /\ \A x, y \in Nat : x <= y => Level(y) >= Level(x)
  /\ \A x \in Nat : x >= 40 => Level(x) >= 3
  /\ Level(0) = 1
  BY DEF Level

\* No differences are the least severe, one that is critical wherever it is is not
\* mild, and the same differences one level further down are no milder.
LEMMA SeverityFacts ==
  ASSUME NEW diff, IsFiniteSet(diff),
         \A d \in diff : d.path \in Seq(Attributes) /\ d.path # <<>> /\ d = Diff(d.path, d.expected, d.actual)
  PROVE  /\ diff = {} => ScoreSeverity(diff) = 1
         /\ (\E d \in diff : EndsIn[d.path[Len(d.path)]] = "critical") => ScoreSeverity(diff) >= 3
         /\ \A k : ScoreSeverity({Deeper(k, d) : d \in diff}) >= ScoreSeverity(diff)
  <1> DEFINE x1 == Cardinality(Among(diff, Gravest))
             x2 == Cardinality(Among(diff, Graver))
             x3 == Cardinality(Among(diff, Grave))
             x4 == Cardinality(diff)
             x == Score(diff)
  <1>1. /\ x1 \in Nat /\ x2 \in Nat /\ x3 \in Nat /\ x4 \in Nat
        /\ x = 15 * x1 + 15 * x2 + 8 * x3 + 2 * x4
        /\ x1 <= x2 /\ x2 <= x3 /\ x3 <= x4
    BY ScoreByGravity
  <1>2. x4 = 0 <=> diff = {}
    BY FS_EmptySet
  <1>3. ASSUME NEW d \in diff, EndsIn[d.path[Len(d.path)]] = "critical" PROVE x1 # 0
    <2>1. d \in Among(diff, Gravest)
      BY <1>3 DEF Among, Gravest, Class, Classes
    <2>2. IsFiniteSet(Among(diff, Gravest))
      <3>1. Among(diff, Gravest) \in SUBSET diff
        BY DEF Among
      <3> QED BY <3>1, FS_Subset
    <2> QED BY <2>1, <2>2, FS_EmptySet
  <1>4. ASSUME NEW k PROVE ScoreSeverity({Deeper(k, d) : d \in diff}) >= ScoreSeverity(diff)
    <2> DEFINE D == {Deeper(k, d) : d \in diff}
               h == [d \in diff |-> Deeper(k, d)]
               All == {"critical", "high", "medium", "other"}
               y1 == Cardinality(Among(D, Gravest))
               y2 == Cardinality(Among(D, Graver))
               y3 == Cardinality(Among(D, Grave))
               y4 == Cardinality(D)
               y == Score(D)
    <2>1. IsFiniteSet(D)
      <3>1. D = {h[d] : d \in diff} /\ h = [d \in diff |-> h[d]]
        OBVIOUS
      <3> HIDE DEF h
      <3>2. IsFiniteSet({h[d] : d \in diff})
        BY <3>1, FiniteImage
      <3> QED BY <3>1, <3>2
    <2>2. /\ y1 \in Nat /\ y2 \in Nat /\ y3 \in Nat /\ y4 \in Nat
          /\ y = 15 * y1 + 15 * y2 + 8 * y3 + 2 * y4
      <3> HIDE DEF D
      <3> QED BY <2>1, ScoreByGravity
    <2>3. \A d \in diff : /\ Class(d.path) \in Gravest => Class(Join(k, d.path)) \in Gravest
                          /\ Class(d.path) \in Graver => Class(Join(k, d.path)) \in Graver
                          /\ Class(d.path) \in Grave => Class(Join(k, d.path)) \in Grave
      <3> TAKE d \in diff
      <3> DEFINE p == d.path
      <3>1. p \in Seq(Attributes) /\ p # <<>>
        OBVIOUS
      <3> HIDE DEF p
      <3>2. /\ Class(p) \in Gravest => Class(Join(k, p)) \in Gravest
            /\ Class(p) \in Graver => Class(Join(k, p)) \in Graver
            /\ Class(p) \in Grave => Class(Join(k, p)) \in Grave
        BY <3>1, DeeperIsNoMilder
      <3> QED BY <3>2 DEF p
    <2>4. x1 <= y1
      BY <2>3, DeeperCount
    <2>5. x2 <= y2
      BY <2>3, DeeperCount
    <2>6. x3 <= y3
      BY <2>3, DeeperCount
    <2>7. x4 <= y4
      <3>1. \A d \in diff : Class(d.path) \in All => Class(Join(k, d.path)) \in All
        BY ClassIsOne
      <3>2. Cardinality(Among(diff, All)) <= Cardinality(Among(D, All))
        <4> HIDE DEF All
        <4> QED BY <3>1, DeeperCount
      <3>3. Among(diff, All) = diff /\ Among(D, All) = D
        <4> HIDE DEF D
        <4> QED BY ClassIsOne DEF Among
      <3> QED BY <3>2, <3>3
    <2> HIDE DEF x1, x2, x3, x4, x, y1, y2, y3, y4, y
    <2>8. x \in Nat /\ y \in Nat /\ x <= y
      BY <1>1, <2>2, <2>4, <2>5, <2>6, <2>7
    <2>9. Level(y) >= Level(x)
      BY <2>8, LevelFacts
    <2> QED BY <2>9, LevelOfScore DEF x, y
  <1>5. ScoreSeverity(diff) = Level(x)
    BY LevelOfScore
  <1> HIDE DEF x1, x2, x3, x4, x
  <1>6. diff = {} => ScoreSeverity(diff) = 1
    <2> SUFFICES ASSUME diff = {} PROVE ScoreSeverity(diff) = 1
      OBVIOUS
    <2>1. x4 = 0
      BY <1>2
    <2>2. x = 0
      BY <2>1, <1>1
    <2> QED BY <2>2, <1>5, LevelFacts
  <1>7. (\E d \in diff : EndsIn[d.path[Len(d.path)]] = "critical") => ScoreSeverity(diff) >= 3
    <2> SUFFICES ASSUME x1 # 0 PROVE Level(x) >= 3
      BY <1>3, <1>5
    <2>1. x \in Nat /\ x >= 40
      BY <1>1
    <2> QED BY <2>1, LevelFacts
  <1> QED BY <1>4, <1>6, <1>7

-----------------------------------------------------------------------------
(* The detector and the classifier *)

DetectionSpec == DetectionInit /\ [][DetectionNext]_driftVars

DetectionInv ==
    /\ drift = [phase |-> drift.phase, expected |-> drift.expected, actual |-> drift.actual,
                source |-> drift.source, diff |-> drift.diff,
                classification |-> drift.classification, severity |-> drift.severity]
    /\ drift.phase \in {"idle", "detected", "classified"}
    /\ drift.phase # "idle" =>
          /\ drift.expected \in Configurations /\ drift.actual \in Configurations
          /\ drift.diff = CompareRecursive[<<drift.expected, drift.actual>>]
    /\ drift.phase = "classified" => drift.severity = ScoreSeverity(drift.diff)

LEMMA DetectionInvImplies == DetectionInv => DetectionIsSound
  <1> SUFFICES ASSUME DetectionInv, drift.phase # "idle" PROVE DetectionIsSound
    BY DEF DetectionIsSound
  <1> DEFINE e == drift.expected
             a == drift.actual
             D == drift.diff
  <1>1. e \in Objects /\ a \in Objects
    BY ConfigurationsAssumption DEF DetectionInv
  <1>2. D = Reported(e, a) /\ CompareRecursive[<<a, e>>] = Reported(a, e)
    BY <1>1, DetectsExact DEF DetectionInv
  <1>3. drift.phase = "classified" => drift.severity = ScoreSeverity(D)
    BY DEF DetectionInv
  <1> HIDE DEF e, a, D
  <1>4. \A p \in ScalarPaths(e) \cup ScalarPaths(a) : ValueAt(e, p) # ValueAt(a, p) =>
            Cardinality({d \in D : IsPrefix(d.path, p)}) = 1
    BY <1>1, <1>2, ReportedOnce
  <1>5. /\ \A d \in Reported(e, a) :
               /\ d.path \in Seq(Attributes) /\ d.path # <<>>
               /\ d = Diff(d.path, d.expected, d.actual)
               /\ d.expected = ValueAt(e, d.path) /\ d.actual = ValueAt(a, d.path)
               /\ d.expected = d.actual => d.expected = Null
        /\ Reported(e, a) = {Diff(d.path, d.actual, d.expected) : d \in Reported(a, e)}
    BY <1>1, ReportedFacts
  <1>6. D = {Diff(d.path, d.actual, d.expected) : d \in CompareRecursive[<<a, e>>]}
    BY <1>2, <1>5
  <1>7. IsFiniteSet(D)
    BY <1>1, <1>2, ReportedFinite
  <1>8. \A d \in D : d.path \in Seq(Attributes) /\ d.path # <<>> /\ d = Diff(d.path, d.expected, d.actual)
    BY <1>2, <1>5
  <1>9. /\ D = {} => ScoreSeverity(D) = 1
        /\ (\E d \in D : EndsIn[d.path[Len(d.path)]] = "critical") => ScoreSeverity(D) >= 3
        /\ \A k : ScoreSeverity({Deeper(k, d) : d \in D}) >= ScoreSeverity(D)
    BY <1>7, <1>8, SeverityFacts
  <1>10. \A k : {Deeper(k, d) : d \in D} = {Diff(<<k>> \o d.path, d.expected, d.actual) : d \in D}
    BY DEF Deeper, Join
  <1>11. \A k : ScoreSeverity({Diff(<<k>> \o d.path, d.expected, d.actual) : d \in D}) >= ScoreSeverity(D)
    BY <1>9, <1>10
  <1>12. \A d \in D : /\ d.expected = ValueAt(e, d.path) /\ d.actual = ValueAt(a, d.path)
                      /\ d.expected = d.actual => d.expected = Null
    BY <1>2, <1>5
  <1> QED BY <1>3, <1>4, <1>6, <1>9, <1>11, <1>12 DEF DetectionIsSound, e, a, D

\* For objects that are nested to any depth: the detector reports each scalar that
\* changed once and as it is, the same from either side, and the classifier's
\* severity is never too mild for it: Detect and Classify.
THEOREM DetectionSound == DetectionSpec => []DetectionIsSound
  <1>1. DetectionInit => DetectionInv
    BY DEF DetectionInit, DetectionInv
  <1>2. DetectionInv /\ [DetectionNext]_driftVars => DetectionInv'
    <2> SUFFICES ASSUME DetectionInv, [DetectionNext]_driftVars PROVE DetectionInv'
      OBVIOUS
    <2> DEFINE R(p, e, a, s, d, c, v) ==
            [phase |-> p, expected |-> e, actual |-> a, source |-> s, diff |-> d,
             classification |-> c, severity |-> v]
    <2>1. ASSUME NEW e \in Configurations, NEW a \in Configurations, NEW s \in Sources,
                 Detect(e, a, s)
          PROVE  DetectionInv'
      <3>1. drift' = R("detected", e, a, s, CompareRecursive[<<e, a>>],
                       drift.classification, drift.severity)
        BY <2>1 DEF DetectionInv, Detect
      <3> QED BY <3>1 DEF DetectionInv
    <2>2. CASE Classify
      <3>1. /\ drift' = R("classified", drift.expected, drift.actual, drift.source, drift.diff,
                          ClassifyType(drift.source), ScoreSeverity(drift.diff))
            /\ drift.phase = "detected"
        BY <2>2 DEF DetectionInv, Classify
      <3> QED BY <3>1 DEF DetectionInv
    <2>3. CASE UNCHANGED driftVars
      BY <2>3 DEF DetectionInv, driftVars
    <2> QED BY <2>1, <2>2, <2>3 DEF DetectionNext
  <1> QED BY <1>1, <1>2, DetectionInvImplies, PTL DEF DetectionSpec
=============================================================================
