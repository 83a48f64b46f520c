-------------------------- MODULE ReleaseMatrix_proofs --------------------------
(***************************************************************************)
(* Proofs about ReleaseMatrix, for any groups, profiles, SDKs, limits and  *)
(* number of writes by others.                                             *)
(*                                                                         *)
(* Both directions of what the reader accepts are about one order.  The    *)
(* keys of the lanes read ascend strictly, and no profile moves when a     *)
(* later one is declared, so alike lanes stand together and their hosts    *)
(* rise; once every declared pair is crossed with every host they stand in *)
(* blocks of three, which is the product.  Conversely, the next lane of    *)
(* any product has a fresh owner or the same block, hence a greater key,   *)
(* and is taken; and a product has crossed every pair.                     *)
(*                                                                         *)
(* What a filter of a sequence keeps is found by induction over its        *)
(* length.  The library's induction theorems take an operator, so the      *)
(* induction is over a set of numbers, and rests on the pigeonhole.        *)
(***************************************************************************)
EXTENDS ReleaseMatrix, FiniteSetTheorems, SequenceTheorems, TLAPS

\* Induction over a set of naturals: below a number that is missing from it, the missing
\* ones would fit into fewer places than they are.
LEMMA NaturalInduction == ASSUME NEW T, 0 \in T, \A n \in Nat : n \in T => n + 1 \in T
  PROVE Nat \subseteq T
<1>1. SUFFICES ASSUME NEW n \in Nat, n \notin T PROVE FALSE
  OBVIOUS
<1> DEFINE A == {i \in 0 .. n : i \notin T}
           B == A \ {n}
           f == [i \in A |-> i - 1]
<1>2. IsFiniteSet(A) /\ IsFiniteSet(B) /\ Cardinality(B) < Cardinality(A)
  <2>1. IsFiniteSet(0 .. n)
    BY FS_Interval
  <2>2. IsFiniteSet(A)
    BY <2>1, FS_Subset
  <2>3. n \in A
    BY <1>1
  <2> HIDE DEF A
  <2>4. IsFiniteSet(B) /\ Cardinality(B) = Cardinality(A) - 1
    BY <2>2, <2>3, FS_RemoveElement
  <2>5. Cardinality(A) \in Nat
    BY <2>2, FS_CardinalityType
  <2> QED  BY <2>2, <2>4, <2>5
<1>3. f \in [A -> B]
  <2>1. ASSUME NEW i \in A PROVE i - 1 \in B
    <3>1. i # 0 /\ i \in 0 .. n
      OBVIOUS
    <3>2. i - 1 \notin T
      BY <3>1
    <3> QED  BY <3>1, <3>2
  <2> QED  BY <2>1
<1>4. \A x, y \in A : x # y => f[x] # f[y]
  OBVIOUS
<1> HIDE DEF A, B, f
<1> QED  BY <1>2, <1>3, <1>4, FS_PigeonHole

-----------------------------------------------------------------------------
(* The elements of a sequence that are in a set.                           *)

Keeping(s, T, m, f) ==
  f = [n \in 0 .. m |-> IF n = 0 THEN <<>> ELSE IF s[n] \in T THEN Append(f[n - 1], s[n]) ELSE f[n - 1]]

LEMMA KeepingAt == ASSUME NEW s, NEW T, NEW m, NEW f, Keeping(s, T, m, f), NEW i \in 0 .. m
  PROVE f[i] = IF i = 0 THEN <<>> ELSE IF s[i] \in T THEN Append(f[i - 1], s[i]) ELSE f[i - 1]
<1> DEFINE g == [n \in 0 .. m |-> IF n = 0 THEN <<>> ELSE IF s[n] \in T THEN Append(f[n - 1], s[n]) ELSE f[n - 1]]
<1>1. g[i] = IF i = 0 THEN <<>> ELSE IF s[i] \in T THEN Append(f[i - 1], s[i]) ELSE f[i - 1]
  OBVIOUS
<1>2. f = g
  BY DEF Keeping
<1> HIDE DEF g
<1> QED  BY <1>1, <1>2

LEMMA Keeper == ASSUME NEW s, NEW T, NEW m \in Nat PROVE \E f : Keeping(s, T, m, f)
<1> DEFINE S == {k \in Nat : \E f : Keeping(s, T, k, f)}
<1>1. 0 \in S
  <2>1. Keeping(s, T, 0, [n \in 0 .. 0 |-> <<>>])
    BY DEF Keeping
  <2> QED  BY <2>1
<1>2. ASSUME NEW k \in Nat, k \in S PROVE k + 1 \in S
  <2>1. PICK f : Keeping(s, T, k, f)
    BY <1>2
  <2> DEFINE step(h, n) == IF n = 0 THEN <<>> ELSE IF s[n] \in T THEN Append(h[n - 1], s[n]) ELSE h[n - 1]
             g == [n \in 0 .. k + 1 |-> step(f, n)]
  <2>2. ASSUME NEW n \in 0 .. k PROVE g[n] = f[n]
    BY <2>1, KeepingAt
  <2>3. ASSUME NEW n \in 0 .. k + 1 PROVE g[n] = step(g, n)
    <3>1. CASE n = 0
      BY <3>1
    <3>2. CASE n # 0
      <4>1. n - 1 \in 0 .. k
        BY <3>2
      <4>2. g[n] = step(f, n)
        OBVIOUS
      <4>3. g[n - 1] = f[n - 1]
        BY <4>1, <2>2
      <4> HIDE DEF g
      <4> QED  BY <3>2, <4>2, <4>3
    <3> QED  BY <3>1, <3>2
  <2>4. g = [n \in 0 .. k + 1 |-> g[n]]
    OBVIOUS
  <2> HIDE DEF g
  <2>5. Keeping(s, T, k + 1, g)
    BY <2>3, <2>4 DEF Keeping
  <2> QED  BY <2>5
<1> HIDE DEF S
<1>3. m \in S
  BY <1>1, <1>2, NaturalInduction
<1> QED  BY <1>3 DEF S

\* How the elements are gathered, one by one.
Gathers(s, T, f) ==
  /\ f[0] = <<>>
  /\ \A n \in 1 .. Len(s) : /\ s[n] \in T => f[n] = Append(f[n - 1], s[n])
                            /\ s[n] \notin T => f[n] = f[n - 1]
  /\ Only(s, T) = f[Len(s)]

LEMMA Gathering == ASSUME NEW X, NEW s \in Seq(X), NEW T PROVE \E f : Gathers(s, T, f)
<1> DEFINE f == CHOOSE h : Keeping(s, T, Len(s), h)
<1>1. Len(s) \in Nat
  OBVIOUS
<1>2. Keeping(s, T, Len(s), f)
  <2>1. \E h : Keeping(s, T, Len(s), h)
    BY <1>1, Keeper
  <2> QED  BY <2>1
<1>3. Only(s, T) = f[Len(s)]
  BY Zenon DEF Only, Keeping
<1> HIDE DEF f
<1>4. \A n \in 0 .. Len(s) : f[n] = IF n = 0 THEN <<>> ELSE IF s[n] \in T THEN Append(f[n - 1], s[n]) ELSE f[n - 1]
  BY <1>2, KeepingAt
<1>5. Gathers(s, T, f)
  <2>1. f[0] = <<>>
    BY <1>1, <1>4
  <2>2. ASSUME NEW n \in 1 .. Len(s)
        PROVE  /\ s[n] \in T => f[n] = Append(f[n - 1], s[n])
               /\ s[n] \notin T => f[n] = f[n - 1]
    <3>1. n \in 0 .. Len(s) /\ n # 0
      BY <1>1
    <3> QED  BY <3>1, <1>4
  <2> QED  BY <1>3, <2>1, <2>2 DEF Gathers
<1> QED  BY <1>5

\* The elements met so far.
Seen(s, n) == {s[i] : i \in 1 .. n}

LEMMA Gathered == ASSUME NEW X, NEW s \in Seq(X), NEW T, NEW f, Gathers(s, T, f)
  PROVE \A n \in 0 .. Len(s) : f[n] \in Seq(X) /\ Range(f[n]) = Seen(s, n) \cap T
<1> DEFINE G(n) == f[n] \in Seq(X) /\ Range(f[n]) = Seen(s, n) \cap T
           S == {n \in Nat : n <= Len(s) => G(n)}
<1>1. 0 \in S
  <2>1. f[0] = <<>>
    BY DEF Gathers
  <2>2. Range(<<>>) = {}
    BY DEF Range
  <2>3. Seen(s, 0) = {}
    BY DEF Seen
  <2>4. <<>> \in Seq(X)
    OBVIOUS
  <2> QED  BY <2>1, <2>2, <2>3, <2>4
<1>2. ASSUME NEW n \in Nat, n \in S PROVE n + 1 \in S
  <2> SUFFICES ASSUME n + 1 <= Len(s) PROVE G(n + 1)
    OBVIOUS
  <2>1. n + 1 \in 1 .. Len(s) /\ s[n + 1] \in X /\ (n + 1) - 1 = n
    OBVIOUS
  <2>2. f[n] \in Seq(X) /\ Range(f[n]) = Seen(s, n) \cap T
    BY <1>2
  <2>a. f[n] \in Seq(X)
    BY <2>2
  <2>3. /\ s[n + 1] \in T => f[n + 1] = Append(f[n], s[n + 1])
        /\ s[n + 1] \notin T => f[n + 1] = f[n]
    BY <2>1 DEF Gathers
  <2>4. Seen(s, n + 1) = Seen(s, n) \cup {s[n + 1]}
    <3>1. 1 .. n + 1 = (1 .. n) \cup {n + 1}
      OBVIOUS
    <3> QED  BY <3>1 DEF Seen
  <2>5. CASE s[n + 1] \in T
    <3>1. f[n + 1] \in Seq(X) /\ Range(f[n + 1]) = Range(f[n]) \cup {s[n + 1]}
      <4>a. f[n + 1] = Append(f[n], s[n + 1])
        BY <2>3, <2>5
      <4>b. Append(f[n], s[n + 1]) \in Seq(X)
        BY <2>1, <2>a
      <4>1. f[n + 1] \in Seq(X) /\ f[n + 1] = Append(f[n], s[n + 1])
        BY <4>a, <4>b
      <4>2. ASSUME NEW x \in Range(f[n + 1]) PROVE x \in Range(f[n]) \cup {s[n + 1]}
        BY <2>a, <4>1, <4>2 DEF Range
      <4>3. ASSUME NEW i \in DOMAIN f[n] PROVE f[n][i] \in Range(f[n + 1])
        <5>1. i \in DOMAIN f[n + 1] /\ f[n + 1][i] = f[n][i]
          BY <2>a, <4>1
        <5> QED  BY <5>1 DEF Range
      <4>4. s[n + 1] \in Range(f[n + 1])
        <5>1. Len(f[n]) + 1 \in DOMAIN f[n + 1] /\ f[n + 1][Len(f[n]) + 1] = s[n + 1]
          BY <2>a, <4>1
        <5> QED  BY <5>1 DEF Range
      <4> QED  BY <4>1, <4>2, <4>3, <4>4 DEF Range
    <3> QED  BY <2>2, <2>4, <2>5, <3>1
  <2>6. CASE s[n + 1] \notin T
    BY <2>2, <2>3, <2>4, <2>6
  <2> QED  BY <2>5, <2>6
<1> HIDE DEF S
<1>3. Nat \subseteq S
  BY <1>1, <1>2, NaturalInduction
<1>4. ASSUME NEW n \in 0 .. Len(s) PROVE G(n)
  <2>1. n \in Nat /\ n <= Len(s)
    OBVIOUS
  <2> QED  BY <1>3, <2>1 DEF S
<1> QED  BY <1>4

\* A filter keeps exactly the elements of the set.
LEMMA OnlyRange == ASSUME NEW X, NEW s \in Seq(X), NEW T
  PROVE Only(s, T) \in Seq(X) /\ Range(Only(s, T)) = Range(s) \cap T
<1>1. PICK f : Gathers(s, T, f)
  BY Gathering
<1>2. Len(s) \in 0 .. Len(s)
  OBVIOUS
<1>a. \A n \in 0 .. Len(s) : f[n] \in Seq(X) /\ Range(f[n]) = Seen(s, n) \cap T
  BY <1>1, Gathered
<1>3. Only(s, T) \in Seq(X) /\ Range(Only(s, T)) = Seen(s, Len(s)) \cap T
  BY <1>1, <1>2, <1>a DEF Gathers
<1> QED  BY <1>3 DEF Range, Seen

\* A filter repeats nothing that was not repeated.
LEMMA OnlyDistinct == ASSUME NEW X, NEW s \in Seq(X), IsInjective(s), NEW T PROVE IsInjective(Only(s, T))
<1>1. PICK f : Gathers(s, T, f)
  BY Gathering
<1>a. \A n \in 0 .. Len(s) : f[n] \in Seq(X) /\ Range(f[n]) = Seen(s, n) \cap T
  BY <1>1, Gathered
<1> DEFINE S == {n \in Nat : n <= Len(s) => IsInjective(f[n])}
<1>2. 0 \in S
  <2>1. f[0] = <<>>
    BY <1>1 DEF Gathers
  <2> QED  BY <2>1 DEF IsInjective
<1>3. ASSUME NEW n \in Nat, n \in S PROVE n + 1 \in S
  <2> SUFFICES ASSUME n + 1 <= Len(s) PROVE IsInjective(f[n + 1])
    OBVIOUS
  <2>1. n + 1 \in 1 .. Len(s) /\ n \in 0 .. Len(s) /\ (n + 1) - 1 = n /\ s[n + 1] \in X
    OBVIOUS
  <2>2. IsInjective(f[n]) /\ f[n] \in Seq(X) /\ Range(f[n]) = Seen(s, n) \cap T
    BY <1>3, <1>a, <2>1
  <2>3. /\ s[n + 1] \in T => f[n + 1] = Append(f[n], s[n + 1])
        /\ s[n + 1] \notin T => f[n + 1] = f[n]
    BY <1>1, <2>1 DEF Gathers
  <2>4. s[n + 1] \notin Range(f[n])
    <3>1. ASSUME NEW i \in 1 .. n PROVE s[i] # s[n + 1]
      <4>1. i \in DOMAIN s /\ n + 1 \in DOMAIN s /\ i # n + 1
        BY <2>1
      <4> QED  BY <4>1 DEF IsInjective
    <3> QED  BY <2>2, <3>1 DEF Seen
  <2>5. CASE s[n + 1] \in T
    <3>1. f[n + 1] = Append(f[n], s[n + 1]) /\ \A i \in DOMAIN f[n] : f[n][i] # s[n + 1]
      BY <2>3, <2>4, <2>5 DEF Range
    <3> QED  BY <2>1, <2>2, <3>1 DEF IsInjective
  <2>6. CASE s[n + 1] \notin T
    BY <2>2, <2>3, <2>6
  <2> QED  BY <2>5, <2>6
<1> HIDE DEF S
<1>4. Nat \subseteq S
  BY <1>2, <1>3, NaturalInduction
<1> QED  BY <1>1, <1>4 DEF S, Gathers

\* A filter that refuses nothing changes nothing.
LEMMA OnlyAll == ASSUME NEW X, NEW s \in Seq(X), NEW T, \A i \in DOMAIN s : s[i] \in T
  PROVE Only(s, T) = s
<1>1. PICK f : Gathers(s, T, f)
  BY Gathering
<1> DEFINE G(n) == f[n] \in Seq(X) /\ Len(f[n]) = n /\ \A i \in 1 .. n : f[n][i] = s[i]
           S == {n \in Nat : n <= Len(s) => G(n)}
<1>2. 0 \in S
  <2>1. f[0] = <<>>
    BY <1>1 DEF Gathers
  <2>2. <<>> \in Seq(X) /\ Len(<<>>) = 0 /\ 1 .. 0 = {}
    OBVIOUS
  <2>3. G(0)
    BY <2>1, <2>2
  <2> QED  BY <2>3
<1>3. ASSUME NEW n \in Nat, n \in S PROVE n + 1 \in S
  <2> SUFFICES ASSUME n + 1 <= Len(s) PROVE G(n + 1)
    OBVIOUS
  <2>1. n + 1 \in 1 .. Len(s) /\ (n + 1) - 1 = n /\ s[n + 1] \in X /\ s[n + 1] \in T
    OBVIOUS
  <2>2. f[n] \in Seq(X) /\ Len(f[n]) = n /\ \A i \in 1 .. n : f[n][i] = s[i]
    BY <1>3
  <2>3. f[n + 1] = Append(f[n], s[n + 1])
    BY <1>1, <2>1 DEF Gathers
  <2> QED  BY <2>1, <2>2, <2>3
<1>4. G(Len(s))
  <2> HIDE DEF S
  <2>1. Len(s) \in S
    BY <1>2, <1>3, NaturalInduction
  <2> QED  BY <2>1 DEF S
<1>5. Only(s, T) = f[Len(s)]
  BY <1>1 DEF Gathers
<1>6. f[Len(s)] = s
  BY <1>4
<1> QED  BY <1>5, <1>6

LEMMA Appended == ASSUME NEW a, NEW b, NEW c
  PROVE Append(<<a>>, b) = <<a, b>> /\ Append(<<a, b>>, c) = <<a, b, c>>
<1> DEFINE X == {a, b, c}
           p == Append(<<a>>, b)
           q == Append(<<a, b>>, c)
           u == <<a, b>>
           v == <<a, b, c>>
<1>1. <<a>> \in Seq(X) /\ u \in Seq(X) /\ v \in Seq(X) /\ p \in Seq(X) /\ q \in Seq(X)
  OBVIOUS
<1>2. /\ Len(p) = 2 /\ p[1] = a /\ p[2] = b
      /\ Len(q) = 3 /\ q[1] = a /\ q[2] = b /\ q[3] = c
  OBVIOUS
<1>3. Len(u) = 2 /\ u[1] = a /\ u[2] = b /\ Len(v) = 3 /\ v[1] = a /\ v[2] = b /\ v[3] = c
  OBVIOUS
<1> HIDE DEF X, p, q, u, v
<1>4. \A i \in 1 .. 2 : p[i] = u[i]
  BY <1>2, <1>3
<1>5. \A i \in 1 .. 3 : q[i] = v[i]
  BY <1>2, <1>3
<1>6. p = u /\ q = v
  BY <1>1, <1>2, <1>3, <1>4, <1>5, SeqEqual
<1> QED  BY <1>6 DEF p, q, u, v

\* A filter whose set is met at three places in a row keeps those three.
LEMMA OnlyWindow ==
  ASSUME NEW X, NEW s \in Seq(X), NEW T, NEW t \in Nat \ {0}, t + 2 <= Len(s),
         \A i \in DOMAIN s : s[i] \in T <=> i \in t .. t + 2
  PROVE Only(s, T) = <<s[t], s[t + 1], s[t + 2]>>
<1>1. PICK f : Gathers(s, T, f)
  BY Gathering
<1> DEFINE G(n) == /\ n < t => f[n] = <<>>
                   /\ n = t => f[n] = <<s[t]>>
                   /\ n = t + 1 => f[n] = <<s[t], s[t + 1]>>
                   /\ n >= t + 2 => f[n] = <<s[t], s[t + 1], s[t + 2]>>
           S == {n \in Nat : n <= Len(s) => G(n)}
<1>2. 0 \in S
  <2>1. f[0] = <<>>
    BY <1>1 DEF Gathers
  <2> QED  BY <2>1
<1>3. ASSUME NEW n \in Nat, n \in S PROVE n + 1 \in S
  <2> SUFFICES ASSUME n + 1 <= Len(s) PROVE G(n + 1)
    OBVIOUS
  <2>1. n + 1 \in 1 .. Len(s) /\ n + 1 \in DOMAIN s /\ (n + 1) - 1 = n /\ G(n)
    BY <1>3
  <2>2. /\ s[n + 1] \in T => f[n + 1] = Append(f[n], s[n + 1])
        /\ s[n + 1] \notin T => f[n + 1] = f[n]
    BY <1>1, <2>1 DEF Gathers
  <2>3. CASE n + 1 < t
    BY <2>1, <2>2, <2>3
  <2>4. CASE n + 1 = t
    BY <2>1, <2>2, <2>4
  <2>5. CASE n + 1 = t + 1
    <3>1. n = t /\ f[n] = <<s[t]>> /\ f[n + 1] = Append(f[n], s[n + 1])
      BY <2>1, <2>2, <2>5
    <3>2. Append(<<s[t]>>, s[n + 1]) = <<s[t], s[n + 1]>>
      BY Appended, Zenon
    <3>3. f[n + 1] = <<s[t], s[n + 1]>>
      BY <3>1, <3>2, Zenon
    <3> QED  BY <2>5, <3>3
  <2>6. CASE n + 1 = t + 2
    <3>1. n = t + 1 /\ f[n] = <<s[t], s[t + 1]>> /\ f[n + 1] = Append(f[n], s[n + 1])
      BY <2>1, <2>2, <2>6
    <3>2. Append(<<s[t], s[t + 1]>>, s[n + 1]) = <<s[t], s[t + 1], s[n + 1]>>
      BY Appended, Zenon
    <3>3. f[n + 1] = <<s[t], s[t + 1], s[n + 1]>>
      BY <3>1, <3>2, Zenon
    <3> QED  BY <2>6, <3>3
  <2>7. CASE n + 1 > t + 2
    BY <2>1, <2>2, <2>7
  <2> QED  BY <2>3, <2>4, <2>5, <2>6, <2>7
<1>4. G(Len(s))
  <2> HIDE DEF S
  <2>1. Len(s) \in S
    BY <1>2, <1>3, NaturalInduction
  <2> QED  BY <2>1 DEF S
<1> QED  BY <1>1, <1>4 DEF Gathers

\* A sequence that repeats nothing is as long as the set of its elements is large.
LEMMA DistinctLength == ASSUME NEW X, NEW s \in Seq(X), IsInjective(s)
  PROVE IsFiniteSet(Range(s)) /\ Cardinality(Range(s)) = Len(s)
<1>1. Len(s) \in Nat /\ DOMAIN s = 1 .. Len(s)
  OBVIOUS
<1>2. IsFiniteSet(1 .. Len(s)) /\ Cardinality(1 .. Len(s)) = Len(s)
  BY <1>1, FS_Interval
<1>3. s \in Bijection(1 .. Len(s), Range(s))
  BY <1>1 DEF Bijection, Injection, Surjection, Range, IsInjective
<1>4. ExistsBijection(1 .. Len(s), Range(s))
  BY <1>3 DEF ExistsBijection
<1>5. IsFiniteSet(Range(s)) /\ Cardinality(Range(s)) = Cardinality(1 .. Len(s))
  BY <1>2, <1>4, FS_Bijection
<1> QED  BY <1>2, <1>5

-----------------------------------------------------------------------------
(* Places and their order. *)

LEMMA PlaceOf == ASSUME NEW X, NEW s \in Seq(X), NEW x \in Range(s)
  PROVE Place(s, x) \in 1 .. Len(s) /\ s[Place(s, x)] = x
<1>1. \E i \in DOMAIN s : s[i] = x
  BY DEF Range
<1> QED  BY <1>1 DEF Place

LEMMA PlaceAt == ASSUME NEW X, NEW s \in Seq(X), IsInjective(s), NEW i \in DOMAIN s PROVE Place(s, s[i]) = i
<1>1. s[i] \in Range(s)
  BY DEF Range
<1>2. Place(s, s[i]) \in 1 .. Len(s) /\ s[Place(s, s[i])] = s[i]
  BY <1>1, PlaceOf
<1> QED  BY <1>2 DEF IsInjective

\* An ascending sequence ascends from any place to any later one.
LEMMA Ascends == ASSUME NEW s \in Seq(Nat), Ascending(s)
  PROVE (\A i, j \in DOMAIN s : i < j => s[i] < s[j]) /\ IsInjective(s)
<1> DEFINE S == {n \in Nat : n <= Len(s) => \A i \in 1 .. n : i < n => s[i] < s[n]}
<1>1. 0 \in S
  OBVIOUS
<1>2. ASSUME NEW n \in Nat, n \in S PROVE n + 1 \in S
  <2> SUFFICES ASSUME n + 1 <= Len(s), NEW i \in 1 .. n + 1, i < n + 1 PROVE s[i] < s[n + 1]
    OBVIOUS
  <2>1. s[n] < s[n + 1]
    <3>1. n + 1 \in 2 .. Len(s) /\ (n + 1) - 1 = n
      OBVIOUS
    <3> QED  BY <3>1 DEF Ascending
  <2>2. i = n \/ s[i] < s[n]
    BY <1>2
  <2>3. s[i] \in Nat /\ s[n] \in Nat /\ s[n + 1] \in Nat
    OBVIOUS
  <2> QED  BY <2>1, <2>2, <2>3
<1>3. \A i, j \in DOMAIN s : i < j => s[i] < s[j]
  <2> HIDE DEF S
  <2> SUFFICES ASSUME NEW i \in DOMAIN s, NEW j \in DOMAIN s, i < j PROVE s[i] < s[j]
    OBVIOUS
  <2>1. Nat \subseteq S
    BY <1>1, <1>2, NaturalInduction
  <2>2. j \in Nat
    OBVIOUS
  <2> QED  BY <2>1, <2>2 DEF S
<1>4. IsInjective(s)
  <2> SUFFICES ASSUME NEW i \in DOMAIN s, NEW j \in DOMAIN s, s[i] = s[j] PROVE i = j
    BY DEF IsInjective
  <2>1. i \in Nat /\ j \in Nat /\ s[i] \in Nat /\ s[j] \in Nat
    OBVIOUS
  <2> QED  BY <1>3, <2>1
<1> QED  BY <1>3, <1>4

LEMMA Lexical == ASSUME NEW a1, NEW a2, NEW a3, NEW b1, NEW b2, NEW b3
  PROVE Before(<<a1, a2, a3>>, <<b1, b2, b3>>)
          <=> \/ a1 < b1
              \/ a1 = b1 /\ a2 < b2
              \/ a1 = b1 /\ a2 = b2 /\ a3 < b3
<1> DEFINE a == <<a1, a2, a3>>
           b == <<b1, b2, b3>>
<1>1. DOMAIN a = {1, 2, 3}
  OBVIOUS
<1>2. 1 .. 1 - 1 = {} /\ 1 .. 2 - 1 = {1} /\ 1 .. 3 - 1 = {1, 2}
  OBVIOUS
<1>3. a[1] = a1 /\ a[2] = a2 /\ a[3] = a3 /\ b[1] = b1 /\ b[2] = b2 /\ b[3] = b3
  OBVIOUS
<1> HIDE DEF a, b
<1>4. Before(a, b) <=> \/ a[1] < b[1]
                       \/ a[1] = b[1] /\ a[2] < b[2]
                       \/ a[1] = b[1] /\ a[2] = b[2] /\ a[3] < b[3]
  BY <1>1, <1>2 DEF Before
<1>5. Before(a, b) <=> \/ a1 < b1
                       \/ a1 = b1 /\ a2 < b2
                       \/ a1 = b1 /\ a2 = b2 /\ a3 < b3
  BY <1>3, <1>4
<1> QED  BY <1>5 DEF a, b

-----------------------------------------------------------------------------
(* The inductive invariant. *)

Plans == [groups : Seq(Groups), lanes : Seq(Lanes), sdks : Seq([id : Sdks, refs : Seq(References)])]

\* What was read and what was found, while nothing has been refused.
Reading == stage \in {"lanes", "sdks", "valid", "unclosed"}

Kinds == /\ stage \in {"groups", "lanes", "sdks", "valid", "refused", "unclosed"}
         /\ locks \in BOOLEAN /\ edits \in 0 .. Edits
         /\ DOMAIN held = Helpers /\ DOMAIN printed = Helpers

Typed == /\ plan \in Plans /\ declared \in [Groups -> Seq(Profiles)]
         /\ \A g \in Groups : IsInjective(declared[g])
         /\ Reading => Ascending(plan.groups) /\ Len(plan.groups) \in 1 .. MaxGroups
         /\ stage \in {"sdks", "valid"} => Len(plan.sdks) <= MaxSdks

Sequenced == /\ stage = "groups" => plan = Empty /\ declared = [g \in Groups |-> <<>>]
             /\ stage \in {"lanes", "unclosed"} => plan.sdks = <<>>

\* A profile stands with the group in which its lanes were read, and no other.
Declared == Reading =>
  \A g \in Groups, p \in Profiles :
    p \in Range(declared[g]) <=>
      \E i \in DOMAIN plan.lanes : plan.lanes[i].group = g /\ plan.lanes[i].profile = p
Owned == \A g, h \in Groups : \A p \in Profiles :
           p \in Range(declared[g]) /\ p \in Range(declared[h]) => g = h
Grouped == Reading => \A i \in DOMAIN plan.lanes : plan.lanes[i].group \in Range(plan.groups)

\* The lanes follow the order of the producer, as the profiles stand now.
GroupPlace(lane) == Place(plan.groups, lane.group)
ProfilePlace(lane) == Place(declared[lane.group], lane.profile)
HostPlace(lane) == Place(ActiveHosts, lane.host)
Precedes(l, m) ==
  \/ GroupPlace(l) < GroupPlace(m)
  \/ GroupPlace(l) = GroupPlace(m) /\ ProfilePlace(l) < ProfilePlace(m)
  \/ GroupPlace(l) = GroupPlace(m) /\ ProfilePlace(l) = ProfilePlace(m) /\ HostPlace(l) < HostPlace(m)
Ordered == Reading =>
  \A i, j \in DOMAIN plan.lanes : i < j => Precedes(plan.lanes[i], plan.lanes[j])

Closed == plan.lanes # <<>> /\ LanesClosed
Ended == /\ stage \in {"sdks", "valid"} => Closed
         /\ stage = "unclosed" => ~Closed
Rejected == stage = "refused" /\ plan.lanes # <<>> /\ plan.sdks = <<>> => ~BeginsProduct(plan)

Referring == stage \in {"sdks", "valid"} =>
  \A i \in DOMAIN plan.sdks : \A j \in DOMAIN plan.sdks[i].refs :
    plan.sdks[i].refs[j][2] \in Range(declared[plan.sdks[i].refs[j][1]])

\* What was projected or printed comes from the validated plan.
Projected ==
  matrix \in {None, Refused} \/
    (stage = "valid" /\ \E r \in Requests : Projectable(plan, r) /\ matrix = Projection(plan, r))
Printed == \A k \in Helpers :
  /\ held[k] # None => stage = "valid"
  /\ printed[k] = None \/ held[k] # None
  /\ printed[k] = Selected => held[k] = plan
  /\ printed[k] \notin {None, Selected, Refused} => printed[k] = Owners(k, plan)

IInv == /\ Kinds /\ Typed /\ Sequenced /\ Declared /\ Owned /\ Grouped /\ Ordered
        /\ Ended /\ Rejected /\ Referring /\ Projected /\ Printed

-----------------------------------------------------------------------------
(* A sequence in which equal elements stand together and meet every one of *)
(* three hosts in their order stands in blocks of three.                   *)

LEMMA HostCount == Len(ActiveHosts) = 3 /\ DOMAIN ActiveHosts = 1 .. 3
BY DEF ActiveHosts

LEMMA BlockIs == ASSUME NEW i \in Nat \ {0}
  PROVE Block(i) \in Nat \ {0} /\ i \in 3 * Block(i) - 2 .. 3 * Block(i)
<1>1. Block(i) = (i + 2) \div 3
  BY HostCount DEF Block
<1> QED  BY <1>1

\* Elements in a, hosts in h: alike ones rise, stand together and meet every host.
Rising(n, h, a) == \A i, j \in 1 .. n : i < j /\ a[i] = a[j] => h[i] < h[j]
Together(n, a) == \A i, j, k \in 1 .. n : i < k /\ k < j /\ a[i] = a[j] => a[i] = a[k]
Full(n, h, a) == /\ \A i \in 1 .. n : h[i] \in {1, 2, 3}
                 /\ \A i \in 1 .. n, x \in {1, 2, 3} : \E j \in 1 .. n : a[j] = a[i] /\ h[j] = x
Stands(n, h, a) == Rising(n, h, a) /\ Together(n, a) /\ Full(n, h, a)

LEMMA Backward ==
  ASSUME NEW n \in Nat \ {0}, NEW h, NEW a, Stands(n, h, a), NEW i \in 1 .. n, h[i] # 1
  PROVE  i - 1 \in 1 .. n /\ a[i - 1] = a[i] /\ h[i] = h[i - 1] + 1
<1>0. \A k \in 1 .. n : h[k] \in {1, 2, 3}
  BY DEF Stands, Full
<1>1. h[i] \in {2, 3} /\ h[i] - 1 \in {1, 2, 3}
  BY <1>0
<1>2. PICK j \in 1 .. n : a[j] = a[i] /\ h[j] = h[i] - 1
  BY <1>1 DEF Stands, Full
<1>3. j < i
  <2>1. ~(i < j) /\ i # j
    BY <1>1, <1>2 DEF Stands, Rising
  <2> QED  BY <2>1
<1>4. ASSUME j < i - 1 PROVE FALSE
  <2>1. i - 1 \in 1 .. n /\ j < i - 1 /\ i - 1 < i
    BY <1>3, <1>4
  <2>2. a[j] = a[i - 1]
    BY <1>2, <2>1 DEF Stands, Together
  <2>3. h[j] < h[i - 1] /\ h[i - 1] < h[i]
    BY <1>2, <2>1, <2>2 DEF Stands, Rising
  <2>4. h[i - 1] \in {1, 2, 3}
    BY <1>0, <2>1
  <2> QED  BY <1>1, <1>2, <2>3, <2>4
<1>5. j = i - 1
  BY <1>3, <1>4
<1> QED  BY <1>1, <1>2, <1>5

LEMMA Forward ==
  ASSUME NEW n \in Nat \ {0}, NEW h, NEW a, Stands(n, h, a), NEW i \in 1 .. n, h[i] # 3
  PROVE  i + 1 \in 1 .. n /\ a[i + 1] = a[i] /\ h[i + 1] = h[i] + 1
<1>0. \A k \in 1 .. n : h[k] \in {1, 2, 3}
  BY DEF Stands, Full
<1>1. h[i] \in {1, 2} /\ h[i] + 1 \in {1, 2, 3}
  BY <1>0
<1>2. PICK j \in 1 .. n : a[j] = a[i] /\ h[j] = h[i] + 1
  BY <1>1 DEF Stands, Full
<1>3. j > i
  <2>1. ~(j < i) /\ i # j
    BY <1>1, <1>2 DEF Stands, Rising
  <2> QED  BY <2>1
<1>4. ASSUME j > i + 1 PROVE FALSE
  <2>1. i + 1 \in 1 .. n /\ i < i + 1 /\ i + 1 < j
    BY <1>3, <1>4
  <2>2. a[i] = a[i + 1]
    BY <1>2, <2>1 DEF Stands, Together
  <2>3. h[i] < h[i + 1] /\ h[i + 1] < h[j]
    BY <1>2, <2>1, <2>2 DEF Stands, Rising
  <2>4. h[i + 1] \in {1, 2, 3}
    BY <1>0, <2>1
  <2> QED  BY <1>1, <1>2, <2>3, <2>4
<1>5. j = i + 1
  BY <1>3, <1>4
<1> QED  BY <1>1, <1>2, <1>5

LEMMA HostsRepeat ==
  ASSUME NEW n \in Nat \ {0}, NEW h, NEW a, Stands(n, h, a)
  PROVE  \A i \in 1 .. n : h[i] = ((i - 1) % 3) + 1
<1>0. \A k \in 1 .. n : h[k] \in {1, 2, 3}
  BY DEF Stands, Full
<1> DEFINE S == {i \in Nat : i \in 1 .. n => h[i] = ((i - 1) % 3) + 1}
<1>1. 0 \in S
  OBVIOUS
<1>2. ASSUME NEW i \in Nat, i \in S PROVE i + 1 \in S
  <2> SUFFICES ASSUME i + 1 \in 1 .. n PROVE h[i + 1] = (i % 3) + 1
    OBVIOUS
  <2>1. CASE i = 0
    <3>1. h[1] = 1
      <4>1. h[1] # 1 => 1 - 1 \in 1 .. n
        BY <2>1, Backward
      <4> QED  BY <4>1
    <3> QED  BY <2>1, <3>1
  <2>2. CASE i # 0
    <3>1. i \in 1 .. n /\ h[i] = ((i - 1) % 3) + 1
      BY <1>2, <2>2
    <3>2. h[i] \in {1, 2, 3} /\ h[i + 1] \in {1, 2, 3}
      BY <1>0, <3>1
    <3>3. (i - 1) % 3 = 2 => i % 3 = 0
      OBVIOUS
    <3>4. (i - 1) % 3 # 2 => i % 3 = ((i - 1) % 3) + 1
      OBVIOUS
    <3>5. CASE h[i] # 3
      <4>1. h[i + 1] = h[i] + 1
        BY <3>1, <3>5, Forward
      <4> QED  BY <3>1, <3>4, <3>5, <4>1
    <3>6. CASE h[i] = 3
      <4>1. h[i + 1] # 1 => h[i + 1] = h[(i + 1) - 1] + 1
        BY Backward
      <4>2. (i + 1) - 1 = i
        OBVIOUS
      <4>3. h[i + 1] = 1
        BY <3>2, <3>6, <4>1, <4>2
      <4> QED  BY <3>1, <3>3, <3>6, <4>3
    <3> QED  BY <3>5, <3>6
  <2> QED  BY <2>1, <2>2
<1> HIDE DEF S
<1>3. Nat \subseteq S
  BY <1>1, <1>2, NaturalInduction
<1> QED  BY <1>3 DEF S

\* The three places of the block of i are alike.
LEMMA BlockAlike ==
  ASSUME NEW n \in Nat \ {0}, NEW h, NEW a, Stands(n, h, a), n % 3 = 0, NEW i \in 1 .. n
  PROVE  \A x \in {0, 1, 2} : 3 * Block(i) - 2 + x \in 1 .. n /\ a[3 * Block(i) - 2 + x] = a[i]
<1> DEFINE t == 3 * Block(i) - 2
<1>0. i \in Nat \ {0}
  OBVIOUS
<1>1. i \in Nat \ {0} /\ Block(i) \in Nat \ {0} /\ i \in 3 * Block(i) - 2 .. 3 * Block(i)
  BY <1>0, BlockIs
<1>2. t \in Nat \ {0} /\ i \in t .. t + 2 /\ (t - 1) % 3 = 0 /\ t % 3 = 1 /\ (t + 2) % 3 = 0
  BY <1>1
<1> HIDE DEF t
<1>3. t + 2 <= n
  BY <1>2
<1>4. t \in 1 .. n /\ t + 1 \in 1 .. n /\ t + 2 \in 1 .. n /\ (t + 1) - 1 = t /\ (t + 1) + 1 = t + 2 /\ t + 0 = t
  BY <1>2, <1>3
<1>5. h[t] = 1 /\ h[t + 1] = 2
  <2>1. h[t] = ((t - 1) % 3) + 1 /\ h[t + 1] = (((t + 1) - 1) % 3) + 1
    BY <1>4, HostsRepeat
  <2> QED  BY <1>2, <1>4, <2>1
<1>6. a[t + 1] = a[t]
  BY <1>4, <1>5, Forward
<1>7. a[(t + 1) + 1] = a[t + 1]
  BY <1>4, <1>5, Forward
<1>8. \A x \in {0, 1, 2} : t + x \in 1 .. n /\ a[t + x] = a[t]
  BY <1>4, <1>6, <1>7
<1>9. a[i] = a[t]
  <2>1. i = t + 0 \/ i = t + 1 \/ i = t + 2
    BY <1>1, <1>2
  <2> QED  BY <1>8, <2>1
<1>10. \A x \in {0, 1, 2} : t + x \in 1 .. n /\ a[t + x] = a[i]
  BY <1>8, <1>9
<1> QED  BY <1>10 DEF t

LEMMA Blocks ==
  ASSUME NEW n \in Nat \ {0}, NEW h, NEW a, Stands(n, h, a)
  PROVE /\ \A i \in 1 .. n : h[i] = ((i - 1) % 3) + 1
        /\ \A i, j \in 1 .. n : a[i] = a[j] <=> Block(i) = Block(j)
        /\ n % 3 = 0
<1>1. \A i \in 1 .. n : h[i] = ((i - 1) % 3) + 1
  BY HostsRepeat
<1>2. n % 3 = 0
  <2>1. n \in 1 .. n
    OBVIOUS
  <2>2. h[n] # 3 => n + 1 \in 1 .. n
    BY <2>1, Forward
  <2>3. h[n] = ((n - 1) % 3) + 1
    BY <1>1, <2>1
  <2>4. (n - 1) % 3 = 2
    BY <2>2, <2>3
  <2> QED  BY <2>4
<1>3. ASSUME NEW i \in 1 .. n, NEW j \in 1 .. n, Block(i) = Block(j) PROVE a[i] = a[j]
  <2>1. a[3 * Block(i) - 2 + 0] = a[i] /\ a[3 * Block(j) - 2 + 0] = a[j]
    BY <1>2, BlockAlike
  <2> QED  BY <1>3, <2>1
<1>4. ASSUME NEW i \in 1 .. n, NEW j \in 1 .. n, a[i] = a[j], Block(i) < Block(j) PROVE FALSE
  <2>0. i \in Nat \ {0} /\ j \in Nat \ {0}
    OBVIOUS
  <2>1. i <= 3 * Block(i) /\ Block(i) \in Nat \ {0} /\ Block(j) \in Nat \ {0}
    BY <2>0, BlockIs
  <2>2. h[i] \in {1, 2, 3}
    BY DEF Stands, Full
  <2> DEFINE k == 3 * Block(j) - 2 + (h[i] - 1)
  <2>3. h[i] - 1 \in {0, 1, 2}
    BY <2>2
  <2>4. k \in 1 .. n /\ a[k] = a[j]
    BY <1>2, <2>3, BlockAlike
  <2>5. k > i
    BY <1>4, <2>1, <2>2
  <2>6. (k - 1) % 3 = h[i] - 1
    BY <2>1, <2>2
  <2> HIDE DEF k
  <2>7. h[k] = ((k - 1) % 3) + 1
    BY <1>1, <2>4
  <2>8. h[i] < h[k]
    BY <1>4, <2>4, <2>5 DEF Stands, Rising
  <2> QED  BY <2>2, <2>6, <2>7, <2>8
<1>5. ASSUME NEW i \in 1 .. n, NEW j \in 1 .. n, a[i] = a[j] PROVE Block(i) = Block(j)
  <2>0. i \in Nat \ {0} /\ j \in Nat \ {0}
    OBVIOUS
  <2>1. Block(i) \in Nat /\ Block(j) \in Nat
    BY <2>0, BlockIs
  <2>2. ~(Block(i) < Block(j)) /\ ~(Block(j) < Block(i))
    BY <1>4, <1>5
  <2> QED  BY <2>1, <2>2
<1> QED  BY <1>1, <1>2, <1>3, <1>5

-----------------------------------------------------------------------------
(* The lanes of the plan, as they are ordered. *)

LEMMA LaneTyped == ASSUME Typed, NEW i \in DOMAIN plan.lanes
  PROVE /\ i \in 1 .. Len(plan.lanes) /\ Len(plan.lanes) \in Nat
        /\ plan.lanes[i] \in Lanes
        /\ plan.lanes[i].group \in Groups /\ plan.lanes[i].profile \in Profiles
        /\ plan.lanes[i].host \in Hosts
<1>1. plan.lanes \in Seq(Lanes)
  BY DEF Typed, Plans
<1>2. plan.lanes[i] \in Lanes /\ i \in 1 .. Len(plan.lanes) /\ Len(plan.lanes) \in Nat
  BY <1>1
<1> QED  BY <1>2 DEF Lanes

LEMMA HostPlaced ==
  /\ \A x \in Hosts : Place(ActiveHosts, x) \in {1, 2, 3} /\ ActiveHosts[Place(ActiveHosts, x)] = x
  /\ \A k \in {1, 2, 3} : ActiveHosts[k] \in Hosts /\ Place(ActiveHosts, ActiveHosts[k]) = k
<1>1. ActiveHosts \in Seq(Hosts) /\ IsInjective(ActiveHosts)
  <2>1. ActiveHosts \in Seq({"linux-aarch64", "linux-x86_64", "macos-aarch64"})
    BY DEF ActiveHosts
  <2>2. Hosts = {"linux-aarch64", "linux-x86_64", "macos-aarch64"}
    BY DEF Hosts, ActiveHosts, Range
  <2>3. IsInjective(ActiveHosts)
    BY DEF ActiveHosts, IsInjective
  <2> QED  BY <2>1, <2>2, <2>3
<1>2. \A x \in Hosts : Place(ActiveHosts, x) \in 1 .. 3 /\ ActiveHosts[Place(ActiveHosts, x)] = x
  BY <1>1, PlaceOf, HostCount DEF Hosts
<1>3. ASSUME NEW k \in {1, 2, 3} PROVE ActiveHosts[k] \in Hosts /\ Place(ActiveHosts, ActiveHosts[k]) = k
  <2>1. k \in DOMAIN ActiveHosts
    BY HostCount
  <2> QED  BY <1>1, <2>1, PlaceAt
<1> QED  BY <1>2, <1>3

LEMMA NumberedGroups == ASSUME NEW s \in Seq(Groups) PROVE s \in Seq(Nat)
<1>1. Groups \subseteq Nat
  BY NameAssumption
<1>2. \A i \in 1 .. Len(s) : s[i] \in Groups
  OBVIOUS
<1>3. \A x \in Groups : x \in Nat
  BY <1>1
<1>4. \A i \in 1 .. Len(s) : s[i] \in Nat
  BY <1>2, <1>3, Zenon
<1> QED  BY <1>4

LEMMA Placings ==
  ASSUME Typed, Declared, Grouped, Reading, NEW i \in DOMAIN plan.lanes, NEW j \in DOMAIN plan.lanes
  PROVE /\ GroupPlace(plan.lanes[i]) \in Nat /\ ProfilePlace(plan.lanes[i]) \in Nat
        /\ HostPlace(plan.lanes[i]) \in {1, 2, 3}
        /\ GroupPlace(plan.lanes[i]) = GroupPlace(plan.lanes[j]) <=> plan.lanes[i].group = plan.lanes[j].group
        /\ GroupPlace(plan.lanes[i]) < GroupPlace(plan.lanes[j]) => plan.lanes[i].group < plan.lanes[j].group
        /\ plan.lanes[i].group = plan.lanes[j].group =>
             (ProfilePlace(plan.lanes[i]) = ProfilePlace(plan.lanes[j])
                <=> plan.lanes[i].profile = plan.lanes[j].profile)
<1> DEFINE l == plan.lanes[i]
           m == plan.lanes[j]
<1>1. /\ l.group \in Groups /\ l.profile \in Profiles /\ l.host \in Hosts
      /\ m.group \in Groups /\ m.profile \in Profiles /\ m.host \in Hosts
  BY LaneTyped
<1>2. plan.groups \in Seq(Groups) /\ plan.groups \in Seq(Nat) /\ Ascending(plan.groups)
  <2>1. plan.groups \in Seq(Groups) /\ Ascending(plan.groups)
    BY DEF Typed, Plans
  <2> QED  BY <2>1, NumberedGroups
<1>3. l.group \in Range(plan.groups) /\ m.group \in Range(plan.groups)
  BY DEF Grouped
<1>4. l.profile \in Range(declared[l.group]) /\ m.profile \in Range(declared[m.group])
  BY <1>1 DEF Declared
<1>5. declared[l.group] \in Seq(Profiles) /\ declared[m.group] \in Seq(Profiles)
  BY <1>1 DEF Typed
<1> HIDE DEF l, m
<1>6. /\ GroupPlace(l) \in 1 .. Len(plan.groups) /\ plan.groups[GroupPlace(l)] = l.group
      /\ GroupPlace(m) \in 1 .. Len(plan.groups) /\ plan.groups[GroupPlace(m)] = m.group
  BY <1>2, <1>3, PlaceOf DEF GroupPlace
<1>7. /\ ProfilePlace(l) \in 1 .. Len(declared[l.group]) /\ declared[l.group][ProfilePlace(l)] = l.profile
      /\ ProfilePlace(m) \in 1 .. Len(declared[m.group]) /\ declared[m.group][ProfilePlace(m)] = m.profile
  BY <1>4, <1>5, PlaceOf DEF ProfilePlace
<1>8. HostPlace(l) \in {1, 2, 3}
  BY <1>1, HostPlaced DEF HostPlace
<1>9. GroupPlace(l) = GroupPlace(m) <=> l.group = m.group
  BY <1>6 DEF GroupPlace
<1>10. GroupPlace(l) < GroupPlace(m) => l.group < m.group
  <2>1. \A x, y \in DOMAIN plan.groups : x < y => plan.groups[x] < plan.groups[y]
    BY <1>2, Ascends
  <2>2. GroupPlace(l) \in DOMAIN plan.groups /\ GroupPlace(m) \in DOMAIN plan.groups
    BY <1>2, <1>6
  <2> QED  BY <1>6, <2>1, <2>2
<1>11. l.group = m.group => (ProfilePlace(l) = ProfilePlace(m) <=> l.profile = m.profile)
  BY <1>7 DEF ProfilePlace
<1>12. GroupPlace(l) \in Nat /\ ProfilePlace(l) \in Nat
  BY <1>6, <1>7
<1> QED  BY <1>8, <1>9, <1>10, <1>11, <1>12 DEF l, m

\* Every declared pair was crossed: a closed plan has its lane for every host.
LEMMA CrossedLane ==
  ASSUME IInv, Reading, Closed, NEW g \in Groups, NEW p \in Profiles, p \in Range(declared[g]), NEW h \in Hosts
  PROVE  \E lane \in Range(plan.lanes) : lane.group = g /\ lane.profile = p /\ lane.host = h
<1> DEFINE L == plan.lanes
           T == [group : {g}, host : Hosts, profile : {p}]
           own == Only(L, T)
<1>1. Typed /\ Declared /\ Grouped
  BY DEF IInv
<1>2. L \in Seq(Lanes)
  BY <1>1 DEF Typed, Plans
<1>3. g \in Range(plan.groups)
  BY <1>1 DEF Declared, Grouped
<1>4. [k \in DOMAIN own |-> own[k].host] = ActiveHosts
  BY <1>3 DEF Closed, LanesClosed, Crossed
<1>5. own \in Seq(Lanes) /\ Range(own) = Range(L) \cap T
  BY <1>2, OnlyRange
<1> HIDE DEF own
<1>6. Place(ActiveHosts, h) \in {1, 2, 3} /\ ActiveHosts[Place(ActiveHosts, h)] = h
  BY HostPlaced
<1>7. PICK x \in {1, 2, 3} : ActiveHosts[x] = h
  BY <1>6
<1>8. x \in DOMAIN own /\ own[x].host = h
  BY <1>4, <1>7, HostCount
<1>9. own[x] \in Range(L) /\ own[x] \in T
  BY <1>5, <1>8 DEF Range
<1> QED  BY <1>8, <1>9

HostOf == [i \in DOMAIN plan.lanes |-> HostPlace(plan.lanes[i])]
PairOf == [i \in DOMAIN plan.lanes |-> <<plan.lanes[i].group, plan.lanes[i].profile>>]

\* A closed list of ordered lanes stands in blocks.
LEMMA Standing == ASSUME IInv, Reading, Closed PROVE Stands(Len(plan.lanes), HostOf, PairOf)
<1> DEFINE L == plan.lanes
           n == Len(plan.lanes)
           h == HostOf
           a == PairOf
<1>1. Typed /\ Declared /\ Grouped /\ Ordered
  BY DEF IInv
<1>2. DOMAIN L = 1 .. n /\ n \in Nat /\ L \in Seq(Lanes)
  BY <1>1 DEF Typed, Plans
<1>3. \A i \in 1 .. n : /\ h[i] = HostPlace(L[i]) /\ a[i] = <<L[i].group, L[i].profile>>
                        /\ h[i] \in {1, 2, 3}
  <2>1. \A i \in 1 .. n : HostPlace(L[i]) \in {1, 2, 3}
    BY <1>1, <1>2, Placings
  <2> QED  BY <1>2, <2>1 DEF HostOf, PairOf
<1>4. \A i, j \in 1 .. n : a[i] = a[j] <=> L[i].group = L[j].group /\ L[i].profile = L[j].profile
  BY <1>3
<1>5. Rising(n, h, a)
  <2> SUFFICES ASSUME NEW i \in 1 .. n, NEW j \in 1 .. n, i < j, a[i] = a[j] PROVE h[i] < h[j]
    BY DEF Rising
  <2>1. L[i].group = L[j].group /\ L[i].profile = L[j].profile
    BY <1>4
  <2>2. GroupPlace(L[i]) = GroupPlace(L[j]) /\ ProfilePlace(L[i]) = ProfilePlace(L[j])
    BY <2>1 DEF GroupPlace, ProfilePlace
  <2>3. GroupPlace(L[i]) \in Nat /\ ProfilePlace(L[i]) \in Nat
    BY <1>1, <1>2, Placings
  <2>4. Precedes(L[i], L[j])
    BY <1>1, <1>2 DEF Ordered
  <2> QED  BY <1>3, <2>2, <2>3, <2>4 DEF Precedes
<1>6. Together(n, a)
  <2> SUFFICES ASSUME NEW i \in 1 .. n, NEW j \in 1 .. n, NEW k \in 1 .. n, i < k, k < j, a[i] = a[j]
               PROVE  a[i] = a[k]
    BY DEF Together
  <2>1. L[i].group = L[j].group /\ L[i].profile = L[j].profile
    BY <1>4
  <2>2. GroupPlace(L[i]) = GroupPlace(L[j]) /\ ProfilePlace(L[i]) = ProfilePlace(L[j])
    BY <2>1 DEF GroupPlace, ProfilePlace
  <2>3. /\ GroupPlace(L[i]) \in Nat /\ ProfilePlace(L[i]) \in Nat
        /\ GroupPlace(L[k]) \in Nat /\ ProfilePlace(L[k]) \in Nat
    BY <1>1, <1>2, Placings
  <2>4. Precedes(L[i], L[k]) /\ Precedes(L[k], L[j])
    BY <1>1, <1>2 DEF Ordered
  <2>5. GroupPlace(L[i]) = GroupPlace(L[k]) /\ ProfilePlace(L[i]) = ProfilePlace(L[k])
    BY <2>2, <2>3, <2>4 DEF Precedes
  <2>6. L[i].group = L[k].group /\ L[i].profile = L[k].profile
    BY <1>1, <1>2, <2>5, Placings
  <2> QED  BY <1>4, <2>6
<1>7. ASSUME NEW i \in 1 .. n, NEW x \in {1, 2, 3} PROVE \E j \in 1 .. n : a[j] = a[i] /\ h[j] = x
  <2> DEFINE g == L[i].group
             p == L[i].profile
  <2>1. g \in Groups /\ p \in Profiles /\ p \in Range(declared[g])
    BY <1>1, <1>2, LaneTyped DEF Declared
  <2>2. PICK lane \in Range(L) : lane.group = g /\ lane.profile = p /\ lane.host = ActiveHosts[x]
    BY <2>1, HostPlaced, CrossedLane
  <2>3. PICK j \in 1 .. n : L[j] = lane
    BY <1>2 DEF Range
  <2>4. HostPlace(L[j]) = x
    BY <2>2, <2>3, HostPlaced DEF HostPlace
  <2> QED  BY <1>3, <1>4, <2>2, <2>3, <2>4
<1>8. Full(n, h, a)
  BY <1>3, <1>7 DEF Full
<1> QED  BY <1>5, <1>6, <1>8 DEF Stands

\* Lanes of one profile are of one group.
LEMMA OneGroup ==
  ASSUME Typed, Declared, Owned, Reading, NEW i \in DOMAIN plan.lanes, NEW j \in DOMAIN plan.lanes,
         plan.lanes[i].profile = plan.lanes[j].profile
  PROVE  plan.lanes[i].group = plan.lanes[j].group
<1> DEFINE p == plan.lanes[i].profile
<1>1. plan.lanes[i].group \in Groups /\ plan.lanes[j].group \in Groups /\ p \in Profiles
  BY LaneTyped
<1>2. p \in Range(declared[plan.lanes[i].group]) /\ p \in Range(declared[plan.lanes[j].group])
  BY <1>1 DEF Declared
<1> QED  BY <1>1, <1>2 DEF Owned

\* What was accepted and closed is a product.
LEMMA Product == ASSUME IInv, Reading, Closed PROVE IsProduct(plan)
<1> DEFINE L == plan.lanes
           n == Len(plan.lanes)
<1>1. Typed /\ Declared /\ Owned /\ Grouped /\ Ordered
  BY DEF IInv
<1>2. DOMAIN L = 1 .. n /\ n \in Nat \ {0} /\ L \in Seq(Lanes)
  <2>1. L \in Seq(Lanes) /\ L # <<>>
    BY <1>1 DEF Typed, Plans, Closed
  <2> QED  BY <2>1
<1>3. Stands(n, HostOf, PairOf)
  BY Standing
<1>4. /\ \A i \in 1 .. n : HostOf[i] = ((i - 1) % 3) + 1
      /\ \A i, j \in 1 .. n : PairOf[i] = PairOf[j] <=> Block(i) = Block(j)
      /\ n % 3 = 0
  BY <1>2, <1>3, Blocks
<1>5. ASSUME NEW i \in 1 .. n PROVE L[i].host = ActiveHosts[((i - 1) % Len(ActiveHosts)) + 1]
  <2>1. HostPlace(L[i]) = ((i - 1) % 3) + 1
    BY <1>2, <1>4 DEF HostOf
  <2>2. ActiveHosts[HostPlace(L[i])] = L[i].host
    BY <1>1, <1>2, LaneTyped, HostPlaced DEF HostPlace
  <2> QED  BY <2>1, <2>2, HostCount
<1>6. ASSUME NEW i \in 1 .. n, NEW j \in 1 .. n, L[j].profile = L[i].profile PROVE L[j].group = L[i].group
  BY <1>1, <1>2, <1>6, OneGroup
<1>7. ASSUME NEW i \in 1 .. n, NEW j \in 1 .. n PROVE (L[j].profile = L[i].profile) <=> (Block(j) = Block(i))
  <2>1. PairOf[j] = PairOf[i] <=> L[j].profile = L[i].profile
    BY <1>2, <1>6 DEF PairOf
  <2> QED  BY <1>4, <2>1
<1>8. ASSUME NEW i \in 1 .. n, NEW j \in 1 .. n, j < i PROVE L[j].group <= L[i].group
  <2>1. Precedes(L[j], L[i])
    BY <1>1, <1>2, <1>8 DEF Ordered
  <2>2. GroupPlace(L[j]) < GroupPlace(L[i]) \/ GroupPlace(L[j]) = GroupPlace(L[i])
    BY <2>1 DEF Precedes
  <2>3. L[j].group < L[i].group \/ L[j].group = L[i].group
    BY <1>1, <1>2, <2>2, Placings
  <2>4. L[j].group \in Nat /\ L[i].group \in Nat
    BY <1>1, <1>2, LaneTyped, NameAssumption
  <2> QED  BY <2>3, <2>4
<1>9. InBlocks(L)
  <2>1. \A i \in 1 .. n : L[i].host = ActiveHosts[((i - 1) % Len(ActiveHosts)) + 1]
    BY <1>5
  <2>2. \A i, j \in 1 .. n : (L[j].profile = L[i].profile) <=> (Block(j) = Block(i))
    BY <1>7
  <2>3. \A i, j \in 1 .. n : j < i => L[j].group <= L[i].group
    BY <1>8
  <2>4. \A i, j \in 1 .. n : L[j].profile = L[i].profile => L[j].group = L[i].group
    BY <1>6
  <2> QED  BY <1>2, <2>1, <2>2, <2>3, <2>4, Zenon DEF InBlocks
<1>10. {lane.group : lane \in Range(L)} = Range(plan.groups)
  <2>1. ASSUME NEW i \in 1 .. n PROVE L[i].group \in Range(plan.groups)
    BY <1>1, <1>2 DEF Grouped
  <2>2. ASSUME NEW g \in Range(plan.groups) PROVE \E i \in 1 .. n : L[i].group = g
    <3>1. declared[g] # <<>>
      BY DEF Closed, LanesClosed
    <3>2. g \in Groups /\ declared[g] \in Seq(Profiles)
      <4>1. plan.groups \in Seq(Groups)
        BY <1>1 DEF Typed, Plans
      <4>2. g \in Groups
        BY <4>1 DEF Range
      <4> QED  BY <1>1, <4>2 DEF Typed
    <3>3. declared[g][1] \in Profiles /\ declared[g][1] \in Range(declared[g])
      BY <3>1, <3>2 DEF Range
    <3> QED  BY <1>1, <1>2, <3>2, <3>3 DEF Declared
  <2>3. {lane.group : lane \in Range(L)} \subseteq Range(plan.groups)
    <3>1. ASSUME NEW lane \in Range(L) PROVE lane.group \in Range(plan.groups)
      <4>1. PICK i \in 1 .. n : L[i] = lane
        BY <1>2 DEF Range
      <4> QED  BY <2>1, <4>1
    <3> QED  BY <3>1
  <2>4. ASSUME NEW g \in Range(plan.groups) PROVE g \in {lane.group : lane \in Range(L)}
    <3>1. PICK i \in 1 .. n : L[i].group = g
      BY <2>2
    <3>2. L[i] \in Range(L)
      BY <1>2 DEF Range
    <3> QED  BY <3>1, <3>2
  <2> QED  BY <2>3, <2>4
<1>11. L # <<>> /\ Len(L) % Len(ActiveHosts) = 0
  BY <1>2, <1>4, HostCount DEF Closed
<1> QED  BY <1>9, <1>10, <1>11 DEF IsProduct

\* A product is closed.
LEMMA Closing == ASSUME IInv, Reading, IsProduct(plan) PROVE Closed
<1> DEFINE L == plan.lanes
           n == Len(plan.lanes)
<1>1. Typed /\ Declared /\ Owned /\ Grouped /\ InBlocks(L) /\ L # <<>>
  BY DEF IInv, IsProduct
<1>2. DOMAIN L = 1 .. n /\ n \in Nat \ {0} /\ L \in Seq(Lanes)
  <2>1. L \in Seq(Lanes)
    BY <1>1 DEF Typed, Plans
  <2> QED  BY <1>1, <2>1
<1>3. n % 3 = 0
  BY HostCount DEF IsProduct
<1>4. /\ \A i \in 1 .. n : L[i].host = ActiveHosts[((i - 1) % 3) + 1]
      /\ \A i, j \in 1 .. n : (L[j].profile = L[i].profile) <=> (Block(j) = Block(i))
      /\ \A i, j \in 1 .. n : L[j].profile = L[i].profile => L[j].group = L[i].group
  BY <1>1, <1>2, HostCount DEF InBlocks
<1>5. ASSUME NEW g \in Range(plan.groups) PROVE g \in Groups /\ declared[g] # <<>>
  <2>1. g \in Groups
    <3>1. plan.groups \in Seq(Groups)
      BY <1>1 DEF Typed, Plans
    <3> QED  BY <3>1 DEF Range
  <2>2. g \in {lane.group : lane \in Range(L)}
    BY DEF IsProduct
  <2>3. PICK i \in 1 .. n : L[i].group = g
    BY <1>2, <2>2 DEF Range
  <2>4. L[i].profile \in Profiles
    BY <1>1, <1>2, LaneTyped
  <2>5. L[i].profile \in Range(declared[g])
    BY <1>1, <1>2, <2>1, <2>3, <2>4 DEF Declared
  <2>6. declared[g] # <<>>
    BY <2>5 DEF Range
  <2> QED  BY <2>1, <2>6
<1>6. ASSUME NEW g \in Range(plan.groups), NEW p \in Range(declared[g]) PROVE Crossed(g, p)
  <2> DEFINE T == [group : {g}, host : Hosts, profile : {p}]
  <2>1. g \in Groups /\ p \in Profiles
    <3>1. declared[g] \in Seq(Profiles)
      BY <1>1, <1>5 DEF Typed
    <3> QED  BY <1>5, <3>1 DEF Range
  <2>2. PICK b \in 1 .. n : L[b].group = g /\ L[b].profile = p
    BY <1>1, <1>2, <1>6, <2>1 DEF Declared
  <2> DEFINE t == 3 * Block(b) - 2
  <2>3. b \in Nat \ {0}
    OBVIOUS
  <2>4. Block(b) \in Nat \ {0} /\ b \in 3 * Block(b) - 2 .. 3 * Block(b)
    BY <2>3, BlockIs
  <2>5. t \in Nat \ {0} /\ t + 2 <= n
    <3> HIDE DEF n
    <3>1. b <= n /\ n \in Nat /\ n % 3 = 0
      BY <1>2, <1>3
    <3> QED  BY <2>4, <3>1
  <2>6. ASSUME NEW i \in 1 .. n PROVE Block(i) = Block(b) <=> i \in t .. t + 2
    <3>1. i \in Nat \ {0}
      OBVIOUS
    <3>2. Block(i) \in Nat \ {0} /\ i \in 3 * Block(i) - 2 .. 3 * Block(i)
      BY <3>1, BlockIs
    <3> QED  BY <2>4, <3>2
  <2>7. ASSUME NEW i \in 1 .. n PROVE L[i] \in T <=> i \in t .. t + 2
    <3>1. L[i] \in Lanes
      BY <1>2
    <3>2. L[i] \in T <=> L[i].group = g /\ L[i].profile = p
      BY <3>1 DEF Lanes
    <3>3. L[i].group = g /\ L[i].profile = p <=> Block(i) = Block(b)
      BY <1>4, <2>2
    <3> QED  BY <2>6, <3>2, <3>3
  <2>8. (t - 1) % 3 = 0 /\ ((t + 1) - 1) % 3 = 1 /\ ((t + 2) - 1) % 3 = 2
    BY <2>4
  <2>9. t \in 1 .. n /\ t + 1 \in 1 .. n /\ t + 2 \in 1 .. n
    <3> HIDE DEF n, t
    <3> QED  BY <1>2, <2>5
  <2> HIDE DEF t, T
  <2>10. Only(L, T) = <<L[t], L[t + 1], L[t + 2]>>
    BY <1>2, <2>5, <2>7, OnlyWindow
  <2>11. L[t].host = ActiveHosts[1] /\ L[t + 1].host = ActiveHosts[2] /\ L[t + 2].host = ActiveHosts[3]
    <3>1. /\ L[t].host = ActiveHosts[((t - 1) % 3) + 1]
          /\ L[t + 1].host = ActiveHosts[(((t + 1) - 1) % 3) + 1]
          /\ L[t + 2].host = ActiveHosts[(((t + 2) - 1) % 3) + 1]
      BY <1>4, <2>9
    <3>2. ((t - 1) % 3) + 1 = 1 /\ (((t + 1) - 1) % 3) + 1 = 2 /\ (((t + 2) - 1) % 3) + 1 = 3
      BY <2>8
    <3> QED  BY <3>1, <3>2, Zenon
  <2> DEFINE own == Only(L, T)
  <2>12. [i \in DOMAIN own |-> own[i].host] = ActiveHosts
    <3>1. DOMAIN own = {1, 2, 3} /\ own[1].host = ActiveHosts[1] /\ own[2].host = ActiveHosts[2]
          /\ own[3].host = ActiveHosts[3]
      BY <2>10, <2>11
    <3> HIDE DEF own
    <3>2. ActiveHosts = [i \in {1, 2, 3} |-> ActiveHosts[i]]
      BY DEF ActiveHosts
    <3> QED  BY <3>1, <3>2
  <2> QED  BY <2>12 DEF Crossed, T
<1> QED  BY <1>1, <1>5, <1>6 DEF Closed, LanesClosed

-----------------------------------------------------------------------------
(* The lane that is read next. *)

LEMMA AppendDistinct ==
  ASSUME NEW X, NEW s \in Seq(X), IsInjective(s), NEW x \in X, x \notin Range(s)
  PROVE  /\ Append(s, x) \in Seq(X) /\ IsInjective(Append(s, x))
         /\ Range(Append(s, x)) = Range(s) \cup {x}
         /\ Place(Append(s, x), x) = Len(s) + 1
         /\ \A y \in Range(s) : Place(Append(s, x), y) = Place(s, y)
<1> DEFINE t == Append(s, x)
<1>1. /\ t \in Seq(X) /\ Len(t) = Len(s) + 1 /\ DOMAIN t = 1 .. Len(s) + 1
      /\ \A i \in 1 .. Len(s) : t[i] = s[i]
      /\ t[Len(s) + 1] = x /\ Len(s) \in Nat /\ DOMAIN s = 1 .. Len(s)
  OBVIOUS
<1> HIDE DEF t
<1>2. \A i \in 1 .. Len(s) : s[i] # x
  BY <1>1 DEF Range
<1>3. IsInjective(t)
  <2> SUFFICES ASSUME NEW i \in 1 .. Len(s) + 1, NEW j \in 1 .. Len(s) + 1, t[i] = t[j] PROVE i = j
    BY <1>1 DEF IsInjective
  <2>1. CASE i \in 1 .. Len(s) /\ j \in 1 .. Len(s)
    BY <1>1, <2>1 DEF IsInjective
  <2>2. CASE i = Len(s) + 1 \/ j = Len(s) + 1
    BY <1>1, <1>2, <2>2
  <2> QED  BY <1>1, <2>1, <2>2
<1>4. Range(t) = Range(s) \cup {x}
  <2>1. 1 .. Len(s) + 1 = (1 .. Len(s)) \cup {Len(s) + 1}
    BY <1>1
  <2> QED  BY <1>1, <2>1 DEF Range
<1>5. Place(t, x) = Len(s) + 1
  <2>1. Len(s) + 1 \in DOMAIN t
    BY <1>1
  <2>2. Place(t, t[Len(s) + 1]) = Len(s) + 1
    BY <1>1, <1>3, <2>1, PlaceAt
  <2> QED  BY <1>1, <2>2
<1>6. ASSUME NEW y \in Range(s) PROVE Place(t, y) = Place(s, y)
  <2>1. Place(s, y) \in 1 .. Len(s) /\ s[Place(s, y)] = y
    BY PlaceOf
  <2>2. Place(s, y) \in DOMAIN t /\ t[Place(s, y)] = y
    BY <1>1, <2>1
  <2>3. Place(t, t[Place(s, y)]) = Place(s, y)
    BY <1>1, <1>3, <2>2, PlaceAt
  <2> QED  BY <2>2, <2>3
<1> QED  BY <1>1, <1>3, <1>4, <1>5, <1>6 DEF t

\* Declaring the profile of one more lane moves no profile.
LEMMA WithKeeps == ASSUME Typed, NEW lane \in Lanes
  PROVE /\ With(lane) \in [Groups -> Seq(Profiles)]
        /\ \A g \in Groups : /\ IsInjective(With(lane)[g])
                             /\ g # lane.group => With(lane)[g] = declared[g]
                             /\ \A p \in Range(declared[g]) : Place(With(lane)[g], p) = Place(declared[g], p)
        /\ Range(With(lane)[lane.group]) = Range(declared[lane.group]) \cup {lane.profile}
        /\ lane.profile \notin Range(declared[lane.group]) =>
             Place(With(lane)[lane.group], lane.profile) = Len(declared[lane.group]) + 1
<1>1. lane.group \in Groups /\ lane.profile \in Profiles
  BY DEF Lanes
<1>2. declared \in [Groups -> Seq(Profiles)] /\ \A g \in Groups : IsInjective(declared[g])
  BY DEF Typed
<1>3. CASE lane.profile \in Range(declared[lane.group])
  <2>1. With(lane) = declared
    BY <1>3 DEF With
  <2> QED  BY <1>2, <1>3, <2>1
<1>4. CASE lane.profile \notin Range(declared[lane.group])
  <2> DEFINE d == declared[lane.group]
             e == Append(d, lane.profile)
  <2>1. With(lane) = [declared EXCEPT ![lane.group] = e]
    BY <1>4 DEF With
  <2>2. d \in Seq(Profiles) /\ IsInjective(d) /\ lane.profile \notin Range(d)
    BY <1>1, <1>2, <1>4
  <2>3. /\ e \in Seq(Profiles) /\ IsInjective(e) /\ Range(e) = Range(d) \cup {lane.profile}
        /\ Place(e, lane.profile) = Len(d) + 1
        /\ \A y \in Range(d) : Place(e, y) = Place(d, y)
    <3> HIDE DEF d
    <3> QED  BY <1>1, <2>2, AppendDistinct
  <2> HIDE DEF e
  <2>4. With(lane)[lane.group] = e /\ \A g \in Groups \ {lane.group} : With(lane)[g] = declared[g]
    BY <1>1, <1>2, <2>1
  <2>5. With(lane) \in [Groups -> Seq(Profiles)]
    BY <1>1, <1>2, <2>1, <2>3
  <2> QED  BY <1>1, <1>2, <2>3, <2>4, <2>5
<1> QED  BY <1>3, <1>4

\* What was read keeps its key.
LEMMA OldKey == ASSUME Typed, Declared, Reading, NEW i \in DOMAIN plan.lanes
  PROVE Key(plan.lanes[i]) = <<GroupPlace(plan.lanes[i]), ProfilePlace(plan.lanes[i]), HostPlace(plan.lanes[i])>>
<1> DEFINE l == plan.lanes[i]
<1>1. l.group \in Groups /\ l.profile \in Profiles
  BY LaneTyped
<1>2. l.profile \in Range(declared[l.group])
  BY <1>1 DEF Declared
<1>3. With(l) = declared
  BY <1>2 DEF With
<1> QED  BY <1>3 DEF Key, GroupPlace, ProfilePlace, HostPlace

LEMMA Residue == ASSUME NEW b \in Nat \ {0}, NEW i \in 3 * b - 2 .. 3 * b PROVE (i - 1) % 3 = i - (3 * b - 2)
OBVIOUS

\* A lane that continues the product is taken.
LEMMA Following ==
  ASSUME IInv, stage = "lanes", NEW lane \in Lanes,
         BeginsProduct([plan EXCEPT !.lanes = Append(plan.lanes, lane)])
  PROVE  LaneFollows(lane)
<1> DEFINE L == plan.lanes
           n == Len(plan.lanes)
           M == Append(L, lane)
<1>1. Typed /\ Declared /\ Owned /\ Grouped /\ Reading
  BY DEF IInv, Reading
<1>2. L \in Seq(Lanes) /\ DOMAIN L = 1 .. n /\ n \in Nat /\ plan.groups \in Seq(Groups) /\ plan \in Plans
  BY <1>1 DEF Typed, Plans
<1>3. /\ DOMAIN M = 1 .. n + 1 /\ M[n + 1] = lane /\ \A i \in 1 .. n : M[i] = L[i]
      /\ n + 1 \in 1 .. n + 1 /\ \A i \in 1 .. n : i \in 1 .. n + 1
  BY <1>2
<1>4. InBlocks(M) /\ \A l \in Range(M) : l.group \in Range(plan.groups)
  <2>1. [plan EXCEPT !.lanes = M].lanes = M /\ [plan EXCEPT !.lanes = M].groups = plan.groups
    BY <1>2 DEF Plans
  <2> QED  BY <2>1 DEF BeginsProduct
<1> HIDE DEF M, n, L
<1>5. lane.group \in Range(plan.groups)
  BY <1>3, <1>4 DEF Range
<1>6. /\ \A i \in 1 .. n + 1 : M[i].host = ActiveHosts[((i - 1) % 3) + 1]
      /\ \A i, j \in 1 .. n + 1 : (M[j].profile = M[i].profile) <=> (Block(j) = Block(i))
      /\ \A i, j \in 1 .. n + 1 : j < i => M[j].group <= M[i].group
      /\ \A i, j \in 1 .. n + 1 : M[j].profile = M[i].profile => M[j].group = M[i].group
  BY <1>3, <1>4, HostCount DEF InBlocks
<1>7. \A i \in 1 .. n + 1 : HostPlace(M[i]) = ((i - 1) % 3) + 1
  <2> SUFFICES ASSUME NEW i \in 1 .. n + 1 PROVE HostPlace(M[i]) = ((i - 1) % 3) + 1
    OBVIOUS
  <2>1. ((i - 1) % 3) + 1 \in {1, 2, 3}
    BY <1>2
  <2>2. M[i].host = ActiveHosts[((i - 1) % 3) + 1]
    BY <1>6
  <2> QED  BY <2>1, <2>2, HostPlaced DEF HostPlace
<1>8. \A i \in 1 .. n + 1 : /\ Block(i) \in Nat \ {0} /\ i \in 3 * Block(i) - 2 .. 3 * Block(i)
                            /\ i \in Nat \ {0}
  <2>1. \A i \in 1 .. n + 1 : i \in Nat \ {0}
    BY <1>2
  <2> QED  BY <2>1, BlockIs
<1>9. lane \notin Range(L)
  <2> SUFFICES ASSUME NEW i \in 1 .. n, L[i] = lane PROVE FALSE
    BY <1>2 DEF Range
  <2>1. M[i] = M[n + 1] /\ i \in 1 .. n + 1
    BY <1>3
  <2>2. Block(i) = Block(n + 1)
    BY <1>3, <1>6, <2>1
  <2>3. (i - 1) % 3 = ((n + 1) - 1) % 3
    <3>1. ((i - 1) % 3) + 1 = (((n + 1) - 1) % 3) + 1
      BY <1>3, <1>7, <2>1
    <3> QED  BY <1>2, <3>1
  <2>4. i \in 3 * Block(i) - 2 .. 3 * Block(i) /\ n + 1 \in 3 * Block(i) - 2 .. 3 * Block(i)
    BY <1>3, <1>8, <2>1, <2>2
  <2>5. Block(i) \in Nat \ {0}
    BY <1>8, <2>1
  <2>6. (i - 1) % 3 = i - (3 * Block(i) - 2) /\ ((n + 1) - 1) % 3 = (n + 1) - (3 * Block(i) - 2)
    BY <2>4, <2>5, Residue
  <2> QED  BY <1>2, <2>3, <2>5, <2>6
<1>10. \A g \in Groups \ {lane.group} : lane.profile \notin Range(declared[g])
  <2> SUFFICES ASSUME NEW g \in Groups, lane.profile \in Range(declared[g]) PROVE g = lane.group
    OBVIOUS
  <2>1. lane.profile \in Profiles
    BY DEF Lanes
  <2>2. PICK i \in 1 .. n : L[i].group = g /\ L[i].profile = lane.profile
    BY <1>1, <1>2, <2>1 DEF Declared, L
  <2> QED  BY <1>3, <1>6, <2>2
<1>11. ASSUME L # <<>> PROVE Before(Key(Last(L)), Key(lane))
  <2> DEFINE l == L[n]
             g == lane.group
             d == declared[g]
  <2>1. n \in 1 .. n /\ Last(L) = l /\ l = M[n] /\ n \in 1 .. n + 1
    <3>1. n # 0
      BY <1>2, <1>11 DEF n
    <3>2. n \in 1 .. n
      BY <1>2, <3>1
    <3>3. Last(L) = l
      BY DEF Last, n, L
    <3> QED  BY <1>3, <3>2, <3>3
  <2>2. l \in Lanes /\ l.group \in Groups /\ l.profile \in Profiles /\ g \in Groups /\ lane.profile \in Profiles
    <3>1. l \in Lanes
      BY <1>1, <1>2, <2>1, LaneTyped DEF L
    <3> QED  BY <3>1 DEF Lanes
  <2>3. l.group \in Range(plan.groups) /\ l.profile \in Range(declared[l.group])
    BY <1>1, <1>2, <2>1, <2>2 DEF Grouped, Declared, L
  <2>4. Key(l) = <<GroupPlace(l), ProfilePlace(l), HostPlace(l)>>
    BY <1>1, <1>2, <2>1, OldKey DEF L
  <2>5. Key(lane) = <<GroupPlace(lane), Place(With(lane)[g], lane.profile), HostPlace(lane)>>
    BY DEF Key, GroupPlace, HostPlace
  <2>6. l.group <= g
    BY <1>3, <1>6, <2>1
  <2>7. CASE l.profile = lane.profile
    <3>1. l.group = g /\ Block(n) = Block(n + 1)
      BY <1>3, <1>6, <2>1, <2>7
    <3>2. With(lane) = declared
      BY <2>3, <2>7, <3>1 DEF With
    <3>3. Place(With(lane)[g], lane.profile) = ProfilePlace(l) /\ GroupPlace(lane) = GroupPlace(l)
      BY <2>7, <3>1, <3>2 DEF ProfilePlace, GroupPlace
    <3>4. HostPlace(l) < HostPlace(lane)
      <4>1. HostPlace(l) = ((n - 1) % 3) + 1 /\ HostPlace(lane) = (((n + 1) - 1) % 3) + 1
        BY <1>3, <1>7, <2>1
      <4>2. n \in 3 * Block(n) - 2 .. 3 * Block(n) /\ n + 1 \in 3 * Block(n) - 2 .. 3 * Block(n)
        BY <1>3, <1>8, <2>1, <3>1
      <4>3. Block(n) \in Nat \ {0}
        BY <1>8, <2>1
      <4>6. (n - 1) % 3 = n - (3 * Block(n) - 2) /\ ((n + 1) - 1) % 3 = (n + 1) - (3 * Block(n) - 2)
        BY <4>2, <4>3, Residue
      <4>4. (n - 1) % 3 < ((n + 1) - 1) % 3
        BY <1>2, <4>3, <4>6
      <4>5. (n - 1) % 3 \in Nat /\ ((n + 1) - 1) % 3 \in Nat
        BY <1>2, <2>1
      <4> QED  BY <4>1, <4>4, <4>5
    <3> QED  BY <2>1, <2>4, <2>5, <3>3, <3>4, Lexical
  <2>8. CASE l.profile # lane.profile /\ l.group = g
    <3>1. Block(n) # Block(n + 1)
      BY <1>3, <1>6, <2>1, <2>8
    <3>2. lane.profile \notin Range(d)
      <4> SUFFICES ASSUME lane.profile \in Range(d) PROVE FALSE
        OBVIOUS
      <4>1. PICK i \in 1 .. n : L[i].group = g /\ L[i].profile = lane.profile
        <5>1. Declared /\ Reading /\ g \in Groups /\ lane.profile \in Profiles
          BY <1>1, <2>2
        <5>2. \E i \in DOMAIN L : L[i].group = g /\ L[i].profile = lane.profile
          BY <5>1 DEF Declared, L
        <5> QED  BY <1>2, <5>2
      <4>2. i \in 1 .. n + 1 /\ Block(i) = Block(n + 1)
        BY <1>3, <1>6, <4>1
      <4>3. /\ i \in 3 * Block(i) - 2 .. 3 * Block(i) /\ n + 1 \in 3 * Block(i) - 2 .. 3 * Block(i)
            /\ n \in 3 * Block(n) - 2 .. 3 * Block(n) /\ Block(n) \in Nat /\ Block(i) \in Nat
        BY <1>3, <1>8, <2>1, <4>2
      <4>4. i <= n /\ n \in Nat
        BY <1>2
      <4>5. Block(n) = Block(i)
        BY <4>3, <4>4
      <4> QED  BY <3>1, <4>2, <4>5
    <3>3. Place(With(lane)[g], lane.profile) = Len(d) + 1
      BY <1>1, <3>2, WithKeeps
    <3>4. ProfilePlace(l) \in 1 .. Len(d)
      <4>1. d \in Seq(Profiles) /\ l.profile \in Range(d)
        BY <1>1, <2>2, <2>3, <2>8 DEF Typed
      <4>2. Place(d, l.profile) \in 1 .. Len(d)
        BY <4>1, PlaceOf
      <4> QED  BY <2>8, <4>2 DEF ProfilePlace
    <3>5. GroupPlace(l) = GroupPlace(lane)
      BY <2>8 DEF GroupPlace
    <3>6. ProfilePlace(l) < Place(With(lane)[g], lane.profile)
      <4>1. Len(d) \in Nat
        BY <1>1, <2>2 DEF Typed
      <4> QED  BY <3>3, <3>4, <4>1
    <3> QED  BY <2>1, <2>4, <2>5, <3>5, <3>6, Lexical
  <2>9. CASE l.group # g
    <3>1. l.group < g
      <4>1. l.group \in Nat /\ g \in Nat
        BY <2>2, NameAssumption
      <4> QED  BY <2>6, <2>9, <4>1
    <3>2. plan.groups \in Seq(Nat) /\ Ascending(plan.groups)
      BY <1>1, <1>2, NumberedGroups DEF Typed
    <3>3. /\ GroupPlace(l) \in 1 .. Len(plan.groups) /\ plan.groups[GroupPlace(l)] = l.group
          /\ GroupPlace(lane) \in 1 .. Len(plan.groups) /\ plan.groups[GroupPlace(lane)] = g
      BY <1>2, <1>5, <2>3, PlaceOf DEF GroupPlace
    <3>4. \A i, j \in 1 .. Len(plan.groups) : i < j => plan.groups[i] < plan.groups[j]
      <4>1. \A i, j \in DOMAIN plan.groups : i < j => plan.groups[i] < plan.groups[j]
        BY <3>2, Ascends
      <4> QED  BY <1>2, <4>1
    <3>5. ~(GroupPlace(lane) < GroupPlace(l)) /\ GroupPlace(lane) # GroupPlace(l)
      <4>1. l.group \in Nat /\ g \in Nat
        BY <2>2, NameAssumption
      <4> QED  BY <3>1, <3>3, <3>4, <4>1
    <3>6. GroupPlace(l) < GroupPlace(lane)
      BY <3>3, <3>5
    <3> QED  BY <2>1, <2>4, <2>5, <3>6, Lexical
  <2> QED  BY <2>7, <2>8, <2>9
<1> QED  BY <1>5, <1>9, <1>10, <1>11 DEF LaneFollows, L

-----------------------------------------------------------------------------
(* Every step keeps the invariant. *)

\* The part that speaks of the reading of the document.
ReadInv == /\ Typed /\ Sequenced /\ Declared /\ Owned /\ Grouped /\ Ordered
           /\ Ended /\ Rejected /\ Referring

LEMMA SameReading == ASSUME IInv, UNCHANGED reading PROVE ReadInv'
<1> USE DEF IInv, reading
<1>1. Reading' = Reading
  BY DEF Reading
<1>2. Typed' /\ Sequenced'
  BY <1>1 DEF Typed, Sequenced
<1>3. Declared' /\ Owned' /\ Grouped'
  BY <1>1 DEF Declared, Owned, Grouped
<1>4. Ordered'
  BY <1>1 DEF Ordered, Precedes, GroupPlace, ProfilePlace, HostPlace
<1>5. Closed' = Closed
  BY DEF Closed, LanesClosed, Crossed
<1>6. Ended' /\ Rejected'
  BY <1>5 DEF Ended, Rejected
<1>7. Referring'
  BY DEF Referring
<1> QED  BY <1>2, <1>3, <1>4, <1>6, <1>7 DEF ReadInv

\* While the document is read nothing is projected or printed.
LEMMA Idle == ASSUME IInv, stage # "valid"
  PROVE matrix \in {None, Refused} /\ \A k \in Helpers : held[k] = None /\ printed[k] = None
BY DEF IInv, Projected, Printed

LEMMA StillIdle == ASSUME IInv, stage # "valid", UNCHANGED <<matrix, helping>> PROVE Projected' /\ Printed'
<1>1. matrix \in {None, Refused} /\ \A k \in Helpers : held[k] = None /\ printed[k] = None
  BY Idle
<1>2. Projected'
  BY <1>1 DEF Projected
<1>3. None # Selected
  BY ResultAssumption
<1>4. Printed'
  BY <1>1, <1>3 DEF Printed, helping
<1> QED  BY <1>2, <1>4

LEMMA Bounded == ASSUME NEW S, NEW n \in Nat, NEW s \in BoundedSeq(S, n) PROVE s \in Seq(S)
BY DEF BoundedSeq, SeqOf

LEMMA ReadGroupsStep ==
  ASSUME IInv, NEW groups \in BoundedSeq(Groups, MaxGroups + 1), ReadGroups(groups) PROVE IInv'
<1>1. groups \in Seq(Groups)
  BY Bounded, LimitAssumption
<1>2. /\ stage = "groups" /\ stage' \in {"lanes", "refused"} /\ plan' = [plan EXCEPT !.groups = groups]
      /\ declared' = declared /\ matrix' = matrix /\ UNCHANGED helping /\ locks' = locks /\ edits' = edits
      /\ stage' = "lanes" => groups # <<>> /\ Len(groups) <= MaxGroups /\ Ascending(groups)
  BY DEF ReadGroups, Advance, files
<1>3. plan = Empty /\ declared = [g \in Groups |-> <<>>]
  BY <1>2 DEF IInv, Sequenced
<1>4. plan' = [groups |-> groups, lanes |-> <<>>, sdks |-> <<>>]
  BY <1>2, <1>3 DEF Empty
<1>5. Kinds'
  BY <1>2 DEF IInv, Kinds, helping
<1>6. Typed'
  <2>1. plan' \in Plans
    BY <1>1, <1>4 DEF Plans
  <2>2. declared' \in [Groups -> Seq(Profiles)] /\ \A g \in Groups : IsInjective(declared'[g])
    BY <1>2 DEF IInv, Typed
  <2>3. stage' = "lanes" => Len(plan'.groups) \in 1 .. MaxGroups /\ Ascending(plan'.groups)
    BY <1>1, <1>2, <1>4, LimitAssumption
  <2> QED  BY <1>2, <2>1, <2>2, <2>3 DEF Typed, Reading
<1>7. DOMAIN plan'.lanes = {} /\ plan'.lanes = <<>> /\ plan'.sdks = <<>>
  BY <1>4
<1>8. \A g \in Groups : Range(declared'[g]) = {}
  BY <1>2, <1>3 DEF Range
<1>9. Declared' /\ Owned' /\ Grouped' /\ Ordered'
  BY <1>7, <1>8 DEF Declared, Owned, Grouped, Ordered
<1>10. Sequenced' /\ Ended' /\ Rejected' /\ Referring'
  BY <1>2, <1>7 DEF Sequenced, Ended, Rejected, Referring
<1>11. Projected' /\ Printed'
  BY <1>2, StillIdle
<1> QED  BY <1>5, <1>6, <1>9, <1>10, <1>11 DEF IInv

LEMMA ReadLaneStep == ASSUME IInv, NEW lane \in Lanes, ReadLane(lane) PROVE IInv'
<1> DEFINE L == plan.lanes
           n == Len(plan.lanes)
           M == Append(plan.lanes, lane)
<1>1. /\ stage = "lanes" /\ plan' = [plan EXCEPT !.lanes = M]
      /\ matrix' = matrix /\ UNCHANGED helping /\ locks' = locks /\ edits' = edits
      /\ LaneFollows(lane) => stage' = "lanes" /\ declared' = With(lane)
      /\ ~LaneFollows(lane) => stage' = "refused" /\ declared' = declared
  BY DEF ReadLane, Advance, files
<1>2. Typed /\ Declared /\ Owned /\ Grouped /\ Ordered /\ Reading /\ plan.sdks = <<>>
  BY <1>1 DEF IInv, Reading, Sequenced
<1>3. plan \in Plans /\ L \in Seq(Lanes) /\ DOMAIN L = 1 .. n /\ n \in Nat
  BY <1>2 DEF Typed, Plans
<1>5. /\ M \in Seq(Lanes) /\ DOMAIN M = 1 .. n + 1 /\ M[n + 1] = lane
      /\ \A i \in 1 .. n : M[i] = L[i]
      /\ \A i \in 1 .. n + 1 : i \in 1 .. n \/ i = n + 1
  BY <1>3
<1>4. plan' \in Plans /\ plan'.lanes = M /\ plan'.groups = plan.groups /\ plan'.sdks = plan.sdks
  <2> HIDE DEF M
  <2>1. plan' = [groups |-> plan.groups, lanes |-> M, sdks |-> plan.sdks]
    BY <1>1, <1>3 DEF Plans
  <2> QED  BY <1>3, <1>5, <2>1 DEF Plans
<1>6. Kinds'
  BY <1>1 DEF IInv, Kinds, helping
<1>7. Projected' /\ Printed'
  BY <1>1, StillIdle
<1>8. lane.group \in Groups /\ lane.profile \in Profiles /\ lane.host \in Hosts
  BY DEF Lanes
<1> HIDE DEF L, n, M
<1>9. CASE ~LaneFollows(lane)
  <2>1. stage' = "refused" /\ declared' = declared
    BY <1>1, <1>9
  <2>2. Typed' /\ Owned'
    BY <1>2, <1>4, <2>1 DEF Typed, Owned, Reading
  <2>3. ~BeginsProduct(plan')
    BY <1>1, <1>9, Following DEF M
  <2>4. Rejected'
    BY <2>3 DEF Rejected
  <2>5. Sequenced' /\ Declared' /\ Grouped' /\ Ordered' /\ Ended' /\ Referring'
    BY <2>1 DEF Sequenced, Declared, Grouped, Ordered, Ended, Referring, Reading
  <2> QED  BY <1>6, <1>7, <2>2, <2>4, <2>5 DEF IInv
<1>10. CASE LaneFollows(lane)
  <2>1. stage' = "lanes" /\ declared' = With(lane)
    BY <1>1, <1>10
  <2>2. /\ declared' \in [Groups -> Seq(Profiles)]
        /\ \A g \in Groups : /\ IsInjective(declared'[g])
                             /\ g # lane.group => declared'[g] = declared[g]
                             /\ \A p \in Range(declared[g]) : Place(declared'[g], p) = Place(declared[g], p)
        /\ Range(declared'[lane.group]) = Range(declared[lane.group]) \cup {lane.profile}
    BY <1>2, <2>1, WithKeeps
  <2>3. Typed'
    BY <1>2, <1>4, <2>1, <2>2 DEF Typed, Reading
  <2>4. /\ lane.group \in Range(plan.groups) /\ lane \notin Range(L)
        /\ \A g \in Groups \ {lane.group} : lane.profile \notin Range(declared[g])
        /\ L = <<>> \/ Before(Key(Last(L)), Key(lane))
    BY <1>10 DEF LaneFollows, L
  <2>5. Declared'
    <3> SUFFICES ASSUME NEW g \in Groups, NEW p \in Profiles
                 PROVE  p \in Range(declared'[g]) <=>
                          \E i \in 1 .. n + 1 : M[i].group = g /\ M[i].profile = p
      BY <1>4, <1>5 DEF Declared
    <3>1. p \in Range(declared[g]) <=> \E i \in 1 .. n : L[i].group = g /\ L[i].profile = p
      BY <1>2, <1>3 DEF Declared, L
    <3>2. p \in Range(declared'[g]) <=> p \in Range(declared[g]) \/ (g = lane.group /\ p = lane.profile)
      BY <2>2
    <3>3. (\E i \in 1 .. n + 1 : M[i].group = g /\ M[i].profile = p)
            <=> \/ \E i \in 1 .. n : L[i].group = g /\ L[i].profile = p
                \/ lane.group = g /\ lane.profile = p
      <4>1. n + 1 \in 1 .. n + 1 /\ \A i \in 1 .. n : i \in 1 .. n + 1
        BY <1>3
      <4> QED  BY <1>5, <4>1
    <3> QED  BY <3>1, <3>2, <3>3
  <2>6. Owned'
    <3> SUFFICES ASSUME NEW g \in Groups, NEW k \in Groups, NEW p \in Profiles,
                        p \in Range(declared'[g]), p \in Range(declared'[k])
                 PROVE  g = k
      BY DEF Owned
    <3>1. /\ p \in Range(declared[g]) \/ (g = lane.group /\ p = lane.profile)
          /\ p \in Range(declared[k]) \/ (k = lane.group /\ p = lane.profile)
      BY <2>2
    <3> QED  BY <1>2, <2>4, <3>1 DEF Owned
  <2>7. Grouped'
    BY <1>2, <1>3, <1>4, <1>5, <2>4 DEF Grouped, L
  <2> DEFINE gp(l) == Place(plan'.groups, l.group)
             pp(l) == Place(declared'[l.group], l.profile)
  <2>8. ASSUME NEW i \in 1 .. n
        PROVE  /\ gp(L[i]) = GroupPlace(L[i]) /\ pp(L[i]) = ProfilePlace(L[i])
               /\ gp(L[i]) \in Nat /\ pp(L[i]) \in Nat /\ HostPlace(L[i]) \in Nat
    <3>1. L[i].group \in Groups /\ L[i].profile \in Profiles
      BY <1>2, <1>3, LaneTyped DEF L
    <3>2. L[i].profile \in Range(declared[L[i].group])
      BY <1>2, <1>3, <3>1 DEF Declared, L
    <3>3. gp(L[i]) = GroupPlace(L[i]) /\ pp(L[i]) = ProfilePlace(L[i])
      BY <1>4, <2>2, <3>1, <3>2 DEF GroupPlace, ProfilePlace
    <3>4. GroupPlace(L[i]) \in Nat /\ ProfilePlace(L[i]) \in Nat /\ HostPlace(L[i]) \in {1, 2, 3}
      BY <1>2, <1>3, Placings DEF L
    <3> QED  BY <3>3, <3>4
  <2>9. gp(lane) \in Nat /\ pp(lane) \in Nat /\ HostPlace(lane) \in Nat
    <3>1. plan.groups \in Seq(Groups) /\ declared'[lane.group] \in Seq(Profiles)
      BY <1>3, <1>8, <2>2 DEF Plans
    <3>2. lane.profile \in Range(declared'[lane.group])
      BY <2>2
    <3>3. Place(plan.groups, lane.group) \in 1 .. Len(plan.groups)
      BY <2>4, <3>1, PlaceOf
    <3>4. Place(declared'[lane.group], lane.profile) \in 1 .. Len(declared'[lane.group])
      BY <3>1, <3>2, PlaceOf
    <3>5. HostPlace(lane) \in {1, 2, 3}
      BY <1>8, HostPlaced DEF HostPlace
    <3> QED  BY <1>4, <3>3, <3>4, <3>5
  <2> DEFINE before(l, m) == \/ gp(l) < gp(m)
                             \/ gp(l) = gp(m) /\ pp(l) < pp(m)
                             \/ gp(l) = gp(m) /\ pp(l) = pp(m) /\ HostPlace(l) < HostPlace(m)
  <2>10. ASSUME NEW i \in 1 .. n, NEW j \in 1 .. n, i < j PROVE before(L[i], L[j])
    <3>1. Precedes(L[i], L[j])
      BY <1>2, <1>3, <2>10 DEF Ordered, L
    <3> QED  BY <2>8, <3>1 DEF Precedes
  <2>11. ASSUME n # 0 PROVE n \in 1 .. n /\ before(L[n], lane)
    <3>1. n \in 1 .. n
      BY <1>3, <2>11
    <3>2. L # <<>> /\ Last(L) = L[n]
      BY <1>3, <2>11 DEF Last, n, L
    <3>3. Before(Key(L[n]), Key(lane))
      BY <2>4, <3>2
    <3>4. Key(L[n]) = <<gp(L[n]), pp(L[n]), HostPlace(L[n])>>
      <4>1. Key(L[n]) = <<GroupPlace(L[n]), ProfilePlace(L[n]), HostPlace(L[n])>>
        BY <1>2, <1>3, <3>1, OldKey DEF L
      <4> QED  BY <2>8, <3>1, <4>1, Zenon
    <3>5. Key(lane) = <<gp(lane), pp(lane), HostPlace(lane)>>
      BY <1>4, <2>1 DEF Key, HostPlace
    <3> HIDE DEF gp, pp
    <3>6. before(L[n], lane)
      BY <3>3, <3>4, <3>5, Lexical
    <3> QED  BY <3>1, <3>6
  <2>12. ASSUME NEW i \in 1 .. n PROVE before(L[i], lane)
    <3>1. n # 0 /\ (i = n \/ i < n)
      BY <1>3
    <3>2. n \in 1 .. n /\ before(L[n], lane)
      BY <2>11, <3>1
    <3>3. CASE i = n
      BY <3>2, <3>3
    <3>4. CASE i < n
      <4>1. before(L[i], L[n])
        BY <2>10, <3>2, <3>4
      <4>2. /\ gp(L[i]) \in Nat /\ pp(L[i]) \in Nat /\ HostPlace(L[i]) \in Nat
            /\ gp(L[n]) \in Nat /\ pp(L[n]) \in Nat /\ HostPlace(L[n]) \in Nat
        BY <2>8, <3>2
      <4> HIDE DEF gp, pp
      <4> QED  BY <2>9, <3>2, <4>1, <4>2
    <3> QED  BY <3>1, <3>3, <3>4
  <2>13. ASSUME NEW i \in 1 .. n + 1, NEW j \in 1 .. n + 1, i < j PROVE before(M[i], M[j])
    <3>1. i \in 1 .. n /\ M[i] = L[i] /\ (j \in 1 .. n \/ j = n + 1)
      BY <1>3, <1>5, <2>13
    <3> HIDE DEF before
    <3>2. CASE j \in 1 .. n
      BY <1>5, <2>10, <2>13, <3>1, <3>2
    <3>3. CASE j = n + 1
      BY <1>5, <2>12, <3>1, <3>3
    <3> QED  BY <3>1, <3>2, <3>3
  <2>14. Ordered'
    BY <1>4, <1>5, <2>13 DEF Ordered, Precedes, GroupPlace, ProfilePlace, HostPlace
  <2>15. Sequenced' /\ Ended' /\ Rejected' /\ Referring'
    BY <1>2, <1>4, <2>1 DEF Sequenced, Ended, Rejected, Referring
  <2> QED  BY <1>6, <1>7, <2>3, <2>5, <2>6, <2>7, <2>14, <2>15 DEF IInv
<1> QED  BY <1>9, <1>10

\* A step that leaves the lanes alone.
LEMMA SameLanes ==
  ASSUME IInv, Reading, plan'.groups = plan.groups, plan'.lanes = plan.lanes, declared' = declared
  PROVE  Declared' /\ Owned' /\ Grouped' /\ Ordered' /\ Closed' = Closed
<1>1. Declared /\ Owned /\ Grouped /\ Ordered
  BY DEF IInv
<1>2. Declared' /\ Owned' /\ Grouped'
  BY <1>1 DEF Declared, Owned, Grouped
<1>3. Ordered'
  BY <1>1 DEF Ordered, Precedes, GroupPlace, ProfilePlace, HostPlace
<1>4. Closed' = Closed
  BY DEF Closed, LanesClosed, Crossed
<1> QED  BY <1>2, <1>3, <1>4

LEMMA EndLanesStep == ASSUME IInv, EndLanes PROVE IInv'
<1>1. /\ stage = "lanes" /\ plan' = plan /\ declared' = declared /\ matrix' = matrix
      /\ UNCHANGED helping /\ locks' = locks /\ edits' = edits
      /\ stage' = IF Closed THEN "sdks" ELSE "unclosed"
  BY DEF EndLanes, Advance, Closed, files
<1>2. Typed /\ Reading /\ plan.sdks = <<>>
  BY <1>1 DEF IInv, Reading, Sequenced
<1>3. Declared' /\ Owned' /\ Grouped' /\ Ordered' /\ Closed' = Closed
  BY <1>1, <1>2, SameLanes
<1>4. Typed'
  BY <1>1, <1>2, LimitAssumption DEF Typed, Reading
<1>5. Kinds' /\ Sequenced' /\ Ended' /\ Rejected' /\ Referring'
  BY <1>1, <1>2, <1>3 DEF IInv, Kinds, Sequenced, Ended, Rejected, Referring, helping
<1>6. Projected' /\ Printed'
  BY <1>1, StillIdle
<1> QED  BY <1>3, <1>4, <1>5, <1>6 DEF IInv

LEMMA ReadSdkStep ==
  ASSUME IInv, NEW sdk \in [id : Sdks, refs : BoundedSeq(References, MaxRefs)], ReadSdk(sdk) PROVE IInv'
<1> DEFINE S == plan.sdks
           D == [id : Sdks, refs : Seq(References)]
           T == Append(plan.sdks, sdk)
           ok == Len(plan.sdks) < MaxSdks /\ SdkFollows(sdk)
<1>1. /\ stage = "sdks" /\ plan' = [plan EXCEPT !.sdks = T] /\ declared' = declared
      /\ matrix' = matrix /\ UNCHANGED helping /\ locks' = locks /\ edits' = edits
      /\ stage' = IF ok THEN "sdks" ELSE "refused"
  BY DEF ReadSdk, Advance, files
<1>2. Typed /\ Reading /\ Closed /\ Referring
  BY <1>1 DEF IInv, Reading, Ended
<1>3. plan \in Plans /\ S \in Seq(D)
  BY <1>2 DEF Typed, Plans
<1>4. sdk \in D
  <2>1. sdk.id \in Sdks /\ sdk.refs \in BoundedSeq(References, MaxRefs) /\ sdk = [id |-> sdk.id, refs |-> sdk.refs]
    OBVIOUS
  <2>2. sdk.refs \in Seq(References)
    BY <2>1, Bounded, LimitAssumption
  <2> QED  BY <2>1, <2>2
<1>5. /\ T \in Seq(D) /\ T # <<>> /\ Len(T) = Len(S) + 1 /\ DOMAIN T = 1 .. Len(S) + 1
      /\ T[Len(S) + 1] = sdk /\ \A i \in 1 .. Len(S) : T[i] = S[i]
      /\ \A i \in 1 .. Len(S) + 1 : i \in 1 .. Len(S) \/ i = Len(S) + 1
      /\ DOMAIN S = 1 .. Len(S) /\ Len(S) \in Nat
  <2> HIDE DEF D
  <2> QED  BY <1>3, <1>4
<1>6. plan' \in Plans /\ plan'.sdks = T /\ plan'.groups = plan.groups /\ plan'.lanes = plan.lanes
  <2> HIDE DEF T
  <2>1. plan' = [groups |-> plan.groups, lanes |-> plan.lanes, sdks |-> T]
    BY <1>1, <1>3 DEF Plans
  <2> QED  BY <1>3, <1>5, <2>1 DEF Plans
<1>7. Declared' /\ Owned' /\ Grouped' /\ Ordered' /\ Closed' = Closed
  BY <1>1, <1>2, <1>6, SameLanes
<1>8. ok => SdkFollows(sdk) /\ Len(S) < MaxSdks
  OBVIOUS
<1> HIDE DEF S, D, T, ok
<1>9. Typed'
  <2>1. ok => Len(T) <= MaxSdks
    BY <1>5, <1>8, LimitAssumption
  <2> QED  BY <1>1, <1>2, <1>6, <2>1 DEF Typed, Reading
<1>10. Referring'
  <2> SUFFICES ASSUME ok PROVE Referring'
    BY <1>1 DEF Referring
  <2>1. \A j \in DOMAIN sdk.refs : sdk.refs[j][2] \in Range(declared[sdk.refs[j][1]])
    BY <1>8 DEF SdkFollows
  <2>2. \A i \in 1 .. Len(S) : \A j \in DOMAIN S[i].refs : S[i].refs[j][2] \in Range(declared[S[i].refs[j][1]])
    BY <1>1, <1>2, <1>5 DEF Referring, S
  <2> QED  BY <1>1, <1>5, <1>6, <2>1, <2>2 DEF Referring
<1>11. Kinds' /\ Sequenced' /\ Ended' /\ Rejected'
  BY <1>1, <1>2, <1>5, <1>6, <1>7 DEF IInv, Kinds, Sequenced, Ended, Rejected, helping
<1>12. Projected' /\ Printed'
  BY <1>1, StillIdle
<1> QED  BY <1>7, <1>9, <1>10, <1>11, <1>12 DEF IInv

LEMMA EndSdksStep == ASSUME IInv, EndSdks PROVE IInv'
<1>1. /\ stage = "sdks" /\ stage' = "valid" /\ plan' = plan /\ declared' = declared
      /\ matrix' = matrix /\ UNCHANGED helping /\ locks' = locks /\ edits' = edits
  BY DEF EndSdks
<1>2. Typed /\ Reading /\ Closed /\ Referring
  BY <1>1 DEF IInv, Reading, Ended
<1>3. Declared' /\ Owned' /\ Grouped' /\ Ordered' /\ Closed' = Closed
  BY <1>1, <1>2, SameLanes
<1>4. Typed' /\ Referring'
  BY <1>1, <1>2 DEF Typed, Reading, Referring
<1>5. Kinds' /\ Sequenced' /\ Ended' /\ Rejected'
  BY <1>1, <1>2, <1>3 DEF IInv, Kinds, Sequenced, Ended, Rejected, helping
<1>6. Projected' /\ Printed'
  BY <1>1, StillIdle
<1> QED  BY <1>3, <1>4, <1>5, <1>6 DEF IInv

\* What speaks of the files alone keeps the projection and the helpers.
LEMMA SameProjected == ASSUME IInv, UNCHANGED <<stage, plan, matrix>> PROVE Projected'
BY DEF IInv, Projected, Projectable, Projection, SelectedLanes

LEMMA SameOwners == ASSUME UNCHANGED <<plan, route>>, NEW k PROVE Owners(k, plan)' = Owners(k, plan)
BY DEF Owners, CompilerOwners, Projection, SelectedLanes, SdkOwners, SdkOwner, Referred, RouteRequest, RouteEvent

LEMMA ProjectStep == ASSUME IInv, NEW r \in Requests, Project(r) PROVE IInv'
<1>1. /\ stage = "valid" /\ UNCHANGED <<stage, plan, declared>> /\ held' = held /\ printed' = printed
      /\ locks' = locks /\ edits' = edits /\ route' = route
      /\ matrix' = IF Projectable(plan, r) THEN Projection(plan, r) ELSE Refused
  BY DEF Project, reading, files, helping
<1>2. ReadInv'
  BY <1>1, SameReading DEF reading
<1>3. Projected'
  BY <1>1 DEF Projected, Projectable, Projection, SelectedLanes
<1>4. Kinds'
  BY <1>1 DEF IInv, Kinds
<1>5. Printed'
  BY <1>1, SameOwners DEF IInv, Printed
<1> QED  BY <1>2, <1>3, <1>4, <1>5 DEF IInv, ReadInv

LEMMA ReadPlanStep == ASSUME IInv, NEW k \in Helpers, ReadPlan(k) PROVE IInv'
<1>1. /\ stage = "valid" /\ UNCHANGED <<stage, plan, declared, matrix, route, locks, edits, printed>>
      /\ held[k] = None /\ held' = [held EXCEPT ![k] = disk]
  BY DEF ReadPlan, reading, files
<1>2. Kinds /\ Printed /\ None # Selected
  BY ResultAssumption DEF IInv
<1>3. ReadInv' /\ Projected'
  BY <1>1, SameReading, SameProjected DEF reading
<1>4. Kinds'
  BY <1>1, <1>2 DEF Kinds
<1>5. \A j \in Helpers \ {k} : held'[j] = held[j]
  BY <1>1, <1>2 DEF Kinds
<1>6. printed[k] = None
  BY <1>1, <1>2 DEF Printed
<1>7. Printed'
  BY <1>1, <1>2, <1>5, <1>6, SameOwners DEF Printed
<1> QED  BY <1>3, <1>4, <1>7 DEF IInv, ReadInv

LEMMA SelectStep == ASSUME IInv, NEW k \in Helpers, Select(k) PROVE IInv'
<1>1. /\ UNCHANGED <<stage, plan, declared, matrix, route, locks, edits, held>>
      /\ held[k] # None
      /\ printed' = [printed EXCEPT ![k] = IF disk = held[k] /\ Selects(k) THEN Selected ELSE Refused]
  BY DEF Select, reading, files
<1>2. Kinds /\ Printed /\ None # Selected /\ Refused # Selected
  BY ResultAssumption DEF IInv
<1>3. ReadInv' /\ Projected'
  BY <1>1, SameReading, SameProjected DEF reading
<1>4. Kinds'
  BY <1>1, <1>2 DEF Kinds
<1>5. \A j \in Helpers \ {k} : printed'[j] = printed[j]
  BY <1>1, <1>2 DEF Kinds
<1>6. printed'[k] = IF disk = held[k] /\ Selects(k) THEN Selected ELSE Refused
  BY <1>1, <1>2 DEF Kinds
<1>7. printed'[k] \in {Selected, Refused} /\ (printed'[k] = Selected => held[k] = plan)
  BY <1>2, <1>6 DEF Selects, Bound
<1>8. Printed'
  BY <1>1, <1>2, <1>5, <1>7, SameOwners DEF Printed
<1> QED  BY <1>3, <1>4, <1>8 DEF IInv, ReadInv

LEMMA PrintOwnersStep == ASSUME IInv, NEW k \in Helpers, PrintOwners(k) PROVE IInv'
<1>1. /\ UNCHANGED <<stage, plan, declared, matrix, route, locks, edits, held>>
      /\ printed[k] = Selected
      /\ printed' = [printed EXCEPT ![k] = IF disk = held[k] /\ locks THEN Owners(k, held[k]) ELSE Refused]
  BY DEF PrintOwners, reading, files
<1>2. Kinds /\ Printed /\ None # Selected /\ Refused # Selected
  BY ResultAssumption DEF IInv
<1>3. ReadInv' /\ Projected'
  BY <1>1, SameReading, SameProjected DEF reading
<1>4. Kinds'
  BY <1>1, <1>2 DEF Kinds
<1>5. \A j \in Helpers \ {k} : printed'[j] = printed[j]
  BY <1>1, <1>2 DEF Kinds
<1>6. held[k] = plan /\ held[k] # None
  BY <1>1, <1>2 DEF Printed
<1>7. printed'[k] = IF disk = held[k] /\ locks THEN Owners(k, held[k]) ELSE Refused
  BY <1>1, <1>2 DEF Kinds
<1>8. printed'[k] \in {Owners(k, plan), Refused}
  BY <1>6, <1>7
<1>9. Printed'
  BY <1>1, <1>2, <1>5, <1>6, <1>8, SameOwners DEF Printed
<1> QED  BY <1>3, <1>4, <1>9 DEF IInv, ReadInv

LEMMA WriteFileStep == ASSUME IInv, WriteFile PROVE IInv'
<1>1. /\ UNCHANGED <<stage, plan, declared, matrix, route, held, printed>>
      /\ edits < Edits /\ edits' = edits + 1 /\ (locks' = locks \/ locks' = ~locks)
  BY DEF WriteFile, reading, helping
<1>2. Kinds'
  <2>1. Kinds
    BY DEF IInv
  <2>2. Edits \in Nat /\ edits \in 0 .. Edits
    BY <2>1, LimitAssumption DEF Kinds
  <2>3. edits' \in 0 .. Edits
    BY <1>1, <2>2
  <2>4. locks' \in BOOLEAN
    BY <1>1, <2>1, Zenon DEF Kinds
  <2> QED  BY <1>1, <2>1, <2>3, <2>4, Zenon DEF Kinds
<1>3. ReadInv' /\ Projected'
  BY <1>1, SameReading, SameProjected DEF reading
<1>4. Printed'
  BY <1>1, SameOwners DEF IInv, Printed
<1> QED  BY <1>2, <1>3, <1>4 DEF IInv, ReadInv

LEMMA StutterStep == ASSUME IInv, UNCHANGED vars PROVE IInv'
<1>1. UNCHANGED <<stage, plan, declared, matrix, route, held, printed, edits, locks>>
  BY DEF vars, reading, files, helping
<1>2. ReadInv' /\ Projected'
  BY <1>1, SameReading, SameProjected DEF reading
<1>3. Kinds' /\ Printed'
  BY <1>1, SameOwners DEF IInv, Kinds, Printed
<1> QED  BY <1>2, <1>3 DEF IInv, ReadInv

LEMMA Initially == ASSUME Init PROVE IInv
<1>1. /\ stage = "groups" /\ plan = [groups |-> <<>>, lanes |-> <<>>, sdks |-> <<>>]
      /\ declared = [g \in Groups |-> <<>>] /\ matrix = None /\ locks = TRUE /\ edits = 0
      /\ held = [k \in Helpers |-> None] /\ printed = [k \in Helpers |-> None]
  BY DEF Init, Empty
<1>2. Edits \in Nat /\ None # Selected
  BY LimitAssumption, ResultAssumption
<1>3. Kinds /\ Projected /\ Printed
  BY <1>1, <1>2 DEF Kinds, Projected, Printed
<1>4. Typed
  <2>1. plan \in Plans
    BY <1>1 DEF Plans
  <2>2. declared \in [Groups -> Seq(Profiles)] /\ \A g \in Groups : IsInjective(declared[g])
    BY <1>1 DEF IsInjective
  <2> QED  BY <1>1, <2>1, <2>2 DEF Typed, Reading
<1>5. Sequenced /\ Declared /\ Grouped /\ Ordered /\ Ended /\ Rejected /\ Referring
  BY <1>1 DEF Sequenced, Declared, Grouped, Ordered, Ended, Rejected, Referring, Reading, Empty
<1>6. Owned
  <2>1. \A g \in Groups : Range(declared[g]) = {}
    BY <1>1 DEF Range
  <2> QED  BY <2>1 DEF Owned
<1> QED  BY <1>3, <1>4, <1>5, <1>6 DEF IInv

\* IInv is an invariant of the specification.
THEOREM Inductive == Spec => []IInv
<1>1. Init => IInv
  BY Initially
<1>2. IInv /\ [Next]_vars => IInv'
  <2> SUFFICES ASSUME IInv, [Next]_vars PROVE IInv'
    OBVIOUS
  <2>1. ASSUME NEW groups \in BoundedSeq(Groups, MaxGroups + 1), ReadGroups(groups) PROVE IInv'
    BY <2>1, ReadGroupsStep
  <2>2. ASSUME NEW lane \in Lanes, ReadLane(lane) PROVE IInv'
    BY <2>2, ReadLaneStep
  <2>3. CASE EndLanes
    BY <2>3, EndLanesStep
  <2>4. ASSUME NEW sdk \in [id : Sdks, refs : BoundedSeq(References, MaxRefs)], ReadSdk(sdk) PROVE IInv'
    BY <2>4, ReadSdkStep
  <2>5. CASE EndSdks
    BY <2>5, EndSdksStep
  <2>6. ASSUME NEW r \in Requests, Project(r) PROVE IInv'
    BY <2>6, ProjectStep
  <2>7. ASSUME NEW k \in Helpers, ReadPlan(k) \/ Select(k) \/ PrintOwners(k) PROVE IInv'
    BY <2>7, ReadPlanStep, SelectStep, PrintOwnersStep
  <2>8. CASE WriteFile
    BY <2>8, WriteFileStep
  <2>9. CASE UNCHANGED vars
    BY <2>9, StutterStep
  <2>10. CASE Read
    BY <2>1, <2>2, <2>3, <2>4, <2>5, <2>10 DEF Read
  <2> QED  BY <2>6, <2>7, <2>8, <2>9, <2>10 DEF Next
<1> QED  BY <1>1, <1>2, PTL DEF Spec

\* The groups, lanes, SDKs and profiles read have their types, and only a group of the plan
\* has profiles, until something is refused (TypeOK).
THEOREM Typing == Spec => []TypeOK
<1>1. IInv => TypeOK
  <2> SUFFICES ASSUME IInv PROVE TypeOK
    OBVIOUS
  <2>1. Kinds /\ Typed /\ Sequenced /\ Declared /\ Grouped
    BY DEF IInv
  <2>2. plan.groups \in Seq(Groups) /\ plan.lanes \in Seq(Lanes)
    BY <2>1 DEF Typed, Plans
  <2>3. \A i \in DOMAIN plan.sdks : plan.sdks[i].id \in Sdks /\ plan.sdks[i].refs \in Seq(References)
    <3> DEFINE D == [id : Sdks, refs : Seq(References)]
    <3>1. plan.sdks \in Seq(D)
      BY <2>1 DEF Typed, Plans
    <3>2. \A d \in D : d.id \in Sdks /\ d.refs \in Seq(References)
      OBVIOUS
    <3> HIDE DEF D
    <3> QED  BY <3>1, <3>2
  <2>4. \A g \in Groups : declared[g] \in Seq(Profiles) /\ IsInjective(declared[g])
    BY <2>1 DEF Typed
  <2>5. ASSUME NEW g \in Groups, declared[g] # <<>> PROVE stage = "refused" \/ g \in Range(plan.groups)
    <3>1. stage = "groups" => declared[g] = <<>>
      BY <2>1 DEF Sequenced
    <3>2. SUFFICES ASSUME Reading PROVE g \in Range(plan.groups)
      BY <2>1, <2>5, <3>1 DEF Kinds, Reading
    <3>3. declared[g] \in Seq(Profiles) /\ 1 \in DOMAIN declared[g]
      BY <2>4, <2>5
    <3>4. declared[g][1] \in Range(declared[g]) /\ declared[g][1] \in Profiles
      BY <3>3 DEF Range
    <3> QED  BY <2>1, <3>2, <3>4 DEF Declared, Grouped
  <2>6. stage = "valid" => Len(plan.groups) \in 1 .. MaxGroups /\ Len(plan.sdks) <= MaxSdks
    BY <2>1 DEF Typed, Reading
  <2> QED  BY <2>1, <2>2, <2>3, <2>4, <2>5, <2>6 DEF TypeOK, Kinds
<1> QED  BY <1>1, Inductive, PTL

\* The reader takes the documents of the producer and no other: what was accepted and closed
\* is a product of groups, profiles and hosts, what was read up to a refused lane begins none,
\* and what was found unclosed is none (_validate_plan).
THEOREM ProductsAccepted == Spec => []ExactlyProductsAccepted
<1>1. IInv => ExactlyProductsAccepted
  <2> SUFFICES ASSUME IInv PROVE ExactlyProductsAccepted
    OBVIOUS
  <2>1. ASSUME stage \in {"sdks", "valid"} PROVE IsProduct(plan)
    BY <2>1, Product DEF IInv, Ended, Reading
  <2>2. ASSUME stage = "unclosed" PROVE ~IsProduct(plan)
    BY <2>2, Closing DEF IInv, Ended, Reading
  <2> QED  BY <2>1, <2>2 DEF ExactlyProductsAccepted, IInv, Rejected
<1> QED  BY <1>1, Inductive, PTL

\* Two copies of every element and nothing else.
LEMMA CopiesOf == ASSUME NEW X, NEW s \in Seq(X)
  PROVE Range(Copies(s)) = [lane : Range(s), copy : {"a", "b"}] /\ Len(Copies(s)) = 2 * Len(s)
<1> DEFINE n == Len(s)
           c == Copies(s)
<1>1. n \in Nat /\ DOMAIN s = 1 .. n
  OBVIOUS
<1>2. /\ DOMAIN c = 1 .. 2 * n
      /\ \A i \in 1 .. 2 * n : c[i] = [lane |-> s[(i + 1) \div 2], copy |-> IF i % 2 = 1 THEN "a" ELSE "b"]
  BY DEF Copies
<1> HIDE DEF c
<1>3. \A i \in 1 .. 2 * n : (i + 1) \div 2 \in 1 .. n
  BY <1>1
<1>4. \A k \in 1 .. n : /\ 2 * k - 1 \in 1 .. 2 * n /\ ((2 * k - 1) + 1) \div 2 = k /\ (2 * k - 1) % 2 = 1
                        /\ 2 * k \in 1 .. 2 * n /\ (2 * k + 1) \div 2 = k /\ (2 * k) % 2 # 1
  BY <1>1
<1> HIDE DEF n
<1>5. ASSUME NEW e \in Range(c) PROVE e \in [lane : Range(s), copy : {"a", "b"}]
  <2>1. PICK i \in 1 .. 2 * n : e = c[i]
    BY <1>2 DEF Range
  <2>2. s[(i + 1) \div 2] \in Range(s)
    BY <1>1, <1>3 DEF Range
  <2> QED  BY <1>2, <2>1, <2>2
<1>6. ASSUME NEW e \in [lane : Range(s), copy : {"a", "b"}] PROVE e \in Range(c)
  <2>1. e = [lane |-> e.lane, copy |-> e.copy] /\ e.lane \in Range(s) /\ e.copy \in {"a", "b"}
    OBVIOUS
  <2>2. PICK k \in 1 .. n : e.lane = s[k]
    BY <1>1, <2>1 DEF Range
  <2>3. c[2 * k - 1] = [lane |-> s[k], copy |-> "a"] /\ c[2 * k] = [lane |-> s[k], copy |-> "b"]
    BY <1>2, <1>4
  <2>4. c[2 * k - 1] \in Range(c) /\ c[2 * k] \in Range(c)
    BY <1>2, <1>4 DEF Range
  <2> QED  BY <2>1, <2>2, <2>3, <2>4
<1>7. Len(c) = 2 * n
  BY <1>1, <1>2
<1> QED  BY <1>5, <1>6, <1>7 DEF n, c

\* A plan that was read holds no lane twice.
LEMMA LanesDistinct == ASSUME IInv, Reading PROVE plan.lanes \in Seq(Lanes) /\ IsInjective(plan.lanes)
<1>1. Typed /\ Declared /\ Grouped /\ Ordered
  BY DEF IInv
<1>2. plan.lanes \in Seq(Lanes)
  BY <1>1 DEF Typed, Plans
<1>3. ASSUME NEW i \in DOMAIN plan.lanes, NEW j \in DOMAIN plan.lanes, i < j PROVE plan.lanes[i] # plan.lanes[j]
  <2>1. Precedes(plan.lanes[i], plan.lanes[j])
    BY <1>1, <1>3 DEF Ordered
  <2>2. /\ GroupPlace(plan.lanes[i]) \in Nat /\ ProfilePlace(plan.lanes[i]) \in Nat
        /\ HostPlace(plan.lanes[i]) \in {1, 2, 3}
    BY <1>1, Placings
  <2> QED  BY <2>1, <2>2 DEF Precedes
<1>4. \A i, j \in DOMAIN plan.lanes : i = j \/ i < j \/ j < i
  BY <1>2
<1> QED  BY <1>2, <1>3, <1>4 DEF IsInjective

\* A request for every host and no single group selects all lanes.
LEMMA AllSelected ==
  ASSUME NEW p, p.lanes \in Seq(Lanes), NEW r, r.scope = "full", r.group = None PROVE SelectedLanes(p, r) = p.lanes
<1> DEFINE T == {lane \in Lanes : lane.host \in SelectedHosts(r.scope) /\ r.group \in {None, lane.group}}
<1>1. \A lane \in Lanes : lane \in T
  BY DEF SelectedHosts, Lanes
<1>2. \A i \in DOMAIN p.lanes : p.lanes[i] \in T
  BY <1>1
<1> HIDE DEF T
<1>3. Only(p.lanes, T) = p.lanes
  BY <1>2, OnlyAll
<1> QED  BY <1>3 DEF SelectedLanes, T

\* What is scheduled is all that was asked for, twice, within the limit, and never a part.
THEOREM WholeProjections == Spec => []WholeOrRefused
<1>1. IInv => WholeOrRefused
  <2> SUFFICES ASSUME IInv, matrix \notin {None, Refused}
               PROVE  LET wanted == {lane \in Range(plan.lanes) :
                                       /\ lane.host \in SelectedHosts(matrix.request.scope)
                                       /\ matrix.request.group \in {None, lane.group}}
                      IN  /\ Range(matrix.build) = [lane : wanted, copy : {"a", "b"}]
                          /\ Len(matrix.build) = 2 * Cardinality(wanted) /\ Len(matrix.build) <= MaxBuilds
                          /\ matrix.complete => /\ wanted = Range(plan.lanes) /\ matrix.sdks = plan.sdks
                                                /\ (matrix.request.event = "push" \/ matrix.request.full)
    BY DEF WholeOrRefused
  <2> DEFINE L == plan.lanes
             wanted == {lane \in Range(L) : /\ lane.host \in SelectedHosts(matrix.request.scope)
                                            /\ matrix.request.group \in {None, lane.group}}
  <2>1. stage = "valid" /\ \E r \in Requests : Projectable(plan, r) /\ matrix = Projection(plan, r)
    BY DEF IInv, Projected
  <2>2. PICK r \in Requests : Projectable(plan, r) /\ matrix = Projection(plan, r)
    BY <2>1
  <2> DEFINE sel == SelectedLanes(plan, r)
             S == {sdk \in Range(plan.sdks) : \/ r.group = None
                                              \/ \E ref \in Range(sdk.refs) : ref[1] = r.group}
             T == {lane \in Lanes : lane.host \in SelectedHosts(r.scope) /\ r.group \in {None, lane.group}}
  <2>3. /\ matrix.request = r /\ matrix.build = Copies(sel) /\ matrix.sdks = Only(plan.sdks, S)
        /\ matrix.complete = (r.scope = "full" /\ r.group = None)
    BY <2>2 DEF Projection
  <2>4. ScopeAllowed(r) /\ Len(Copies(sel)) <= MaxBuilds
    BY <2>2 DEF Projectable
  <2>5. L \in Seq(Lanes) /\ IsInjective(L)
    BY <2>1, LanesDistinct DEF Reading
  <2> HIDE DEF L
  <2>6. sel \in Seq(Lanes) /\ Range(sel) = Range(L) \cap T /\ IsInjective(sel)
    BY <2>5, OnlyRange, OnlyDistinct DEF SelectedLanes, L
  <2>7. Range(L) \subseteq Lanes
    BY <2>5 DEF Range
  <2>8. Range(sel) = wanted
    BY <2>3, <2>6, <2>7
  <2> HIDE DEF sel, wanted, S
  <2>9. Range(matrix.build) = [lane : wanted, copy : {"a", "b"}] /\ Len(matrix.build) = 2 * Len(sel)
    BY <2>3, <2>6, <2>8, CopiesOf
  <2>10. Cardinality(wanted) = Len(sel)
    BY <2>6, <2>8, DistinctLength
  <2>11. ASSUME matrix.complete
         PROVE  /\ wanted = Range(L) /\ matrix.sdks = plan.sdks
                /\ (matrix.request.event = "push" \/ matrix.request.full)
    <3>1. r.scope = "full" /\ r.group = None
      BY <2>3, <2>11
    <3>2. sel = L
      BY <2>5, <3>1, AllSelected DEF sel, L
    <3>3. plan.sdks \in Seq([id : Sdks, refs : Seq(References)])
      BY DEF IInv, Typed, Plans
    <3>4. \A i \in DOMAIN plan.sdks : plan.sdks[i] \in S
      BY <3>1 DEF S, Range
    <3>5. Only(plan.sdks, S) = plan.sdks
      BY <3>3, <3>4, OnlyAll
    <3>6. r.event = "push" \/ r.full
      BY <2>4, <3>1 DEF ScopeAllowed, Requests
    <3> QED  BY <2>3, <2>8, <3>2, <3>5, <3>6
  <2> QED  BY <2>3, <2>4, <2>9, <2>10, <2>11 DEF L, wanted
<1> QED  BY <1>1, Inductive, PTL

\* What the compiler helper prints for the plan: every lane twice.
LEMMA CompilerOwnersAre ==
  ASSUME NEW p, p.lanes \in Seq(Lanes), NEW o
  PROVE  o \in Owners("compiler", p) <=>
           \E lane \in Range(p.lanes), c \in {"a", "b"} :
             o = [group |-> lane.group, host |-> lane.host, profile |-> lane.profile, copy |-> c]
<1> DEFINE r == RouteRequest("compiler")
           b == Copies(p.lanes)
<1>1. SelectedLanes(p, r) = p.lanes
  BY AllSelected DEF RouteRequest
<1>2. Projection(p, r).build = b
  BY <1>1 DEF Projection
<1>3. Range(b) = [lane : Range(p.lanes), copy : {"a", "b"}]
  BY CopiesOf
<1>4. o \in Owners("compiler", p) <=>
        \E e \in Range(b) : o = [group |-> e.lane.group, host |-> e.lane.host,
                                 profile |-> e.lane.profile, copy |-> e.copy]
  BY <1>2 DEF Owners, CompilerOwners
<1> HIDE DEF b, r
<1>5. ASSUME NEW e \in Range(b),
             o = [group |-> e.lane.group, host |-> e.lane.host, profile |-> e.lane.profile, copy |-> e.copy]
      PROVE  \E lane \in Range(p.lanes), c \in {"a", "b"} :
               o = [group |-> lane.group, host |-> lane.host, profile |-> lane.profile, copy |-> c]
  <2>1. e.lane \in Range(p.lanes) /\ e.copy \in {"a", "b"}
    BY <1>3
  <2> QED  BY <1>5, <2>1
<1>6. ASSUME NEW lane \in Range(p.lanes), NEW c \in {"a", "b"},
             o = [group |-> lane.group, host |-> lane.host, profile |-> lane.profile, copy |-> c]
      PROVE  \E e \in Range(b) : o = [group |-> e.lane.group, host |-> e.lane.host,
                                      profile |-> e.lane.profile, copy |-> e.copy]
  <2>1. [lane |-> lane, copy |-> c] \in Range(b)
    BY <1>3
  <2> QED  BY <1>6, <2>1
<1> QED  BY <1>4, <1>5, <1>6

LEMMA SdkOwnersAre == ASSUME NEW p, NEW o
  PROVE o \in Owners("sdk", p) <=> \E ref \in Referred(p), h \in Hosts : o = SdkOwner(p, ref, h)
BY DEF Owners, SdkOwners

\* Where both helpers have printed, the SDK owners join the compiler owners of the validated plan
\* lane by lane and leave no SDK ungenerated (select of both helpers).
THEOREM JoinedOwners == Spec => []OwnersJoin
<1>1. IInv => OwnersJoin
  <2> SUFFICES ASSUME IInv, printed["compiler"] \notin {None, Selected, Refused},
                      printed["sdk"] \notin {None, Selected, Refused}
               PROVE  /\ \A o \in printed["sdk"] : \A c \in {"a", "b"} :
                           [group |-> o.group, host |-> o.host, profile |-> o.profile, copy |-> c]
                             \in printed["compiler"]
                      /\ {[group |-> o.group, host |-> o.host, profile |-> o.profile] : o \in printed["compiler"]}
                           = Range(plan.lanes)
                      /\ \A sdk \in Range(plan.sdks) : \A ref \in Range(sdk.refs) : \A h \in Hosts :
                           \E o \in printed["sdk"] :
                             o.group = ref[1] /\ o.profile = ref[2] /\ o.host = h /\ sdk.id \in o.ids
                      /\ \A o \in printed["sdk"] : \A q \in printed["sdk"] :
                           o.group = q.group /\ o.host = q.host /\ o.profile = q.profile => o = q
    BY DEF OwnersJoin
  <2> DEFINE C == printed["compiler"]
             S == printed["sdk"]
             D == [id : Sdks, refs : Seq(References)]
  <2>1. "compiler" \in Helpers /\ "sdk" \in Helpers
    BY DEF Helpers
  <2>2. C = Owners("compiler", plan) /\ S = Owners("sdk", plan) /\ stage = "valid"
    BY <2>1 DEF IInv, Printed
  <2> HIDE DEF C, S
  <2>3. Reading /\ Closed /\ Referring /\ Typed /\ Declared
    BY <2>2 DEF IInv, Reading, Ended
  <2>4. plan.lanes \in Seq(Lanes) /\ plan.sdks \in Seq(D)
    BY <2>3 DEF Typed, Plans
  <2>5. \A o : o \in C <=> \E lane \in Range(plan.lanes), c \in {"a", "b"} :
                 o = [group |-> lane.group, host |-> lane.host, profile |-> lane.profile, copy |-> c]
    BY <2>2, <2>4, CompilerOwnersAre
  <2>6. \A o : o \in S <=> \E ref \in Referred(plan), h \in Hosts : o = SdkOwner(plan, ref, h)
    BY <2>2, SdkOwnersAre
  <2>7. ASSUME NEW ref \in Referred(plan)
        PROVE  /\ ref[1] \in Groups /\ ref[2] \in Profiles /\ ref = <<ref[1], ref[2]>>
               /\ ref[2] \in Range(declared[ref[1]])
    <3>1. PICK sdk \in Range(plan.sdks) : ref \in Range(sdk.refs)
      BY DEF Referred
    <3>2. PICK i \in DOMAIN plan.sdks : sdk = plan.sdks[i]
      BY DEF Range
    <3>3. PICK j \in DOMAIN sdk.refs : ref = sdk.refs[j]
      BY <3>1 DEF Range
    <3>4. sdk \in D
      <4> HIDE DEF D
      <4> QED  BY <2>4, <3>2
    <3>5. sdk.refs \in Seq(References)
      BY <3>4
    <3>6. ref \in References
      <4> HIDE DEF D
      <4> QED  BY <3>3, <3>5
    <3>7. ref[2] \in Range(declared[ref[1]])
      BY <2>2, <2>3, <3>2, <3>3 DEF Referring
    <3> QED  BY <3>6, <3>7 DEF References
  <2> HIDE DEF D
  <2>8. \A ref, h : /\ SdkOwner(plan, ref, h).group = ref[1] /\ SdkOwner(plan, ref, h).profile = ref[2]
                    /\ SdkOwner(plan, ref, h).host = h
                    /\ \A sdk \in Range(plan.sdks) : ref \in Range(sdk.refs) => sdk.id \in SdkOwner(plan, ref, h).ids
    BY DEF SdkOwner
  <2>9. ASSUME NEW o \in S, NEW c \in {"a", "b"}
        PROVE  [group |-> o.group, host |-> o.host, profile |-> o.profile, copy |-> c] \in C
    <3>1. PICK ref \in Referred(plan), h \in Hosts : o = SdkOwner(plan, ref, h)
      BY <2>6
    <3>2. PICK lane \in Range(plan.lanes) : lane.group = ref[1] /\ lane.profile = ref[2] /\ lane.host = h
      BY <2>3, <2>7, CrossedLane
    <3>3. o.group = lane.group /\ o.host = lane.host /\ o.profile = lane.profile
      BY <2>8, <3>1, <3>2
    <3> QED  BY <2>5, <3>3
  <2>10. {[group |-> o.group, host |-> o.host, profile |-> o.profile] : o \in C} = Range(plan.lanes)
    <3>1. \A lane \in Range(plan.lanes) : lane = [group |-> lane.group, host |-> lane.host, profile |-> lane.profile]
      <4>1. Range(plan.lanes) \subseteq Lanes
        BY <2>4 DEF Range
      <4> QED  BY <4>1 DEF Lanes
    <3>2. ASSUME NEW o \in C
          PROVE  [group |-> o.group, host |-> o.host, profile |-> o.profile] \in Range(plan.lanes)
      <4>1. PICK lane \in Range(plan.lanes), c \in {"a", "b"} :
              o = [group |-> lane.group, host |-> lane.host, profile |-> lane.profile, copy |-> c]
        BY <2>5
      <4>2. o.group = lane.group /\ o.host = lane.host /\ o.profile = lane.profile
        BY <4>1
      <4> QED  BY <3>1, <4>2
    <3>3. ASSUME NEW lane \in Range(plan.lanes)
          PROVE  \E o \in C : lane = [group |-> o.group, host |-> o.host, profile |-> o.profile]
      <4> DEFINE o == [group |-> lane.group, host |-> lane.host, profile |-> lane.profile, copy |-> "a"]
      <4>1. o \in C
        BY <2>5
      <4>2. o.group = lane.group /\ o.host = lane.host /\ o.profile = lane.profile
        OBVIOUS
      <4> QED  BY <3>1, <4>1, <4>2
    <3> QED  BY <3>2, <3>3
  <2>11. ASSUME NEW sdk \in Range(plan.sdks), NEW ref \in Range(sdk.refs), NEW h \in Hosts
         PROVE  \E o \in S : o.group = ref[1] /\ o.profile = ref[2] /\ o.host = h /\ sdk.id \in o.ids
    <3>1. ref \in Referred(plan)
      BY DEF Referred
    <3>2. SdkOwner(plan, ref, h) \in S
      BY <2>6, <3>1
    <3> QED  BY <2>8, <3>2
  <2>12. ASSUME NEW o \in S, NEW q \in S, o.group = q.group, o.host = q.host, o.profile = q.profile PROVE o = q
    <3>1. PICK ref \in Referred(plan), h \in Hosts : o = SdkOwner(plan, ref, h)
      BY <2>6
    <3>2. PICK ref2 \in Referred(plan), h2 \in Hosts : q = SdkOwner(plan, ref2, h2)
      BY <2>6
    <3>3. ref[1] = ref2[1] /\ ref[2] = ref2[2] /\ h = h2
      BY <2>8, <2>12, <3>1, <3>2
    <3>4. ref = ref2
      BY <2>7, <3>3
    <3> QED  BY <3>1, <3>2, <3>3, <3>4
  <2> QED  BY <2>9, <2>10, <2>11, <2>12 DEF C, S
<1> QED  BY <1>1, Inductive, PTL

=============================================================================
