------------------------ MODULE CandidateAssembly_proofs ------------------------
(***************************************************************************)
(* Proofs about CandidateAssembly, for any lanes, SDKs, pairs of clashing  *)
(* names and number of troubles.                                           *)
(*                                                                         *)
(* The fingerprint of a file only grows.  What the combined program holds  *)
(* before the first command and compares after the last was therefore not  *)
(* touched between the two: no command was another program than the        *)
(* selected one, and none read other bytes of a compiler package.          *)
(***************************************************************************)
EXTENDS CandidateAssembly, FiniteSetTheorems, TLAPS

(* Induction over a set of naturals: subtracting one maps what is left out *)
(* into itself without the largest, which the pigeonhole forbids.          *)

LEMMA Induction == ASSUME NEW T, 0 \in T, \A n \in Nat : n \in T => n + 1 \in T
  PROVE Nat \subseteq T
<1>1. SUFFICES ASSUME NEW n \in Nat, n \notin T PROVE FALSE
  OBVIOUS
<1> DEFINE A == {i \in 0 .. n : i \notin T}
           B == A \ {n}
           f == [i \in A |-> i - 1]
<1>2. IsFiniteSet(A) /\ IsFiniteSet(B) /\ Cardinality(B) < Cardinality(A)
  <2>1. IsFiniteSet(0 .. n)
    BY FS_Interval
  <2>2. IsFiniteSet(A)
    BY <2>1, FS_Subset
  <2>3. n \in A
    BY <1>1
  <2> HIDE DEF A
  <2>4. IsFiniteSet(B) /\ Cardinality(B) = Cardinality(A) - 1
    BY <2>2, <2>3, FS_RemoveElement
  <2>5. Cardinality(A) \in Nat
    BY <2>2, FS_CardinalityType
  <2> QED  BY <2>2, <2>4, <2>5
<1>3. f \in [A -> B]
  <2>1. ASSUME NEW i \in A PROVE i - 1 \in B
    <3>1. i # 0 /\ i \in 0 .. n
      OBVIOUS
    <3>2. i - 1 \notin T
      BY <3>1
    <3> QED  BY <3>1, <3>2
  <2> QED  BY <2>1
<1>4. \A x, y \in A : x # y => f[x] # f[y]
  OBVIOUS
<1> HIDE DEF A, B, f
<1> QED  BY <1>2, <1>3, <1>4, FS_PigeonHole

\* The sequence of the first sequences of ss, flattened.
Flat(ss, n, f) == f = [i \in 1 .. n |-> IF i = 1 THEN ss[i] ELSE f[i - 1] \o ss[i]]

LEMMA RangeOf == ASSUME NEW X, NEW s \in Seq(X) PROVE Range(s) = {s[i] : i \in 1 .. Len(s)} /\ Range(s) \subseteq X
BY DEF Range

LEMMA RangeJoin == ASSUME NEW X, NEW s \in Seq(X), NEW t \in Seq(X)
  PROVE s \o t \in Seq(X) /\ Range(s \o t) = Range(s) \cup Range(t)
<1>1. s \o t \in Seq(X)
  OBVIOUS
<1>2. ASSUME NEW x \in Range(s \o t) PROVE x \in Range(s) \cup Range(t)
  BY DEF Range
<1>3. ASSUME NEW i \in DOMAIN s PROVE s[i] \in Range(s \o t)
  <2>1. i \in DOMAIN (s \o t) /\ (s \o t)[i] = s[i]
    OBVIOUS
  <2> QED  BY <2>1 DEF Range
<1>4. ASSUME NEW i \in DOMAIN t PROVE t[i] \in Range(s \o t)
  <2>1. Len(s) + i \in DOMAIN (s \o t) /\ (s \o t)[Len(s) + i] = t[i]
    OBVIOUS
  <2> QED  BY <2>1 DEF Range
<1> QED  BY <1>1, <1>2, <1>3, <1>4 DEF Range

LEMMA FlatAt == ASSUME NEW ss, NEW n, NEW f, Flat(ss, n, f), NEW i \in 1 .. n
  PROVE f[i] = IF i = 1 THEN ss[i] ELSE f[i - 1] \o ss[i]
<1> DEFINE g == [j \in 1 .. n |-> IF j = 1 THEN ss[j] ELSE f[j - 1] \o ss[j]]
<1>1. g[i] = IF i = 1 THEN ss[i] ELSE f[i - 1] \o ss[i]
  OBVIOUS
<1>2. f = g
  BY DEF Flat
<1> HIDE DEF g
<1> QED  BY <1>1, <1>2

LEMMA Flattener == ASSUME NEW ss, NEW n \in Nat PROVE \E f : Flat(ss, n, f)
<1> DEFINE T == {m \in Nat : \E f : Flat(ss, m, f)}
<1>1. 0 \in T
  <2>1. Flat(ss, 0, [i \in 1 .. 0 |-> <<>>])
    BY DEF Flat
  <2> QED  BY <2>1
<1>2. ASSUME NEW m \in Nat, m \in T PROVE m + 1 \in T
  <2>1. PICK f : Flat(ss, m, f)
    BY <1>2
  <2> DEFINE g == [i \in 1 .. m + 1 |-> IF i = 1 THEN ss[i] ELSE f[i - 1] \o ss[i]]
  <2>2. ASSUME NEW i \in 1 .. m PROVE g[i] = f[i]
    BY <2>1, FlatAt
  <2>3. ASSUME NEW i \in 1 .. m + 1 PROVE g[i] = IF i = 1 THEN ss[i] ELSE g[i - 1] \o ss[i]
    <3>1. CASE i = 1
      BY <3>1
    <3>2. CASE i # 1
      <4>1. i - 1 \in 1 .. m
        BY <3>2
      <4>2. g[i] = f[i - 1] \o ss[i]
        BY <3>2
      <4> HIDE DEF g
      <4> QED  BY <3>2, <4>1, <4>2, <2>2
    <3> QED  BY <3>1, <3>2
  <2>4. g = [i \in 1 .. m + 1 |-> g[i]]
    OBVIOUS
  <2> HIDE DEF g
  <2>5. Flat(ss, m + 1, g)
    BY <2>3, <2>4 DEF Flat
  <2> QED  BY <2>5
<1> HIDE DEF T
<1>3. n \in T
  BY <1>1, <1>2, Induction
<1> QED  BY <1>3 DEF T

\* What the first sequences of ss hold.
Gathered(ss, n) == UNION {Range(ss[j]) : j \in 1 .. n}

LEMMA Gather == ASSUME NEW ss, NEW m \in Nat
  PROVE Gathered(ss, 1) = Range(ss[1]) /\ Gathered(ss, m + 1) = Gathered(ss, m) \cup Range(ss[m + 1])
<1>1. 1 .. 1 = {1} /\ 1 .. m + 1 = (1 .. m) \cup {m + 1}
  OBVIOUS
<1>2. {Range(ss[j]) : j \in 1 .. m + 1} = {Range(ss[j]) : j \in 1 .. m} \cup {Range(ss[m + 1])}
  BY <1>1
<1> QED  BY <1>1, <1>2 DEF Gathered

LEMMA FlatRange == ASSUME NEW X, NEW ss \in Seq(Seq(X)), NEW f, Flat(ss, Len(ss), f)
  PROVE \A n \in 1 .. Len(ss) : f[n] \in Seq(X) /\ Range(f[n]) = Gathered(ss, n)
<1>1. \A k \in 1 .. Len(ss) : f[k] = IF k = 1 THEN ss[k] ELSE f[k - 1] \o ss[k]
  BY FlatAt
<1> DEFINE T == {m \in Nat : m \in 1 .. Len(ss) => f[m] \in Seq(X) /\ Range(f[m]) = Gathered(ss, m)}
<1>2. 0 \in T
  OBVIOUS
<1>3. ASSUME NEW m \in Nat, m \in T PROVE m + 1 \in T
  <2>1. ASSUME m + 1 \in 1 .. Len(ss)
        PROVE  f[m + 1] \in Seq(X) /\ Range(f[m + 1]) = Gathered(ss, m + 1)
    <3>1. ss[m + 1] \in Seq(X)
      BY <2>1
    <3>2. CASE m = 0
      <4>1. f[1] = ss[1]
        BY <1>1, <2>1, <3>2
      <4> QED  BY <3>1, <3>2, <4>1, Gather
    <3>3. CASE m # 0
      <4>1. f[m] \in Seq(X) /\ Range(f[m]) = Gathered(ss, m)
        BY <1>3, <2>1, <3>3
      <4>2. f[m + 1] = f[m] \o ss[m + 1]
        <5>1. f[m + 1] = IF m + 1 = 1 THEN ss[m + 1] ELSE f[(m + 1) - 1] \o ss[m + 1]
          BY <1>1, <2>1
        <5>2. m + 1 # 1 /\ (m + 1) - 1 = m
          BY <3>3
        <5> QED  BY <5>1, <5>2, Zenon
      <4>3. f[m + 1] \in Seq(X) /\ Range(f[m + 1]) = Range(f[m]) \cup Range(ss[m + 1])
        BY <3>1, <4>1, <4>2, RangeJoin
      <4> QED  BY <4>1, <4>3, Gather
    <3> QED  BY <3>2, <3>3
  <2> QED  BY <2>1
<1> HIDE DEF T
<1>4. Nat \subseteq T
  BY <1>2, <1>3, Induction
<1>5. Len(ss) \in Nat
  OBVIOUS
<1> QED  BY <1>4, <1>5 DEF T

LEMMA Flattening == ASSUME NEW X, NEW ss \in Seq(Seq(X))
  PROVE /\ FlattenSeq(ss) \in Seq(X)
        /\ Range(FlattenSeq(ss)) = UNION {Range(ss[i]) : i \in DOMAIN ss}
<1>1. CASE Len(ss) = 0
  <2>1. FlattenSeq(ss) = <<>> /\ ss = <<>>
    BY <1>1 DEF FlattenSeq
  <2> QED  BY <2>1 DEF Range
<1>2. CASE Len(ss) # 0
  <2> DEFINE f == CHOOSE h : Flat(ss, Len(ss), h)
  <2>1. Flat(ss, Len(ss), f)
    <3>1. Len(ss) \in Nat
      OBVIOUS
    <3>2. \E h : Flat(ss, Len(ss), h)
      BY <3>1, Flattener
    <3> QED  BY <3>2
  <2>2. FlattenSeq(ss) = f[Len(ss)]
    BY <1>2, Zenon DEF FlattenSeq, Flat
  <2> HIDE DEF f
  <2>3. Len(ss) \in 1 .. Len(ss) /\ DOMAIN ss = 1 .. Len(ss)
    BY <1>2
  <2>4. \A n \in 1 .. Len(ss) : f[n] \in Seq(X) /\ Range(f[n]) = Gathered(ss, n)
    BY <2>1, FlatRange
  <2>5. FlattenSeq(ss) \in Seq(X) /\ Range(FlattenSeq(ss)) = Gathered(ss, Len(ss))
    BY <2>2, <2>3, <2>4
  <2> QED  BY <2>3, <2>5 DEF Gathered
<1> QED  BY <1>1, <1>2
-----------------------------------------------------------------------------
(* Sequences made from the elements of a finite set.                       *)

LEMMA Listing == ASSUME NEW S, IsFiniteSet(S)
  PROVE /\ SetToSeq(S) \in Seq(S)
        /\ Range(SetToSeq(S)) = S
<1>1. PICK f : f \in Bijection(1 .. Cardinality(S), S)
  BY FS_CardinalityType DEF ExistsBijection
<1>2. f \in [1 .. Cardinality(S) -> S] /\ IsInjective(f)
  BY <1>1 DEF Bijection, Injection
<1> DEFINE q == SetToSeq(S)
<1>3. q \in [1 .. Cardinality(S) -> S] /\ IsInjective(q)
  BY <1>2 DEF SetToSeq
<1>4. q \in Injection(1 .. Cardinality(S), S) /\ Cardinality(S) \in Nat
  BY <1>3, FS_CardinalityType DEF Injection
<1> HIDE DEF q
<1>5. IsFiniteSet(1 .. Cardinality(S)) /\ Cardinality(1 .. Cardinality(S)) = Cardinality(S)
  BY <1>4, FS_Interval
<1>6. q \in Surjection(1 .. Cardinality(S), S)
  BY <1>4, <1>5, FS_Injection
<1>7. q \in Seq(S) /\ Range(q) = S
  BY <1>3, <1>4, <1>6 DEF Surjection, Range
<1> QED  BY <1>7 DEF q

Spreading(S, F) == FlattenSeq([i \in DOMAIN SetToSeq(S) |-> F[SetToSeq(S)[i]]])

LEMMA Spread == ASSUME NEW S, IsFiniteSet(S), NEW X, NEW F \in [S -> Seq(X)]
  PROVE Spreading(S, F) \in Seq(X) /\ Range(Spreading(S, F)) = UNION {Range(F[x]) : x \in S}
<1> DEFINE q == SetToSeq(S)
           ss == [i \in DOMAIN q |-> F[q[i]]]
<1>1. q \in Seq(S) /\ Range(q) = S
  BY Listing
<1> HIDE DEF q
<1>2. DOMAIN q = 1 .. Len(q) /\ Len(q) \in Nat /\ \A i \in DOMAIN q : q[i] \in S
  BY <1>1
<1>3. ss \in Seq(Seq(X))
  BY <1>2
<1>4. FlattenSeq(ss) \in Seq(X) /\ Range(FlattenSeq(ss)) = UNION {Range(ss[i]) : i \in DOMAIN ss}
  BY <1>3, Flattening
<1>5. {Range(ss[i]) : i \in DOMAIN ss} = {Range(F[x]) : x \in S}
  <2>1. ASSUME NEW i \in DOMAIN ss PROVE \E x \in S : Range(ss[i]) = Range(F[x])
    BY <1>2
  <2>2. ASSUME NEW x \in S PROVE \E i \in DOMAIN ss : Range(ss[i]) = Range(F[x])
    <3>1. PICK i \in DOMAIN q : q[i] = x
      BY <1>1 DEF Range
    <3> QED  BY <3>1
  <2> QED  BY <2>1, <2>2
<1>6. Spreading(S, F) = FlattenSeq(ss)
  BY DEF Spreading, q
<1> HIDE DEF ss
<1> QED  BY <1>4, <1>5, <1>6
-----------------------------------------------------------------------------
(* What the parts of the program hold.                                     *)

Targets == Files \cup {None, <<"compiler", None>>, <<"sdk", None>>, <<"release", None>>}
Commands == {"verify", "compare", "describe", "index"}
Whats == Commands \cup {"hold", "check", "list", "absent", "make", "stream", "reread"}
AllSteps == [do : Whats, by : Holders, on : Targets]

Each(what, by, files) == {[do |-> what, by |-> by, on |-> f] : f \in files}
Yields(s, steps) == s \in Seq(AllSteps) /\ Range(s) = steps

LEMMA EachTyped == ASSUME NEW what \in Whats, NEW by \in Holders, NEW files \in SUBSET Targets
  PROVE Each(what, by, files) \subseteq AllSteps
BY DEF Each, AllSteps

LEMMA DoYields == ASSUME NEW what \in Whats, NEW by \in Holders, NEW files \in Seq(Targets)
  PROVE Yields(Do(what, by, files), Each(what, by, Range(files)))
<1> DEFINE s == [i \in DOMAIN files |-> [do |-> what, by |-> by, on |-> files[i]]]
<1>1. s \in Seq(AllSteps)
  <2>1. DOMAIN files = 1 .. Len(files) /\ Len(files) \in Nat /\ \A i \in DOMAIN files : files[i] \in Targets
    OBVIOUS
  <2>2. \A i \in DOMAIN files : [do |-> what, by |-> by, on |-> files[i]] \in AllSteps
    BY <2>1 DEF AllSteps
  <2> QED  BY <2>1, <2>2
<1>2. Range(s) = Each(what, by, Range(files))
  BY DEF Range, Each
<1> QED  BY <1>1, <1>2 DEF Yields, Do

LEMMA JoinYields == ASSUME NEW s, NEW A, Yields(s, A), NEW t, NEW B, Yields(t, B)
  PROVE Yields(s \o t, A \cup B)
BY RangeJoin DEF Yields

LEMMA SpreadYields == ASSUME NEW S, IsFiniteSet(S), NEW F \in [S -> Seq(AllSteps)], NEW A,
                             \A x \in S : Yields(F[x], A[x])
  PROVE Yields(Spreading(S, F), UNION {A[x] : x \in S})
<1>1. \A x \in S : Range(F[x]) = A[x]
  BY DEF Yields
<1>2. UNION {Range(F[x]) : x \in S} = UNION {A[x] : x \in S}
  BY <1>1
<1> QED  BY <1>2, Spread DEF Yields

LEMMA SetsFinite == /\ IsFiniteSet(Lanes) /\ IsFiniteSet(Sdks) /\ IsFiniteSet(Lanes \cup Sdks)
                    /\ IsFiniteSet(Lanes \cup Sdks \cup {None})
BY SetAssumption, FS_Union, FS_AddElement

LEMMA CopiesFinite == ASSUME NEW kind, NEW S, IsFiniteSet(S) PROVE IsFiniteSet(Copies(kind, S))
<1> DEFINE f == [x \in S |-> <<kind, x>>]
<1>1. f \in Surjection(S, Copies(kind, S))
  BY DEF Surjection, Copies
<1> HIDE DEF f
<1> QED  BY <1>1, FS_Surjection

LEMMA CopiesAre == ASSUME NEW kind, NEW S PROVE \A f : f \in Copies(kind, S) <=> \E x \in S : f = <<kind, x>>
BY DEF Copies

LEMMA FilesAre ==
  /\ Sources \subseteq Files /\ Staged \subseteq Files /\ Members \subseteq Files /\ Files \subseteq Targets
  /\ {Tool, Doc} \subseteq Sources /\ Index \in Files
  /\ Tool # Doc /\ Index \notin Members /\ Sources \cap (Staged \cup Members) = {}
  /\ Staged \cap Members = {} /\ Index \notin Sources \cup Staged
BY DEF Sources, Staged, Members, Files, Targets, Tool, Doc, Index, Copies
-----------------------------------------------------------------------------
(* The lists of files.                                                     *)

Pairs == Copies("a", Lanes) \cup Copies("b", Lanes)
CompilerHeld == {Tool, Doc} \cup Pairs
SdkHeld == {Tool, Doc} \cup Copies("package", Sdks)
Lists(s, files) == s \in Seq(Targets) /\ Range(s) = files

LEMMA ListJoin == ASSUME NEW s, NEW A, Lists(s, A), NEW t, NEW B, Lists(t, B)
  PROVE Lists(s \o t, A \cup B)
BY RangeJoin DEF Lists

LEMMA ListOf == ASSUME NEW f \in Targets, NEW g \in Targets
  PROVE Lists(<<f>>, {f}) /\ Lists(<<f, g>>, {f, g})
BY DEF Lists, Range

LEMMA ListSet == ASSUME NEW S \in SUBSET Targets, IsFiniteSet(S) PROVE Lists(SetToSeq(S), S)
<1>1. SetToSeq(S) \in Seq(S) /\ Range(SetToSeq(S)) = S
  BY Listing
<1> HIDE DEF Targets
<1> QED  BY <1>1 DEF Lists

LEMMA Small1 == Lists(Small, {Tool, Doc})
BY ListOf, FilesAre DEF Small

LEMMA CompilerFilesAre == Lists(CompilerFiles, CompilerHeld)
<1> DEFINE F == [l \in Lanes |-> Pair(l)]
<1>1. ASSUME NEW l \in Lanes PROVE Lists(Pair(l), {<<"a", l>>, <<"b", l>>})
  <2>1. <<"a", l>> \in Targets /\ <<"b", l>> \in Targets
    BY CopiesAre, FilesAre DEF Sources
  <2> QED  BY <2>1, ListOf DEF Pair
<1>2. F \in [Lanes -> Seq(Targets)] /\ \A l \in Lanes : Range(F[l]) = {<<"a", l>>, <<"b", l>>}
  BY <1>1 DEF Lists
<1>3. ForEach(Lanes, Pair) = Spreading(Lanes, F)
  <2>1. SetToSeq(Lanes) \in Seq(Lanes)
    BY Listing, SetsFinite
  <2>2. \A i \in DOMAIN SetToSeq(Lanes) : Pair(SetToSeq(Lanes)[i]) = F[SetToSeq(Lanes)[i]]
    BY <2>1
  <2> HIDE DEF F
  <2> QED  BY <2>2 DEF ForEach, Spreading
<1> HIDE DEF F
<1>4. Spreading(Lanes, F) \in Seq(Targets)
      /\ Range(Spreading(Lanes, F)) = UNION {Range(F[l]) : l \in Lanes}
  BY <1>2, SetsFinite, Spread
<1>5. UNION {Range(F[l]) : l \in Lanes} = Pairs
  BY <1>2 DEF Pairs, Copies
<1> QED  BY <1>3, <1>4, <1>5, Small1, ListJoin DEF CompilerFiles, CompilerHeld, Lists

LEMMA SdkFilesAre == Lists(SdkFiles, SdkHeld)
<1>1. Lists(SetToSeq(Copies("package", Sdks)), Copies("package", Sdks))
  BY CopiesFinite, SetsFinite, ListSet, FilesAre DEF Sources
<1> QED  BY <1>1, Small1, ListJoin DEF SdkFiles, SdkHeld

LEMMA StageIs == ASSUME NEW S \in {Lanes, Sdks, Lanes \cup Sdks} PROVE Lists(Stage(S), Copies("staged", S))
<1>1. Copies("staged", S) \subseteq Targets
  BY FilesAre DEF Staged, Copies
<1> QED  BY <1>1, CopiesFinite, SetsFinite, ListSet DEF Stage

LEMMA InventoryIs == Lists(Inventory, Members)
<1>1. IsFiniteSet(Members)
  BY CopiesFinite, SetsFinite, FS_Union DEF Members
<1> QED  BY <1>1, ListSet, FilesAre DEF Inventory

LEMMA DoLists == ASSUME NEW what \in Whats, NEW by \in Holders, NEW s, NEW files, Lists(s, files)
  PROVE Yields(Do(what, by, s), Each(what, by, files))
BY DoYields DEF Lists

LEMMA DoOne == ASSUME NEW what \in Whats, NEW by \in Holders, NEW f \in Targets
  PROVE Yields(Do(what, by, <<f>>), Each(what, by, {f}))
BY DoLists, ListOf
-----------------------------------------------------------------------------
(* What each part of the program does.                                     *)

LaneSteps(l) ==
  Each("check", "compiler", {Tool, Doc, <<"a", l>>, <<"b", l>>})
    \cup Each("verify", "compiler", {<<"a", l>>, <<"b", l>>}) \cup Each("compare", "compiler", {<<"a", l>>})
SdkPackageSteps(x) == Each("check", "sdk", SdkHeld) \cup Each("verify", "sdk", {<<"package", x>>})
CopySteps(by, f) == Each("stream", by, {f}) \cup Each("reread", by, {f})
Around == Each("check", "release", {Tool, Doc}) \cup Each("check", "release_sdk", SdkHeld)
SbomSteps(x) == Around \cup Each("describe", "release", {<<"sbom", x>>})

LEMMA EachJoin == ASSUME NEW what, NEW by, NEW A, NEW B
  PROVE Each(what, by, A) \cup Each(what, by, B) = Each(what, by, A \cup B)
BY DEF Each

LEMMA CopyYields == ASSUME NEW by \in Holders, NEW f \in Targets PROVE Yields(Copy(by, f), CopySteps(by, f))
<1>1. /\ Yields(Do("stream", by, <<f>>), Each("stream", by, {f}))
      /\ Yields(Do("reread", by, <<f>>), Each("reread", by, {f}))
  BY DoOne DEF Whats
<1> QED  BY <1>1, JoinYields DEF Copy, CopySteps

LEMMA CompilerRunYields == ASSUME NEW what \in Whats, NEW f \in Targets
  PROVE Yields(CompilerRun(what, f), Each("check", "compiler", {Tool, Doc}) \cup Each(what, "compiler", {f}))
<1> DEFINE c == Do("check", "compiler", Small)
           r == Do(what, "compiler", <<f>>)
           C == Each("check", "compiler", {Tool, Doc})
           R == Each(what, "compiler", {f})
<1>1. Yields(c, C) /\ Yields(r, R)
  BY DoOne, DoLists, Small1 DEF Whats, Holders, ByStat
<1> HIDE DEF c, r, C, R
<1>2. Yields(c \o r, C \cup R)
  BY <1>1, JoinYields
<1>3. Yields((c \o r) \o c, (C \cup R) \cup C)
  BY <1>1, <1>2, JoinYields
<1>4. (C \cup R) \cup C = C \cup R
  OBVIOUS
<1> QED  BY <1>3, <1>4 DEF CompilerRun, c, r, C, R

LEMMA CompilerLaneYields == ASSUME NEW l \in Lanes PROVE Yields(CompilerLane(l), LaneSteps(l))
<1> DEFINE a == CompilerRun("verify", <<"a", l>>)
           b == CompilerRun("verify", <<"b", l>>)
           c == Do("check", "compiler", Pair(l))
           d == CompilerRun("compare", <<"a", l>>)
           S == Each("check", "compiler", {Tool, Doc})
           A == Each("verify", "compiler", {<<"a", l>>})
           B == Each("verify", "compiler", {<<"b", l>>})
           C == Each("check", "compiler", {<<"a", l>>, <<"b", l>>})
           D == Each("compare", "compiler", {<<"a", l>>})
<1>1. <<"a", l>> \in Targets /\ <<"b", l>> \in Targets
  BY CopiesAre, FilesAre DEF Sources
<1>2. Lists(Pair(l), {<<"a", l>>, <<"b", l>>})
  BY <1>1, ListOf DEF Pair
<1>3. Yields(a, S \cup A) /\ Yields(b, S \cup B) /\ Yields(d, S \cup D)
  BY <1>1, CompilerRunYields DEF Whats, Commands
<1>4. Yields(c, C)
  BY <1>2, DoLists DEF Whats, Holders, ByStat
<1>5. A \cup B = Each("verify", "compiler", {<<"a", l>>, <<"b", l>>})
      /\ S \cup C = Each("check", "compiler", {Tool, Doc, <<"a", l>>, <<"b", l>>})
  BY DEF Each
<1>6. LaneSteps(l) = ((S \cup C) \cup (A \cup B)) \cup D
  BY <1>5 DEF LaneSteps
<1>7. CompilerLane(l) = ((a \o b) \o c) \o d
  BY DEF CompilerLane
<1> HIDE DEF a, b, c, d, S, A, B, C, D
<1>8. Yields(a \o b, (S \cup A) \cup (S \cup B))
  BY <1>3, JoinYields
<1>9. Yields((a \o b) \o c, ((S \cup A) \cup (S \cup B)) \cup C)
  BY <1>4, <1>8, JoinYields
<1>10. Yields(((a \o b) \o c) \o d, (((S \cup A) \cup (S \cup B)) \cup C) \cup (S \cup D))
  BY <1>3, <1>9, JoinYields
<1>11. (((S \cup A) \cup (S \cup B)) \cup C) \cup (S \cup D) = ((S \cup C) \cup (A \cup B)) \cup D
  OBVIOUS
<1> QED  BY <1>6, <1>7, <1>10, <1>11

LEMMA SdkPackageYields == ASSUME NEW x \in Sdks PROVE Yields(SdkPackage(x), SdkPackageSteps(x))
<1>1. <<"package", x>> \in Targets
  BY CopiesAre, FilesAre DEF Sources
<1>2. Yields(Do("check", "sdk", SdkFiles), Each("check", "sdk", SdkHeld))
  BY DoLists, SdkFilesAre DEF Whats, Holders
<1>3. Yields(Do("verify", "sdk", <<<<"package", x>>>>), Each("verify", "sdk", {<<"package", x>>}))
  BY <1>1, DoOne DEF Whats, Commands, Holders
<1> QED  BY <1>2, <1>3, JoinYields DEF SdkPackage, SdkPackageSteps

LEMMA StagedTargets ==
  /\ \A x \in Lanes \cup Sdks : <<"staged", x>> \in Targets
  /\ \A x \in Lanes \cup Sdks \cup {None} : <<"member", x>> \in Targets
  /\ \A x \in Sdks : <<"sbom", x>> \in Targets
BY CopiesAre, FilesAre DEF Staged, Members

CompilerCopySteps(x) == CopySteps("compiler", <<"staged", x>>)
SdkCopySteps(x) == CopySteps("sdk", <<"staged", x>>)
MemberSteps(x) == CopySteps("release", <<"member", x>>)

LEMMA CompilerCopyYields == ASSUME NEW x \in Lanes PROVE Yields(CompilerCopy(x), CompilerCopySteps(x))
BY StagedTargets, CopyYields DEF CompilerCopy, CompilerCopySteps, Holders, ByStat

LEMMA SdkCopyYields == ASSUME NEW x \in Sdks PROVE Yields(SdkCopy(x), SdkCopySteps(x))
BY StagedTargets, CopyYields DEF SdkCopy, SdkCopySteps, Holders

LEMMA MemberYields == ASSUME NEW x \in Lanes \cup Sdks \cup {None} PROVE Yields(Member(x), MemberSteps(x))
BY StagedTargets, CopyYields DEF Member, MemberSteps, Holders, ByStat

LEMMA AroundYields == Yields(Do("check", "release", Small) \o Do("check", "release_sdk", SdkFiles), Around)
<1>1. Yields(Do("check", "release", Small), Each("check", "release", {Tool, Doc}))
  BY DoLists, Small1 DEF Whats, Holders, ByStat
<1>2. Yields(Do("check", "release_sdk", SdkFiles), Each("check", "release_sdk", SdkHeld))
  BY DoLists, SdkFilesAre DEF Whats, Holders
<1> QED  BY <1>1, <1>2, JoinYields DEF Around

LEMMA ReleaseRunYields == ASSUME NEW what \in Whats, NEW f \in Targets
  PROVE Yields(ReleaseRun(what, f), Around \cup Each(what, "release", {f}))
<1> DEFINE c == Do("check", "release", Small) \o Do("check", "release_sdk", SdkFiles)
           r == Do(what, "release", <<f>>)
           R == Each(what, "release", {f})
<1>1. Yields(c, Around) /\ Yields(r, R)
  BY AroundYields, DoOne DEF Holders, ByStat
<1>2. ReleaseRun(what, f) = (c \o r) \o c
  BY DEF ReleaseRun
<1> HIDE DEF c, r, R
<1>3. Yields(c \o r, Around \cup R)
  BY <1>1, JoinYields
<1>4. Yields((c \o r) \o c, (Around \cup R) \cup Around)
  BY <1>1, <1>3, JoinYields
<1>5. (Around \cup R) \cup Around = Around \cup R
  OBVIOUS
<1> QED  BY <1>2, <1>4, <1>5 DEF R

LEMMA SbomYields == ASSUME NEW x \in Sdks PROVE Yields(Sbom(x), SbomSteps(x))
BY StagedTargets, ReleaseRunYields DEF Sbom, SbomSteps, Whats, Commands

AllLanes ==
  Each("check", "compiler", IF Lanes = {} THEN {} ELSE CompilerHeld)
    \cup Each("verify", "compiler", Pairs) \cup Each("compare", "compiler", Copies("a", Lanes))
AllSdkPackages ==
  Each("check", "sdk", IF Sdks = {} THEN {} ELSE SdkHeld) \cup Each("verify", "sdk", Copies("package", Sdks))
AllCopies(by, files) == Each("stream", by, files) \cup Each("reread", by, files)

LEMMA CopiesOfAll == ASSUME NEW by, NEW kind, NEW S
  PROVE UNION {CopySteps(by, <<kind, x>>) : x \in S} = AllCopies(by, Copies(kind, S))
<1> DEFINE U == UNION {CopySteps(by, <<kind, x>>) : x \in S}
<1>1. ASSUME NEW q \in U PROVE q \in AllCopies(by, Copies(kind, S))
  <2>1. PICK x \in S : q \in CopySteps(by, <<kind, x>>)
    BY <1>1
  <2>2. <<kind, x>> \in Copies(kind, S)
    BY DEF Copies
  <2> QED  BY <2>1, <2>2 DEF CopySteps, AllCopies, Each
<1>2. ASSUME NEW q \in AllCopies(by, Copies(kind, S)) PROVE q \in U
  <2>1. PICK x \in S : q \in CopySteps(by, <<kind, x>>)
    BY <1>2 DEF CopySteps, AllCopies, Each, Copies
  <2> QED  BY <2>1
<1> QED  BY <1>1, <1>2

AllSboms == (IF Sdks = {} THEN {} ELSE Around) \cup Each("describe", "release", Copies("sbom", Sdks))

LEMMA LanesYield == Yields(ForEach(Lanes, CompilerLane), AllLanes)
<1> DEFINE F == [x \in Lanes |-> CompilerLane(x)]
           A == [x \in Lanes |-> LaneSteps(x)]
<1>1. \A x \in Lanes : Yields(F[x], A[x])
  BY CompilerLaneYields
<1>2. F \in [Lanes -> Seq(AllSteps)]
  BY <1>1 DEF Yields
<1>3. ForEach(Lanes, CompilerLane) = Spreading(Lanes, F)
  <2>1. SetToSeq(Lanes) \in Seq(Lanes)
    BY Listing, SetsFinite
  <2>2. \A i \in DOMAIN SetToSeq(Lanes) : CompilerLane(SetToSeq(Lanes)[i]) = F[SetToSeq(Lanes)[i]]
    BY <2>1
  <2> HIDE DEF F
  <2> QED  BY <2>2 DEF ForEach, Spreading
<1>4. UNION {A[x] : x \in Lanes} = AllLanes
  BY DEF LaneSteps, AllLanes, CompilerHeld, Each, Pairs, Copies
<1> HIDE DEF F, A
<1> QED  BY <1>1, <1>2, <1>3, <1>4, SetsFinite, SpreadYields

LEMMA PackagesYield == Yields(ForEach(Sdks, SdkPackage), AllSdkPackages)
<1> DEFINE F == [x \in Sdks |-> SdkPackage(x)]
           A == [x \in Sdks |-> SdkPackageSteps(x)]
<1>1. \A x \in Sdks : Yields(F[x], A[x])
  BY SdkPackageYields
<1>2. F \in [Sdks -> Seq(AllSteps)]
  BY <1>1 DEF Yields
<1>3. ForEach(Sdks, SdkPackage) = Spreading(Sdks, F)
  <2>1. SetToSeq(Sdks) \in Seq(Sdks)
    BY Listing, SetsFinite
  <2>2. \A i \in DOMAIN SetToSeq(Sdks) : SdkPackage(SetToSeq(Sdks)[i]) = F[SetToSeq(Sdks)[i]]
    BY <2>1
  <2> HIDE DEF F
  <2> QED  BY <2>2 DEF ForEach, Spreading
<1>4. UNION {A[x] : x \in Sdks} = AllSdkPackages
  BY DEF SdkPackageSteps, AllSdkPackages, Each, Copies
<1> HIDE DEF F, A
<1> QED  BY <1>1, <1>2, <1>3, <1>4, SetsFinite, SpreadYields

LEMMA CompilerCopiesYield == Yields(ForEach(Lanes, CompilerCopy), AllCopies("compiler", Copies("staged", Lanes)))
<1> DEFINE F == [x \in Lanes |-> CompilerCopy(x)]
           A == [x \in Lanes |-> CompilerCopySteps(x)]
<1>1. \A x \in Lanes : Yields(F[x], A[x])
  BY CompilerCopyYields
<1>2. F \in [Lanes -> Seq(AllSteps)]
  BY <1>1 DEF Yields
<1>3. ForEach(Lanes, CompilerCopy) = Spreading(Lanes, F)
  <2>1. SetToSeq(Lanes) \in Seq(Lanes)
    BY Listing, SetsFinite
  <2>2. \A i \in DOMAIN SetToSeq(Lanes) : CompilerCopy(SetToSeq(Lanes)[i]) = F[SetToSeq(Lanes)[i]]
    BY <2>1
  <2> HIDE DEF F
  <2> QED  BY <2>2 DEF ForEach, Spreading
<1>4. UNION {A[x] : x \in Lanes} = AllCopies("compiler", Copies("staged", Lanes))
  <2>1. UNION {A[x] : x \in Lanes} = UNION {CopySteps("compiler", <<"staged", x>>) : x \in Lanes}
    BY DEF CompilerCopySteps
  <2> HIDE DEF A
  <2> QED  BY <2>1, CopiesOfAll
<1> HIDE DEF F, A
<1> QED  BY <1>1, <1>2, <1>3, <1>4, SetsFinite, SpreadYields

LEMMA SdkCopiesYield == Yields(ForEach(Sdks, SdkCopy), AllCopies("sdk", Copies("staged", Sdks)))
<1> DEFINE F == [x \in Sdks |-> SdkCopy(x)]
           A == [x \in Sdks |-> SdkCopySteps(x)]
<1>1. \A x \in Sdks : Yields(F[x], A[x])
  BY SdkCopyYields
<1>2. F \in [Sdks -> Seq(AllSteps)]
  BY <1>1 DEF Yields
<1>3. ForEach(Sdks, SdkCopy) = Spreading(Sdks, F)
  <2>1. SetToSeq(Sdks) \in Seq(Sdks)
    BY Listing, SetsFinite
  <2>2. \A i \in DOMAIN SetToSeq(Sdks) : SdkCopy(SetToSeq(Sdks)[i]) = F[SetToSeq(Sdks)[i]]
    BY <2>1
  <2> HIDE DEF F
  <2> QED  BY <2>2 DEF ForEach, Spreading
<1>4. UNION {A[x] : x \in Sdks} = AllCopies("sdk", Copies("staged", Sdks))
  <2>1. UNION {A[x] : x \in Sdks} = UNION {CopySteps("sdk", <<"staged", x>>) : x \in Sdks}
    BY DEF SdkCopySteps
  <2> HIDE DEF A
  <2> QED  BY <2>1, CopiesOfAll
<1> HIDE DEF F, A
<1> QED  BY <1>1, <1>2, <1>3, <1>4, SetsFinite, SpreadYields

LEMMA LaneMembersYield == Yields(ForEach(Lanes, Member), AllCopies("release", Copies("member", Lanes)))
<1> DEFINE F == [x \in Lanes |-> Member(x)]
           A == [x \in Lanes |-> MemberSteps(x)]
<1>1. \A x \in Lanes : Yields(F[x], A[x])
  BY MemberYields
<1>2. F \in [Lanes -> Seq(AllSteps)]
  BY <1>1 DEF Yields
<1>3. ForEach(Lanes, Member) = Spreading(Lanes, F)
  <2>1. SetToSeq(Lanes) \in Seq(Lanes)
    BY Listing, SetsFinite
  <2>2. \A i \in DOMAIN SetToSeq(Lanes) : Member(SetToSeq(Lanes)[i]) = F[SetToSeq(Lanes)[i]]
    BY <2>1
  <2> HIDE DEF F
  <2> QED  BY <2>2 DEF ForEach, Spreading
<1>4. UNION {A[x] : x \in Lanes} = AllCopies("release", Copies("member", Lanes))
  <2>1. UNION {A[x] : x \in Lanes} = UNION {CopySteps("release", <<"member", x>>) : x \in Lanes}
    BY DEF MemberSteps
  <2> HIDE DEF A
  <2> QED  BY <2>1, CopiesOfAll
<1> HIDE DEF F, A
<1> QED  BY <1>1, <1>2, <1>3, <1>4, SetsFinite, SpreadYields

LEMMA SdkMembersYield == Yields(ForEach(Sdks, Member), AllCopies("release", Copies("member", Sdks)))
<1> DEFINE F == [x \in Sdks |-> Member(x)]
           A == [x \in Sdks |-> MemberSteps(x)]
<1>1. \A x \in Sdks : Yields(F[x], A[x])
  BY MemberYields
<1>2. F \in [Sdks -> Seq(AllSteps)]
  BY <1>1 DEF Yields
<1>3. ForEach(Sdks, Member) = Spreading(Sdks, F)
  <2>1. SetToSeq(Sdks) \in Seq(Sdks)
    BY Listing, SetsFinite
  <2>2. \A i \in DOMAIN SetToSeq(Sdks) : Member(SetToSeq(Sdks)[i]) = F[SetToSeq(Sdks)[i]]
    BY <2>1
  <2> HIDE DEF F
  <2> QED  BY <2>2 DEF ForEach, Spreading
<1>4. UNION {A[x] : x \in Sdks} = AllCopies("release", Copies("member", Sdks))
  <2>1. UNION {A[x] : x \in Sdks} = UNION {CopySteps("release", <<"member", x>>) : x \in Sdks}
    BY DEF MemberSteps
  <2> HIDE DEF A
  <2> QED  BY <2>1, CopiesOfAll
<1> HIDE DEF F, A
<1> QED  BY <1>1, <1>2, <1>3, <1>4, SetsFinite, SpreadYields

LEMMA SbomsYield == Yields(ForEach(Sdks, Sbom), AllSboms)
<1> DEFINE F == [x \in Sdks |-> Sbom(x)]
           A == [x \in Sdks |-> SbomSteps(x)]
<1>1. \A x \in Sdks : Yields(F[x], A[x])
  BY SbomYields
<1>2. F \in [Sdks -> Seq(AllSteps)]
  BY <1>1 DEF Yields
<1>3. ForEach(Sdks, Sbom) = Spreading(Sdks, F)
  <2>1. SetToSeq(Sdks) \in Seq(Sdks)
    BY Listing, SetsFinite
  <2>2. \A i \in DOMAIN SetToSeq(Sdks) : Sbom(SetToSeq(Sdks)[i]) = F[SetToSeq(Sdks)[i]]
    BY <2>1
  <2> HIDE DEF F
  <2> QED  BY <2>2 DEF ForEach, Spreading
<1>4. UNION {A[x] : x \in Sdks} = AllSboms
  BY DEF SbomSteps, AllSboms, Each, Copies
<1> HIDE DEF F, A
<1> QED  BY <1>1, <1>2, <1>3, <1>4, SetsFinite, SpreadYields

-----------------------------------------------------------------------------
(* What the four parts of the program do.                                  *)

CompilerBarrierSteps ==
  Each("check", "compiler", CompilerHeld)
    \cup Each("list", "inventory", {<<"compiler", None>>})
    \cup Each("check", "inventory", Copies("staged", Lanes))

LEMMA CompilerBarrierYields == Yields(CompilerBarrier, CompilerBarrierSteps)
<1> DEFINE c == Do("check", "compiler", CompilerFiles)
           l == Do("list", "inventory", <<<<"compiler", None>>>>)
           i == Do("check", "inventory", Stage(Lanes))
<1>1. Yields(c, Each("check", "compiler", CompilerHeld))
  BY DoLists, CompilerFilesAre DEF Whats, Commands, Holders, ByStat
<1>2. Yields(l, Each("list", "inventory", {<<"compiler", None>>}))
  BY DoOne DEF Whats, Commands, Holders, ByStat, Targets
<1>3. Yields(i, Each("check", "inventory", Copies("staged", Lanes)))
  BY DoLists, StageIs DEF Whats, Commands, Holders, ByStat
<1>4. CompilerBarrier = (c \o l) \o i
  BY DEF CompilerBarrier
<1> HIDE DEF c, l, i
<1>5. Yields(c \o l,
       (Each("check", "compiler", CompilerHeld)) \cup (Each("list", "inventory", {<<"compiler", None>>})))
  BY <1>1, <1>2, JoinYields
<1>6. Yields((c \o l) \o i,
       ((Each("check", "compiler", CompilerHeld)) \cup (Each("list", "inventory", {<<"compiler", None>>}))) \cup (Each("check", "inventory", Copies("staged", Lanes))))
  BY <1>5, <1>3, JoinYields
<1> QED  BY <1>4, <1>6 DEF CompilerBarrierSteps

CompilerWorkSteps ==
  Each("check", "compiler", CompilerHeld)
    \cup AllLanes
    \cup AllCopies("compiler", Copies("staged", Lanes))
    \cup CompilerBarrierSteps

LEMMA CompilerWorkYields == Yields(CompilerWork, CompilerWorkSteps)
<1> DEFINE c == Do("check", "compiler", CompilerFiles)
           v == ForEach(Lanes, CompilerLane)
           w == ForEach(Lanes, CompilerCopy)
           b == CompilerBarrier
           d == CompilerBarrier
<1>1. Yields(c, Each("check", "compiler", CompilerHeld))
  BY DoLists, CompilerFilesAre DEF Whats, Commands, Holders, ByStat
<1>2. Yields(v, AllLanes)
  BY LanesYield
<1>3. Yields(w, AllCopies("compiler", Copies("staged", Lanes)))
  BY CompilerCopiesYield
<1>4. Yields(b, CompilerBarrierSteps)
  BY CompilerBarrierYields
<1>5. Yields(d, CompilerBarrierSteps)
  BY CompilerBarrierYields
<1>6. CompilerWork = (((c \o v) \o w) \o b) \o d
  BY DEF CompilerWork
<1> HIDE DEF c, v, w, b, d
<1>7. Yields(c \o v,
       (Each("check", "compiler", CompilerHeld)) \cup (AllLanes))
  BY <1>1, <1>2, JoinYields
<1>8. Yields((c \o v) \o w,
       ((Each("check", "compiler", CompilerHeld)) \cup (AllLanes)) \cup (AllCopies("compiler", Copies("staged", Lanes))))
  BY <1>7, <1>3, JoinYields
<1>9. Yields(((c \o v) \o w) \o b,
       (((Each("check", "compiler", CompilerHeld)) \cup (AllLanes)) \cup (AllCopies("compiler", Copies("staged", Lanes)))) \cup (CompilerBarrierSteps))
  BY <1>8, <1>4, JoinYields
<1>10. Yields((((c \o v) \o w) \o b) \o d,
       ((((Each("check", "compiler", CompilerHeld)) \cup (AllLanes)) \cup (AllCopies("compiler", Copies("staged", Lanes)))) \cup (CompilerBarrierSteps)) \cup (CompilerBarrierSteps))
  BY <1>9, <1>5, JoinYields
<1> QED  BY <1>6, <1>10 DEF CompilerWorkSteps

CompilerSteps ==
  Each("hold", "compiler", CompilerHeld)
    \cup CompilerWorkSteps

LEMMA CompilerAssemblyYields == Yields(CompilerAssembly, CompilerSteps)
<1> DEFINE h == Do("hold", "compiler", CompilerFiles)
           w == CompilerWork
<1>1. Yields(h, Each("hold", "compiler", CompilerHeld))
  BY DoLists, CompilerFilesAre DEF Whats, Commands, Holders, ByStat
<1>2. Yields(w, CompilerWorkSteps)
  BY CompilerWorkYields
<1>3. CompilerAssembly = h \o w
  BY DEF CompilerAssembly
<1> HIDE DEF h, w
<1>4. Yields(h \o w,
       (Each("hold", "compiler", CompilerHeld)) \cup (CompilerWorkSteps))
  BY <1>1, <1>2, JoinYields
<1> QED  BY <1>3, <1>4 DEF CompilerSteps

SdkBarrierSteps ==
  Each("check", "sdk", SdkHeld)
    \cup Each("list", "inventory", {<<"sdk", None>>})
    \cup Each("check", "inventory", Copies("staged", Sdks))

LEMMA SdkBarrierYields == Yields(SdkBarrier, SdkBarrierSteps)
<1> DEFINE c == Do("check", "sdk", SdkFiles)
           l == Do("list", "inventory", <<<<"sdk", None>>>>)
           i == Do("check", "inventory", Stage(Sdks))
<1>1. Yields(c, Each("check", "sdk", SdkHeld))
  BY DoLists, SdkFilesAre DEF Whats, Commands, Holders, ByStat
<1>2. Yields(l, Each("list", "inventory", {<<"sdk", None>>}))
  BY DoOne DEF Whats, Commands, Holders, ByStat, Targets
<1>3. Yields(i, Each("check", "inventory", Copies("staged", Sdks)))
  BY DoLists, StageIs DEF Whats, Commands, Holders, ByStat
<1>4. SdkBarrier = (c \o l) \o i
  BY DEF SdkBarrier
<1> HIDE DEF c, l, i
<1>5. Yields(c \o l,
       (Each("check", "sdk", SdkHeld)) \cup (Each("list", "inventory", {<<"sdk", None>>})))
  BY <1>1, <1>2, JoinYields
<1>6. Yields((c \o l) \o i,
       ((Each("check", "sdk", SdkHeld)) \cup (Each("list", "inventory", {<<"sdk", None>>}))) \cup (Each("check", "inventory", Copies("staged", Sdks))))
  BY <1>5, <1>3, JoinYields
<1> QED  BY <1>4, <1>6 DEF SdkBarrierSteps

SdkWorkSteps ==
  AllSdkPackages
    \cup Each("check", "sdk", SdkHeld)
    \cup AllCopies("sdk", Copies("staged", Sdks))
    \cup SdkBarrierSteps

LEMMA SdkWorkYields == Yields(SdkWork, SdkWorkSteps)
<1> DEFINE v == ForEach(Sdks, SdkPackage)
           c == Do("check", "sdk", SdkFiles)
           w == ForEach(Sdks, SdkCopy)
           b == SdkBarrier
           d == SdkBarrier
<1>1. Yields(v, AllSdkPackages)
  BY PackagesYield
<1>2. Yields(c, Each("check", "sdk", SdkHeld))
  BY DoLists, SdkFilesAre DEF Whats, Commands, Holders, ByStat
<1>3. Yields(w, AllCopies("sdk", Copies("staged", Sdks)))
  BY SdkCopiesYield
<1>4. Yields(b, SdkBarrierSteps)
  BY SdkBarrierYields
<1>5. Yields(d, SdkBarrierSteps)
  BY SdkBarrierYields
<1>6. SdkWork = (((v \o c) \o w) \o b) \o d
  BY DEF SdkWork
<1> HIDE DEF v, c, w, b, d
<1>7. Yields(v \o c,
       (AllSdkPackages) \cup (Each("check", "sdk", SdkHeld)))
  BY <1>1, <1>2, JoinYields
<1>8. Yields((v \o c) \o w,
       ((AllSdkPackages) \cup (Each("check", "sdk", SdkHeld))) \cup (AllCopies("sdk", Copies("staged", Sdks))))
  BY <1>7, <1>3, JoinYields
<1>9. Yields(((v \o c) \o w) \o b,
       (((AllSdkPackages) \cup (Each("check", "sdk", SdkHeld))) \cup (AllCopies("sdk", Copies("staged", Sdks)))) \cup (SdkBarrierSteps))
  BY <1>8, <1>4, JoinYields
<1>10. Yields((((v \o c) \o w) \o b) \o d,
       ((((AllSdkPackages) \cup (Each("check", "sdk", SdkHeld))) \cup (AllCopies("sdk", Copies("staged", Sdks)))) \cup (SdkBarrierSteps)) \cup (SdkBarrierSteps))
  BY <1>9, <1>5, JoinYields
<1> QED  BY <1>6, <1>10 DEF SdkWorkSteps

SdkSteps ==
  Each("hold", "sdk", SdkHeld)
    \cup SdkWorkSteps

LEMMA SdkAssemblyYields == Yields(SdkAssembly, SdkSteps)
<1> DEFINE h == Do("hold", "sdk", SdkFiles)
           w == SdkWork
<1>1. Yields(h, Each("hold", "sdk", SdkHeld))
  BY DoLists, SdkFilesAre DEF Whats, Commands, Holders, ByStat
<1>2. Yields(w, SdkWorkSteps)
  BY SdkWorkYields
<1>3. SdkAssembly = h \o w
  BY DEF SdkAssembly
<1> HIDE DEF h, w
<1>4. Yields(h \o w,
       (Each("hold", "sdk", SdkHeld)) \cup (SdkWorkSteps))
  BY <1>1, <1>2, JoinYields
<1> QED  BY <1>3, <1>4 DEF SdkSteps

BothSteps ==
  Each("check", "release", CompilerHeld)
    \cup Each("check", "release_sdk", SdkHeld)

LEMMA BothHeldYields == Yields(BothHeld, BothSteps)
<1> DEFINE c == Do("check", "release", CompilerFiles)
           d == Do("check", "release_sdk", SdkFiles)
<1>1. Yields(c, Each("check", "release", CompilerHeld))
  BY DoLists, CompilerFilesAre DEF Whats, Commands, Holders, ByStat
<1>2. Yields(d, Each("check", "release_sdk", SdkHeld))
  BY DoLists, SdkFilesAre DEF Whats, Commands, Holders, ByStat
<1>3. BothHeld = c \o d
  BY DEF BothHeld
<1> HIDE DEF c, d
<1>4. Yields(c \o d,
       (Each("check", "release", CompilerHeld)) \cup (Each("check", "release_sdk", SdkHeld)))
  BY <1>1, <1>2, JoinYields
<1> QED  BY <1>3, <1>4 DEF BothSteps

OpeningSteps ==
  Each("hold", "release", CompilerHeld)
    \cup Each("hold", "release_sdk", SdkHeld)
    \cup Each("absent", "release", {None})
    \cup BothSteps
    \cup Each("make", "release", {None})

LEMMA OpeningYields == Yields(Opening, OpeningSteps)
<1> DEFINE h == Do("hold", "release", CompilerFiles)
           k == Do("hold", "release_sdk", SdkFiles)
           a == Do("absent", "release", <<None>>)
           b == BothHeld
           m == Do("make", "release", <<None>>)
<1>1. Yields(h, Each("hold", "release", CompilerHeld))
  BY DoLists, CompilerFilesAre DEF Whats, Commands, Holders, ByStat
<1>2. Yields(k, Each("hold", "release_sdk", SdkHeld))
  BY DoLists, SdkFilesAre DEF Whats, Commands, Holders, ByStat
<1>3. Yields(a, Each("absent", "release", {None}))
  BY DoOne DEF Whats, Commands, Holders, ByStat, Targets
<1>4. Yields(b, BothSteps)
  BY BothHeldYields
<1>5. Yields(m, Each("make", "release", {None}))
  BY DoOne DEF Whats, Commands, Holders, ByStat, Targets
<1>6. Opening = (((h \o k) \o a) \o b) \o m
  BY DEF Opening
<1> HIDE DEF h, k, a, b, m
<1>7. Yields(h \o k,
       (Each("hold", "release", CompilerHeld)) \cup (Each("hold", "release_sdk", SdkHeld)))
  BY <1>1, <1>2, JoinYields
<1>8. Yields((h \o k) \o a,
       ((Each("hold", "release", CompilerHeld)) \cup (Each("hold", "release_sdk", SdkHeld))) \cup (Each("absent", "release", {None})))
  BY <1>7, <1>3, JoinYields
<1>9. Yields(((h \o k) \o a) \o b,
       (((Each("hold", "release", CompilerHeld)) \cup (Each("hold", "release_sdk", SdkHeld))) \cup (Each("absent", "release", {None}))) \cup (BothSteps))
  BY <1>8, <1>4, JoinYields
<1>10. Yields((((h \o k) \o a) \o b) \o m,
       ((((Each("hold", "release", CompilerHeld)) \cup (Each("hold", "release_sdk", SdkHeld))) \cup (Each("absent", "release", {None}))) \cup (BothSteps)) \cup (Each("make", "release", {None})))
  BY <1>9, <1>5, JoinYields
<1> QED  BY <1>6, <1>10 DEF OpeningSteps

PackagingSteps ==
  CompilerSteps
    \cup Each("hold", "trees", Copies("staged", Lanes))
    \cup SdkSteps
    \cup Each("hold", "trees", Copies("staged", Sdks))

LEMMA PackagingYields == Yields(Packaging, PackagingSteps)
<1> DEFINE c == CompilerAssembly
           t == Do("hold", "trees", Stage(Lanes))
           k == SdkAssembly
           u == Do("hold", "trees", Stage(Sdks))
<1>1. Yields(c, CompilerSteps)
  BY CompilerAssemblyYields
<1>2. Yields(t, Each("hold", "trees", Copies("staged", Lanes)))
  BY DoLists, StageIs DEF Whats, Commands, Holders, ByStat
<1>3. Yields(k, SdkSteps)
  BY SdkAssemblyYields
<1>4. Yields(u, Each("hold", "trees", Copies("staged", Sdks)))
  BY DoLists, StageIs DEF Whats, Commands, Holders, ByStat
<1>5. Packaging = ((c \o t) \o k) \o u
  BY DEF Packaging
<1> HIDE DEF c, t, k, u
<1>6. Yields(c \o t,
       (CompilerSteps) \cup (Each("hold", "trees", Copies("staged", Lanes))))
  BY <1>1, <1>2, JoinYields
<1>7. Yields((c \o t) \o k,
       ((CompilerSteps) \cup (Each("hold", "trees", Copies("staged", Lanes)))) \cup (SdkSteps))
  BY <1>6, <1>3, JoinYields
<1>8. Yields(((c \o t) \o k) \o u,
       (((CompilerSteps) \cup (Each("hold", "trees", Copies("staged", Lanes)))) \cup (SdkSteps)) \cup (Each("hold", "trees", Copies("staged", Sdks))))
  BY <1>7, <1>4, JoinYields
<1> QED  BY <1>5, <1>8 DEF PackagingSteps

IndexedSteps ==
  (Each("check", "inventory", Members \cup {Index}))
    \cup Each("list", "inventory", {<<"release", None>>})

LEMMA IndexedYields == Yields(Indexed, IndexedSteps)
<1> DEFINE c == Do("check", "inventory", Inventory \o <<Index>>)
           l == Listed
<1>1. Yields(c, Each("check", "inventory", Members \cup {Index}))
  BY DoLists, InventoryIs, ListOf, ListJoin, FilesAre DEF Whats, Commands, Holders, ByStat
<1>2. Yields(l, Each("list", "inventory", {<<"release", None>>}))
  BY DoOne DEF Whats, Commands, Holders, ByStat, Targets, Listed
<1>3. Indexed = c \o l
  BY DEF Indexed
<1> HIDE DEF c, l
<1>4. Yields(c \o l,
       (Each("check", "inventory", Members \cup {Index})) \cup (Each("list", "inventory", {<<"release", None>>})))
  BY <1>1, <1>2, JoinYields
<1> QED  BY <1>3, <1>4 DEF IndexedSteps

PublishingSteps ==
  AllCopies("release", Copies("member", Lanes))
    \cup AllCopies("release", Copies("member", Sdks))
    \cup MemberSteps(None)
    \cup AllSboms
    \cup Each("list", "inventory", {<<"release", None>>})
    \cup Each("check", "inventory", Members)
    \cup (Around \cup Each("index", "release", {Index}))
    \cup IndexedSteps

LEMMA PublishingYields == Yields(Publishing, PublishingSteps)
<1> DEFINE a == ForEach(Lanes, Member)
           b == ForEach(Sdks, Member)
           d == Member(None)
           e == ForEach(Sdks, Sbom)
           l == Listed
           c == Do("check", "inventory", Inventory)
           r == ReleaseRun("index", Index)
           i == Indexed
<1>1. Yields(a, AllCopies("release", Copies("member", Lanes)))
  BY LaneMembersYield
<1>2. Yields(b, AllCopies("release", Copies("member", Sdks)))
  BY SdkMembersYield
<1>3. Yields(d, MemberSteps(None))
  BY MemberYields
<1>4. Yields(e, AllSboms)
  BY SbomsYield
<1>5. Yields(l, Each("list", "inventory", {<<"release", None>>}))
  BY DoOne DEF Whats, Commands, Holders, ByStat, Targets, Listed
<1>6. Yields(c, Each("check", "inventory", Members))
  BY DoLists, InventoryIs DEF Whats, Commands, Holders, ByStat
<1>7. Yields(r, Around \cup Each("index", "release", {Index}))
  BY ReleaseRunYields, FilesAre DEF Whats, Commands, Holders, ByStat
<1>8. Yields(i, IndexedSteps)
  BY IndexedYields
<1>9. Publishing = ((((((a \o b) \o d) \o e) \o l) \o c) \o r) \o i
  BY DEF Publishing
<1> HIDE DEF a, b, d, e, l, c, r, i
<1>10. Yields(a \o b,
       (AllCopies("release", Copies("member", Lanes))) \cup (AllCopies("release", Copies("member", Sdks))))
  BY <1>1, <1>2, JoinYields
<1>11. Yields((a \o b) \o d,
       ((AllCopies("release", Copies("member", Lanes))) \cup (AllCopies("release", Copies("member", Sdks)))) \cup (MemberSteps(None)))
  BY <1>10, <1>3, JoinYields
<1>12. Yields(((a \o b) \o d) \o e,
       (((AllCopies("release", Copies("member", Lanes))) \cup (AllCopies("release", Copies("member", Sdks)))) \cup (MemberSteps(None))) \cup (AllSboms))
  BY <1>11, <1>4, JoinYields
<1>13. Yields((((a \o b) \o d) \o e) \o l,
       ((((AllCopies("release", Copies("member", Lanes))) \cup (AllCopies("release", Copies("member", Sdks)))) \cup (MemberSteps(None))) \cup (AllSboms)) \cup (Each("list", "inventory", {<<"release", None>>})))
  BY <1>12, <1>5, JoinYields
<1>14. Yields(((((a \o b) \o d) \o e) \o l) \o c,
       (((((AllCopies("release", Copies("member", Lanes))) \cup (AllCopies("release", Copies("member", Sdks)))) \cup (MemberSteps(None))) \cup (AllSboms)) \cup (Each("list", "inventory", {<<"release", None>>}))) \cup (Each("check", "inventory", Members)))
  BY <1>13, <1>6, JoinYields
<1>15. Yields((((((a \o b) \o d) \o e) \o l) \o c) \o r,
       ((((((AllCopies("release", Copies("member", Lanes))) \cup (AllCopies("release", Copies("member", Sdks)))) \cup (MemberSteps(None))) \cup (AllSboms)) \cup (Each("list", "inventory", {<<"release", None>>}))) \cup (Each("check", "inventory", Members))) \cup (Around \cup Each("index", "release", {Index})))
  BY <1>14, <1>7, JoinYields
<1>16. Yields(((((((a \o b) \o d) \o e) \o l) \o c) \o r) \o i,
       (((((((AllCopies("release", Copies("member", Lanes))) \cup (AllCopies("release", Copies("member", Sdks)))) \cup (MemberSteps(None))) \cup (AllSboms)) \cup (Each("list", "inventory", {<<"release", None>>}))) \cup (Each("check", "inventory", Members))) \cup (Around \cup Each("index", "release", {Index}))) \cup (IndexedSteps))
  BY <1>15, <1>8, JoinYields
<1> QED  BY <1>9, <1>16 DEF PublishingSteps

ClosingSteps ==
  BothSteps
    \cup (Each("check", "trees", Copies("staged", Lanes \cup Sdks)))
    \cup IndexedSteps

LEMMA ClosingYields == Yields(Closing, ClosingSteps)
<1> DEFINE b == BothHeld
           t == Do("check", "trees", Stage(Lanes \cup Sdks))
           i == Indexed
<1>1. Yields(b, BothSteps)
  BY BothHeldYields
<1>2. Yields(t, Each("check", "trees", Copies("staged", Lanes \cup Sdks)))
  BY DoLists, StageIs DEF Whats, Commands, Holders, ByStat
<1>3. Yields(i, IndexedSteps)
  BY IndexedYields
<1>4. Closing = (b \o t) \o i
  BY DEF Closing
<1> HIDE DEF b, t, i
<1>5. Yields(b \o t,
       (BothSteps) \cup (Each("check", "trees", Copies("staged", Lanes \cup Sdks))))
  BY <1>1, <1>2, JoinYields
<1>6. Yields((b \o t) \o i,
       ((BothSteps) \cup (Each("check", "trees", Copies("staged", Lanes \cup Sdks)))) \cup (IndexedSteps))
  BY <1>5, <1>3, JoinYields
<1> QED  BY <1>4, <1>6 DEF ClosingSteps

-----------------------------------------------------------------------------
(* What precedes what.                                                    *)

Act(what, by, f) == [do |-> what, by |-> by, on |-> f]

\* Wherever q is in a sequence, p is before it.
Preceded(s, p, q) == \A i \in DOMAIN s : s[i] = q => \E j \in 1 .. i - 1 : s[j] = p

LEMMA JoinAt == ASSUME NEW s, NEW A, Yields(s, A), NEW t, NEW B, Yields(t, B)
  PROVE /\ Len(s) \in Nat /\ Len(t) \in Nat /\ Len(s \o t) = Len(s) + Len(t)
        /\ \A i \in 1 .. Len(s) : (s \o t)[i] = s[i]
        /\ \A i \in Len(s) + 1 .. Len(s) + Len(t) : (s \o t)[i] = t[i - Len(s)]
BY DEF Yields

LEMMA YieldsAt == ASSUME NEW s, NEW A, Yields(s, A)
  PROVE /\ DOMAIN s = 1 .. Len(s) /\ Len(s) \in Nat
        /\ \A i \in 1 .. Len(s) : s[i] \in A
        /\ \A p \in A : \E i \in 1 .. Len(s) : s[i] = p
BY DEF Yields, Range

LEMMA NotPreceded == ASSUME NEW s, NEW A, Yields(s, A), NEW p, NEW q, q \notin A PROVE Preceded(s, p, q)
BY YieldsAt DEF Preceded

LEMMA PrecededJoin == ASSUME NEW s, NEW A, Yields(s, A), NEW t, NEW B, Yields(t, B), NEW p, NEW q,
                             Preceded(s, p, q), p \in A \/ Preceded(t, p, q)
  PROVE Preceded(s \o t, p, q)
<1>1. SUFFICES ASSUME NEW i \in 1 .. Len(s) + Len(t), (s \o t)[i] = q
               PROVE  \E j \in 1 .. i - 1 : (s \o t)[j] = p
  <2>1. DOMAIN (s \o t) = 1 .. Len(s) + Len(t)
    BY YieldsAt, JoinYields, JoinAt
  <2> QED  BY <2>1 DEF Preceded
<1>2. Len(s) \in Nat /\ Len(t) \in Nat
  BY JoinAt
<1>3. CASE i <= Len(s)
  <2>1. i \in DOMAIN s /\ s[i] = q
    BY <1>1, <1>2, <1>3, JoinAt, YieldsAt
  <2>2. PICK j \in 1 .. i - 1 : s[j] = p
    BY <2>1 DEF Preceded
  <2>3. j \in 1 .. Len(s)
    BY <1>2, <1>3
  <2> QED  BY <2>2, <2>3, JoinAt
<1>4. CASE i > Len(s) /\ p \in A
  <2>1. PICK j \in 1 .. Len(s) : s[j] = p
    BY <1>4, YieldsAt
  <2>2. j \in 1 .. i - 1
    BY <1>2, <1>4
  <2> QED  BY <2>1, <2>2, JoinAt
<1>5. CASE i > Len(s) /\ Preceded(t, p, q)
  <2>1. i - Len(s) \in DOMAIN t /\ t[i - Len(s)] = q
    BY <1>1, <1>2, <1>5, JoinAt, YieldsAt
  <2>2. PICK j \in 1 .. (i - Len(s)) - 1 : t[j] = p
    BY <1>5, <2>1 DEF Preceded
  <2>3. j + Len(s) \in Len(s) + 1 .. Len(s) + Len(t) /\ j + Len(s) \in 1 .. i - 1 /\ (j + Len(s)) - Len(s) = j
    BY <1>2, <2>2
  <2>4. (s \o t)[j + Len(s)] = p
    BY <2>2, <2>3, JoinAt
  <2> QED  BY <2>3, <2>4
<1> QED  BY <1>2, <1>3, <1>4, <1>5

LEMMA EachIs == ASSUME NEW what, NEW by, NEW files, NEW w, NEW b, NEW f
  PROVE Act(w, b, f) \in Each(what, by, files) <=> w = what /\ b = by /\ f \in files
BY DEF Act, Each

(* Which steps the parts have, as far as the proofs ask for it. *)

LEMMA StagedAre ==
  /\ \A x, S : <<"staged", x>> \in Copies("staged", S) <=> x \in S
  /\ \A x, S : <<"package", x>> \in Copies("package", S) <=> x \in S
  /\ \A x, S : <<"member", x>> \in Copies("member", S) <=> x \in S
  /\ \A x, S : <<"sbom", x>> \in Copies("sbom", S) <=> x \in S
  /\ \A x, S : <<"a", x>> \in Copies("a", S) <=> x \in S
  /\ \A x, S : <<"b", x>> \in Copies("b", S) <=> x \in S
BY DEF Copies

LEMMA OpeningHas ==
  /\ \A b, f : Act("hold", b, f) \in OpeningSteps <=>
       (b = "release" /\ f \in CompilerHeld) \/ (b = "release_sdk" /\ f \in SdkHeld)
  /\ \A w, b, f : Act(w, b, f) \in OpeningSteps => w \notin Commands \cup {"stream"}
<1>1. ASSUME NEW b, NEW f
      PROVE  Act("hold", b, f) \in OpeningSteps <=>
         (b = "release" /\ f \in CompilerHeld) \/ (b = "release_sdk" /\ f \in SdkHeld)
  <2> DEFINE H == Each("hold", "release", CompilerHeld)
             K == Each("hold", "release_sdk", SdkHeld)
             R == Each("absent", "release", {None}) \cup BothSteps \cup Each("make", "release", {None})
  <2>1. Act("hold", b, f) \in H <=> b = "release" /\ f \in CompilerHeld
    BY DEF Act, Each
  <2>2. Act("hold", b, f) \in K <=> b = "release_sdk" /\ f \in SdkHeld
    BY DEF Act, Each
  <2>3. Act("hold", b, f) \notin R
    BY DEF BothSteps, Act, Each
  <2>4. \A q : q \in OpeningSteps <=> q \in H \/ q \in K \/ q \in R
    <3>1. OpeningSteps = H \cup K \cup R
      BY DEF OpeningSteps
    <3> HIDE DEF H, K, R
    <3> QED  BY <3>1
  <2> HIDE DEF H, K, R
  <2>5. Act("hold", b, f) \in OpeningSteps <=> Act("hold", b, f) \in H \/ Act("hold", b, f) \in K
    BY <2>3, <2>4, Zenon
  <2> QED  BY <2>1, <2>2, <2>5, Zenon
<1>2. ASSUME NEW w, NEW b, NEW f
      PROVE  Act(w, b, f) \in OpeningSteps => w \notin Commands \cup {"stream"}
  BY DEF OpeningSteps, BothSteps, Commands, Act, Each
<1> QED  BY <1>1, <1>2

LEMMA CompilerHas ==
  /\ \A b, f : Act("hold", b, f) \in CompilerSteps <=> b = "compiler" /\ f \in CompilerHeld
  /\ \A b, f : Act("verify", b, f) \in CompilerSteps <=> b = "compiler" /\ f \in Pairs
  /\ \A b, f : Act("compare", b, f) \in CompilerSteps => f \in Copies("a", Lanes)
  /\ \A b, f : Act("stream", b, f) \in CompilerSteps <=> b = "compiler" /\ f \in Copies("staged", Lanes)
  /\ \A b, f : Act("describe", b, f) \notin CompilerSteps /\ Act("index", b, f) \notin CompilerSteps
<1>1. ASSUME NEW b, NEW f
      PROVE  Act("hold", b, f) \in CompilerSteps <=> b = "compiler" /\ f \in CompilerHeld
  BY DEF CompilerSteps, CompilerWorkSteps, CompilerBarrierSteps, AllLanes, AllCopies, Act, Each
<1>2. ASSUME NEW b, NEW f
      PROVE  Act("verify", b, f) \in CompilerSteps <=> b = "compiler" /\ f \in Pairs
  BY DEF CompilerSteps, CompilerWorkSteps, CompilerBarrierSteps, AllLanes, AllCopies, Act, Each
<1>3. ASSUME NEW b, NEW f
      PROVE  Act("compare", b, f) \in CompilerSteps => f \in Copies("a", Lanes)
  BY DEF CompilerSteps, CompilerWorkSteps, CompilerBarrierSteps, AllLanes, AllCopies, Act, Each
<1>4. ASSUME NEW b, NEW f
      PROVE  Act("stream", b, f) \in CompilerSteps <=> b = "compiler" /\ f \in Copies("staged", Lanes)
  BY DEF CompilerSteps, CompilerWorkSteps, CompilerBarrierSteps, AllLanes, AllCopies, Act, Each
<1>5. ASSUME NEW b, NEW f
      PROVE  Act("describe", b, f) \notin CompilerSteps /\ Act("index", b, f) \notin CompilerSteps
  BY DEF CompilerSteps, CompilerWorkSteps, CompilerBarrierSteps, AllLanes, AllCopies, Act, Each
<1> QED  BY <1>1, <1>2, <1>3, <1>4, <1>5

LEMMA SdkHas ==
  /\ \A b, f : Act("hold", b, f) \in SdkSteps <=> b = "sdk" /\ f \in SdkHeld
  /\ \A b, f : Act("verify", b, f) \in SdkSteps <=> b = "sdk" /\ f \in Copies("package", Sdks)
  /\ \A b, f : Act("stream", b, f) \in SdkSteps <=> b = "sdk" /\ f \in Copies("staged", Sdks)
  /\ \A b, f : /\ Act("compare", b, f) \notin SdkSteps
                /\ Act("describe", b, f) \notin SdkSteps /\ Act("index", b, f) \notin SdkSteps
<1>1. ASSUME NEW b, NEW f
      PROVE  Act("hold", b, f) \in SdkSteps <=> b = "sdk" /\ f \in SdkHeld
  BY DEF SdkSteps, SdkWorkSteps, SdkBarrierSteps, AllSdkPackages, AllCopies, Act, Each
<1>2. ASSUME NEW b, NEW f
      PROVE  Act("verify", b, f) \in SdkSteps <=> b = "sdk" /\ f \in Copies("package", Sdks)
  BY DEF SdkSteps, SdkWorkSteps, SdkBarrierSteps, AllSdkPackages, AllCopies, Act, Each
<1>3. ASSUME NEW b, NEW f
      PROVE  Act("stream", b, f) \in SdkSteps <=> b = "sdk" /\ f \in Copies("staged", Sdks)
  BY DEF SdkSteps, SdkWorkSteps, SdkBarrierSteps, AllSdkPackages, AllCopies, Act, Each
<1>4. ASSUME NEW b, NEW f
      PROVE  /\ Act("compare", b, f) \notin SdkSteps
         /\ Act("describe", b, f) \notin SdkSteps /\ Act("index", b, f) \notin SdkSteps
  BY DEF SdkSteps, SdkWorkSteps, SdkBarrierSteps, AllSdkPackages, AllCopies, Act, Each
<1> QED  BY <1>1, <1>2, <1>3, <1>4

LEMMA PackagingHas ==
  /\ \A b, f : Act("hold", b, f) \in PackagingSteps => b \notin {"release", "release_sdk", "inventory"}
  /\ \A b, f : Act("verify", b, f) \in PackagingSteps <=>
       (b = "compiler" /\ f \in Pairs) \/ (b = "sdk" /\ f \in Copies("package", Sdks))
  /\ \A b, f : Act("compare", b, f) \in PackagingSteps => f \in Copies("a", Lanes)
  /\ \A b, f : Act("stream", b, f) \in PackagingSteps <=>
       (b = "compiler" /\ f \in Copies("staged", Lanes)) \/ (b = "sdk" /\ f \in Copies("staged", Sdks))
  /\ \A b, f : Act("describe", b, f) \notin PackagingSteps /\ Act("index", b, f) \notin PackagingSteps
<1>0. \A w, b, f : Act(w, b, f) \in PackagingSteps =>
        Act(w, b, f) \in CompilerSteps \cup SdkSteps \/ (w = "hold" /\ b = "trees")
  <2>1. SUFFICES ASSUME NEW w, NEW b, NEW f
                 PROVE  Act(w, b, f) \in PackagingSteps =>
                          Act(w, b, f) \in CompilerSteps \cup SdkSteps \/ (w = "hold" /\ b = "trees")
    OBVIOUS
  <2> DEFINE T == Each("hold", "trees", Copies("staged", Lanes)) \cup Each("hold", "trees", Copies("staged", Sdks))
  <2>2. Act(w, b, f) \in T => w = "hold" /\ b = "trees"
    BY DEF Act, Each
  <2>3. \A q : q \in PackagingSteps <=> q \in CompilerSteps \cup SdkSteps \/ q \in T
    <3>1. PackagingSteps = CompilerSteps \cup SdkSteps \cup T
      BY DEF PackagingSteps
    <3> HIDE DEF T
    <3> QED  BY <3>1
  <2> HIDE DEF T
  <2> QED  BY <2>2, <2>3, Zenon
<1>. CompilerSteps \subseteq PackagingSteps /\ SdkSteps \subseteq PackagingSteps
  BY DEF PackagingSteps
<1>1. ASSUME NEW b, NEW f
      PROVE  Act("hold", b, f) \in PackagingSteps => b \notin {"release", "release_sdk", "inventory"}
  BY <1>0, CompilerHas, SdkHas
<1>2. ASSUME NEW b, NEW f
      PROVE  Act("verify", b, f) \in PackagingSteps <=>
         (b = "compiler" /\ f \in Pairs) \/ (b = "sdk" /\ f \in Copies("package", Sdks))
  BY <1>0, CompilerHas, SdkHas
<1>3. ASSUME NEW b, NEW f
      PROVE  Act("compare", b, f) \in PackagingSteps => f \in Copies("a", Lanes)
  BY <1>0, CompilerHas, SdkHas
<1>4. ASSUME NEW b, NEW f
      PROVE  Act("stream", b, f) \in PackagingSteps <=>
         (b = "compiler" /\ f \in Copies("staged", Lanes)) \/ (b = "sdk" /\ f \in Copies("staged", Sdks))
  BY <1>0, CompilerHas, SdkHas
<1>5. ASSUME NEW b, NEW f
      PROVE  Act("describe", b, f) \notin PackagingSteps /\ Act("index", b, f) \notin PackagingSteps
  BY <1>0, CompilerHas, SdkHas
<1> QED  BY <1>1, <1>2, <1>3, <1>4, <1>5

LEMMA PublishingHas ==
  /\ \A b, f : Act("hold", b, f) \notin PublishingSteps
  /\ \A b, f : Act("verify", b, f) \notin PublishingSteps /\ Act("compare", b, f) \notin PublishingSteps
  /\ \A b, f : Act("stream", b, f) \in PublishingSteps <=>
       b = "release" /\ f \in Copies("member", Lanes \cup Sdks \cup {None})
  /\ \A b, f : Act("describe", b, f) \in PublishingSteps <=> b = "release" /\ f \in Copies("sbom", Sdks)
<1>1. \A f : f \in Copies("member", Lanes \cup Sdks \cup {None}) <=>
        f \in Copies("member", Lanes) \/ f \in Copies("member", Sdks) \/ f \in {<<"member", None>>}
  BY DEF Copies
<1>2. ASSUME NEW b, NEW f
      PROVE  Act("hold", b, f) \notin PublishingSteps
  BY <1>1 DEF PublishingSteps, AllCopies, MemberSteps, CopySteps, AllSboms, Around, IndexedSteps, Act, Each
<1>3. ASSUME NEW b, NEW f
      PROVE  Act("verify", b, f) \notin PublishingSteps /\ Act("compare", b, f) \notin PublishingSteps
  BY <1>1 DEF PublishingSteps, AllCopies, MemberSteps, CopySteps, AllSboms, Around, IndexedSteps, Act, Each
<1>4. ASSUME NEW b, NEW f
      PROVE  Act("stream", b, f) \in PublishingSteps <=>
         b = "release" /\ f \in Copies("member", Lanes \cup Sdks \cup {None})
  BY <1>1 DEF PublishingSteps, AllCopies, MemberSteps, CopySteps, AllSboms, Around, IndexedSteps, Act, Each
<1>5. ASSUME NEW b, NEW f
      PROVE  Act("describe", b, f) \in PublishingSteps <=> b = "release" /\ f \in Copies("sbom", Sdks)
  BY <1>1 DEF PublishingSteps, AllCopies, MemberSteps, CopySteps, AllSboms, Around, IndexedSteps, Act, Each
<1> QED  BY <1>2, <1>3, <1>4, <1>5

LEMMA ClosingHas ==
  /\ \A w, b, f : Act(w, b, f) \in ClosingSteps => w \in {"check", "list"}
  /\ \A f \in CompilerHeld : Act("check", "release", f) \in ClosingSteps
<1>1. ASSUME NEW w, NEW b, NEW f
      PROVE  Act(w, b, f) \in ClosingSteps => w \in {"check", "list"}
  BY DEF ClosingSteps, BothSteps, IndexedSteps, Act, Each
<1>2. ASSUME NEW f \in CompilerHeld
      PROVE  Act("check", "release", f) \in ClosingSteps
  BY DEF ClosingSteps, BothSteps, IndexedSteps, Act, Each
<1> QED  BY <1>1, <1>2
-----------------------------------------------------------------------------
(* The program: what is held first, the commands, what is compared last.   *)

Prepared == Opening \o Packaging
Worked == Prepared \o Publishing
Opened == Len(Opening)
Published == Len(Worked)

LEMMA PartsYield ==
  /\ Yields(Prepared, OpeningSteps \cup PackagingSteps)
  /\ Yields(Worked, (OpeningSteps \cup PackagingSteps) \cup PublishingSteps)
  /\ Program = Worked \o Closing
  /\ Yields(Program, ((OpeningSteps \cup PackagingSteps) \cup PublishingSteps) \cup ClosingSteps)
<1>1. Yields(Prepared, OpeningSteps \cup PackagingSteps)
  BY OpeningYields, PackagingYields, JoinYields DEF Prepared
<1>2. Yields(Worked, (OpeningSteps \cup PackagingSteps) \cup PublishingSteps)
  BY <1>1, PublishingYields, JoinYields DEF Worked
<1>3. Program = Worked \o Closing
  BY DEF Program, Worked, Prepared
<1> QED  BY <1>1, <1>2, <1>3, ClosingYields, JoinYields

\* Where the parts begin and end.
LEMMA Sections ==
  /\ Opened \in Nat /\ Published \in Nat /\ Len(Program) \in Nat
  /\ Opened <= Published /\ Published <= Len(Program)
  /\ \A i \in 1 .. Opened : Program[i] \in OpeningSteps
  /\ \A i \in Opened + 1 .. Published : Program[i] \in PackagingSteps \cup PublishingSteps
  /\ \A i \in Published + 1 .. Len(Program) : Program[i] \in ClosingSteps
  /\ \A q \in OpeningSteps : \E i \in 1 .. Opened : Program[i] = q
  /\ \A q \in PackagingSteps \cup PublishingSteps : \E i \in 1 .. Published : Program[i] = q
  /\ \A q \in ClosingSteps : \E i \in Published + 1 .. Len(Program) : Program[i] = q
<1> DEFINE prep == Len(Prepared)
           w == (OpeningSteps \cup PackagingSteps) \cup PublishingSteps
<1>1. /\ Opened \in Nat /\ Len(Packaging) \in Nat /\ prep = Opened + Len(Packaging)
      /\ \A i \in 1 .. Opened : Prepared[i] = Opening[i]
      /\ \A i \in Opened + 1 .. prep : Prepared[i] = Packaging[i - Opened]
  BY OpeningYields, PackagingYields, JoinAt DEF Prepared, Opened
<1>2. /\ Len(Publishing) \in Nat /\ Published = prep + Len(Publishing)
      /\ \A i \in 1 .. prep : Worked[i] = Prepared[i]
      /\ \A i \in prep + 1 .. Published : Worked[i] = Publishing[i - prep]
  BY PartsYield, PublishingYields, JoinAt DEF Worked, Published
<1>3. /\ Len(Closing) \in Nat /\ Len(Program) = Published + Len(Closing)
      /\ \A i \in 1 .. Published : Program[i] = Worked[i]
      /\ \A i \in Published + 1 .. Len(Program) : Program[i] = Closing[i - Published]
  <2>1. Yields(Worked, w) /\ Program = Worked \o Closing
    BY PartsYield
  <2> HIDE DEF w
  <2> QED  BY <2>1, ClosingYields, JoinAt DEF Published
<1> HIDE DEF prep, w
<1>4. /\ \A i \in 1 .. Opened : Opening[i] \in OpeningSteps
      /\ \A i \in 1 .. Len(Packaging) : Packaging[i] \in PackagingSteps
      /\ \A i \in 1 .. Len(Publishing) : Publishing[i] \in PublishingSteps
      /\ \A i \in 1 .. Len(Closing) : Closing[i] \in ClosingSteps
  BY OpeningYields, PackagingYields, PublishingYields, ClosingYields, YieldsAt DEF Opened
<1>5. /\ \A q \in OpeningSteps : \E i \in 1 .. Opened : Opening[i] = q
      /\ \A q \in ClosingSteps : \E i \in 1 .. Len(Closing) : Closing[i] = q
  BY OpeningYields, ClosingYields, YieldsAt DEF Opened
<1>6. \A q \in PackagingSteps \cup PublishingSteps : \E i \in 1 .. Published : Worked[i] = q
  <2>1. Yields(Worked, w)
    BY PartsYield DEF w
  <2>2. \A q \in w : \E i \in 1 .. Published : Worked[i] = q
    BY <2>1, YieldsAt DEF Published
  <2> QED  BY <2>2 DEF w
<1>7. \A i \in 1 .. Opened : Program[i] = Opening[i]
  BY <1>1, <1>2, <1>3
<1>8. ASSUME NEW i \in Opened + 1 .. Published PROVE Program[i] \in PackagingSteps \cup PublishingSteps
  <2>1. CASE i <= prep
    <3>1. Program[i] = Packaging[i - Opened] /\ i - Opened \in 1 .. Len(Packaging)
      BY <1>1, <1>2, <1>3, <2>1
    <3> QED  BY <3>1, <1>4
  <2>2. CASE i > prep
    <3>1. Program[i] = Publishing[i - prep] /\ i - prep \in 1 .. Len(Publishing)
      BY <1>1, <1>2, <1>3, <2>2
    <3> QED  BY <3>1, <1>4
  <2> QED  BY <1>1, <2>1, <2>2
<1>9. ASSUME NEW i \in Published + 1 .. Len(Program) PROVE Program[i] \in ClosingSteps
  <2>1. i - Published \in 1 .. Len(Closing) /\ Program[i] = Closing[i - Published]
    BY <1>1, <1>2, <1>3
  <2> QED  BY <2>1, <1>4
<1>10. ASSUME NEW q \in ClosingSteps PROVE \E i \in Published + 1 .. Len(Program) : Program[i] = q
  <2>1. PICK j \in 1 .. Len(Closing) : Closing[j] = q
    BY <1>5
  <2>2. /\ j + Published \in Published + 1 .. Len(Program)
        /\ (j + Published) - Published = j
    BY <1>1, <1>2, <1>3
  <2>3. Program[j + Published] = q
    BY <1>3, <2>1, <2>2
  <2> QED  BY <2>2, <2>3
<1>11. /\ Published \in Nat /\ Len(Program) \in Nat /\ Opened <= Published /\ Published <= Len(Program)
  BY <1>1, <1>2, <1>3
<1>12. ASSUME NEW q \in OpeningSteps PROVE \E i \in 1 .. Opened : Program[i] = q
  BY <1>5, <1>7
<1>13. ASSUME NEW i \in 1 .. Opened PROVE Program[i] \in OpeningSteps
  BY <1>4, <1>7
<1>14. \A q \in PackagingSteps \cup PublishingSteps : \E i \in 1 .. Published : Program[i] = q
  BY <1>3, <1>6
<1> QED  BY <1>1, <1>8, <1>9, <1>10, <1>11, <1>12, <1>13, <1>14

LEMMA ActOf == ASSUME NEW q \in AllSteps PROVE q = Act(q.do, q.by, q.on)
BY DEF AllSteps, Act

Releasing == {"release", "release_sdk"}

\* What a step of the program can be, by what it does.
LEMMA StepsAre == ASSUME NEW i \in 1 .. Len(Program)
  PROVE /\ Program[i].do \in Whats /\ Program[i].by \in Holders
        /\ Program[i].do \in Commands => Opened < i /\ i <= Published
        /\ Program[i].do = "stream" => Opened < i
        /\ Program[i].do = "hold" => /\ Program[i].by # "inventory"
                                     /\ Program[i].by \in Releasing => i <= Opened
        /\ Program[i].do = "verify" =>
             \/ Program[i].by = "compiler" /\ Program[i].on \in Pairs
             \/ Program[i].by = "sdk" /\ Program[i].on \in Copies("package", Sdks)
        /\ Program[i].do = "compare" => Program[i].on \in Copies("a", Lanes)
        /\ Program[i].do = "describe" => Program[i].on \in Copies("sbom", Sdks)
        /\ Program[i].do = "stream" =>
             \/ Program[i].by = "compiler" /\ Program[i].on \in Copies("staged", Lanes)
             \/ Program[i].by = "sdk" /\ Program[i].on \in Copies("staged", Sdks)
             \/ Program[i].by = "release" /\ Program[i].on \in Copies("member", Lanes \cup Sdks \cup {None})
<1> DEFINE q == Program[i]
           w == Program[i].do
           b == Program[i].by
           f == Program[i].on
<1>1. q \in AllSteps
  <2>1. Program \in Seq(AllSteps)
    BY PartsYield DEF Yields
  <2> QED  BY <2>1
<1>2. q = Act(w, b, f) /\ w \in Whats /\ b \in Holders
  BY <1>1, ActOf DEF AllSteps
<1> HIDE DEF q, w, b, f
<1>3. \/ i <= Opened /\ Act(w, b, f) \in OpeningSteps
      \/ Opened < i /\ i <= Published /\ Act(w, b, f) \in PackagingSteps
      \/ Opened < i /\ i <= Published /\ Act(w, b, f) \in PublishingSteps
      \/ Act(w, b, f) \in ClosingSteps
  BY <1>2, Sections DEF q
<1>4. (w \in Commands => Opened < i /\ i <= Published) /\ (w = "stream" => Opened < i)
  BY <1>3, OpeningHas, ClosingHas, Sections DEF Commands
<1>5. w = "hold" => b # "inventory" /\ (b \in Releasing => i <= Opened)
  BY <1>3, OpeningHas, PackagingHas, PublishingHas, ClosingHas DEF Releasing
<1>6. w = "verify" => \/ b = "compiler" /\ f \in Pairs
                      \/ b = "sdk" /\ f \in Copies("package", Sdks)
  BY <1>3, OpeningHas, PackagingHas, PublishingHas, ClosingHas DEF Commands
<1>7. w = "compare" => f \in Copies("a", Lanes)
  BY <1>3, OpeningHas, PackagingHas, PublishingHas, ClosingHas DEF Commands
<1>8. w = "describe" => f \in Copies("sbom", Sdks)
  BY <1>3, OpeningHas, PackagingHas, PublishingHas, ClosingHas DEF Commands
<1>9. w = "stream" =>
        \/ b = "compiler" /\ f \in Copies("staged", Lanes)
        \/ b = "sdk" /\ f \in Copies("staged", Sdks)
        \/ b = "release" /\ f \in Copies("member", Lanes \cup Sdks \cup {None})
  BY <1>3, OpeningHas, PackagingHas, PublishingHas, ClosingHas
<1> QED  BY <1>2, <1>4, <1>5, <1>6, <1>7, <1>8, <1>9 DEF q, w, b, f

\* What the program does at some time.
LEMMA Visits ==
  /\ \A f \in CompilerHeld : \E i \in 1 .. Opened : Program[i] = Act("hold", "release", f)
  /\ \A f \in SdkHeld : \E i \in 1 .. Opened : Program[i] = Act("hold", "release_sdk", f)
  /\ \A f \in CompilerHeld : \E i \in Published + 1 .. Len(Program) : Program[i] = Act("check", "release", f)
  /\ \A f \in Sources \ {Tool, Doc} :
       \E i \in 1 .. Len(Program) : Program[i].do = "verify" /\ Program[i].on = f
  /\ \A m \in Members :
       \E i \in 1 .. Len(Program) : Program[i].do \in {"stream", "describe"} /\ Program[i].on = m
<1> DEFINE Within == \A q \in PackagingSteps \cup PublishingSteps : \E i \in 1 .. Len(Program) : Program[i] = q
<1>1. Within
  <2>1. \A q \in PackagingSteps \cup PublishingSteps : \E i \in 1 .. Published : Program[i] = q
    BY Sections
  <2>2. \A i \in 1 .. Published : i \in 1 .. Len(Program)
    BY Sections
  <2> QED  BY <2>1, <2>2
<1>2. ASSUME NEW f \in CompilerHeld PROVE \E i \in 1 .. Opened : Program[i] = Act("hold", "release", f)
  BY OpeningHas, Sections
<1>3. ASSUME NEW f \in SdkHeld PROVE \E i \in 1 .. Opened : Program[i] = Act("hold", "release_sdk", f)
  BY OpeningHas, Sections
<1>4. ASSUME NEW f \in CompilerHeld
      PROVE  \E i \in Published + 1 .. Len(Program) : Program[i] = Act("check", "release", f)
  BY ClosingHas, Sections
<1>5. ASSUME NEW f \in Sources \ {Tool, Doc}
      PROVE  \E i \in 1 .. Len(Program) : Program[i].do = "verify" /\ Program[i].on = f
  <2>1. f \in Pairs \/ f \in Copies("package", Sdks)
    BY DEF Sources, Pairs
  <2>2. Act("verify", "compiler", f) \in PackagingSteps \/ Act("verify", "sdk", f) \in PackagingSteps
    BY <2>1, PackagingHas
  <2>3. \E i \in 1 .. Len(Program) : Program[i] = Act("verify", "compiler", f) \/ Program[i] = Act("verify", "sdk", f)
    BY <1>1, <2>2
  <2> QED  BY <2>3 DEF Act
<1>6. ASSUME NEW m \in Members
      PROVE  \E i \in 1 .. Len(Program) : Program[i].do \in {"stream", "describe"} /\ Program[i].on = m
  <2>1. m \in Copies("member", Lanes \cup Sdks \cup {None}) \/ m \in Copies("sbom", Sdks)
    BY DEF Members
  <2>2. Act("stream", "release", m) \in PublishingSteps \/ Act("describe", "release", m) \in PublishingSteps
    BY <2>1, PublishingHas
  <2>3. \E i \in 1 .. Len(Program) : Program[i] = Act("stream", "release", m) \/ Program[i] = Act("describe", "release", m)
    BY <1>1, <2>2
  <2> QED  BY <2>3 DEF Act
<1> QED  BY <1>2, <1>3, <1>4, <1>5, <1>6

LEMMA Precedence == ASSUME NEW p, NEW q, p \in PackagingSteps, q \notin OpeningSteps, Preceded(Packaging, p, q)
  PROVE Preceded(Program, p, q)
<1>1. Preceded(Prepared, p, q)
  BY OpeningYields, PackagingYields, NotPreceded, PrecededJoin DEF Prepared
<1> DEFINE A == OpeningSteps \cup PackagingSteps
           B == A \cup PublishingSteps
<1>2. Yields(Prepared, A) /\ Yields(Worked, B) /\ Program = Worked \o Closing /\ p \in A /\ p \in B
  BY PartsYield
<1> HIDE DEF A, B
<1>3. Preceded(Worked, p, q)
  BY <1>1, <1>2, PublishingYields, PrecededJoin DEF Worked
<1> QED  BY <1>2, <1>3, ClosingYields, PrecededJoin

LEMMA CompilerPrecedence == ASSUME NEW p, NEW q, p \in CompilerSteps, q \notin OpeningSteps,
                                   Preceded(CompilerAssembly, p, q)
  PROVE Preceded(Program, p, q)
<1> DEFINE s == CompilerAssembly
           t == Do("hold", "trees", Stage(Lanes))
           k == SdkAssembly
           u == Do("hold", "trees", Stage(Sdks))
           T == Each("hold", "trees", Copies("staged", Lanes))
           U == Each("hold", "trees", Copies("staged", Sdks))
<1>1. Yields(s, CompilerSteps) /\ Yields(k, SdkSteps)
  BY CompilerAssemblyYields, SdkAssemblyYields
<1>2. Yields(t, T) /\ Yields(u, U)
  BY DoLists, StageIs DEF Whats, Commands, Holders, ByStat
<1>3. Packaging = ((s \o t) \o k) \o u
  BY DEF Packaging
<1>4. p \in PackagingSteps /\ Preceded(s, p, q)
  BY DEF PackagingSteps
<1> HIDE DEF s, t, k, u, T, U
<1>5. Yields(s \o t, CompilerSteps \cup T) /\ Preceded(s \o t, p, q)
  BY <1>1, <1>2, <1>4, JoinYields, PrecededJoin
<1>6. Yields((s \o t) \o k, (CompilerSteps \cup T) \cup SdkSteps) /\ Preceded((s \o t) \o k, p, q)
  <2>1. p \in CompilerSteps \cup T
    OBVIOUS
  <2> QED  BY <1>1, <1>5, <2>1, JoinYields, PrecededJoin
<1>7. Preceded(((s \o t) \o k) \o u, p, q)
  <2>1. p \in (CompilerSteps \cup T) \cup SdkSteps
    OBVIOUS
  <2> QED  BY <1>2, <1>6, <2>1, PrecededJoin
<1> QED  BY <1>3, <1>4, <1>7, Precedence

LEMMA SdkPrecedence == ASSUME NEW p, NEW q, p \in SdkSteps, q \notin OpeningSteps, q \notin CompilerSteps,
                              q \notin Each("hold", "trees", Copies("staged", Lanes)),
                              Preceded(SdkAssembly, p, q)
  PROVE Preceded(Program, p, q)
<1> DEFINE s == CompilerAssembly
           t == Do("hold", "trees", Stage(Lanes))
           k == SdkAssembly
           u == Do("hold", "trees", Stage(Sdks))
           T == Each("hold", "trees", Copies("staged", Lanes))
           U == Each("hold", "trees", Copies("staged", Sdks))
<1>1. Yields(s, CompilerSteps) /\ Yields(k, SdkSteps)
  BY CompilerAssemblyYields, SdkAssemblyYields
<1>2. Yields(t, T) /\ Yields(u, U)
  BY DoLists, StageIs DEF Whats, Commands, Holders, ByStat
<1>3. Packaging = ((s \o t) \o k) \o u
  BY DEF Packaging
<1>4. p \in PackagingSteps /\ Preceded(k, p, q) /\ q \notin CompilerSteps \cup T
  BY DEF PackagingSteps
<1> HIDE DEF s, t, k, u, T, U
<1>5. Yields(s \o t, CompilerSteps \cup T)
  BY <1>1, <1>2, JoinYields
<1>6. Preceded(s \o t, p, q)
  BY <1>4, <1>5, NotPreceded
<1>7. Yields((s \o t) \o k, (CompilerSteps \cup T) \cup SdkSteps) /\ Preceded((s \o t) \o k, p, q)
  BY <1>1, <1>4, <1>5, <1>6, JoinYields, PrecededJoin
<1>8. Preceded(((s \o t) \o k) \o u, p, q)
  <2>1. p \in (CompilerSteps \cup T) \cup SdkSteps
    OBVIOUS
  <2> QED  BY <1>2, <1>7, <2>1, PrecededJoin
<1> QED  BY <1>3, <1>4, <1>8, Precedence

\* What a step is about was held, or written, by an earlier step.
LEMMA Orders ==
  /\ \A x \in Sdks : Preceded(Program, Act("hold", "sdk", <<"package", x>>), Act("verify", "sdk", <<"package", x>>))
  /\ \A x \in Sdks : Preceded(Program, Act("hold", "sdk", <<"package", x>>), Act("stream", "sdk", <<"staged", x>>))
  /\ \A x \in Lanes : Preceded(Program, Act("hold", "compiler", <<"a", x>>), Act("stream", "compiler", <<"staged", x>>))
  /\ \A x \in Lanes :
       Preceded(Program, Act("stream", "compiler", <<"staged", x>>), Act("stream", "release", <<"member", x>>))
  /\ \A x \in Sdks :
       Preceded(Program, Act("stream", "sdk", <<"staged", x>>), Act("stream", "release", <<"member", x>>))
<1>1. ASSUME NEW p, NEW q, p \in Each("hold", "sdk", SdkHeld), q \notin Each("hold", "sdk", SdkHeld)
      PROVE  Preceded(SdkAssembly, p, q)
  <2> DEFINE h == Do("hold", "sdk", SdkFiles)
             H == Each("hold", "sdk", SdkHeld)
  <2>1. Yields(h, H) /\ Yields(SdkWork, SdkWorkSteps) /\ SdkAssembly = h \o SdkWork
    BY DoLists, SdkFilesAre, SdkWorkYields DEF Whats, Commands, Holders, ByStat, SdkAssembly
  <2>2. p \in H /\ q \notin H
    BY <1>1
  <2> HIDE DEF h, H
  <2> QED  BY <2>1, <2>2, NotPreceded, PrecededJoin
<1>2. ASSUME NEW p, NEW q, p \in Each("hold", "compiler", CompilerHeld), q \notin Each("hold", "compiler", CompilerHeld)
      PROVE  Preceded(CompilerAssembly, p, q)
  <2> DEFINE h == Do("hold", "compiler", CompilerFiles)
             H == Each("hold", "compiler", CompilerHeld)
  <2>1. Yields(h, H) /\ Yields(CompilerWork, CompilerWorkSteps) /\ CompilerAssembly = h \o CompilerWork
    BY DoLists, CompilerFilesAre, CompilerWorkYields DEF Whats, Commands, Holders, ByStat, CompilerAssembly
  <2>2. p \in H /\ q \notin H
    BY <1>2
  <2> HIDE DEF h, H
  <2> QED  BY <2>1, <2>2, NotPreceded, PrecededJoin
<1>3. ASSUME NEW x \in Sdks, NEW what \in {"verify", "stream"}, NEW f,
             Act(what, "sdk", f) \notin CompilerSteps
      PROVE  Preceded(Program, Act("hold", "sdk", <<"package", x>>), Act(what, "sdk", f))
  <2> DEFINE p == Act("hold", "sdk", <<"package", x>>)
             q == Act(what, "sdk", f)
  <2>1. <<"package", x>> \in SdkHeld
    BY StagedAre DEF SdkHeld
  <2>2. p \in Each("hold", "sdk", SdkHeld) /\ p \in SdkSteps
    BY <2>1, SdkHas DEF Act, Each
  <2>3. q \notin Each("hold", "sdk", SdkHeld) /\ q \notin Each("hold", "trees", Copies("staged", Lanes))
    BY DEF Act, Each
  <2>4. q \notin OpeningSteps
    BY OpeningHas DEF Commands
  <2> HIDE DEF p, q
  <2>5. Preceded(SdkAssembly, p, q)
    BY <1>1, <2>2, <2>3
  <2> QED  BY <1>3, <2>2, <2>3, <2>4, <2>5, SdkPrecedence DEF p, q
<1>4. ASSUME NEW x \in Sdks
      PROVE  Preceded(Program, Act("hold", "sdk", <<"package", x>>), Act("verify", "sdk", <<"package", x>>))
  <2>1. Act("verify", "sdk", <<"package", x>>) \notin CompilerSteps
    BY CompilerHas
  <2> QED  BY <1>3, <2>1
<1>5. ASSUME NEW x \in Sdks
      PROVE  Preceded(Program, Act("hold", "sdk", <<"package", x>>), Act("stream", "sdk", <<"staged", x>>))
  <2>1. Act("stream", "sdk", <<"staged", x>>) \notin CompilerSteps
    BY CompilerHas
  <2> QED  BY <1>3, <2>1
<1>6. ASSUME NEW x \in Lanes
      PROVE  Preceded(Program, Act("hold", "compiler", <<"a", x>>), Act("stream", "compiler", <<"staged", x>>))
  <2> DEFINE p == Act("hold", "compiler", <<"a", x>>)
             q == Act("stream", "compiler", <<"staged", x>>)
  <2>1. <<"a", x>> \in CompilerHeld
    BY StagedAre DEF CompilerHeld, Pairs
  <2>2. p \in Each("hold", "compiler", CompilerHeld) /\ p \in CompilerSteps
    BY <2>1, CompilerHas DEF Act, Each
  <2>3. q \notin Each("hold", "compiler", CompilerHeld)
    BY DEF Act, Each
  <2>4. q \notin OpeningSteps
    BY OpeningHas DEF Commands
  <2> HIDE DEF p, q
  <2>5. Preceded(CompilerAssembly, p, q)
    BY <1>2, <2>2, <2>3
  <2> QED  BY <2>2, <2>4, <2>5, CompilerPrecedence DEF p, q
<1>7. ASSUME NEW by, NEW x, Act("stream", by, <<"staged", x>>) \in PackagingSteps
      PROVE  Preceded(Program, Act("stream", by, <<"staged", x>>), Act("stream", "release", <<"member", x>>))
  <2> DEFINE p == Act("stream", by, <<"staged", x>>)
             q == Act("stream", "release", <<"member", x>>)
  <2>1. q \notin OpeningSteps
    BY OpeningHas DEF Commands
  <2>2. q \notin PackagingSteps
    <3>1. \A b, f : Act("stream", b, f) \in PackagingSteps => b \in {"compiler", "sdk"}
      BY PackagingHas
    <3>2. "release" \notin {"compiler", "sdk"}
      OBVIOUS
    <3> QED  BY <3>1, <3>2
  <2> HIDE DEF p, q
  <2>3. Preceded(Packaging, p, q)
    BY <2>2, PackagingYields, NotPreceded
  <2> QED  BY <1>7, <2>1, <2>3, Precedence DEF p, q
<1>8. /\ \A x \in Lanes : Act("stream", "compiler", <<"staged", x>>) \in PackagingSteps
      /\ \A x \in Sdks : Act("stream", "sdk", <<"staged", x>>) \in PackagingSteps
  BY PackagingHas, StagedAre
<1> QED  BY <1>4, <1>5, <1>6, <1>7, <1>8
-----------------------------------------------------------------------------
(* The inductive invariant.                                                *)

\* A fingerprint grows with each change, so no more often than there is trouble.
Marked == \A f \in Files : file[f] # None => file[f].mark <= troubles
Existing == \A f \in Sources : file[f] # None
Placed == (end = "running" => at <= Len(Program)) /\ (end = "returned" => at = Len(Program) + 1)

\* What a step leaves behind, and every step so far has.
Left(i) ==
  /\ Program[i].do = "hold" /\ Program[i].on \in Files => held[Program[i].by][Program[i].on] # None
  /\ Program[i].do \in {"stream", "describe"} =>
       file[Program[i].on] # None /\ held["inventory"][Program[i].on] # None
  /\ Program[i].do = "verify" => read[Program[i].on] # None
Done == \A i \in 1 .. at - 1 : Left(i)

\* No command runs before everything is held.
Untouched == at <= Opened + 1 => ~fooled /\ \A f \in Sources : read[f] = None

\* Something ran, or was read, that is not what was selected.
Astray(f) == IF f = Tool THEN fooled ELSE f \in Pairs /\ read[f] = "other"
KeptFile(f) == LET h == held["release"][f] IN
                 /\ h # None => h.mark <= file[f].mark /\ (h.mark = file[f].mark => h = file[f])
                 /\ Astray(f) => h # None /\ h.mark < file[f].mark
Kept == \A f \in CompilerHeld : KeptFile(f)

\* The comparisons after the last command.
Checked == \A i \in Published + 1 .. at - 1, f \in CompilerHeld :
             Program[i] = Act("check", "release", f) => ~Astray(f)

Copied == Staged \cup Copies("member", Lanes \cup Sdks \cup {None})
SelectedIn(f) == held["inventory"][f] # None => held["inventory"][f].data = "selected"
Selected == /\ \A f \in Copied : SelectedIn(f)
            /\ ~fooled => /\ \A f \in Copies("sbom", Sdks) : SelectedIn(f)
                          /\ \A f \in Copies("package", Sdks) : read[f] \in {None, "selected"}

ClashFree == \A f, g \in Members : f # g /\ clash = {f, g} => file[f] = None \/ file[g] = None

IInv == /\ TypeOK /\ Marked /\ Existing /\ Placed /\ Done /\ Untouched
        /\ Kept /\ Checked /\ Selected /\ ClashFree
-----------------------------------------------------------------------------
(* How each part of the invariant is kept.                                 *)

Grows == /\ \A h \in Holders, f \in Files : held[h][f] # None => held'[h][f] # None
         /\ \A f \in Files : file[f] # None => file'[f] # None
         /\ \A f \in Sources : read[f] # None => read'[f] # None

LEMMA StepFiles == ASSUME NEW i \in 1 .. Len(Program)
  PROVE /\ Program[i].by \in Holders
        /\ Program[i].do \in {"stream", "describe"} => Program[i].on \in Staged \cup Members
        /\ Program[i].do = "verify" => Program[i].on \in Sources
<1>1. Pairs \subseteq Sources /\ Copies("package", Sdks) \subseteq Sources
  BY DEF Pairs, Sources
<1>2. Copies("sbom", Sdks) \subseteq Members /\ Copies("member", Lanes \cup Sdks \cup {None}) \subseteq Members
  BY DEF Members
<1>3. Copies("staged", Lanes) \subseteq Staged /\ Copies("staged", Sdks) \subseteq Staged
  BY DEF Staged, Copies
<1> QED  BY <1>1, <1>2, <1>3, StepsAre

LEMMA DoneStep == ASSUME TypeOK, Done, Grows,
                         at' = at \/ (at' = at + 1 /\ at \in 1 .. Len(Program) /\ \A i \in 1 .. Len(Program) : i = at => Left(i)')
  PROVE Done'
<1>1. at \in Nat /\ at - 1 <= Len(Program) /\ Len(Program) \in Nat
  BY Sections DEF TypeOK
<1>2. ASSUME NEW i \in 1 .. at - 1 PROVE Left(i)'
  <2>1. i \in 1 .. Len(Program) /\ Left(i)
    BY <1>1 DEF Done
  <2>2. /\ Program[i].by \in Holders
        /\ Program[i].do \in {"stream", "describe"} => Program[i].on \in Files
        /\ Program[i].do = "verify" => Program[i].on \in Sources
    BY <2>1, StepFiles, FilesAre
  <2>3. "inventory" \in Holders
    BY DEF Holders
  <2> QED  BY <2>1, <2>2, <2>3 DEF Left, Grows
<1>3. CASE at' = at
  BY <1>2, <1>3 DEF Done
<1>4. CASE at' = at + 1 /\ at \in 1 .. Len(Program) /\ \A i \in 1 .. Len(Program) : i = at => Left(i)'
  <2>1. \A i \in 1 .. at' - 1 : i \in 1 .. at - 1 \/ i = at
    BY <1>1, <1>4
  <2>2. \A i \in 1 .. at' - 1 : Left(i)'
    BY <1>2, <1>4, <2>1
  <2> QED  BY <2>2 DEF Done
<1> QED  BY <1>3, <1>4

LEMMA Advance == ASSUME TypeOK, Placed, NEW what, Doing(what)
  PROVE /\ at \in 1 .. Len(Program) /\ Program[at].do = what
        /\ at' = at + 1 /\ at' \in 1 .. Len(Program) + 1
        /\ end' \in {"running", "returned"} /\ Placed'
        /\ clash' = clash /\ troubles' = troubles /\ stray' = stray
<1>1. at \in 1 .. Len(Program) /\ Len(Program) \in Nat
  BY Sections DEF TypeOK, Placed, Doing
<1>2. at' = at + 1 /\ end' = IF at = Len(Program) THEN "returned" ELSE "running"
  BY DEF Doing
<1> QED  BY <1>1, <1>2 DEF Doing, Step, Placed

LEMMA CheckedStep == ASSUME TypeOK, Checked,
                            at' = at \/ at' = at + 1,
                            at' > Published + 1 => UNCHANGED <<read, fooled>>,
                            at' = at + 1 => \A f \in CompilerHeld : Program[at] = Act("check", "release", f) => ~Astray(f)
  PROVE Checked'
<1>1. at \in Nat /\ Published \in Nat
  BY Sections DEF TypeOK
<1>2. SUFFICES ASSUME NEW i \in Published + 1 .. at' - 1, NEW f \in CompilerHeld,
                      Program[i] = Act("check", "release", f)
               PROVE  ~Astray(f)'
  BY DEF Checked
<1>3. at' > Published + 1
  BY <1>1
<1>4. Astray(f)' <=> Astray(f)
  BY <1>3 DEF Astray
<1>5. i \in Published + 1 .. at - 1 \/ (at' = at + 1 /\ i = at)
  BY <1>1
<1> QED  BY <1>2, <1>4, <1>5 DEF Checked

LEMMA UntouchedStep == ASSUME TypeOK, Untouched, at' = at \/ at' = at + 1,
                              UNCHANGED <<read, fooled>> \/ (at' = at + 1 /\ Opened < at)
  PROVE Untouched'
<1>1. at \in Nat /\ Opened \in Nat
  BY Sections DEF TypeOK
<1> QED  BY <1>1 DEF Untouched

\* Everything of the compiler lanes is held once the first command runs.
LEMMA AllHeld == ASSUME TypeOK, Done, Opened < at
  PROVE /\ \A f \in CompilerHeld : held["release"][f] # None
        /\ \A f \in SdkHeld : held["release_sdk"][f] # None
<1>1. at \in Nat /\ Opened \in Nat
  BY Sections DEF TypeOK
<1>2. CompilerHeld \subseteq Files /\ SdkHeld \subseteq Files
  BY DEF CompilerHeld, SdkHeld, Pairs, Files, Sources
<1>3. ASSUME NEW f \in CompilerHeld PROVE held["release"][f] # None
  <2>1. PICK i \in 1 .. Opened : Program[i] = Act("hold", "release", f)
    BY Visits
  <2>2. i \in 1 .. at - 1
    BY <1>1
  <2>3. Program[i].do = "hold" /\ Program[i].by = "release" /\ Program[i].on = f
    BY <2>1 DEF Act
  <2> QED  BY <1>2, <2>2, <2>3, Zenon DEF Done, Left
<1>4. ASSUME NEW f \in SdkHeld PROVE held["release_sdk"][f] # None
  <2>1. PICK i \in 1 .. Opened : Program[i] = Act("hold", "release_sdk", f)
    BY Visits
  <2>2. i \in 1 .. at - 1
    BY <1>1
  <2>3. Program[i].do = "hold" /\ Program[i].by = "release_sdk" /\ Program[i].on = f
    BY <2>1 DEF Act
  <2> QED  BY <1>2, <2>2, <2>3, Zenon DEF Done, Left
<1> QED  BY <1>3, <1>4

\* A file that is not what was selected was written after it was held.
LEMMA Rewritten == ASSUME TypeOK, Existing, Kept, Done, Opened < at, NEW f \in CompilerHeld, file[f].data # "selected"
  PROVE held["release"][f] # None /\ held["release"][f].mark < file[f].mark
<1>1. f \in Sources /\ f \in Files /\ "release" \in Holders
  BY FilesAre DEF CompilerHeld, Pairs, Sources, Holders, ByStat
<1>2. held["release"][f] # None
  BY AllHeld
<1>3. held["release"][f].data = "selected" /\ held["release"][f] \in Node
  BY <1>1, <1>2 DEF TypeOK
<1>4. held["release"][f].mark <= file[f].mark
      /\ (held["release"][f].mark = file[f].mark => held["release"][f] = file[f])
  BY <1>2 DEF Kept, KeptFile
<1>5. file[f] \in Node
  BY <1>1 DEF TypeOK, Existing
<1>6. held["release"][f].mark # file[f].mark
  BY <1>3, <1>4
<1>7. held["release"][f].mark \in Int /\ file[f].mark \in Int
  BY <1>3, <1>5, BoundAssumption DEF Node
<1> QED  BY <1>2, <1>4, <1>6, <1>7

Roots == {"absent", "own", "foreign"}
Strays == {"compiler", "sdk", "release"}

LEMMA Marks == ASSUME TypeOK
  PROVE /\ \A f \in Files : file[f] # None => file[f] \in Node /\ file[f].mark \in Nat /\ file[f].data \in Bytes
        /\ troubles \in Nat
<1>1. ASSUME NEW f \in Files, file[f] # None PROVE file[f] \in Node /\ file[f].mark \in Nat /\ file[f].data \in Bytes
  <2>1. file[f] \in Node
    BY <1>1 DEF TypeOK
  <2> QED  BY <2>1, BoundAssumption DEF Node
<1> QED  BY <1>1, BoundAssumption DEF TypeOK

\* Nothing the invariant is about changes.
LEMMA StillStep == ASSUME IInv, UNCHANGED <<file, clash, at, held, read, fooled>>,
                          root' \in Roots, stray' \subseteq Strays, end' \in {end, "failed", "killed"},
                          troubles' \in 0 .. Troubles, troubles <= troubles'
  PROVE IInv'
<1> USE DEF IInv
<1>1. TypeOK'
  BY DEF TypeOK, Roots, Strays
<1>2. Marked'
  <2>1. ASSUME NEW f \in Files, file'[f] # None PROVE file'[f].mark <= troubles'
    <3>1. file[f].mark <= troubles /\ file[f].mark \in Nat /\ troubles \in Nat /\ troubles' \in Nat
      BY <2>1, Marks, BoundAssumption DEF Marked
    <3> QED  BY <3>1
  <2> QED  BY <2>1 DEF Marked
<1>3. Existing' /\ Placed'
  BY DEF Existing, Placed
<1>4. Done'
  BY DEF Done, Left
<1>5. Untouched' /\ Checked'
  BY DEF Untouched, Checked, Astray
<1>6. Kept'
  BY DEF Kept, KeptFile, Astray
<1>7. Selected'
  BY DEF Selected, SelectedIn
<1>8. ClashFree'
  BY DEF ClashFree
<1> QED  BY <1>1, <1>2, <1>3, <1>4, <1>5, <1>6, <1>7, <1>8

\* A step that reads, compares or makes the root.
LEMMA QuietStep == ASSUME IInv, NEW what \in {"check", "list", "absent", "make", "reread"}, Doing(what),
                          UNCHANGED <<file, held, read, fooled>>, root' \in Roots,
                          \A f \in CompilerHeld : Program[at] = Act("check", "release", f) => ~Astray(f)
  PROVE IInv'
<1> USE DEF IInv
<1>1. /\ at \in 1 .. Len(Program) /\ Program[at].do = what
      /\ at' = at + 1 /\ at' \in 1 .. Len(Program) + 1
      /\ end' \in {"running", "returned"} /\ Placed'
      /\ clash' = clash /\ troubles' = troubles /\ stray' = stray
  BY Advance
<1>2. TypeOK'
  BY <1>1 DEF TypeOK, Roots
<1>3. Marked' /\ Existing'
  BY <1>1 DEF Marked, Existing
<1>4. Done'
  <2>1. Grows
    BY DEF Grows
  <2>2. \A i \in 1 .. Len(Program) : i = at => Left(i)'
    BY <1>1 DEF Left
  <2> QED  BY <1>1, <2>1, <2>2, DoneStep
<1>5. Untouched'
  BY <1>1, UntouchedStep
<1>6. Checked'
  BY <1>1, CheckedStep
<1>7. Kept'
  BY DEF Kept, KeptFile, Astray
<1>8. Selected'
  BY DEF Selected, SelectedIn
<1>9. ClashFree'
  BY <1>1 DEF ClashFree
<1> QED  BY <1>1, <1>2, <1>3, <1>4, <1>5, <1>6, <1>7, <1>8, <1>9

\* Someone else changes a file.
LEMMA EditStep == ASSUME IInv, NEW f \in Files, Edit(f) PROVE IInv'
<1> USE DEF IInv
<1>1. PICK data \in Bytes : file' = [file EXCEPT ![f] = [data |-> data, mark |-> file[f].mark + 1]]
  BY DEF Edit
<1>2. /\ UNCHANGED <<root, stray, end, clash, at, held, read, fooled>>
      /\ troubles < Troubles /\ troubles' = troubles + 1 /\ file[f] # None
  BY DEF Edit, Trouble
<1>3. file[f].mark \in Nat /\ file[f].mark <= troubles /\ troubles \in Nat /\ Troubles \in Nat
  BY <1>2, Marks, BoundAssumption DEF Marked
<1>4. file'[f] = [data |-> data, mark |-> file[f].mark + 1] /\ file'[f] \in Node /\ file'[f] # None
  BY <1>1, <1>2, <1>3, NoneAssumption DEF TypeOK, Node
<1>5. \A g \in Files : g # f => file'[g] = file[g]
  BY <1>1 DEF TypeOK
<1>6. file' \in [Files -> Node \cup {None}]
  BY <1>1, <1>4 DEF TypeOK
<1>7. TypeOK'
  BY <1>2, <1>3, <1>6 DEF TypeOK
<1>8. Marked'
  <2>1. ASSUME NEW g \in Files, file'[g] # None PROVE file'[g].mark <= troubles'
    <3>1. CASE g = f
      BY <1>2, <1>3, <1>4, <3>1
    <3>2. CASE g # f
      <4>1. file[g].mark \in Nat /\ file[g].mark <= troubles
        BY <1>5, <2>1, <3>2, Marks DEF Marked
      <4> QED  BY <1>2, <1>3, <1>5, <3>2, <4>1
    <3> QED  BY <3>1, <3>2
  <2> QED  BY <2>1 DEF Marked
<1>9. Existing' /\ Placed'
  BY <1>2, <1>4, <1>5, FilesAre DEF Existing, Placed
<1>10. Done'
  <2>1. Grows
    BY <1>2, <1>4, <1>5 DEF Grows
  <2> QED  BY <1>2, <2>1, DoneStep
<1>11. Untouched' /\ Checked'
  BY <1>2 DEF Untouched, Checked, Astray
<1>12. Kept'
  <2>1. ASSUME NEW g \in CompilerHeld PROVE KeptFile(g)'
    <3>1. g \in Sources /\ g \in Files /\ "release" \in Holders /\ KeptFile(g)
      BY FilesAre DEF CompilerHeld, Pairs, Sources, Holders, ByStat, Kept
    <3>2. held'["release"][g] = held["release"][g] /\ (Astray(g)' <=> Astray(g))
      BY <1>2 DEF Astray
    <3>3. CASE g # f
      <4>1. file'[g] = file[g]
        BY <1>5, <3>1, <3>3
      <4> QED  BY <3>1, <3>2, <4>1 DEF KeptFile
    <3>4. CASE g = f
      <4>1. file'[g].mark = file[g].mark + 1 /\ file[g].mark \in Nat
        BY <1>3, <1>4, <3>4
      <4>2. ASSUME held["release"][g] # None
            PROVE  held["release"][g].mark < file'[g].mark /\ held["release"][g].mark # file'[g].mark
                   /\ held["release"][g].mark <= file'[g].mark
        <5>1. held["release"][g] \in Node
          BY <3>1, <4>2 DEF TypeOK
        <5>2. held["release"][g].mark \in Nat
          BY <5>1, BoundAssumption DEF Node
        <5>3. held["release"][g].mark <= file[g].mark
          BY <3>1, <4>2 DEF KeptFile
        <5> QED  BY <4>1, <5>2, <5>3
      <4> QED  BY <3>1, <3>2, <4>2 DEF KeptFile
    <3> QED  BY <3>3, <3>4
  <2> QED  BY <2>1 DEF Kept
<1>13. Selected'
  BY <1>2 DEF Selected, SelectedIn
<1>14. ClashFree'
  <2>1. \A g \in Files : file[g] = None => file'[g] = None
    BY <1>2, <1>5
  <2> QED  BY <1>2, <2>1, FilesAre DEF ClashFree
<1> QED  BY <1>7, <1>8, <1>9, <1>10, <1>11, <1>12, <1>13, <1>14

\* Something is held.
LEMMA HoldStep == ASSUME IInv, Hold PROVE IInv'
<1> USE DEF IInv
<1> DEFINE by == Program[at].by
           on == Program[at].on
<1>1. /\ Doing("hold") /\ file[on] # None /\ Joined(on)
      /\ held' = [held EXCEPT ![by][on] = file[on]]
      /\ UNCHANGED <<file, root, read, fooled>>
  BY DEF Hold, Step
<1>2. /\ at \in 1 .. Len(Program) /\ Program[at].do = "hold"
      /\ at' = at + 1 /\ at' \in 1 .. Len(Program) + 1
      /\ end' \in {"running", "returned"} /\ Placed'
      /\ clash' = clash /\ troubles' = troubles /\ stray' = stray
  BY <1>1, Advance
<1>3. by \in Holders /\ by # "inventory" /\ (by \in Releasing => at <= Opened)
  BY <1>2, StepsAre
<1>4. /\ \A h \in Holders, f \in Files :
           held'[h][f] = IF h = by /\ f = on THEN file[f] ELSE held[h][f]
      /\ held' \in [Holders -> [Files -> Node \cup {None}]]
  <2> HIDE DEF by, on
  <2>1. held \in [Holders -> [Files -> Node \cup {None}]] /\ file \in [Files -> Node \cup {None}]
    BY DEF TypeOK
  <2>2. \A h \in Holders : held'[h] = IF h = by THEN [held[by] EXCEPT ![on] = file[on]] ELSE held[h]
    BY <1>1, <1>3, <2>1
  <2>3. [held[by] EXCEPT ![on] = file[on]] \in [Files -> Node \cup {None}]
    BY <1>3, <2>1
  <2>4. \A f \in Files : [held[by] EXCEPT ![on] = file[on]][f] = IF f = on THEN file[f] ELSE held[by][f]
    BY <1>3, <2>1
  <2>5. held' \in [Holders -> [Files -> Node \cup {None}]]
    BY <1>1, <1>3, <2>1, <2>3
  <2> QED  BY <2>2, <2>4, <2>5
<1>5. on \in Sources => file[on].data = "selected"
  BY <1>1 DEF Joined
<1> HIDE DEF by, on
<1>6. TypeOK'
  <2>1. \A h \in Holders, f \in Sources : held'[h][f] # None => held'[h][f].data = "selected"
    <3>1. Sources \subseteq Files
      BY FilesAre
    <3> QED  BY <1>4, <1>5, <3>1 DEF TypeOK
  <2> QED  BY <1>1, <1>2, <1>4, <2>1 DEF TypeOK
<1>7. Marked' /\ Existing'
  BY <1>1, <1>2 DEF Marked, Existing
<1>8. Done'
  <2>1. Grows
    BY <1>1, <1>4 DEF Grows
  <2>2. \A i \in 1 .. Len(Program) : i = at => Left(i)'
    <3>1. on \in Files => held'[by][on] # None
      BY <1>1, <1>3, <1>4
    <3> QED  BY <1>2, <3>1 DEF Left, by, on
  <2> QED  BY <1>2, <2>1, <2>2, DoneStep
<1>9. Untouched'
  BY <1>1, <1>2, UntouchedStep
<1>10. Checked'
  <2>1. \A f \in CompilerHeld : Program[at] # Act("check", "release", f)
    BY <1>2 DEF Act
  <2> QED  BY <1>1, <1>2, <2>1, CheckedStep
<1>11. Kept'
  <2>1. ASSUME NEW f \in CompilerHeld PROVE KeptFile(f)'
    <3>1. f \in Sources /\ f \in Files /\ "release" \in Holders /\ KeptFile(f)
      BY FilesAre DEF CompilerHeld, Pairs, Sources, Holders, ByStat, Kept
    <3>2. Astray(f)' <=> Astray(f)
      BY <1>1 DEF Astray
    <3>3. CASE "release" = by /\ f = on
      <4>1. held'["release"][f] = file[f] /\ file[f] # None
        BY <1>1, <1>4, <3>1, <3>3
      <4>2. at <= Opened + 1
        BY <1>2, <1>3, <3>3, Sections DEF Releasing
      <4>3. ~fooled /\ read[f] = None /\ None # "other"
        BY <3>1, <4>2, NoneAssumption DEF Untouched, Bytes
      <4>4. ~Astray(f)
        BY <4>3 DEF Astray
      <4>5. file[f].mark \in Nat
        BY <3>1, <4>1, Marks
      <4>6. file[f].mark <= file[f].mark
        BY <4>5
      <4> QED  BY <1>1, <3>2, <4>1, <4>4, <4>6 DEF KeptFile
    <3>4. CASE ~("release" = by /\ f = on)
      <4>1. held'["release"][f] = held["release"][f]
        BY <1>4, <3>1, <3>4
      <4> QED  BY <1>1, <3>1, <3>2, <4>1 DEF KeptFile
    <3> QED  BY <3>3, <3>4
  <2> QED  BY <2>1 DEF Kept
<1>12. Selected'
  <2>1. \A f \in Files : held'["inventory"][f] = held["inventory"][f]
    BY <1>3, <1>4 DEF Holders
  <2>2. Copied \subseteq Files /\ Copies("sbom", Sdks) \subseteq Files
    BY FilesAre DEF Copied, Members
  <2> QED  BY <1>1, <2>1, <2>2 DEF Selected, SelectedIn
<1>13. ClashFree'
  BY <1>1, <1>2 DEF ClashFree
<1> QED  BY <1>2, <1>6, <1>7, <1>8, <1>9, <1>10, <1>11, <1>12, <1>13

\* A command judges: what it read may be other bytes than those selected only
\* if the file, or the runtime, was changed since it was held.
Judged ==
  /\ fooled' = (fooled \/ ~Genuine) /\ read' \in [Sources -> Bytes \cup {None}]
  /\ \A f \in Sources : read'[f] = read[f] \/ read'[f] = file[f].data
  /\ \A f \in Copies("package", Sdks) : read'[f] = read[f] \/ (Genuine => read'[f] = "selected")

LEMMA JudgedKept == ASSUME IInv, Judged, Opened < at,
                           \A f \in CompilerHeld : file'[f] = file[f] /\ held'["release"][f] = held["release"][f]
  PROVE Kept'
<1> USE DEF IInv
<1>1. SUFFICES ASSUME NEW f \in CompilerHeld PROVE KeptFile(f)'
  BY DEF Kept
<1>2. f \in Sources /\ KeptFile(f)
  BY DEF CompilerHeld, Pairs, Sources, Kept
<1>3. ASSUME Astray(f)' PROVE held["release"][f] # None /\ held["release"][f].mark < file[f].mark
  <2>1. CASE Astray(f)
    BY <1>2, <2>1 DEF KeptFile
  <2>2. CASE ~Astray(f)
    <3>1. file[f].data # "selected"
      <4>1. CASE f = Tool
        BY <1>3, <2>2, <4>1 DEF Judged, Astray, Genuine
      <4>2. CASE f # Tool
        <5>1. read'[f] = "other" /\ read[f] # "other"
          BY <1>3, <2>2, <4>2 DEF Astray
        <5> QED  BY <1>2, <5>1 DEF Judged
      <4> QED  BY <4>1, <4>2
    <3> QED  BY <3>1, Rewritten
  <2> QED  BY <2>1, <2>2
<1> QED  BY <1>2, <1>3 DEF KeptFile

\* A command that reads.
LEMMA ReadStep == ASSUME IInv, NEW what \in {"verify", "compare"}, Doing(what), Judged,
                         UNCHANGED <<file, root, held>>,
                         \A f \in Sources : read[f] # None => read'[f] # None,
                         what = "verify" => read'[Program[at].on] # None
  PROVE IInv'
<1> USE DEF IInv
<1>1. /\ at \in 1 .. Len(Program) /\ Program[at].do = what
      /\ at' = at + 1 /\ at' \in 1 .. Len(Program) + 1
      /\ end' \in {"running", "returned"} /\ Placed'
      /\ clash' = clash /\ troubles' = troubles /\ stray' = stray
  BY Advance
<1>2. Opened < at /\ at <= Published
  BY <1>1, StepsAre DEF Commands
<1>3. TypeOK'
  BY <1>1 DEF TypeOK, Judged
<1>4. Marked' /\ Existing'
  BY <1>1 DEF Marked, Existing
<1>5. Done'
  <2>1. Grows
    BY DEF Grows
  <2>2. \A i \in 1 .. Len(Program) : i = at => Left(i)'
    BY <1>1 DEF Left
  <2> QED  BY <1>1, <2>1, <2>2, DoneStep
<1>6. Untouched'
  BY <1>1, <1>2, UntouchedStep
<1>7. Checked'
  <2>1. \A f \in CompilerHeld : Program[at] # Act("check", "release", f)
    BY <1>1 DEF Act
  <2>2. ~(at' > Published + 1)
    BY <1>1, <1>2, Sections
  <2> QED  BY <1>1, <2>1, <2>2, CheckedStep
<1>8. Kept'
  BY <1>2, JudgedKept
<1>9. Selected'
  <2>1. \A f \in Files : held'["inventory"][f] = held["inventory"][f]
    OBVIOUS
  <2>2. ASSUME ~fooled', NEW f \in Copies("package", Sdks) PROVE read'[f] \in {None, "selected"}
    <3>1. ~fooled /\ Genuine
      BY <2>2 DEF Judged
    <3> QED  BY <3>1 DEF Judged, Selected
  <2>3. ~fooled' => ~fooled
    BY DEF Judged
  <2> QED  BY <2>1, <2>2, <2>3 DEF Selected, SelectedIn
<1>10. ClashFree'
  BY <1>1 DEF ClashFree
<1> QED  BY <1>1, <1>3, <1>4, <1>5, <1>6, <1>7, <1>8, <1>9, <1>10

LEMMA PackageIs == ASSUME NEW x \in Sdks
  PROVE <<"package", x>> \in SdkHeld /\ <<"package", x>> \in Sources /\ <<"package", x>> \in Files
BY StagedAre, FilesAre DEF SdkHeld, Sources

\* What a step before this one held is the selection.
LEMMA HeldEarlier == ASSUME IInv, NEW by \in Holders, NEW f \in Sources, NEW j \in 1 .. at - 1,
                            Program[j] = Act("hold", by, f)
  PROVE held[by][f] # None /\ held[by][f].data = "selected"
<1>1. Left(j) /\ f \in Files
  BY FilesAre DEF IInv, Done
<1>2. Program[j].do = "hold" /\ Program[j].by = by /\ Program[j].on = f
  BY DEF Act
<1>3. held[by][f] # None
  BY <1>1, <1>2 DEF Left
<1> QED  BY <1>3 DEF IInv, TypeOK

LEMMA BytesRead == ASSUME IInv, NEW f \in Sources PROVE file[f].data \in Bytes /\ file[f].data # None
<1>1. f \in Files /\ file[f] # None
  BY FilesAre DEF IInv, Existing
<1>2. file[f].data \in Bytes
  BY <1>1, Marks DEF IInv
<1> QED  BY <1>2, NoneAssumption

LEMMA VerifyStep == ASSUME IInv, Verify PROVE IInv'
<1> DEFINE by == Program[at].by
           on == Program[at].on
<1>1. /\ Doing("verify") /\ Runs /\ UNCHANGED <<file, root, held>>
      /\ Genuine => file[on].data = held[by][on].data
      /\ read' = [read EXCEPT ![on] = file[on].data]
  BY DEF Verify, Step
<1>2. at \in 1 .. Len(Program) /\ Program[at].do = "verify"
  BY <1>1, Advance DEF IInv
<1>3. (by = "compiler" /\ on \in Pairs) \/ (by = "sdk" /\ on \in Copies("package", Sdks))
  BY <1>2, StepsAre
<1>4. on \in Sources
  BY <1>3 DEF Pairs, Sources
<1>5. Program[at] = Act("verify", by, on)
  <2>1. Program[at] \in AllSteps
    BY <1>2, PartsYield DEF Yields
  <2> QED  BY <1>2, <2>1, ActOf
<1> HIDE DEF by, on
<1>6. file[on].data \in Bytes /\ file[on].data # None
  BY <1>4, BytesRead
<1>7. /\ read' \in [Sources -> Bytes \cup {None}]
      /\ \A f \in Sources : read'[f] = IF f = on THEN file[on].data ELSE read[f]
  BY <1>1, <1>4, <1>6 DEF IInv, TypeOK
<1>8. ASSUME NEW x \in Sdks, Genuine, on = <<"package", x>> PROVE file[on].data = "selected"
  <2>1. by = "sdk"
    <3>1. on \notin Pairs
      BY <1>8 DEF Pairs, Copies
    <3> QED  BY <1>3, <3>1
  <2>2. PICK j \in 1 .. at - 1 : Program[j] = Act("hold", "sdk", on)
    <3>1. Preceded(Program, Act("hold", "sdk", on), Act("verify", "sdk", on))
      BY <1>8, Orders
    <3>2. at \in DOMAIN Program
      BY <1>2, PartsYield, YieldsAt
    <3> QED  BY <1>5, <2>1, <3>1, <3>2 DEF Preceded
  <2>3. held["sdk"][on].data = "selected"
    BY <1>4, <2>2, HeldEarlier DEF Holders
  <2> QED  BY <1>1, <1>8, <2>1, <2>3
<1>9. Judged
  <2>1. fooled' = (fooled \/ ~Genuine)
    BY <1>1 DEF Runs
  <2>2. \A f \in Copies("package", Sdks) : f \in Sources /\ \E x \in Sdks : f = <<"package", x>>
    BY DEF Copies, Sources
  <2>3. \A f \in Copies("package", Sdks) : read'[f] = read[f] \/ (Genuine => read'[f] = "selected")
    BY <1>7, <1>8, <2>2
  <2> QED  BY <1>7, <2>1, <2>3 DEF Judged
<1>10. read'[Program[at].on] # None /\ \A f \in Sources : read[f] # None => read'[f] # None
  BY <1>4, <1>6, <1>7 DEF on
<1> QED  BY <1>1, <1>9, <1>10, ReadStep

LEMMA CompareStep == ASSUME IInv, Compare PROVE IInv'
<1> DEFINE a == <<"a", Program[at].on[2]>>
           b == <<"b", Program[at].on[2]>>
<1>1. /\ Doing("compare") /\ Runs /\ UNCHANGED <<file, root, held>>
      /\ read' = [read EXCEPT ![a] = file[a].data, ![b] = file[b].data]
  BY DEF Compare, Step
<1>2. at \in 1 .. Len(Program) /\ Program[at].do = "compare"
  BY <1>1, Advance DEF IInv
<1>3. PICK l \in Lanes : Program[at].on = <<"a", l>>
  BY <1>2, StepsAre DEF Copies
<1>4. a = <<"a", l>> /\ b = <<"b", l>>
  BY <1>3
<1>5. a \in Sources /\ b \in Sources /\ a # b /\ a \notin Copies("package", Sdks) /\ b \notin Copies("package", Sdks)
  BY <1>4 DEF Sources, Copies
<1> HIDE DEF a, b
<1>6. file[a].data \in Bytes /\ file[a].data # None /\ file[b].data \in Bytes /\ file[b].data # None
  BY <1>5, BytesRead
<1>7. /\ read' \in [Sources -> Bytes \cup {None}]
      /\ \A f \in Sources : read'[f] = IF f = b THEN file[b].data ELSE IF f = a THEN file[a].data ELSE read[f]
  BY <1>1, <1>5, <1>6 DEF IInv, TypeOK
<1>8. Judged
  <2>1. fooled' = (fooled \/ ~Genuine)
    BY <1>1 DEF Runs
  <2>2. \A f \in Copies("package", Sdks) : f \in Sources
    BY DEF Sources
  <2>3. \A f \in Copies("package", Sdks) : read'[f] = read[f]
    BY <1>5, <1>7, <2>2
  <2> QED  BY <1>7, <2>1, <2>3 DEF Judged
<1>9. \A f \in Sources : read[f] # None => read'[f] # None
  BY <1>6, <1>7
<1> QED  BY <1>1, <1>8, <1>9, ReadStep

LEMMA MembersStand == ASSUME NEW m \in Members PROVE Folded(m) = m /\ Beside(m) = Members
<1>1. m[1] # "staged" /\ m \notin Staged
  BY DEF Members, Staged, Copies
<1> QED  BY <1>1 DEF Folded, Beside

\* A copy, an SBOM or the index is written.
LEMMA WriteStep == ASSUME IInv, NEW what \in {"describe", "index", "stream"}, Doing(what),
                          NEW f \in Staged \cup Members \cup {Index}, NEW data \in Bytes, Write(f, data),
                          UNCHANGED root, Judged \/ UNCHANGED <<read, fooled>>,
                          what = "stream" => UNCHANGED <<read, fooled>>,
                          \A g \in Sources : read[g] # None => read'[g] # None,
                          what # "index" => Program[at].on = f,
                          f \in Copied => data = "selected",
                          f \in Copies("sbom", Sdks) /\ ~fooled' => data = "selected",
                          f \in Members => ~Collides(f)
  PROVE IInv'
<1> USE DEF IInv
<1>1. /\ at \in 1 .. Len(Program) /\ Program[at].do = what
      /\ at' = at + 1 /\ at' \in 1 .. Len(Program) + 1
      /\ end' \in {"running", "returned"} /\ Placed'
      /\ clash' = clash /\ troubles' = troubles /\ stray' = stray
  BY Advance
<1>2. Opened < at /\ (what # "stream" => at <= Published)
  BY <1>1, StepsAre DEF Commands
<1> DEFINE new == [data |-> data, mark |-> 0]
<1>3. new \in Node /\ new # None /\ new.data = data /\ new.mark = 0
  BY BoundAssumption, NoneAssumption DEF Node
<1>4. file[f] = None /\ file' = [file EXCEPT ![f] = new]
      /\ held' = [held EXCEPT !["inventory"][f] = new]
  BY DEF Write
<1> HIDE DEF new
<1>5. f \in Files /\ f \notin Sources /\ "inventory" \in Holders
  BY FilesAre DEF Holders
<1>6. file' \in [Files -> Node \cup {None}] /\ \A g \in Files : file'[g] = IF g = f THEN new ELSE file[g]
  BY <1>3, <1>4, <1>5 DEF TypeOK
<1>7. /\ held' \in [Holders -> [Files -> Node \cup {None}]]
      /\ \A h \in Holders, g \in Files :
           held'[h][g] = IF h = "inventory" /\ g = f THEN new ELSE held[h][g]
  <2>1. held \in [Holders -> [Files -> Node \cup {None}]]
    BY DEF TypeOK
  <2>2. held' = [held EXCEPT !["inventory"] = [held["inventory"] EXCEPT ![f] = new]]
    BY <1>4, <1>5, <2>1
  <2>3. [held["inventory"] EXCEPT ![f] = new] \in [Files -> Node \cup {None}]
    BY <1>3, <1>5, <2>1
  <2>4. \A g \in Files : [held["inventory"] EXCEPT ![f] = new][g] = IF g = f THEN new ELSE held["inventory"][g]
    BY <1>5, <2>1
  <2> QED  BY <1>5, <2>1, <2>2, <2>3, <2>4
<1>8. Sources \subseteq Files /\ CompilerHeld \subseteq Sources
  BY FilesAre DEF CompilerHeld, Pairs, Sources
<1>9. TypeOK'
  <2>1. \A h \in Holders, g \in Sources : held'[h][g] # None => held'[h][g].data = "selected"
    BY <1>5, <1>7, <1>8 DEF TypeOK
  <2>2. read' \in [Sources -> Bytes \cup {None}] /\ fooled' \in BOOLEAN
    BY DEF TypeOK, Judged
  <2> QED  BY <1>1, <1>6, <1>7, <2>1, <2>2 DEF TypeOK
<1>10. Marked'
  <2>1. troubles \in Nat
    BY Marks
  <2> QED  BY <1>1, <1>3, <1>6, <2>1 DEF Marked
<1>11. Existing'
  BY <1>5, <1>6, <1>8 DEF Existing
<1>12. Done'
  <2>1. Grows
    BY <1>3, <1>6, <1>7 DEF Grows
  <2>2. what # "index" => file'[Program[at].on] # None /\ held'["inventory"][Program[at].on] # None
    BY <1>3, <1>5, <1>6, <1>7
  <2>3. \A i \in 1 .. Len(Program) : i = at => Left(i)'
    BY <1>1, <2>2 DEF Left
  <2> QED  BY <1>1, <2>1, <2>3, DoneStep
<1>13. Untouched'
  BY <1>1, <1>2, UntouchedStep
<1>14. Checked'
  <2>1. \A g \in CompilerHeld : Program[at] # Act("check", "release", g)
    BY <1>1 DEF Act
  <2>2. at' > Published + 1 => UNCHANGED <<read, fooled>>
    BY <1>1, <1>2, Sections
  <2> QED  BY <1>1, <2>1, <2>2, CheckedStep
<1>15. \A g \in CompilerHeld : file'[g] = file[g] /\ held'["release"][g] = held["release"][g]
  <2>1. \A g \in CompilerHeld : g \in Files /\ g # f
    BY <1>5, <1>8
  <2>2. "release" \in Holders /\ "release" # "inventory"
    BY DEF Holders, ByStat
  <2> QED  BY <1>6, <1>7, <2>1, <2>2
<1>16. Kept'
  <2>1. CASE Judged
    BY <1>2, <1>15, <2>1, JudgedKept
  <2>2. CASE UNCHANGED <<read, fooled>>
    <3>1. \A g \in CompilerHeld : Astray(g)' <=> Astray(g)
      BY <2>2 DEF Astray
    <3> QED  BY <1>15, <3>1 DEF Kept, KeptFile
  <2> QED  BY <2>1, <2>2
<1>17. Selected'
  <2>1. Copied \subseteq Files /\ Copies("sbom", Sdks) \subseteq Files
    BY FilesAre DEF Copied, Members
  <2>2. ~fooled' => ~fooled
    BY DEF Judged
  <2>3. ASSUME NEW g \in Copied PROVE SelectedIn(g)'
    BY <1>3, <1>5, <1>7, <2>1, <2>3 DEF Selected, SelectedIn
  <2>4. ASSUME ~fooled', NEW g \in Copies("sbom", Sdks) PROVE SelectedIn(g)'
    BY <1>3, <1>5, <1>7, <2>1, <2>2, <2>4 DEF Selected, SelectedIn
  <2>5. ASSUME ~fooled', NEW g \in Copies("package", Sdks) PROVE read'[g] \in {None, "selected"}
    <3>1. CASE UNCHANGED <<read, fooled>>
      BY <2>5, <3>1 DEF Selected
    <3>2. CASE Judged
      BY <2>5, <3>2 DEF Selected, Judged
    <3> QED  BY <3>1, <3>2
  <2> QED  BY <2>3, <2>4, <2>5 DEF Selected
<1>18. ClashFree'
  <2>1. ASSUME NEW g \in Members, g # f, f \in Members, clash = {f, g} PROVE file'[g] = None
    <3>1. {Folded(f), Folded(g)} = clash /\ g \in Beside(f) \ {f}
      BY <2>1, MembersStand
    <3>2. file[g] = None
      BY <2>1, <3>1 DEF Collides
    <3> QED  BY <1>6, <2>1, <3>2, FilesAre
  <2>2. SUFFICES ASSUME NEW g \in Members, NEW h \in Members, g # h, clash = {g, h}
                 PROVE  file'[g] = None \/ file'[h] = None
    BY <1>1 DEF ClashFree
  <2>3. CASE g = f
    BY <2>1, <2>2, <2>3
  <2>4. CASE h = f
    <3>1. clash = {f, g}
      BY <2>2, <2>4
    <3> QED  BY <2>1, <2>2, <2>4, <3>1
  <2>5. CASE g # f /\ h # f
    BY <1>6, <2>2, <2>5, FilesAre DEF ClashFree
  <2> QED  BY <2>3, <2>4, <2>5
<1> QED  BY <1>1, <1>9, <1>10, <1>11, <1>12, <1>13, <1>14, <1>16, <1>17, <1>18

LEMMA DescribeStep == ASSUME IInv, Describe PROVE IInv'
<1> DEFINE f == Program[at].on
           package == <<"package", f[2]>>
<1>1. /\ Doing("describe") /\ Runs /\ ~Collides(f) /\ UNCHANGED root
      /\ Genuine => file[package].data = held["release_sdk"][package].data
      /\ read' = [read EXCEPT ![package] = file[package].data]
      /\ \E data \in Bytes : Write(f, data) /\ (Genuine => data = file[package].data)
  BY DEF Describe, Step
<1>2. at \in 1 .. Len(Program) /\ Program[at].do = "describe"
  BY <1>1, Advance DEF IInv
<1>3. f \in Copies("sbom", Sdks) /\ Opened < at
  BY <1>2, StepsAre DEF Commands
<1>4. PICK x \in Sdks : f = <<"sbom", x>>
  BY <1>3 DEF Copies
<1>5. package = <<"package", x>>
  BY <1>4
<1>6. package \in Sources /\ package \in SdkHeld
  BY <1>5, PackageIs
<1> HIDE DEF package, f
<1>7. held["release_sdk"][package].data = "selected"
  <2>1. held["release_sdk"][package] # None
    BY <1>3, <1>6, AllHeld DEF IInv
  <2>2. "release_sdk" \in Holders
    BY DEF Holders
  <2> QED  BY <1>6, <2>1, <2>2 DEF IInv, TypeOK
<1>8. file[package].data \in Bytes /\ file[package].data # None
  BY <1>6, BytesRead
<1>9. /\ read' \in [Sources -> Bytes \cup {None}]
      /\ \A g \in Sources : read'[g] = IF g = package THEN file[package].data ELSE read[g]
  BY <1>1, <1>6, <1>8 DEF IInv, TypeOK
<1>10. Judged
  <2>1. fooled' = (fooled \/ ~Genuine)
    BY <1>1 DEF Runs
  <2>2. Copies("package", Sdks) \subseteq Sources
    BY DEF Sources
  <2> QED  BY <1>1, <1>7, <1>9, <2>1, <2>2 DEF Judged
<1>11. PICK data \in Bytes : Write(f, data) /\ (Genuine => data = file[package].data)
  BY <1>1
<1>12. f \in Members /\ f \notin Copied
  BY <1>4 DEF Members, Copied, Staged, Copies
<1>13. ~fooled' => data = "selected"
  BY <1>1, <1>7, <1>10, <1>11 DEF Judged
<1>14. \A g \in Sources : read[g] # None => read'[g] # None
  BY <1>8, <1>9
<1>15. Program[at].on = f
  BY DEF f
<1> QED  BY <1>1, <1>10, <1>11, <1>12, <1>13, <1>14, <1>15, WriteStep

LEMMA IndexStep == ASSUME IInv, MakeIndex PROVE IInv'
<1>1. Doing("index") /\ Runs /\ UNCHANGED <<root, read>>
  BY DEF MakeIndex
<1>2. PICK data \in Bytes : Write(Index, data)
  BY DEF MakeIndex
<1>3. Judged
  BY <1>1 DEF Judged, Runs, IInv, TypeOK
<1>4. Index \notin Copied /\ Index \notin Copies("sbom", Sdks) /\ Index \notin Members
  BY FilesAre DEF Copied, Members
<1> QED  BY <1>1, <1>2, <1>3, <1>4, WriteStep

\* What a copy is compared with is the selection.
LEMMA ExpectedIs == ASSUME IInv, NEW i \in 1 .. Len(Program), i = at, Program[i].do = "stream"
  PROVE Expected(Program[i].by, Program[i].on) = "selected" /\ Program[i].on \in Copied
<1> DEFINE by == Program[i].by
           f == Program[i].on
<1>1. Program[i] = Act("stream", by, f)
  <2>1. Program[i] \in AllSteps
    BY PartsYield DEF Yields
  <2> QED  BY <2>1, ActOf
<1>2. i \in DOMAIN Program
  BY PartsYield, YieldsAt
<1>3. Opened < at
  BY StepsAre
<1>4. \/ by = "compiler" /\ f \in Copies("staged", Lanes)
      \/ by = "sdk" /\ f \in Copies("staged", Sdks)
      \/ by = "release" /\ f \in Copies("member", Lanes \cup Sdks \cup {None})
  BY StepsAre
<1> HIDE DEF by, f
<1>5. Lanes \cap Sdks = {} /\ None \notin Lanes \cup Sdks
  BY SetAssumption
<1>6. \A p : Preceded(Program, p, Act("stream", by, f)) => \E j \in 1 .. at - 1 : Program[j] = p
  BY <1>1, <1>2 DEF Preceded
<1>7. CASE by = "compiler" /\ f \in Copies("staged", Lanes)
  <2>1. PICK x \in Lanes : f = <<"staged", x>>
    BY <1>7 DEF Copies
  <2>2. Source(f) = <<"a", x>> /\ f \in Staged /\ <<"a", x>> \in Sources
    BY <2>1 DEF Source, Staged, Sources, Copies
  <2>3. PICK j \in 1 .. at - 1 : Program[j] = Act("hold", "compiler", <<"a", x>>)
    BY <1>6, <1>7, <2>1, Orders
  <2>4. held["compiler"][<<"a", x>>].data = "selected"
    BY <2>2, <2>3, HeldEarlier DEF Holders, ByStat
  <2>5. Source(f) \notin Staged
    BY <2>2, FilesAre
  <2> QED  BY <1>7, <2>2, <2>4, <2>5 DEF Expected, Copied, by, f
<1>8. CASE by = "sdk" /\ f \in Copies("staged", Sdks)
  <2>1. PICK x \in Sdks : f = <<"staged", x>>
    BY <1>8 DEF Copies
  <2>2. f \in Staged /\ f[2] = x /\ x \notin Lanes
    BY <1>5, <2>1 DEF Staged, Copies
  <2>3. Source(f) = <<"package", x>> /\ <<"package", x>> \in Sources
    BY <2>2, PackageIs DEF Source
  <2>4. PICK j \in 1 .. at - 1 : Program[j] = Act("hold", "sdk", <<"package", x>>)
    BY <1>6, <1>8, <2>1, Orders
  <2>5. held["sdk"][<<"package", x>>].data = "selected"
    BY <2>3, <2>4, HeldEarlier DEF Holders
  <2>6. Source(f) \notin Staged
    BY <2>3, FilesAre
  <2> QED  BY <1>8, <2>2, <2>3, <2>5, <2>6 DEF Expected, Copied, by, f
<1>9. CASE by = "release" /\ f \in Copies("member", Lanes \cup Sdks \cup {None})
  <2>1. PICK x \in Lanes \cup Sdks \cup {None} : f = <<"member", x>>
    BY <1>9 DEF Copies
  <2>2. f \notin Staged /\ f[2] = x /\ f \in Copied
    BY <1>9, <2>1 DEF Staged, Copied, Copies
  <2>3. CASE x = None
    <3>1. Source(f) = Doc /\ Doc \in Sources /\ Doc \notin Staged /\ Doc \in CompilerHeld
      BY <2>2, <2>3, FilesAre DEF Source, CompilerHeld
    <3>2. held["release"][Doc] # None /\ "release" \in Holders
      BY <1>3, <3>1, AllHeld DEF IInv, Holders, ByStat
    <3>3. held["release"][Doc].data = "selected"
      BY <3>1, <3>2 DEF IInv, TypeOK
    <3> QED  BY <1>9, <2>2, <3>1, <3>3 DEF Expected, by, f
  <2>4. CASE x # None
    <3>1. Source(f) = <<"staged", x>> /\ <<"staged", x>> \in Staged /\ <<"staged", x>> \in Copied
      BY <2>1, <2>2, <2>4 DEF Source, Staged, Copied, Copies
    <3>2. PICK j \in 1 .. at - 1 : \E b : Program[j] = Act("stream", b, <<"staged", x>>)
      <4>1. x \in Lanes \/ x \in Sdks
        BY <2>4
      <4>2. \E b : Preceded(Program, Act("stream", b, <<"staged", x>>), Act("stream", by, f))
        BY <1>9, <2>1, <4>1, Orders
      <4> QED  BY <1>6, <4>2
    <3>3. Left(j) /\ Program[j].do = "stream" /\ Program[j].on = <<"staged", x>>
      BY <3>2 DEF IInv, Done, Act
    <3>4. held["inventory"][<<"staged", x>>].data = "selected"
      BY <3>1, <3>3 DEF Left, IInv, Selected, SelectedIn
    <3> QED  BY <2>2, <3>1, <3>4 DEF Expected, by, f
  <2> QED  BY <2>3, <2>4
<1> QED  BY <1>4, <1>7, <1>8, <1>9

LEMMA StreamStep == ASSUME IInv, Stream PROVE IInv'
<1> DEFINE f == Program[at].on
           data == file[Source(f)].data
<1>1. /\ Doing("stream") /\ ~Collides(f) /\ data = Expected(Program[at].by, f) /\ Write(f, data)
      /\ UNCHANGED <<root, read, fooled>>
  BY DEF Stream, Step
<1>2. at \in 1 .. Len(Program) /\ Program[at].do = "stream"
  BY <1>1, Advance DEF IInv
<1>3. data = "selected" /\ f \in Copied
  BY <1>1, <1>2, ExpectedIs
<1>4. f \in Staged \cup Members /\ f \notin Copies("sbom", Sdks)
  BY <1>3 DEF Copied, Members, Staged, Copies
<1>5. data \in Bytes /\ Program[at].on = f
  BY <1>3 DEF Bytes
<1> HIDE DEF data, f
<1> QED  BY <1>1, <1>3, <1>4, <1>5, WriteStep

LEMMA CheckStep == ASSUME IInv, Check PROVE IInv'
<1>1. Doing("check") /\ AsHeld(Program[at].by, Program[at].on) /\ UNCHANGED <<file, root, held, read, fooled>>
  BY DEF Check, Step
<1>2. ASSUME NEW f \in CompilerHeld, Program[at] = Act("check", "release", f) PROVE ~Astray(f)
  <2>1. Program[at].by = "release" /\ Program[at].on = f /\ "release" \in ByStat
    BY <1>2 DEF Act, ByStat
  <2>2. file[f] # None /\ file[f] = held["release"][f]
    BY <1>1, <2>1 DEF AsHeld
  <2>3. f \in Files
    BY FilesAre DEF CompilerHeld, Pairs, Sources
  <2>4. file[f].mark \in Nat
    BY <2>2, <2>3, Marks DEF IInv
  <2>5. ~(held["release"][f].mark < file[f].mark)
    BY <2>2, <2>4
  <2> QED  BY <2>5 DEF IInv, Kept, KeptFile
<1>3. root' \in Roots
  BY <1>1 DEF IInv, TypeOK, Roots
<1> QED  BY <1>1, <1>2, <1>3, QuietStep

LEMMA OtherQuietStep == ASSUME IInv, List \/ AbsentRoot \/ MakeRoot \/ ReadBack PROVE IInv'
<1>1. PICK what \in {"list", "absent", "make", "reread"} : Doing(what)
  BY DEF List, AbsentRoot, MakeRoot, ReadBack
<1>2. UNCHANGED <<file, held, read, fooled>> /\ root' \in Roots
  BY DEF List, AbsentRoot, MakeRoot, ReadBack, IInv, TypeOK, Roots
<1>3. Program[at].do = what
  BY <1>1, Advance DEF IInv
<1>4. \A f \in CompilerHeld : Program[at] # Act("check", "release", f)
  BY <1>3 DEF Act
<1> QED  BY <1>1, <1>2, <1>4, QuietStep
-----------------------------------------------------------------------------
LEMMA Initially == ASSUME Init PROVE IInv
<1>1. Len(Program) \in Nat /\ Len(Program) >= 1 /\ Opened \in Nat /\ Published \in Nat
  <2>1. PICK i \in 1 .. Opened : Program[i] = Act("hold", "release", Tool)
    BY Visits DEF CompilerHeld
  <2> QED  BY <2>1, Sections
<1>2. /\ Sources \subseteq Files /\ Members \cap Sources = {} /\ Members \subseteq Files
      /\ CompilerHeld \subseteq Files /\ "release" \in Holders /\ "inventory" \in Holders
      /\ CompilerHeld \subseteq Sources /\ Copied \subseteq Files /\ Copies("sbom", Sdks) \subseteq Files
      /\ Copies("package", Sdks) \subseteq Sources
  BY FilesAre DEF CompilerHeld, Pairs, Sources, Holders, ByStat, Copied, Members
<1>3. [data |-> "selected", mark |-> 0] \in Node /\ [data |-> "selected", mark |-> 0] # None /\ None # "other"
  BY BoundAssumption, NoneAssumption DEF Node, Bytes
<1>4. /\ file \in [Files -> Node \cup {None}]
      /\ \A f \in Files : file[f] = IF f \in Sources THEN [data |-> "selected", mark |-> 0] ELSE None
  BY <1>3 DEF Init
<1>5. /\ held \in [Holders -> [Files -> Node \cup {None}]]
      /\ \A h \in Holders, f \in Files : held[h][f] = None
  BY DEF Init
<1>6. read \in [Sources -> Bytes \cup {None}] /\ \A f \in Sources : read[f] = None
  BY DEF Init
<1>7. /\ root = "absent" /\ stray = {} /\ clash \in Clashes \cup {{}} /\ at = 1 /\ end = "running"
      /\ fooled = FALSE /\ troubles = 0
  BY DEF Init
<1>8. TypeOK
  <2>1. \A h \in Holders, f \in Sources : held[h][f] = None
    BY <1>2, <1>5
  <2>2. at \in 1 .. Len(Program) + 1
    BY <1>1, <1>7
  <2>3. troubles \in 0 .. Troubles
    BY <1>7, BoundAssumption
  <2> QED  BY <1>4, <1>5, <1>6, <1>7, <2>1, <2>2, <2>3 DEF TypeOK
<1>9. Marked
  BY <1>4, <1>7 DEF Marked
<1>10. Existing /\ Placed
  BY <1>1, <1>2, <1>3, <1>4, <1>7 DEF Existing, Placed
<1>11. Done /\ Untouched /\ Checked
  BY <1>1, <1>6, <1>7 DEF Done, Untouched, Checked
<1>12. Kept
  BY <1>2, <1>3, <1>5, <1>6, <1>7 DEF Kept, KeptFile, Astray
<1>13. Selected
  BY <1>2, <1>5, <1>6 DEF Selected, SelectedIn
<1>14. ClashFree
  BY <1>2, <1>4 DEF ClashFree
<1> QED  BY <1>8, <1>9, <1>10, <1>11, <1>12, <1>13, <1>14 DEF IInv

LEMMA AsideStep == ASSUME IInv, Fail \/ Occupy \/ Kill \/ CommandFails \/ \E d \in Strays : AddName(d) PROVE IInv'
<1>1. UNCHANGED <<file, clash, at, held, read, fooled>>
  BY DEF Fail, Occupy, Kill, CommandFails, AddName, Trouble
<1>2. root' \in Roots
  BY DEF Fail, Occupy, Kill, CommandFails, AddName, IInv, TypeOK, Roots
<1>3. stray' \subseteq Strays
  BY DEF Fail, Occupy, Kill, CommandFails, AddName, IInv, TypeOK, Strays
<1>4. end' \in {end, "failed", "killed"}
  BY DEF Fail, Occupy, Kill, CommandFails, AddName
<1>5. troubles' \in 0 .. Troubles /\ troubles <= troubles'
  <2>1. troubles \in 0 .. Troubles /\ Troubles \in Nat
    BY BoundAssumption DEF IInv, TypeOK
  <2>2. troubles' = troubles \/ (troubles < Troubles /\ troubles' = troubles + 1)
    BY DEF Fail, Occupy, Kill, CommandFails, AddName, Trouble
  <2> QED  BY <2>1, <2>2
<1> QED  BY <1>1, <1>2, <1>3, <1>4, <1>5, StillStep

\* A run that starts again has held, read and run nothing, whatever is left.
LEMMA RetryStep == ASSUME IInv, Retry \/ RetryCleared PROVE IInv'
<1>1. /\ at' = 1 /\ end' = "running" /\ fooled' = FALSE /\ clash' = clash /\ troubles' = troubles
      /\ held' = [h \in Holders |-> [f \in Files |-> None]] /\ read' = [f \in Sources |-> None]
  BY DEF Retry, RetryCleared, Again
<1>2. Len(Program) \in Nat /\ Len(Program) >= 1 /\ Opened \in Nat /\ Published \in Nat
  <2>1. PICK i \in 1 .. Opened : Program[i] = Act("hold", "release", Tool)
    BY Visits DEF CompilerHeld
  <2> QED  BY <2>1, Sections
<1>3. /\ Sources \subseteq Files /\ CompilerHeld \subseteq Files /\ CompilerHeld \subseteq Sources
      /\ Copied \subseteq Files /\ Copies("sbom", Sdks) \subseteq Files /\ Copies("package", Sdks) \subseteq Sources
      /\ Members \subseteq Files /\ "release" \in Holders /\ "inventory" \in Holders
  BY FilesAre DEF CompilerHeld, Pairs, Sources, Holders, ByStat, Copied, Members
<1>4. /\ held' \in [Holders -> [Files -> Node \cup {None}]] /\ \A h \in Holders, f \in Files : held'[h][f] = None
      /\ read' \in [Sources -> Bytes \cup {None}] /\ \A f \in Sources : read'[f] = None
  BY <1>1
<1>5. file' \in [Files -> Node \cup {None}] /\ \A f \in Files : file'[f] = file[f] \/ (f \notin Sources /\ file'[f] = None)
  <2>1. file \in [Files -> Node \cup {None}]
    BY DEF IInv, TypeOK
  <2>2. file' = file \/ file' = [f \in Files |-> IF f \in Sources THEN file[f] ELSE None]
    BY DEF Retry, RetryCleared
  <2> QED  BY <2>1, <2>2
<1>6. root' \in Roots /\ stray' \subseteq Strays
  BY DEF Retry, RetryCleared, IInv, TypeOK, Roots, Strays
<1>7. TypeOK'
  <2>1. \A h \in Holders, f \in Sources : held'[h][f] = None
    BY <1>3, <1>4
  <2>2. at' \in 1 .. Len(Program) + 1
    BY <1>1, <1>2
  <2> QED  BY <1>1, <1>4, <1>5, <1>6, <2>1, <2>2 DEF IInv, TypeOK, Roots, Strays
<1>8. Marked' /\ Existing' /\ Placed'
  BY <1>1, <1>2, <1>3, <1>5 DEF IInv, Marked, Existing, Placed
<1>9. Done' /\ Untouched' /\ Checked'
  BY <1>1, <1>2, <1>4 DEF Done, Untouched, Checked
<1>10. Kept'
  <2>1. None # "other"
    BY NoneAssumption DEF Bytes
  <2>2. ASSUME NEW f \in CompilerHeld PROVE held'["release"][f] = None /\ ~Astray(f)'
    BY <1>1, <1>3, <1>4, <2>1 DEF Astray
  <2> QED  BY <2>2 DEF Kept, KeptFile
<1>11. Selected'
  BY <1>3, <1>4 DEF Selected, SelectedIn
<1>12. ClashFree'
  BY <1>1, <1>3, <1>5 DEF IInv, ClashFree
<1> QED  BY <1>7, <1>8, <1>9, <1>10, <1>11, <1>12 DEF IInv

LEMMA Steps == ASSUME IInv, [Next]_vars PROVE IInv'
<1>1. CASE AssemblyStep
  BY <1>1, HoldStep, CheckStep, OtherQuietStep, VerifyStep, CompareStep, DescribeStep, IndexStep, StreamStep
     DEF AssemblyStep
<1>2. CASE Fail \/ Occupy \/ Kill \/ CommandFails \/ \E d \in Strays : AddName(d)
  BY <1>2, AsideStep
<1>3. CASE \E f \in Files : Edit(f)
  BY <1>3, EditStep
<1>4. CASE UNCHANGED vars
  <2>1. UNCHANGED <<file, root, stray, clash, at, held, end, read, fooled, troubles>>
    BY <1>4 DEF vars
  <2>2. root' \in Roots /\ stray' \subseteq Strays /\ troubles' \in 0 .. Troubles /\ troubles <= troubles'
    BY <2>1, BoundAssumption DEF IInv, TypeOK, Roots, Strays
  <2> QED  BY <2>1, <2>2, StillStep
<1>5. CASE Retry \/ RetryCleared
  BY <1>5, RetryStep
<1> QED  BY <1>1, <1>2, <1>3, <1>4, <1>5 DEF Next, Strays

LEMMA Inductive == Spec => []IInv
BY Initially, Steps, PTL DEF Spec
-----------------------------------------------------------------------------
\* Every value keeps its type, and what is held of a source is the selection:
\* a file with other bytes is never taken for what was selected.
THEOREM Typing == Spec => []TypeOK
<1>1. IInv => TypeOK
  BY DEF IInv
<1> QED  BY <1>1, Inductive, PTL

LEMMA NothingAstray == ASSUME IInv, end = "returned"
  PROVE /\ \A f \in CompilerHeld : ~Astray(f)
        /\ \A i \in 1 .. Len(Program) : Left(i)
<1>1. at = Len(Program) + 1 /\ Len(Program) \in Nat
  BY Sections DEF IInv, Placed
<1>2. at - 1 = Len(Program)
  BY <1>1
<1>3. ASSUME NEW f \in CompilerHeld PROVE ~Astray(f)
  <2>1. PICK i \in Published + 1 .. Len(Program) : Program[i] = Act("check", "release", f)
    BY Visits
  <2> QED  BY <1>2, <2>1 DEF IInv, Checked
<1> QED  BY <1>2, <1>3 DEF IInv, Done

\* A candidate that is returned was judged by the selected runtime alone,
\* whatever others exchanged and put back while it ran.
THEOREM GenuineVerdictsHold == Spec => []GenuineVerdicts
<1>1. ASSUME IInv, end = "returned" PROVE ~fooled
  <2>1. ~Astray(Tool)
    BY <1>1, NothingAstray DEF CompilerHeld
  <2> QED  BY <2>1 DEF Astray
<1>2. IInv => GenuineVerdicts
  BY <1>1 DEF GenuineVerdicts
<1> QED  BY <1>2, Inductive, PTL

\* Every member of a returned candidate has the selected bytes, and a command
\* read the selected bytes of every package it was made from.
THEOREM InventoryVerifiedHolds == Spec => []InventoryVerified
<1>1. ASSUME IInv, end = "returned" PROVE ~fooled
  <2>1. ~Astray(Tool)
    BY <1>1, NothingAstray DEF CompilerHeld
  <2> QED  BY <2>1 DEF Astray
<1>2. ASSUME IInv, end = "returned", NEW m \in Members
      PROVE  held["inventory"][m] # None /\ held["inventory"][m].data = "selected"
  <2>1. PICK i \in 1 .. Len(Program) : Program[i].do \in {"stream", "describe"} /\ Program[i].on = m
    BY Visits
  <2>2. Left(i)
    BY <1>2, NothingAstray
  <2>3. held["inventory"][m] # None
    BY <2>1, <2>2 DEF Left
  <2>4. m \in Copied \/ m \in Copies("sbom", Sdks)
    BY DEF Members, Copied
  <2> QED  BY <1>1, <1>2, <2>3, <2>4 DEF IInv, Selected, SelectedIn
<1>3. ASSUME IInv, end = "returned", NEW f \in Sources \ {Tool, Doc} PROVE read[f] = "selected"
  <2>1. PICK i \in 1 .. Len(Program) : Program[i].do = "verify" /\ Program[i].on = f
    BY Visits
  <2>2. Left(i)
    BY <1>3, NothingAstray
  <2>3. read[f] # None /\ read[f] \in Bytes \cup {None}
    BY <1>3, <2>1, <2>2 DEF Left, IInv, TypeOK
  <2>4. CASE f \in Pairs
    <3>1. ~Astray(f) /\ f # Tool
      BY <1>3, <2>4, NothingAstray DEF CompilerHeld
    <3> QED  BY <2>3, <2>4, <3>1 DEF Astray, Bytes
  <2>5. CASE f \in Copies("package", Sdks)
    BY <1>1, <1>3, <2>3, <2>5 DEF IInv, Selected
  <2> QED  BY <2>4, <2>5 DEF Sources, Pairs
<1>4. IInv => InventoryVerified
  BY <1>2, <1>3 DEF InventoryVerified
<1> QED  BY <1>4, Inductive, PTL

\* No two members of a returned candidate have names that fold to the same,
\* whichever of the three programs wrote them.
THEOREM NoFoldedClashHolds == Spec => []NoFoldedClash
<1>1. ASSUME IInv, end = "returned", clash # {} PROVE FALSE
  <2>1. clash \in Clashes
    BY <1>1 DEF IInv, TypeOK
  <2>2. PICK f, g \in Members : f # g /\ clash = {f, g}
    BY <2>1, ClashAssumption
  <2>3. ASSUME NEW m \in Members PROVE file[m] # None
    <3>1. PICK i \in 1 .. Len(Program) : Program[i].do \in {"stream", "describe"} /\ Program[i].on = m
      BY Visits
    <3>2. Left(i)
      BY <1>1, NothingAstray
    <3> QED  BY <3>1, <3>2 DEF Left
  <2> QED  BY <1>1, <2>2, <2>3 DEF IInv, ClashFree
<1>2. IInv => NoFoldedClash
  BY <1>1 DEF NoFoldedClash
<1> QED  BY <1>2, Inductive, PTL
============================================================================
