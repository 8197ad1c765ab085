---------------------------- MODULE CascadePushProofs ----------------------------
(***************************************************************************)
(* Proofs for CascadePush: what a tag may serve, that pushes made one at a *)
(* time leave no gap and never move an alias back, that they read back     *)
(* clean, and what a repair does and does not change.  The first part is   *)
(* about the algebra of CascadeGraph alone.                                *)
(***************************************************************************)
EXTENDS CascadePush, WellFoundedInduction, TLAPS

----------------------------------------------------------------------------
(* The order of versions *)

\* No tag is below itself.
LEMMA LessIrreflexive ==
    ASSUME NEW v \in Tag PROVE ~Less(v, v)
BY PartAssumption DEF Less, Tag, Parts

\* The order of versions is transitive.
LEMMA LessTransitive ==
    ASSUME NEW v \in Tag, NEW w \in Tag, NEW x \in Tag, Less(v, w), Less(w, x)
    PROVE  Less(v, x)
<1>1. PICK i \in Parts : v[i] < w[i] /\ \A j \in 1 .. (i - 1) : v[j] = w[j]
  BY DEF Less
<1>2. PICK k \in Parts : w[k] < x[k] /\ \A j \in 1 .. (k - 1) : w[j] = x[j]
  BY DEF Less
<1>3. \A j \in Parts : v[j] \in Nat /\ w[j] \in Nat /\ x[j] \in Nat
  BY PartAssumption DEF Tag
<1>4. CASE i <= k
  <2>1. v[i] < x[i]  BY <1>1, <1>2, <1>3, <1>4 DEF Parts
  <2>2. \A j \in 1 .. (i - 1) : v[j] = x[j]  BY <1>1, <1>2, <1>4 DEF Parts
  <2> QED BY <2>1, <2>2 DEF Less
<1>5. CASE k < i
  <2>1. v[k] < x[k]  BY <1>1, <1>2, <1>3, <1>5 DEF Parts
  <2>2. \A j \in 1 .. (k - 1) : v[j] = x[j]  BY <1>1, <1>2, <1>5 DEF Parts
  <2> QED BY <2>1, <2>2 DEF Less
<1> QED BY <1>4, <1>5 DEF Parts

\* Of two tags one is the lower: the first part in which they differ decides.
LEMMA LessTotal ==
    ASSUME NEW v \in Tag, NEW w \in Tag
    PROVE  v = w \/ Less(v, w) \/ Less(w, v)
<1>1. \A j \in Parts : v[j] \in Nat /\ w[j] \in Nat
  BY PartAssumption DEF Tag
<1>2. ASSUME NEW i \in Parts, v[i] # w[i], \A j \in 1 .. (i - 1) : v[j] = w[j]
      PROVE  Less(v, w) \/ Less(w, v)
  <2>1. v[i] < w[i] \/ w[i] < v[i]  BY <1>1, <1>2
  <2> QED BY <1>2, <2>1 DEF Less
<1>3. CASE \A j \in Parts : v[j] = w[j]
  BY <1>3 DEF Tag
<1>4. CASE \E j \in Parts : v[j] # w[j]
  <2>1. \E i \in Parts : v[i] # w[i] /\ \A j \in 1 .. (i - 1) : v[j] = w[j]
    <3>1. CASE v[1] # w[1]  BY <3>1 DEF Parts
    <3>2. CASE v[1] = w[1] /\ v[2] # w[2]  BY <3>2 DEF Parts
    <3>3. CASE v[1] = w[1] /\ v[2] = w[2] /\ v[3] # w[3]  BY <3>3 DEF Parts
    <3>4. CASE v[1] = w[1] /\ v[2] = w[2] /\ v[3] = w[3] /\ v[4] # w[4]  BY <3>4 DEF Parts
    <3>5. CASE v[1] = w[1] /\ v[2] = w[2] /\ v[3] = w[3] /\ v[4] = w[4] /\ v[5] # w[5]
      BY <3>5 DEF Parts
    <3>6. CASE v[1] = w[1] /\ v[2] = w[2] /\ v[3] = w[3] /\ v[4] = w[4] /\ v[5] = w[5]
      BY <1>4, <3>6 DEF Parts
    <3> QED BY <3>1, <3>2, <3>3, <3>4, <3>5, <3>6
  <2> QED BY <1>2, <2>1
<1> QED BY <1>3, <1>4

\* A set of numbers has a least one.
LEMMA LeastNumber ==
    ASSUME NEW S \in SUBSET Nat, S # {}
    PROVE  \E m \in S : \A n \in S : m <= n
<1>1. PICK m \in S : \A n \in S : ~(<<n, m>> \in OpToRel(<, Nat))
  BY NatLessThanWellFounded, WFMin
<1>2. \A n \in S : ~(n < m)
  BY <1>1 DEF OpToRel
<1> QED BY <1>2

\* Among tags there is one with the least i-th part ...
LEMMA LeastPart ==
    ASSUME NEW S \in SUBSET Tag, S # {}, NEW i \in Parts
    PROVE  \E x \in S : \A y \in S : x[i] <= y[i]
<1> DEFINE numbers == {x[i] : x \in S}
<1>1. numbers \in SUBSET Nat /\ numbers # {}
  BY PartAssumption DEF Tag
<1>2. PICK m \in numbers : \A n \in numbers : m <= n
  <2> HIDE DEF numbers
  <2> QED BY <1>1, LeastNumber
<1> QED BY <1>2

\* ... and one with the greatest.
LEMMA GreatestPart ==
    ASSUME NEW S \in SUBSET Tag, S # {}, NEW i \in Parts
    PROVE  \E x \in S : \A y \in S : y[i] <= x[i]
<1> DEFINE numbers == {None - x[i] : x \in S}
<1>0. \A x \in S : x[i] \in Nat /\ x[i] <= None
  BY PartAssumption DEF Tag
<1>1. numbers \in SUBSET Nat /\ numbers # {}
  BY <1>0, PartAssumption
<1>2. PICK m \in numbers : \A n \in numbers : m <= n
  <2> HIDE DEF numbers
  <2> QED BY <1>1, LeastNumber
<1>3. PICK x \in S : m = None - x[i]
  BY <1>2
<1>4. ASSUME NEW y \in S PROVE y[i] <= x[i]
  <2>1. None - y[i] \in numbers  OBVIOUS
  <2>2. None - x[i] <= None - y[i]  BY <1>2, <1>3, <2>1
  <2> QED BY <1>0, <2>2, PartAssumption
<1> QED BY <1>4

\* v is below w in one of the first k parts.
LessWithin(v, w, k) == \E i \in 1 .. k : v[i] < w[i] /\ \A j \in 1 .. (i - 1) : v[j] = w[j]

\* In the first k parts, x is the least of S (the greatest).
LeastWithin(S, x, k) == \A y \in S : (\A j \in 1 .. k : y[j] = x[j]) \/ LessWithin(x, y, k)
GreatestWithin(S, x, k) == \A y \in S : (\A j \in 1 .. k : y[j] = x[j]) \/ LessWithin(y, x, k)

\* One part more: among those that agree with x so far, take the least.
LEMMA NarrowLeast ==
    ASSUME NEW S \in SUBSET Tag, NEW k \in 0 .. 5, NEW n, n = k + 1, NEW x \in S, LeastWithin(S, x, k)
    PROVE  \E z \in S : LeastWithin(S, z, n)
<1> DEFINE R == {y \in S : \A j \in 1 .. k : y[j] = x[j]}
<1>1. R \in SUBSET Tag /\ R # {} /\ k + 1 \in Parts
  BY DEF Parts
<1>2. PICK z \in R : \A y \in R : z[k + 1] <= y[k + 1]
  <2> HIDE DEF R
  <2> QED BY <1>1, LeastPart
<1>3. \A y \in S : y[k + 1] \in Nat
  BY <1>1, PartAssumption DEF Tag
<1>4. ASSUME NEW y \in S PROVE (\A j \in 1 .. (k + 1) : y[j] = z[j]) \/ LessWithin(z, y, k + 1)
  <2>1. CASE y \in R
    <3>1. z[k + 1] <= y[k + 1] /\ \A j \in 1 .. k : y[j] = z[j]  BY <1>2, <2>1
    <3>2. CASE z[k + 1] = y[k + 1]
      BY <3>1, <3>2
    <3>3. CASE z[k + 1] < y[k + 1]
      BY <3>1, <3>3 DEF LessWithin
    <3> QED BY <1>2, <1>3, <3>1, <3>2, <3>3
  <2>2. CASE y \notin R
    <3>1. LessWithin(x, y, k)  BY <2>2 DEF LeastWithin
    <3>2. PICK i \in 1 .. k : x[i] < y[i] /\ \A j \in 1 .. (i - 1) : x[j] = y[j]
      BY <3>1 DEF LessWithin
    <3>3. i \in 1 .. (k + 1) /\ z[i] < y[i] /\ \A j \in 1 .. (i - 1) : z[j] = y[j]
      BY <1>2, <3>2
    <3> QED BY <3>3 DEF LessWithin
  <2> QED BY <2>1, <2>2
<1> QED BY <1>2, <1>4 DEF LeastWithin

\* Likewise for the greatest.
LEMMA NarrowGreatest ==
    ASSUME NEW S \in SUBSET Tag, NEW k \in 0 .. 5, NEW n, n = k + 1, NEW x \in S, GreatestWithin(S, x, k)
    PROVE  \E z \in S : GreatestWithin(S, z, n)
<1> DEFINE R == {y \in S : \A j \in 1 .. k : y[j] = x[j]}
<1>1. R \in SUBSET Tag /\ R # {} /\ k + 1 \in Parts
  BY DEF Parts
<1>2. PICK z \in R : \A y \in R : y[k + 1] <= z[k + 1]
  <2> HIDE DEF R
  <2> QED BY <1>1, GreatestPart
<1>3. \A y \in S : y[k + 1] \in Nat
  BY <1>1, PartAssumption DEF Tag
<1>4. ASSUME NEW y \in S PROVE (\A j \in 1 .. (k + 1) : y[j] = z[j]) \/ LessWithin(y, z, k + 1)
  <2>1. CASE y \in R
    <3>1. y[k + 1] <= z[k + 1] /\ \A j \in 1 .. k : y[j] = z[j]  BY <1>2, <2>1
    <3>2. CASE z[k + 1] = y[k + 1]
      BY <3>1, <3>2
    <3>3. CASE y[k + 1] < z[k + 1]
      BY <3>1, <3>3 DEF LessWithin
    <3> QED BY <1>2, <1>3, <3>1, <3>2, <3>3
  <2>2. CASE y \notin R
    <3>1. LessWithin(y, x, k)  BY <2>2 DEF GreatestWithin
    <3>2. PICK i \in 1 .. k : y[i] < x[i] /\ \A j \in 1 .. (i - 1) : y[j] = x[j]
      BY <3>1 DEF LessWithin
    <3>3. i \in 1 .. (k + 1) /\ y[i] < z[i] /\ \A j \in 1 .. (i - 1) : y[j] = z[j]
      BY <1>2, <3>2
    <3> QED BY <3>3 DEF LessWithin
  <2> QED BY <2>1, <2>2
<1> QED BY <1>2, <1>4 DEF GreatestWithin

\* Every set of tags that is not empty has a least one.
LEMMA LeastIs ==
    ASSUME NEW S \in SUBSET Tag, S # {}
    PROVE  Least(S) \in S /\ \A w \in S : Least(S) = w \/ Less(Least(S), w)
<1> DEFINE P(k) == \E x \in S : LeastWithin(S, x, k)
<1>0. P(0)  BY DEF LeastWithin
<1>1. \A k \in 0 .. 5 : P(k) => P(k + 1)  BY NarrowLeast
<1>2. P(1) /\ P(2) /\ P(3) /\ P(4) /\ P(5) /\ P(6)
  <2> HIDE DEF P
  <2>1. P(1)  BY <1>0, <1>1
  <2>2. P(2)  BY <2>1, <1>1
  <2>3. P(3)  BY <2>2, <1>1
  <2>4. P(4)  BY <2>3, <1>1
  <2>5. P(5)  BY <2>4, <1>1
  <2>6. P(6)  BY <2>5, <1>1
  <2> QED BY <2>1, <2>2, <2>3, <2>4, <2>5, <2>6
<1>6. PICK x6 \in S : LeastWithin(S, x6, 6)  BY <1>2
<1>7. \A w \in S : x6 = w \/ Less(x6, w)
  BY <1>6 DEF LeastWithin, LessWithin, Less, Tag, Parts
<1> QED BY <1>7 DEF Least

\* And a greatest one.
LEMMA GreatestIs ==
    ASSUME NEW S \in SUBSET Tag, S # {}
    PROVE  Greatest(S) \in S /\ \A w \in S : Greatest(S) = w \/ Less(w, Greatest(S))
<1> DEFINE P(k) == \E x \in S : GreatestWithin(S, x, k)
<1>0. P(0)  BY DEF GreatestWithin
<1>1. \A k \in 0 .. 5 : P(k) => P(k + 1)  BY NarrowGreatest
<1>2. P(1) /\ P(2) /\ P(3) /\ P(4) /\ P(5) /\ P(6)
  <2> HIDE DEF P
  <2>1. P(1)  BY <1>0, <1>1
  <2>2. P(2)  BY <2>1, <1>1
  <2>3. P(3)  BY <2>2, <1>1
  <2>4. P(4)  BY <2>3, <1>1
  <2>5. P(5)  BY <2>4, <1>1
  <2>6. P(6)  BY <2>5, <1>1
  <2> QED BY <2>1, <2>2, <2>3, <2>4, <2>5, <2>6
<1>6. PICK x6 \in S : GreatestWithin(S, x6, 6)  BY <1>2
<1>7. \A w \in S : x6 = w \/ Less(w, x6)
  BY <1>6 DEF GreatestWithin, LessWithin, Less, Tag, Parts
<1> QED BY <1>7 DEF Greatest

----------------------------------------------------------------------------
(* The aliases of a version *)

\* What Clear keeps and what it drops.
LEMMA ClearParts ==
    ASSUME NEW v \in Tag, NEW i \in 2 .. 6
    PROVE  /\ Clear(v, i) \in Tag
           /\ \A j \in Parts : Clear(v, i)[j] = IF j >= i THEN None ELSE v[j]
BY PartAssumption DEF Clear, Tag, Parts

\* Clearing twice is clearing from the earlier part.
LEMMA ClearTwice ==
    ASSUME NEW v \in Tag, NEW i \in 2 .. 6, NEW k \in 2 .. 6
    PROVE  /\ k <= i => Clear(Clear(v, i), k) = Clear(v, k)
           /\ i <= k => Clear(Clear(v, i), k) = Clear(v, i)
BY PartAssumption DEF Clear, Tag, Parts

\* The aliases of a release are its truncations, the one alias of a build of a
\* pre-release is the pre-release.
LEMMA TargetsAre ==
    ASSUME NEW v \in Tag, NEW t
    PROVE  t \in Targets(v) <=>
              \/ HasPrerelease(v) /\ HasBuild(v) /\ t = Clear(v, 6)
              \/ ~HasPrerelease(v) /\ t # v /\ \E i \in 2 .. 6 : t = Clear(v, i)
<1>1. CASE HasPrerelease(v)
  BY <1>1 DEF Targets
<1>2. CASE ~HasPrerelease(v)
  <2>1. Targets(v) = (Ancestors(v) \cup {Root(v)}) \ {v}
    BY <1>2 DEF Targets
  <2>2. t \in Ancestors(v) \cup {Root(v)} /\ t # v <=> t # v /\ \E i \in 2 .. 6 : t = Clear(v, i)
    BY DEF Ancestors, Root
  <2> QED BY <1>2, <2>1, <2>2
<1> QED BY <1>1, <1>2

\* An alias is above its version, on the same track, never a build, and a
\* pre-release only if the version is one.
LEMMA TargetAbove ==
    ASSUME NEW v \in Tag, NEW t \in Targets(v)
    PROVE  /\ t \in Tag /\ Less(v, t) /\ t # v /\ t[1] = v[1]
           /\ ~HasBuild(t)
           /\ HasPrerelease(t) <=> HasPrerelease(v)
<1>1. PICK i \in 2 .. 6 : t = Clear(v, i) /\ t # v /\ (HasPrerelease(v) => i = 6)
  <2>1. CASE HasPrerelease(v)
    <3>1. HasBuild(v) /\ t = Clear(v, 6)  BY <2>1, TargetsAre
    <3>2. t[6] = None /\ v[6] # None  BY <3>1, ClearParts DEF HasBuild, Parts
    <3> QED BY <3>1, <3>2
  <2>2. CASE ~HasPrerelease(v)
    BY <2>2, TargetsAre
  <2> QED BY <2>1, <2>2
<1>2. t \in Tag /\ \A j \in Parts : t[j] = IF j >= i THEN None ELSE v[j]
  BY <1>1, ClearParts
<1>3. \A j \in Parts : v[j] = t[j] \/ v[j] < t[j]
  BY <1>2, PartAssumption DEF Tag
<1>4. ~Less(t, v)
  <2> SUFFICES ASSUME Less(t, v) PROVE FALSE  OBVIOUS
  <2>1. PICK k \in Parts : t[k] < v[k]  BY DEF Less
  <2> QED BY <1>2, <1>3, <2>1, PartAssumption DEF Tag
<1>5. Less(v, t)
  BY <1>1, <1>2, <1>4, LessTotal
<1>6. t[1] = v[1] /\ t[6] = None
  BY <1>1, <1>2 DEF Parts
<1>7. HasPrerelease(t) <=> HasPrerelease(v)
  BY <1>1, <1>2 DEF HasPrerelease, Parts
<1> QED BY <1>1, <1>2, <1>5, <1>6, <1>7 DEF HasBuild

\* The alias of an alias is an alias.
LEMMA TargetsTransitive ==
    ASSUME NEW v \in Tag, NEW u \in Targets(v), NEW t \in Targets(u)
    PROVE  t \in Targets(v)
<1>0. u \in Tag /\ t \in Tag /\ Less(v, u) /\ Less(u, t) /\ ~HasBuild(u)
      /\ (HasPrerelease(u) <=> HasPrerelease(v))
  BY TargetAbove
<1>1. t # v
  BY <1>0, LessTransitive, LessIrreflexive
<1>2. ~HasPrerelease(u)
  BY <1>0, TargetsAre
<1>3. PICK i \in 2 .. 6 : u = Clear(v, i)
  BY <1>0, <1>2, TargetsAre
<1>4. PICK k \in 2 .. 6 : t = Clear(u, k)
  BY <1>0, <1>2, TargetsAre
<1>5. t = Clear(v, k) \/ t = Clear(v, i)
  BY <1>3, <1>4, ClearTwice
<1> QED BY <1>0, <1>1, <1>2, <1>5, TargetsAre

\* Of two aliases of a version, the upper is an alias of the lower.
LEMMA TargetsChain ==
    ASSUME NEW v \in Tag, NEW u \in Targets(v), NEW t \in Targets(v), Less(u, t)
    PROVE  t \in Targets(u)
<1>0. /\ u \in Tag /\ t \in Tag
      /\ HasPrerelease(u) <=> HasPrerelease(v)
  BY TargetAbove
<1>1. u # t
  BY <1>0, LessIrreflexive
<1>2. ~HasPrerelease(v)
  BY <1>1, TargetsAre
<1>3. PICK i \in 2 .. 6 : u = Clear(v, i)
  BY <1>2, TargetsAre
<1>4. PICK k \in 2 .. 6 : t = Clear(v, k)
  BY <1>2, TargetsAre
<1>5. CASE k <= i
  <2>1. t = Clear(u, k)  BY <1>3, <1>4, <1>5, ClearTwice
  <2> QED BY <1>0, <1>1, <1>2, <2>1, TargetsAre
<1>6. CASE i < k
  <2>1. u = Clear(t, i)  BY <1>3, <1>4, <1>6, ClearTwice
  <2>2. u \in Targets(t)  BY <1>0, <1>1, <1>2, <1>4, <2>1, TargetsAre, TargetAbove
  <2>3. Less(t, u)  BY <1>0, <2>2, TargetAbove
  <2> QED BY <1>0, <2>3, LessTransitive, LessIrreflexive
<1> QED BY <1>5, <1>6

\* What stands between two tags that share a prefix shares it.
LEMMA Sandwich ==
    ASSUME NEW a \in Tag, NEW b \in Tag, NEW o \in Tag, Less(a, o), Less(o, b),
           NEW k \in Parts, \A j \in 1 .. (k - 1) : a[j] = b[j]
    PROVE  \A j \in 1 .. (k - 1) : o[j] = a[j]
<1>0. \A j \in Parts : a[j] \in Nat /\ b[j] \in Nat /\ o[j] \in Nat
  BY PartAssumption DEF Tag
<1>1. PICK m \in Parts : a[m] < o[m] /\ \A j \in 1 .. (m - 1) : a[j] = o[j]
  BY DEF Less
<1>2. PICK n \in Parts : o[n] < b[n] /\ \A j \in 1 .. (n - 1) : o[j] = b[j]
  BY DEF Less
<1>3. ASSUME m < k PROVE FALSE
  <2>1. a[m] = b[m]  BY <1>3 DEF Parts
  <2>2. CASE m < n  BY <1>0, <1>1, <1>2, <2>1, <2>2 DEF Parts
  <2>3. CASE n <= m
    <3>1. a[n] = b[n]  BY <1>3, <2>3 DEF Parts
    <3>2. CASE n < m  BY <1>0, <1>1, <1>2, <3>1, <3>2 DEF Parts
    <3>3. CASE n = m  BY <1>0, <1>1, <1>2, <3>1, <3>3 DEF Parts
    <3> QED BY <2>3, <3>2, <3>3 DEF Parts
  <2> QED BY <2>2, <2>3 DEF Parts
<1> QED BY <1>1, <1>3 DEF Parts

\* The versions that would be passed over if s moved its alias t.
Zone(s, t, o) ==
    IF HasPrerelease(s)
    THEN Less(s, o) /\ HasBuild(o) /\ \A i \in 1 .. 5 : o[i] = s[i]
    ELSE Less(s, o) /\ Less(o, t) /\ ~HasPrerelease(o) /\ o \notin Targets(s)

\* They cascade into t as well.
LEMMA ZoneTarget ==
    ASSUME NEW s \in Tag, NEW o \in Tag, NEW t \in Targets(s), Zone(s, t, o)
    PROVE  t \in Targets(o) /\ Less(s, o)
<1>0. t \in Tag /\ Less(s, o)
  BY TargetAbove DEF Zone
<1>1. CASE HasPrerelease(s)
  <2>1. HasBuild(o) /\ \A i \in 1 .. 5 : o[i] = s[i]  BY <1>1 DEF Zone
  <2>2. t = Clear(s, 6)  BY <1>1, TargetsAre
  <2>3. HasPrerelease(o)  BY <1>1, <2>1 DEF HasPrerelease
  <2>4. Clear(o, 6) = Clear(s, 6)  BY <2>1 DEF Clear, Parts
  <2> QED BY <1>0, <2>1, <2>2, <2>3, <2>4, TargetsAre
<1>2. CASE ~HasPrerelease(s)
  <2>1. Less(o, t) /\ ~HasPrerelease(o)  BY <1>2 DEF Zone
  <2>2. PICK k \in 2 .. 6 : t = Clear(s, k)  BY <1>2, TargetsAre
  <2>3. \A j \in Parts : t[j] = IF j >= k THEN None ELSE s[j]  BY <2>2, ClearParts
  <2>4. k \in Parts /\ \A j \in 1 .. (k - 1) : s[j] = t[j]  BY <2>3 DEF Parts
  <2>5. \A j \in 1 .. (k - 1) : o[j] = s[j]  BY <1>0, <2>1, <2>4, Sandwich
  <2>6. Clear(o, k) = Clear(s, k)  BY <2>5 DEF Clear, Parts
  <2>7. t # o  BY <1>0, <2>1, LessIrreflexive
  <2> QED BY <1>0, <2>1, <2>2, <2>6, <2>7, TargetsAre
<1> QED BY <1>1, <1>2

\* A later version that shares the alias t is one of them.
LEMMA ZoneOf ==
    ASSUME NEW s \in Tag, NEW o \in Tag, NEW t \in Targets(s), t \in Targets(o),
           Less(s, o), o \notin Targets(s)
    PROVE  Zone(s, t, o)
<1>1. CASE HasPrerelease(s)
  <2>1. HasPrerelease(o)  BY <1>1, TargetAbove
  <2>2. HasBuild(o) /\ Clear(s, 6) = Clear(o, 6)  BY <1>1, <2>1, TargetsAre
  <2>3. \A i \in 1 .. 5 : Clear(s, 6)[i] = s[i] /\ Clear(o, 6)[i] = o[i]
    BY ClearParts DEF Parts
  <2> QED BY <1>1, <2>2, <2>3 DEF Zone
<1>2. CASE ~HasPrerelease(s)
  BY <1>2, TargetAbove DEF Zone
<1> QED BY <1>1, <1>2

\* The higher the alias, the more of them.
LEMMA ZoneUp ==
    ASSUME NEW s \in Tag, NEW o \in Tag, NEW u \in Targets(s), NEW t \in Targets(s), Less(u, t),
           Zone(s, u, o)
    PROVE  Zone(s, t, o)
BY TargetAbove, LessTransitive DEF Zone

\* decompose finds them all, level by level.
LEMMA ZoneBlockers ==
    ASSUME NEW s \in Tag, NEW t \in Targets(s), NEW others \in SUBSET Tag
    PROVE  /\ \A o \in Blockers(s, t, others) : o \in others /\ Zone(s, t, o)
           /\ \A o \in others : Zone(s, t, o) =>
                 o \in Blockers(s, t, others) \/ \E u \in Targets(s) : Less(u, t) /\ Zone(s, u, o)
<1>1. CASE HasPrerelease(s)
  BY <1>1 DEF Zone, Blockers
<1>2. CASE ~HasPrerelease(s)
  <2> DEFINE below == {s} \cup {u \in Targets(s) : Less(u, t)}
             current == Greatest(below)
  <2>1. below \in SUBSET Tag /\ below # {}
    BY TargetAbove
  <2>2. current \in below /\ \A w \in below : current = w \/ Less(w, current)
    <3> HIDE DEF below
    <3> QED BY <2>1, GreatestIs
  <2>3. Blockers(s, t, others) = {o \in others : Less(current, o) /\ Less(o, t) /\ ~HasPrerelease(o)}
    BY <1>2 DEF Blockers
  <2>4. current \in Tag /\ (current = s \/ (current \in Targets(s) /\ Less(current, t) /\ Less(s, current)))
    BY <2>1, <2>2, TargetAbove
  <2> HIDE DEF current
  <2>5. ASSUME NEW o \in others, Less(current, o), Less(o, t), ~HasPrerelease(o)
        PROVE  Zone(s, t, o)
    <3>1. Less(s, o)  BY <2>4, <2>5, LessTransitive
    <3>2. ASSUME o \in Targets(s) PROVE FALSE
      <4>1. current = o \/ Less(o, current)  BY <2>2, <2>5, <3>2
      <4> QED BY <2>4, <2>5, <4>1, LessIrreflexive, LessTransitive
    <3> QED BY <1>2, <2>5, <3>1, <3>2 DEF Zone
  <2>6. ASSUME NEW o \in others, Zone(s, t, o), ~Less(current, o)
        PROVE  \E u \in Targets(s) : Less(u, t) /\ Zone(s, u, o)
    <3>1. Less(s, o) /\ Less(o, t) /\ ~HasPrerelease(o) /\ o \notin Targets(s)
      BY <1>2, <2>6 DEF Zone
    <3>2. current # s /\ current # o
      BY <2>4, <2>6, <3>1
    <3>3. Less(o, current)
      BY <2>4, <2>6, <3>2, LessTotal
    <3> QED BY <1>2, <2>4, <3>1, <3>2, <3>3 DEF Zone
  <2>7. \A o \in others : Zone(s, t, o) => Less(o, t) /\ ~HasPrerelease(o)
    BY <1>2 DEF Zone
  <2> QED BY <2>3, <2>5, <2>6, <2>7
<1> QED BY <1>1, <1>2

\* What such a tag serves is later than s, and cascades into t too.
LEMMA ZoneBelow ==
    ASSUME NEW s \in Tag, NEW o \in Tag, NEW t \in Targets(s), Zone(s, t, o),
           NEW w \in Tag, o \in {w} \cup Targets(w)
    PROVE  Less(s, w) /\ t \in Targets(w)
<1>1. t \in Targets(o) /\ Less(s, o)
  BY ZoneTarget
<1>2. CASE o = w
  BY <1>1, <1>2
<1>3. CASE o \in Targets(w)
  <2>1. t \in Targets(w)  BY <1>1, <1>3, TargetsTransitive
  <2>2. ~HasPrerelease(s)  BY <1>3, TargetAbove DEF Zone
  <2>3. ~HasPrerelease(w)  BY <1>3, <2>2, TargetAbove DEF Zone
  <2>4. PICK k \in 2 .. 6 : o = Clear(w, k)  BY <1>3, <2>3, TargetsAre
  <2>5. \A j \in Parts : o[j] = IF j >= k THEN None ELSE w[j]  BY <2>4, ClearParts
  <2>6. PICK i \in Parts : s[i] < o[i] /\ \A j \in 1 .. (i - 1) : s[j] = o[j]  BY <1>1 DEF Less
  <2>7. CASE i < k
    <3>1. s[i] < w[i] /\ \A j \in 1 .. (i - 1) : s[j] = w[j]  BY <2>5, <2>6, <2>7 DEF Parts
    <3> QED BY <2>1, <3>1 DEF Less
  <2>8. CASE k <= i
    <3>1. \A j \in 1 .. (k - 1) : s[j] = w[j]  BY <2>5, <2>6, <2>8 DEF Parts
    <3>2. Clear(s, k) = Clear(w, k)  BY <3>1 DEF Clear, Parts
    <3>3. o # s  BY <1>1, LessIrreflexive
    <3>4. o \in Targets(s)  BY <2>2, <2>4, <3>2, <3>3, TargetsAre
    <3> QED BY <2>2, <3>4 DEF Zone
  <2> QED BY <2>7, <2>8 DEF Parts
<1> QED BY <1>2, <1>3

\* On its track, the build c is the version s it is published as.
LEMMA OnTrackOf ==
    ASSUME NEW c \in Tag, NEW s, s = c \/ s = WithoutVariant(c), NEW t, t[1] = s[1]
    PROVE  OnTrack(c, t) = s /\ s \in Tag
<1>1. WithoutVariant(c) \in Tag /\ WithoutVariant(c)[1] = None
  BY PartAssumption DEF WithoutVariant, Tag, Parts
<1>2. c[1] = None => WithoutVariant(c) = c
  BY DEF WithoutVariant, Tag
<1> QED BY <1>1, <1>2 DEF OnTrack

----------------------------------------------------------------------------
(* Indexes and maps of tags *)

Platform == UNION {{x.platform : x \in k.pushes} : k \in Campaigns}

Index == UNION {[P -> Tag] : P \in SUBSET Platform}
TagMap == UNION {[T -> Index] : T \in SUBSET Tag}

\* An index is a function from some platforms to versions.
LEMMA IndexIs ==
    ASSUME NEW f
    PROVE  f \in Index <=> /\ f = [q \in DOMAIN f |-> f[q]]
                           /\ DOMAIN f \subseteq Platform
                           /\ \A q \in DOMAIN f : f[q] \in Tag
<1>1. ASSUME f \in Index
      PROVE  f = [q \in DOMAIN f |-> f[q]] /\ DOMAIN f \subseteq Platform /\ \A q \in DOMAIN f : f[q] \in Tag
  <2>1. PICK P \in SUBSET Platform : f \in [P -> Tag]  BY <1>1 DEF Index
  <2> QED BY <2>1
<1>2. ASSUME f = [q \in DOMAIN f |-> f[q]], DOMAIN f \subseteq Platform, \A q \in DOMAIN f : f[q] \in Tag
      PROVE  f \in Index
  <2>1. f \in [DOMAIN f -> Tag]  BY <1>2
  <2> QED BY <1>2, <2>1 DEF Index
<1> QED BY <1>1, <1>2

\* A map of tags is a function from some tags to indexes.
LEMMA TagMapIs ==
    ASSUME NEW f
    PROVE  f \in TagMap <=> /\ f = [t \in DOMAIN f |-> f[t]]
                            /\ DOMAIN f \subseteq Tag
                            /\ \A t \in DOMAIN f : f[t] \in Index
<1>1. ASSUME f \in TagMap
      PROVE  f = [t \in DOMAIN f |-> f[t]] /\ DOMAIN f \subseteq Tag /\ \A t \in DOMAIN f : f[t] \in Index
  <2>1. PICK T \in SUBSET Tag : f \in [T -> Index]  BY <1>1 DEF TagMap
  <2> QED BY <2>1
<1>2. ASSUME f = [t \in DOMAIN f |-> f[t]], DOMAIN f \subseteq Tag, \A t \in DOMAIN f : f[t] \in Index
      PROVE  f \in TagMap
  <2>1. f \in [DOMAIN f -> Index]  BY <1>2
  <2> QED BY <1>2, <2>1 DEF TagMap
<1> QED BY <1>1, <1>2

\* The empty index is one, of either kind.
LEMMA EmptyIs == EmptyIndex \in Index /\ EmptyIndex \in TagMap /\ DOMAIN EmptyIndex = {}
<1>1. EmptyIndex = [q \in DOMAIN EmptyIndex |-> EmptyIndex[q]] /\ DOMAIN EmptyIndex = {}
  BY DEF EmptyIndex
<1> QED BY <1>1, IndexIs, TagMapIs

\* What laying one index over another gives.
LEMMA OverIs ==
    ASSUME NEW f, NEW g
    PROVE  /\ DOMAIN Over(f, g) = DOMAIN f \cup DOMAIN g
           /\ \A q \in DOMAIN f : Over(f, g)[q] = f[q]
           /\ \A q \in DOMAIN g \ DOMAIN f : Over(f, g)[q] = g[q]
           /\ f \in Index /\ g \in Index => Over(f, g) \in Index
           /\ f \in TagMap /\ g \in TagMap => Over(f, g) \in TagMap
<1>1. /\ DOMAIN Over(f, g) = DOMAIN f \cup DOMAIN g
      /\ \A q \in DOMAIN f : Over(f, g)[q] = f[q]
      /\ \A q \in DOMAIN g \ DOMAIN f : Over(f, g)[q] = g[q]
      /\ Over(f, g) = [q \in DOMAIN Over(f, g) |-> Over(f, g)[q]]
  BY DEF Over
<1>2. ASSUME f \in Index, g \in Index PROVE Over(f, g) \in Index
  <2>1. /\ DOMAIN f \subseteq Platform /\ \A q \in DOMAIN f : f[q] \in Tag
        /\ DOMAIN g \subseteq Platform /\ \A q \in DOMAIN g : g[q] \in Tag
    BY <1>2, IndexIs
  <2> QED BY <1>1, <2>1, IndexIs
<1>3. ASSUME f \in TagMap, g \in TagMap PROVE Over(f, g) \in TagMap
  <2>1. /\ DOMAIN f \subseteq Tag /\ \A q \in DOMAIN f : f[q] \in Index
        /\ DOMAIN g \subseteq Tag /\ \A q \in DOMAIN g : g[q] \in Index
    BY <1>3, TagMapIs
  <2> QED BY <1>1, <2>1, TagMapIs
<1> QED BY <1>1, <1>2, <1>3

\* A tag without an index reads as the empty one.
LEMMA IndexAtIs ==
    ASSUME NEW m \in TagMap, NEW t
    PROVE  /\ IndexAt(m, t) \in Index
           /\ t \in DOMAIN m => IndexAt(m, t) = m[t]
           /\ t \notin DOMAIN m => DOMAIN IndexAt(m, t) = {}
BY EmptyIs, TagMapIs DEF IndexAt

\* Removing a tag removes nothing else.
LEMMA WithoutIs ==
    ASSUME NEW m \in TagMap, NEW t
    PROVE  /\ Without(m, t) \in TagMap
           /\ DOMAIN Without(m, t) = DOMAIN m \ {t}
           /\ \A u \in DOMAIN m \ {t} : Without(m, t)[u] = m[u]
<1>1. /\ DOMAIN Without(m, t) = DOMAIN m \ {t}
      /\ \A u \in DOMAIN m \ {t} : Without(m, t)[u] = m[u]
      /\ Without(m, t) = [u \in DOMAIN Without(m, t) |-> Without(m, t)[u]]
  BY DEF Without
<1> QED BY <1>1, TagMapIs

----------------------------------------------------------------------------
(* What an alias should hold *)

\* The leaves that back an alias on a platform.
LEMMA SourcesIs ==
    ASSUME NEW m, NEW t, NEW q, NEW v
    PROVE  v \in Sources(m, t, q) <=>
              /\ v \in DOMAIN m /\ IsVersion(v) /\ v \notin AliasUniverse(Versions(m))
              /\ t \in Targets(v) /\ q \in DOMAIN m[v]
BY DEF Sources, Leaves, Versions

\* The fold takes, for every platform that is backed, the entry of the latest leaf.
LEMMA ExpectedIs ==
    ASSUME NEW m \in TagMap, NEW t
    PROVE  /\ Expected(m, t) \in Index
           /\ \A q : q \in DOMAIN Expected(m, t) <=> Sources(m, t, q) # {}
           /\ \A q \in DOMAIN Expected(m, t) :
                 /\ Greatest(Sources(m, t, q)) \in Sources(m, t, q)
                 /\ \A w \in Sources(m, t, q) :
                       Greatest(Sources(m, t, q)) = w \/ Less(w, Greatest(Sources(m, t, q)))
                 /\ Expected(m, t)[q] = m[Greatest(Sources(m, t, q))][q]
<1> DEFINE platforms == UNION {DOMAIN m[v] : v \in Versions(m)}
           D == {q \in platforms : Sources(m, t, q) # {}}
           f == [q \in D |-> m[Greatest(Sources(m, t, q))][q]]
<1>1. Expected(m, t) = f
  BY DEF Expected
<1>2. ASSUME NEW q, Sources(m, t, q) # {} PROVE q \in platforms
  <2>1. PICK v : v \in Sources(m, t, q)  BY <1>2
  <2>2. v \in Versions(m) /\ q \in DOMAIN m[v]  BY <2>1, SourcesIs DEF Versions
  <2> QED BY <2>2
<1>3. \A q : q \in D <=> Sources(m, t, q) # {}
  BY <1>2
<1>4. \A q : Sources(m, t, q) \in SUBSET Tag
  BY SourcesIs, TagMapIs
<1>5. \A q \in D : /\ Greatest(Sources(m, t, q)) \in Sources(m, t, q)
                   /\ \A w \in Sources(m, t, q) :
                         Greatest(Sources(m, t, q)) = w \/ Less(w, Greatest(Sources(m, t, q)))
  BY <1>3, <1>4, GreatestIs
<1> HIDE DEF D
<1>6. DOMAIN f = D /\ \A q \in D : f[q] = m[Greatest(Sources(m, t, q))][q]
  OBVIOUS
<1>7. ASSUME NEW q \in D PROVE q \in Platform /\ f[q] \in Tag
  <2>1. PICK v : v = Greatest(Sources(m, t, q))  OBVIOUS
  <2>2. v \in DOMAIN m /\ q \in DOMAIN m[v]  BY <1>5, <2>1, SourcesIs
  <2>3. m[v] \in Index  BY <2>2, TagMapIs
  <2>4. q \in Platform /\ m[v][q] \in Tag  BY <2>2, <2>3, IndexIs
  <2> QED BY <1>6, <2>1, <2>4
<1>8. f = [q \in DOMAIN f |-> f[q]]
  OBVIOUS
<1> HIDE DEF f
<1>9. f \in Index
  BY <1>6, <1>7, <1>8, IndexIs
<1> QED BY <1>1, <1>3, <1>5, <1>6, <1>9

\* Only the leaves and what they hold matter to the fold.
LEMMA ExpectedSame ==
    ASSUME NEW m \in TagMap, NEW n \in TagMap, NEW t,
           Leaves(Versions(m)) = Leaves(Versions(n)), \A v \in Leaves(Versions(m)) : m[v] = n[v]
    PROVE  Expected(m, t) = Expected(n, t)
<1>1. \A q : Sources(m, t, q) = Sources(n, t, q)
  BY DEF Sources
<1>2. DOMAIN Expected(m, t) = DOMAIN Expected(n, t)
  BY <1>1, ExpectedIs
<1>3. ASSUME NEW q \in DOMAIN Expected(m, t) PROVE Expected(m, t)[q] = Expected(n, t)[q]
  <2>1. Greatest(Sources(m, t, q)) \in Sources(m, t, q)  BY ExpectedIs
  <2>2. Greatest(Sources(m, t, q)) \in Leaves(Versions(m))  BY <2>1 DEF Sources
  <2> QED BY <1>1, <1>2, <2>2, ExpectedIs
<1>4. /\ Expected(m, t) = [q \in DOMAIN Expected(m, t) |-> Expected(m, t)[q]]
      /\ Expected(n, t) = [q \in DOMAIN Expected(n, t) |-> Expected(n, t)[q]]
  BY ExpectedIs, IndexIs
<1> QED BY <1>2, <1>3, <1>4

\* The aliases of a set of versions, and the aliases of those.
LEMMA UniverseIs ==
    ASSUME NEW V \in SUBSET Tag
    PROVE  /\ \A t : t \in AliasUniverse(V) <=> \E v \in V : t \in Targets(v)
           /\ AliasUniverse(V) \subseteq Tag
           /\ \A a \in AliasUniverse(V) : Targets(a) \subseteq AliasUniverse(V)
<1>1. \A t : t \in AliasUniverse(V) <=> \E v \in V : t \in Targets(v)
  BY DEF AliasUniverse
<1>2. AliasUniverse(V) \subseteq Tag
  BY <1>1, TargetAbove
<1>3. ASSUME NEW a \in AliasUniverse(V), NEW t \in Targets(a) PROVE t \in AliasUniverse(V)
  BY <1>1, TargetsTransitive
<1> QED BY <1>1, <1>2, <1>3

\* Every alias has a leaf below it.
LEMMA LeafBelow ==
    ASSUME NEW V \in SUBSET Tag, NEW t \in AliasUniverse(V)
    PROVE  \E v \in Leaves(V) : t \in Targets(v)
<1> DEFINE S == {v \in V : t \in Targets(v)}
<1>1. S \in SUBSET Tag /\ S # {}
  BY UniverseIs
<1>2. Least(S) \in S /\ \A w \in S : Least(S) = w \/ Less(Least(S), w)
  <2> HIDE DEF S
  <2> QED BY <1>1, LeastIs
<1>3. ASSUME Least(S) \in AliasUniverse(V) PROVE FALSE
  <2>1. PICK w \in V : Least(S) \in Targets(w)  BY <1>3, UniverseIs
  <2>2. t \in Targets(w)  BY <1>2, <2>1, TargetsTransitive
  <2>3. Less(w, Least(S)) /\ Least(S) # w /\ Least(S) \in Tag  BY <2>1, TargetAbove
  <2>4. Least(S) = w \/ Less(Least(S), w)  BY <1>2, <2>2
  <2> QED BY <2>3, <2>4, LessTransitive, LessIrreflexive
<1> QED BY <1>2, <1>3 DEF Leaves

\* A scope is made of aliases, and depends on the versions by their aliases alone.
LEMMA ScopeIs ==
    ASSUME NEW V, NEW W, NEW requested
    PROVE  /\ Scope(V, requested) \subseteq AliasUniverse(V)
           /\ AliasUniverse(V) = AliasUniverse(W) => Scope(V, requested) = Scope(W, requested)
BY DEF Scope

----------------------------------------------------------------------------
(* Types, and what a tag serves *)

\* Every entry of an index at t is a build that is pushed, as a version that t
\* is, or is an alias of.
GoodAt(t, f) ==
    \A q \in DOMAIN f : \E x \in campaign.pushes :
        /\ x.version = f[q]
        /\ OnTrack(f[q], t) \in SubjectsOf(x)
        /\ t \in {OnTrack(f[q], t)} \cup Targets(OnTrack(f[q], t))

CampaignOK ==
    /\ campaign \in Campaigns
    /\ todo \subseteq campaign.pushes
    /\ kept \subseteq {<<x.version, x.platform>> : x \in campaign.pushes}
    /\ marks \subseteq {"failed", "tangled", "pruned", "lost"}
    /\ failures \in 0 .. campaign.failures

TagsGood == \A t \in DOMAIN tags : DOMAIN tags[t] # {} /\ GoodAt(t, tags[t])
TagsOK == tags \in TagMap /\ TagsGood

Goals(j) == {Subject(j)} \cup Targets(Subject(j))

Writing(j) == j.pc \in {"resolve", "read", "write"}

JobOK(j) ==
    /\ j.push \in campaign.pushes
    /\ j.bare => j.push.default
    /\ j.levels \subseteq Targets(Subject(j))
    /\ j.writes \subseteq Goals(j)
    /\ j.pc = "resolve" => Subject(j) \in j.writes
    /\ j.pc \in {"read", "write"} => j.writes # {} /\ j.levels = {}
    /\ j.pc = "write" => GoodAt(NextWrite(j.writes), j.read)

JobShape ==
    [pc : {"idle", "resolve", "read", "write", "keep"},
     push : {NoPush} \cup UNION {k.pushes : k \in Campaigns},
     others : SUBSET Tag, levels : SUBSET Tag, writes : SUBSET Tag, read : Index, bare : BOOLEAN]

JobsGood == \A p \in Publishers : push[p].pc # "idle" => JobOK(push[p])
JobsOK == push \in [Publishers -> JobShape] /\ JobsGood

RepairShape ==
    [pc : {"idle", "gather", "preflight", "apply"}, listed : SUBSET Tag, seen : TagMap, plan : TagMap,
     confirmed : SUBSET Tag, complete : BOOLEAN, torn : BOOLEAN, still : BOOLEAN]

RepairGood ==
    /\ \A t \in DOMAIN repair.seen : DOMAIN repair.seen[t] # {} /\ GoodAt(t, repair.seen[t])
    /\ \A t \in DOMAIN repair.plan : DOMAIN repair.plan[t] # {} /\ GoodAt(t, repair.plan[t])
    /\ repair.confirmed \subseteq DOMAIN repair.plan
    /\ repair.pc # "apply" => repair.confirmed = {}
RepairOK == repair \in RepairShape /\ RepairGood

TypeInv == CampaignOK /\ TagsOK /\ JobsOK /\ RepairOK

\* Every step leaves the campaign as it is, and so what is derived from it.
LEMMA CampaignFixed ==
    [CascadeNext]_cascadeVars
        => /\ UNCHANGED campaign /\ Subjects' = Subjects
           /\ (Separate' <=> Separate) /\ (Unambiguous' <=> Unambiguous)
<1> SUFFICES ASSUME [CascadeNext]_cascadeVars
             PROVE  /\ UNCHANGED campaign /\ Subjects' = Subjects
                    /\ (Separate' <=> Separate) /\ (Unambiguous' <=> Unambiguous)
  OBVIOUS
<1>1. ASSUME PushNext PROVE UNCHANGED campaign
  BY <1>1 DEF PushNext, BeginPush, Resolve, PushManifest, BeginAliases, MergeRead, MergeWrite, PushKeepTag,
              FailPush
<1>2. ASSUME RepairNext PROVE UNCHANGED campaign
  BY <1>2 DEF RepairNext, List, ReadTag, PlanRepair, Preflight, ConfirmAlias, PutAlias, FailAlias, EndRepair,
              AbortRepair
<1>3. ASSUME PruneNext PROVE UNCHANGED campaign
  BY <1>3 DEF PruneNext, Select, Judge, DeleteTag, EndPrune
<1>4. ASSUME \E m \in manifests : DeleteManifest(m) PROVE UNCHANGED campaign
  BY <1>4 DEF DeleteManifest
<1>5. ASSUME UNCHANGED cascadeVars PROVE UNCHANGED campaign
  BY <1>5 DEF cascadeVars
<1>6. UNCHANGED campaign
  BY <1>1, <1>2, <1>3, <1>4, <1>5 DEF CascadeNext
<1>7. Subjects' = Subjects
  BY <1>6 DEF Subjects
<1> QED BY <1>6, <1>7 DEF Separate, Unambiguous

\* What is pushed is a version, and so is what it is published as.
LEMMA SubjectsAre ==
    ASSUME CampaignOK
    PROVE  /\ Subjects \subseteq Tag
           /\ \A v \in Subjects : IsVersion(v)
           /\ \A x \in campaign.pushes :
                 x.version \in Tag /\ x.platform \in Platform /\ SubjectsOf(x) \subseteq Subjects
<1>1. \A x \in campaign.pushes : x.version \in Tag /\ IsVersion(x.version) /\ x.platform \in Platform
  BY CampaignAssumption DEF CampaignOK, Platform
<1>2. \A v \in Tag : IsVersion(v) => WithoutVariant(v) \in Tag /\ IsVersion(WithoutVariant(v))
  BY PartAssumption DEF WithoutVariant, Tag, IsVersion, Parts
<1>3. \A x \in campaign.pushes : \A v \in SubjectsOf(x) : v \in Tag /\ IsVersion(v)
  BY <1>1, <1>2 DEF SubjectsOf
<1> QED BY <1>1, <1>3 DEF Subjects

\* The version a push is at work on, and the tags it may write.
LEMMA SubjectIs ==
    ASSUME CampaignOK, NEW j, JobOK(j)
    PROVE  /\ j.push.version \in Tag /\ j.push.platform \in Platform
           /\ Subject(j) \in Tag /\ Subject(j) \in SubjectsOf(j.push) /\ Subject(j) \in Subjects
           /\ Goals(j) \subseteq Tag
           /\ \A t \in Goals(j) : t[1] = Subject(j)[1] /\ OnTrack(j.push.version, t) = Subject(j)
           /\ \A t \in Goals(j) : t = Subject(j) \/ Less(Subject(j), t)
<1>1. j.push.version \in Tag /\ j.push.platform \in Platform /\ SubjectsOf(j.push) \subseteq Subjects
  BY SubjectsAre DEF JobOK
<1>2. Subject(j) \in SubjectsOf(j.push)
  BY DEF Subject, SubjectsOf, JobOK
<1>3. Subject(j) \in Subjects /\ Subject(j) \in Tag
  BY <1>1, <1>2, SubjectsAre
<1>4. \A t \in Goals(j) : t \in Tag /\ t[1] = Subject(j)[1] /\ (t = Subject(j) \/ Less(Subject(j), t))
  BY <1>3, TargetAbove DEF Goals
<1>5. Subject(j) = j.push.version \/ Subject(j) = WithoutVariant(j.push.version)
  BY DEF Subject
<1>6. \A t \in Goals(j) : OnTrack(j.push.version, t) = Subject(j)
  BY <1>1, <1>4, <1>5, OnTrackOf
<1> QED BY <1>1, <1>2, <1>3, <1>4, <1>6

\* What an entry of a good index says.
LEMMA GoodEntry ==
    ASSUME CampaignOK, NEW t, NEW f, GoodAt(t, f), NEW q \in DOMAIN f
    PROVE  /\ OnTrack(f[q], t) \in Subjects /\ OnTrack(f[q], t) \in Tag
           /\ t \in {OnTrack(f[q], t)} \cup Targets(OnTrack(f[q], t))
           /\ t \in Tag /\ t[1] = OnTrack(f[q], t)[1]
           /\ t = OnTrack(f[q], t) \/ Less(OnTrack(f[q], t), t)
<1>1. PICK x \in campaign.pushes : /\ OnTrack(f[q], t) \in SubjectsOf(x)
                                   /\ t \in {OnTrack(f[q], t)} \cup Targets(OnTrack(f[q], t))
  BY DEF GoodAt
<1>2. OnTrack(f[q], t) \in Subjects /\ OnTrack(f[q], t) \in Tag
  BY <1>1, SubjectsAre
<1> QED BY <1>1, <1>2, TargetAbove

\* The next tag a push writes is the lowest.
LEMMA NextWriteIs ==
    ASSUME NEW S \in SUBSET Tag, S # {}
    PROVE  NextWrite(S) \in S /\ \A w \in S : NextWrite(S) = w \/ Less(NextWrite(S), w)
BY LeastIs DEF NextWrite

\* Jobs stay well formed when one is replaced by a well formed one.
LEMMA JobsStep ==
    ASSUME TypeInv, UNCHANGED campaign, NEW p \in Publishers, NEW j \in JobShape, Job(p, j),
           j.pc # "idle" => JobOK(j)
    PROVE  JobsOK'
<1>1. push' \in [Publishers -> JobShape] /\ push'[p] = j /\ \A r \in Publishers \ {p} : push'[r] = push[r]
  BY DEF Job, TypeInv, JobsOK
<1>2. ASSUME NEW r \in Publishers, push'[r].pc # "idle" PROVE JobOK(push[r])' 
  <2>1. CASE r = p
    <3>1. JobOK(j)  BY <1>1, <1>2, <2>1
    <3>2. push'[r] = j  BY <1>1, <2>1
    <3> QED BY <3>1, <3>2 DEF JobOK, GoodAt, Goals, Subject
  <2>2. CASE r # p
    <3>1. push'[r] = push[r]  BY <1>1, <2>2
    <3>2. JobOK(push[r])  BY <1>2, <3>1 DEF TypeInv, JobsOK, JobsGood
    <3> QED BY <3>1, <3>2 DEF JobOK, GoodAt, Goals, Subject
  <2> QED BY <2>1, <2>2
<1> QED BY <1>1, <1>2 DEF JobsOK, JobsGood

\* The fields of a job at work.
LEMMA JobFields ==
    ASSUME TypeInv, NEW p \in Publishers
    PROVE  /\ push[p] \in JobShape
           /\ push[p].pc # "idle" => JobOK(push[p])
           /\ NoJob \in JobShape /\ NoJob.pc = "idle"
BY EmptyIs DEF TypeInv, JobsOK, JobsGood, NoJob, JobShape

\* What putting an index at t does to the tags.
LEMMA SetTagIs ==
    ASSUME NEW t, NEW f, tags' = SetTag(t, f)
    PROVE  /\ DOMAIN tags' = DOMAIN tags \cup {t} /\ tags'[t] = f
           /\ \A u \in DOMAIN tags \ {t} : tags'[u] = tags[u]
           /\ tags' = [u \in DOMAIN tags' |-> tags'[u]]
BY DEF SetTag

\* The tags stay good when a good index is put at one ...
LEMMA TagsStep ==
    ASSUME TypeInv, UNCHANGED campaign, NEW t \in Tag, NEW f \in Index, DOMAIN f # {}, GoodAt(t, f),
           tags' = SetTag(t, f)
    PROVE  TagsOK'
<1>1. /\ DOMAIN tags' = DOMAIN tags \cup {t} /\ tags'[t] = f
      /\ \A u \in DOMAIN tags \ {t} : tags'[u] = tags[u]
      /\ tags' = [u \in DOMAIN tags' |-> tags'[u]]
  BY SetTagIs
<1>2. DOMAIN tags \subseteq Tag /\ \A u \in DOMAIN tags : tags[u] \in Index
  BY TagMapIs DEF TypeInv, TagsOK
<1>3. tags' \in TagMap
  BY <1>1, <1>2, TagMapIs
<1>4. \A u \in DOMAIN tags' : DOMAIN tags'[u] # {} /\ GoodAt(u, tags'[u])
  BY <1>1 DEF TypeInv, TagsOK, TagsGood
<1> QED BY <1>3, <1>4 DEF TagsOK, TagsGood, GoodAt

\* ... when one is removed, and when nothing happens to them.
LEMMA TagsLess ==
    ASSUME TypeInv, UNCHANGED campaign, NEW t, tags' = tags \/ tags' = Without(tags, t)
    PROVE  TagsOK'
<1>1. CASE tags' = tags
  BY <1>1 DEF TypeInv, TagsOK, TagsGood, GoodAt
<1>2. CASE tags' = Without(tags, t)
  <2>1. /\ tags' \in TagMap /\ DOMAIN tags' \subseteq DOMAIN tags
        /\ \A u \in DOMAIN tags' : tags'[u] = tags[u]
    BY <1>2, WithoutIs DEF TypeInv, TagsOK
  <2> QED BY <2>1 DEF TypeInv, TagsOK, TagsGood, GoodAt
<1> QED BY <1>1, <1>2

\* A repair stays good while it only takes note of what others do.
LEMMA RepairNoted ==
    ASSUME TypeInv, UNCHANGED campaign, repair' \in RepairShape, repair'.pc = repair.pc,
           repair'.seen = repair.seen, repair'.plan = repair.plan, repair'.confirmed = repair.confirmed
    PROVE  RepairOK'
<1>1. RepairGood
  BY DEF TypeInv, RepairOK
<1>2. RepairGood'
  BY <1>1 DEF RepairGood, GoodAt
<1> QED BY <1>2 DEF RepairOK

\* Jobs stay good while they stay.
LEMMA JobsStay ==
    ASSUME TypeInv, UNCHANGED <<campaign, push>> PROVE JobsOK'
BY DEF TypeInv, JobsOK, JobsGood, JobOK, GoodAt, Goals, Subject

\* What a write by another does to the repair.
LEMMA DisturbIs ==
    ASSUME TypeInv, NEW t, NEW index, Disturb(t, index)
    PROVE  /\ repair' \in RepairShape
           /\ repair'.pc = repair.pc /\ repair'.listed = repair.listed /\ repair'.seen = repair.seen
           /\ repair'.plan = repair.plan /\ repair'.confirmed = repair.confirmed
           /\ repair'.complete = repair.complete
           /\ repair.torn => repair'.torn
           /\ repair'.still => repair.still
           /\ \/ (repair.pc = "idle" \/ index = IndexAt(tags, t)) /\ repair' = repair
              \/ /\ ~repair'.still
                 /\ ~repair'.torn => /\ ~repair.torn /\ repair.pc # "gather" /\ t \notin repair.confirmed
                                     /\ marks \cap {"pruned", "lost"} = {} /\ ~Loses(t, index)
<1>0. repair \in RepairShape
  BY DEF TypeInv, RepairOK
<1>1. CASE repair.pc = "idle" \/ index = IndexAt(tags, t)
  <2>1. repair' = repair  BY <1>1 DEF Disturb
  <2> QED BY <1>0, <1>1, <2>1
<1>2. CASE ~(repair.pc = "idle" \/ index = IndexAt(tags, t))
  <2> DEFINE torn == repair.torn \/ repair.pc = "gather" \/ t \in repair.confirmed
                        \/ marks \cap {"pruned", "lost"} # {} \/ Loses(t, index)
  <2>1. repair' = [repair EXCEPT !.still = FALSE, !.torn = torn]  BY <1>2 DEF Disturb
  <2>2. torn \in BOOLEAN  OBVIOUS
  <2> HIDE DEF torn
  <2>3. /\ repair' \in RepairShape
        /\ repair'.pc = repair.pc /\ repair'.listed = repair.listed /\ repair'.seen = repair.seen
        /\ repair'.plan = repair.plan /\ repair'.confirmed = repair.confirmed
        /\ repair'.complete = repair.complete
        /\ repair'.still = FALSE /\ repair'.torn = torn
    BY <1>0, <2>1, <2>2 DEF RepairShape
  <2> QED BY <1>2, <2>3 DEF torn
<1> QED BY <1>1, <1>2

\* The job a push begins with.
LEMMA BeginIs ==
    ASSUME TypeInv, NEW p \in Publishers, NEW x, BeginPush(p, x)
    PROVE  \E j \in JobShape :
              /\ Job(p, j) /\ JobOK(j)
              /\ j.pc = "resolve" /\ j.push = x /\ ~j.bare /\ Subject(j) = x.version
              /\ j.writes = {x.version}
              /\ x.cascade => j.others = Versions(tags) /\ j.levels = Targets(x.version)
              /\ ~x.cascade => j.others = {} /\ j.levels = {}
<1> DEFINE others == IF x.cascade THEN Versions(tags) ELSE {}
           levels == IF x.cascade THEN Targets(x.version) ELSE {}
           j == [NoJob EXCEPT !.pc = "resolve", !.push = x, !.writes = {x.version},
                              !.others = others, !.levels = levels]
<1>1. Job(p, j) /\ x \in campaign.pushes /\ campaign \in Campaigns
  BY DEF BeginPush, TypeInv, CampaignOK
<1>2. x.version \in Tag
  BY <1>1, SubjectsAre DEF TypeInv
<1>3. others \subseteq Tag /\ levels \subseteq Tag /\ levels \subseteq Targets(x.version)
  BY <1>2, TargetAbove, TagMapIs DEF TypeInv, TagsOK, Versions
<1> HIDE DEF others, levels
<1>4. /\ j \in JobShape /\ j.pc = "resolve" /\ j.push = x /\ j.bare = FALSE
      /\ j.writes = {x.version} /\ j.others = others /\ j.levels = levels
  BY <1>1, <1>2, <1>3, EmptyIs DEF NoJob, JobShape
<1> HIDE DEF j
<1>5. Subject(j) = x.version
  BY <1>4 DEF Subject
<1>6. JobOK(j)
  BY <1>1, <1>3, <1>4, <1>5 DEF JobOK, Goals
<1> QED BY <1>1, <1>4, <1>5, <1>6 DEF others, levels

\* One level is decided.
LEMMA ResolveIs ==
    ASSUME TypeInv, NEW p \in Publishers, NEW error, Resolve(p, error)
    PROVE  \E j \in JobShape :
              /\ Job(p, j) /\ JobOK(j)
              /\ push[p].pc = "resolve" /\ push[p].levels # {}
              /\ Least(push[p].levels) \in push[p].levels
              /\ \A u \in push[p].levels : Least(push[p].levels) = u \/ Less(Least(push[p].levels), u)
              /\ j.pc = "resolve" /\ j.push = push[p].push /\ j.bare = push[p].bare
              /\ j.others = push[p].others /\ Subject(j) = Subject(push[p])
              /\ \/ /\ Blocked(push[p], Least(push[p].levels), error)
                    /\ j.levels = {} /\ j.writes = push[p].writes
                 \/ /\ ~Blocked(push[p], Least(push[p].levels), error)
                    /\ j.levels = push[p].levels \ {Least(push[p].levels)}
                    /\ j.writes = push[p].writes \cup {Least(push[p].levels)}
<1> DEFINE t == Least(push[p].levels)
           blocked == Blocked(push[p], t, error)
           levels == IF blocked THEN {} ELSE push[p].levels \ {t}
           writes == IF blocked THEN push[p].writes ELSE push[p].writes \cup {t}
           j == [push[p] EXCEPT !.levels = levels, !.writes = writes]
<1>1. push[p].pc = "resolve" /\ push[p].levels # {} /\ Job(p, j)
  BY DEF Resolve
<1>2. push[p] \in JobShape /\ JobOK(push[p])
  BY <1>1, JobFields
<1>3. push[p].levels \in SUBSET Tag
  BY <1>2 DEF JobShape
<1>4. t \in push[p].levels /\ \A u \in push[p].levels : t = u \/ Less(t, u)
  BY <1>1, <1>3, LeastIs
<1>5. levels \subseteq push[p].levels /\ writes \subseteq push[p].writes \cup push[p].levels
      /\ push[p].writes \subseteq writes
  BY <1>4
<1> HIDE DEF levels, writes, t
<1>6. /\ j \in JobShape /\ j.pc = "resolve" /\ j.push = push[p].push /\ j.bare = push[p].bare
      /\ j.others = push[p].others /\ j.levels = levels /\ j.writes = writes
  BY <1>1, <1>2, <1>5 DEF JobShape
<1> HIDE DEF j
<1>7. Subject(j) = Subject(push[p])
  BY <1>6 DEF Subject
<1>8. JobOK(j)
  BY <1>1, <1>2, <1>5, <1>6, <1>7 DEF JobOK, Goals
<1> QED BY <1>1, <1>4, <1>6, <1>7, <1>8 DEF levels, writes, t

\* The manifest is up, or was before; the writes begin.
LEMMA WritesBegin ==
    ASSUME TypeInv, NEW p \in Publishers, PushManifest(p) \/ BeginAliases(p)
    PROVE  \E j \in JobShape :
              /\ Job(p, j) /\ JobOK(j)
              /\ push[p].pc = "resolve" /\ push[p].levels = {}
              /\ j.pc = "read" /\ j.push = push[p].push /\ j.bare = push[p].bare
              /\ j.others = push[p].others /\ Subject(j) = Subject(push[p])
              /\ j.levels = push[p].levels /\ j.writes = push[p].writes
<1> DEFINE j == [push[p] EXCEPT !.pc = "read"]
<1>1. push[p].pc = "resolve" /\ push[p].levels = {} /\ Job(p, j)
  BY DEF PushManifest, BeginAliases
<1>2. push[p] \in JobShape /\ JobOK(push[p])
  BY <1>1, JobFields
<1>3. /\ j \in JobShape /\ j.pc = "read" /\ j.push = push[p].push /\ j.bare = push[p].bare
      /\ j.others = push[p].others /\ j.levels = push[p].levels /\ j.writes = push[p].writes
  BY <1>2 DEF JobShape
<1> HIDE DEF j
<1>4. Subject(j) = Subject(push[p])
  BY <1>3 DEF Subject
<1>5. JobOK(j)
  BY <1>1, <1>2, <1>3, <1>4 DEF JobOK, Goals
<1> QED BY <1>1, <1>3, <1>4, <1>5

\* The index is read.
LEMMA MergeReadIs ==
    ASSUME TypeInv, NEW p \in Publishers, MergeRead(p)
    PROVE  \E j \in JobShape :
              /\ Job(p, j) /\ JobOK(j)
              /\ push[p].pc = "read"
              /\ j.pc = "write" /\ j.push = push[p].push /\ j.bare = push[p].bare
              /\ j.others = push[p].others /\ Subject(j) = Subject(push[p])
              /\ j.levels = push[p].levels /\ j.writes = push[p].writes
              /\ j.read = IndexAt(tags, NextWrite(push[p].writes))
<1> DEFINE read == IndexAt(tags, NextWrite(push[p].writes))
           j == [push[p] EXCEPT !.pc = "write", !.read = read]
<1>1. push[p].pc = "read" /\ Job(p, j)
  BY DEF MergeRead
<1>2. push[p] \in JobShape /\ JobOK(push[p])
  BY <1>1, JobFields
<1>3. read \in Index
  BY IndexAtIs DEF TypeInv, TagsOK
<1>4. GoodAt(NextWrite(push[p].writes), read)
  BY EmptyIs DEF TypeInv, TagsOK, TagsGood, IndexAt, GoodAt
<1> HIDE DEF read
<1>5. /\ j \in JobShape /\ j.pc = "write" /\ j.push = push[p].push /\ j.bare = push[p].bare
      /\ j.others = push[p].others /\ j.levels = push[p].levels /\ j.writes = push[p].writes
      /\ j.read = read
  BY <1>2, <1>3 DEF JobShape
<1> HIDE DEF j
<1>6. Subject(j) = Subject(push[p])
  BY <1>5 DEF Subject
<1>7. JobOK(j)
  BY <1>1, <1>2, <1>4, <1>5, <1>6 DEF JobOK, Goals
<1> QED BY <1>1, <1>5, <1>6, <1>7 DEF read

\* What a push puts back: what it read, with its own entry.
Merged(j) == Over([q \in {j.push.platform} |-> j.push.version], j.read)

\* The index a push puts back.
LEMMA MergedIs ==
    ASSUME TypeInv, NEW p \in Publishers, push[p].pc = "write"
    PROVE  /\ Merged(push[p]) \in Index
           /\ DOMAIN Merged(push[p]) = DOMAIN push[p].read \cup {push[p].push.platform}
           /\ Merged(push[p])[push[p].push.platform] = push[p].push.version
           /\ \A q \in DOMAIN push[p].read : 
                 q # push[p].push.platform => Merged(push[p])[q] = push[p].read[q]
           /\ GoodAt(NextWrite(push[p].writes), Merged(push[p]))
           /\ NextWrite(push[p].writes) \in push[p].writes /\ NextWrite(push[p].writes) \in Goals(push[p])
           /\ NextWrite(push[p].writes) \in Tag
           /\ \A w \in push[p].writes : NextWrite(push[p].writes) = w \/ Less(NextWrite(push[p].writes), w)
<1> DEFINE q0 == push[p].push.platform
           entry == [q \in {q0} |-> push[p].push.version]
           t == NextWrite(push[p].writes)
           f == Merged(push[p])
<1>1. push[p] \in JobShape /\ JobOK(push[p])
  BY JobFields
<1>2. push[p].read \in Index /\ push[p].writes \in SUBSET Tag
  BY <1>1 DEF JobShape
<1>3. q0 \in Platform /\ push[p].push.version \in Tag
  BY <1>1, SubjectIs DEF TypeInv
<1>4. DOMAIN entry = {q0} /\ entry[q0] = push[p].push.version /\ entry = [q \in DOMAIN entry |-> entry[q]]
  OBVIOUS
<1>5. entry \in Index
  <2> HIDE DEF entry, q0
  <2> QED BY <1>3, <1>4, IndexIs
<1>6. f = Over(entry, push[p].read)
  BY DEF Merged
<1> HIDE DEF entry
<1>7. /\ f \in Index /\ DOMAIN f = DOMAIN push[p].read \cup {q0} /\ f[q0] = push[p].push.version
      /\ \A q \in DOMAIN push[p].read : q # q0 => f[q] = push[p].read[q]
  <2> DEFINE g == push[p].read
  <2>1. g \in Index  BY <1>2
  <2> HIDE DEF f, g, q0
  <2>2. /\ DOMAIN f = DOMAIN entry \cup DOMAIN g /\ f \in Index
        /\ \A q \in DOMAIN entry : f[q] = entry[q]
        /\ \A q \in DOMAIN g \ DOMAIN entry : f[q] = g[q]
    <3>1. f = Over(entry, g)  BY <1>6 DEF g
    <3>2. Over(entry, g) \in Index  BY <1>5, <2>1, OverIs
    <3>3. /\ DOMAIN Over(entry, g) = DOMAIN entry \cup DOMAIN g
          /\ \A q \in DOMAIN entry : Over(entry, g)[q] = entry[q]
          /\ \A q \in DOMAIN g \ DOMAIN entry : Over(entry, g)[q] = g[q]
      BY OverIs
    <3> QED BY <3>1, <3>2, <3>3
  <2> QED BY <1>4, <2>2 DEF g
<1>8. /\ t \in push[p].writes /\ t \in Goals(push[p]) /\ t \in Tag
      /\ \A w \in push[p].writes : t = w \/ Less(t, w)
  BY <1>1, <1>2, NextWriteIs DEF JobOK
<1>9. /\ push[p].push \in campaign.pushes /\ OnTrack(f[q0], t) \in SubjectsOf(push[p].push)
      /\ t \in {OnTrack(f[q0], t)} \cup Targets(OnTrack(f[q0], t))
  <2>1. OnTrack(f[q0], t) = Subject(push[p])  BY <1>1, <1>7, <1>8, SubjectIs DEF TypeInv
  <2> QED BY <1>1, <1>8, <2>1, SubjectIs DEF TypeInv, JobOK, Goals
<1>10. GoodAt(t, push[p].read)
  BY <1>1 DEF JobOK
<1> HIDE DEF f, t, q0
<1>11. GoodAt(t, f)
  BY <1>7, <1>9, <1>10 DEF GoodAt
<1> QED BY <1>7, <1>8, <1>11 DEF f, t, q0

\* An index is put back, and the push goes on.
LEMMA MergeWriteIs ==
    ASSUME TypeInv, NEW p \in Publishers, MergeWrite(p)
    PROVE  \E j \in JobShape :
              /\ Job(p, j) /\ JobOK(j)
              /\ push[p].pc = "write" /\ j.push = push[p].push
              /\ \/ /\ push[p].writes # {NextWrite(push[p].writes)}
                    /\ j.pc = "read" /\ j.bare = push[p].bare
                    /\ j.others = push[p].others /\ Subject(j) = Subject(push[p])
                    /\ j.levels = push[p].levels /\ j.writes = push[p].writes \ {NextWrite(push[p].writes)}
                 \/ /\ push[p].writes = {NextWrite(push[p].writes)}
                    /\ j.pc = "resolve" /\ ~push[p].bare /\ j.bare
                    /\ j.others = push[p].others
                    /\ Subject(j) = WithoutVariant(j.push.version) /\ j.push.version[1] # None
                    /\ j.levels = (IF j.push.cascade THEN Targets(Subject(j)) ELSE {})
                    /\ j.writes = {Subject(j)}
                 \/ /\ push[p].writes = {NextWrite(push[p].writes)} /\ j.pc = "keep"
<1> DEFINE t == NextWrite(push[p].writes)
           rest == push[p].writes \ {t}
           bare == WithoutVariant(push[p].push.version)
           levels == IF push[p].push.cascade THEN Targets(bare) ELSE {}
           j1 == [push[p] EXCEPT !.pc = "read", !.writes = rest, !.read = EmptyIndex]
           j2 == [push[p] EXCEPT !.pc = "resolve", !.bare = TRUE, !.writes = {bare}, !.read = EmptyIndex,
                                 !.levels = levels]
           j3 == [push[p] EXCEPT !.pc = "keep", !.writes = {}, !.read = EmptyIndex, !.others = {}]
           more == push[p].push.default /\ push[p].push.version[1] # None /\ ~push[p].bare
<1>1. push[p].pc = "write" /\ Job(p, IF rest = {} THEN AfterTrack(push[p]) ELSE j1)
  BY DEF MergeWrite
<1>2. AfterTrack(push[p]) = IF more THEN j2 ELSE j3
  BY DEF AfterTrack
<1>3. push[p] \in JobShape /\ JobOK(push[p])
  BY <1>1, JobFields
<1>4. t \in push[p].writes
  BY <1>1, MergedIs
<1>5. rest \in SUBSET Tag /\ rest = push[p].writes \ {t} /\ rest \subseteq push[p].writes
  BY <1>3 DEF JobShape
<1>6. bare \in Tag /\ push[p].push.version \in Tag
  BY <1>3, SubjectIs, PartAssumption DEF TypeInv, WithoutVariant, Tag, Parts
<1>7. levels \in SUBSET Tag /\ levels \subseteq Targets(bare)
  BY <1>6, TargetAbove
<1> HIDE DEF t, rest, bare, levels
<1>8. CASE rest # {}
  <2>1. Job(p, j1)  BY <1>1, <1>8
  <2>2. /\ j1 \in JobShape /\ j1.pc = "read" /\ j1.push = push[p].push /\ j1.bare = push[p].bare
        /\ j1.others = push[p].others /\ j1.levels = push[p].levels /\ j1.writes = rest
    BY <1>3, <1>5, EmptyIs DEF JobShape
  <2> HIDE DEF j1
  <2>3. Subject(j1) = Subject(push[p])  BY <2>2 DEF Subject
  <2>4. JobOK(j1)  BY <1>1, <1>3, <1>5, <1>8, <2>2, <2>3 DEF JobOK, Goals
  <2>5. push[p].writes # {t}  BY <1>5, <1>8
  <2> QED BY <1>1, <1>5, <2>1, <2>2, <2>3, <2>4, <2>5 DEF t
<1>9. CASE rest = {} /\ more
  <2>1. Job(p, j2)  BY <1>1, <1>2, <1>9
  <2>2. /\ j2 \in JobShape /\ j2.pc = "resolve" /\ j2.push = push[p].push /\ j2.bare = TRUE
        /\ j2.others = push[p].others /\ j2.levels = levels /\ j2.writes = {bare}
    BY <1>3, <1>6, <1>7, EmptyIs DEF JobShape
  <2> HIDE DEF j2
  <2>3. Subject(j2) = bare  BY <2>2 DEF Subject, bare
  <2>4. JobOK(j2)  BY <1>3, <1>7, <1>9, <2>2, <2>3 DEF JobOK, Goals
  <2>5. push[p].writes = {t}  BY <1>4, <1>5, <1>9
  <2>6. push[p].push.version[1] # None /\ ~push[p].bare  BY <1>9
  <2> QED BY <1>1, <2>1, <2>2, <2>3, <2>4, <2>5, <2>6 DEF t, levels, bare
<1>10. CASE rest = {} /\ ~more
  <2>1. Job(p, j3)  BY <1>1, <1>2, <1>10
  <2>2. /\ j3 \in JobShape /\ j3.pc = "keep" /\ j3.push = push[p].push /\ j3.bare = push[p].bare
        /\ j3.others = {} /\ j3.levels = push[p].levels /\ j3.writes = {}
    BY <1>3, EmptyIs DEF JobShape
  <2> HIDE DEF j3
  <2>3. Subject(j3) = Subject(push[p])  BY <2>2 DEF Subject
  <2>4. JobOK(j3)  BY <1>3, <2>2, <2>3 DEF JobOK, Goals
  <2>5. push[p].writes = {t}  BY <1>4, <1>5, <1>10
  <2> QED BY <1>1, <2>1, <2>2, <2>3, <2>4, <2>5 DEF t
<1> QED BY <1>8, <1>9, <1>10

\* A push keeps the types.
LEMMA TypePush ==
    ASSUME TypeInv, UNCHANGED campaign, NEW p \in Publishers,
           \/ \E x \in todo : BeginPush(p, x)
           \/ \E error \in BOOLEAN : Resolve(p, error)
           \/ PushManifest(p) \/ BeginAliases(p)
           \/ MergeRead(p) \/ MergeWrite(p) \/ PushKeepTag(p)
           \/ FailPush(p)
    PROVE  TypeInv'
<1>0. repair \in RepairShape
  BY DEF TypeInv, RepairOK
<1>1. ASSUME UNCHANGED repair PROVE RepairOK'
  BY <1>0, <1>1, RepairNoted
<1>2. ASSUME UNCHANGED tags PROVE TagsOK'
  BY <1>2, TagsLess
<1>3. ASSUME todo' \subseteq campaign.pushes, UNCHANGED <<kept, failures>>,
             marks' \subseteq {"failed", "tangled", "pruned", "lost"}
      PROVE  CampaignOK'
  BY <1>3 DEF TypeInv, CampaignOK
<1>4. todo \subseteq campaign.pushes /\ marks \subseteq {"failed", "tangled", "pruned", "lost"}
  BY DEF TypeInv, CampaignOK
<1>5. ASSUME NEW j \in JobShape, Job(p, j), j.pc # "idle" => JobOK(j) PROVE JobsOK'
  BY <1>5, JobsStep
<1>6. ASSUME NEW x \in todo, BeginPush(p, x) PROVE TypeInv'
  <2>1. PICK j \in JobShape : Job(p, j) /\ JobOK(j)  BY <1>6, BeginIs
  <2>2. JobsOK'  BY <1>5, <2>1
  <2>3. UNCHANGED <<tags, repair, kept, failures>> /\ todo' \subseteq todo
        /\ marks' \subseteq marks \cup {"failed", "tangled"}
    BY <1>6 DEF BeginPush, registryVars
  <2>4. CampaignOK'  BY <1>3, <1>4, <2>3
  <2> QED BY <1>1, <1>2, <2>2, <2>3, <2>4 DEF TypeInv
<1>7. ASSUME NEW error \in BOOLEAN, Resolve(p, error) PROVE TypeInv'
  <2>1. PICK j \in JobShape : Job(p, j) /\ JobOK(j)  BY <1>7, ResolveIs
  <2>2. JobsOK'  BY <1>5, <2>1
  <2>3. UNCHANGED <<tags, repair, kept, failures, todo>> /\ marks' \subseteq marks \cup {"failed"}
    BY <1>7 DEF Resolve, registryVars
  <2>4. CampaignOK'  BY <1>3, <1>4, <2>3
  <2> QED BY <1>1, <1>2, <2>2, <2>3, <2>4 DEF TypeInv
<1>8. ASSUME PushManifest(p) \/ BeginAliases(p) PROVE TypeInv'
  <2>1. PICK j \in JobShape : Job(p, j) /\ JobOK(j)  BY <1>8, WritesBegin
  <2>2. JobsOK'  BY <1>5, <2>1
  <2>3. UNCHANGED <<tags, repair, kept, failures, todo, marks>>
    BY <1>8 DEF PushManifest, BeginAliases, registryVars
  <2>4. CampaignOK'  BY <1>3, <1>4, <2>3
  <2> QED BY <1>1, <1>2, <2>2, <2>3, <2>4 DEF TypeInv
<1>9. ASSUME MergeRead(p) PROVE TypeInv'
  <2>1. PICK j \in JobShape : Job(p, j) /\ JobOK(j)  BY <1>9, MergeReadIs
  <2>2. JobsOK'  BY <1>5, <2>1
  <2>3. UNCHANGED <<tags, repair, kept, failures, todo, marks>>
    BY <1>9 DEF MergeRead, registryVars
  <2>4. CampaignOK'  BY <1>3, <1>4, <2>3
  <2> QED BY <1>1, <1>2, <2>2, <2>3, <2>4 DEF TypeInv
<1>10. ASSUME MergeWrite(p) PROVE TypeInv'
  <2> DEFINE t == NextWrite(push[p].writes)
             f == Merged(push[p])
  <2>1. PICK j \in JobShape : Job(p, j) /\ JobOK(j)  BY <1>10, MergeWriteIs
  <2>2. JobsOK'  BY <1>5, <2>1
  <2>3. /\ tags' = SetTag(t, f) /\ Disturb(t, f) /\ marks' \subseteq marks \cup {"lost"}
        /\ UNCHANGED <<kept, failures, todo>> /\ push[p].pc = "write"
    BY <1>10 DEF MergeWrite, Merged
  <2>4. CampaignOK'  BY <1>3, <1>4, <2>3
  <2>5. t \in Tag /\ f \in Index /\ GoodAt(t, f) /\ DOMAIN f # {}
    BY <2>3, MergedIs
  <2> HIDE DEF t, f
  <2>6. TagsOK'  BY <2>3, <2>5, TagsStep
  <2>7. /\ repair' \in RepairShape /\ repair'.seen = repair.seen /\ repair'.plan = repair.plan
        /\ repair'.pc = repair.pc /\ repair'.confirmed = repair.confirmed
    BY <2>3, DisturbIs
  <2>8. RepairOK'  BY <2>7, RepairNoted
  <2> QED BY <2>2, <2>4, <2>6, <2>8 DEF TypeInv
<1>11. ASSUME Job(p, NoJob) PROVE JobsOK'
  BY <1>5, <1>11, JobFields
<1>12. ASSUME PushKeepTag(p) PROVE TypeInv'
  <2>1. push[p].pc = "keep" /\ kept' = kept \cup {<<push[p].push.version, push[p].push.platform>>}
        /\ UNCHANGED <<tags, repair, failures, todo, marks>> /\ Job(p, NoJob)
    BY <1>12 DEF PushKeepTag
  <2>2. push[p].push \in campaign.pushes
    BY <2>1, JobFields DEF JobOK
  <2>3. CampaignOK'
    BY <2>1, <2>2 DEF TypeInv, CampaignOK
  <2> QED BY <1>1, <1>2, <1>11, <2>1, <2>3 DEF TypeInv
<1>13. ASSUME FailPush(p) PROVE TypeInv'
  <2>1. push[p].pc # "idle" /\ failures < campaign.failures /\ todo' = todo \cup {push[p].push}
        /\ Job(p, NoJob) /\ failures' = failures + 1 /\ marks' = marks \cup {"failed"}
        /\ UNCHANGED <<tags, repair, kept>>
    BY <1>13 DEF FailPush, registryVars
  <2>2. push[p].push \in campaign.pushes
    BY <2>1, JobFields DEF JobOK
  <2>3. campaign.failures \in Nat
    BY CampaignAssumption DEF TypeInv, CampaignOK
  <2>4. CampaignOK'
    BY <2>1, <2>2, <2>3 DEF TypeInv, CampaignOK
  <2> QED BY <1>1, <1>2, <1>11, <2>1, <2>4 DEF TypeInv
<1> QED BY <1>6, <1>7, <1>8, <1>9, <1>10, <1>12, <1>13

\* What the fold puts at an alias is on the alias's track, and of its subtree.
LEMMA ExpectedGood ==
    ASSUME CampaignOK, NEW m \in TagMap, \A v \in DOMAIN m : GoodAt(v, m[v]), NEW t
    PROVE  /\ GoodAt(t, Expected(m, t))
           /\ GoodAt(t, Planned(m, t))
           /\ Planned(m, t) \in Index
           /\ DOMAIN Planned(m, t) = DOMAIN Expected(m, t) \cup DOMAIN IndexAt(m, t)
           /\ \A q \in DOMAIN Expected(m, t) : Planned(m, t)[q] = Expected(m, t)[q]
           /\ \A q \in DOMAIN IndexAt(m, t) \ DOMAIN Expected(m, t) : Planned(m, t)[q] = IndexAt(m, t)[q]
<1> DEFINE e == Expected(m, t)
           g == IndexAt(m, t)
           f == Over(e, g)
<1>1. ASSUME NEW q \in DOMAIN e
      PROVE  \E x \in campaign.pushes : /\ x.version = e[q] /\ OnTrack(e[q], t) \in SubjectsOf(x)
                                        /\ t \in {OnTrack(e[q], t)} \cup Targets(OnTrack(e[q], t))
  <2>1. PICK v : v = Greatest(Sources(m, t, q))  OBVIOUS
  <2>2. v \in Sources(m, t, q) /\ e[q] = m[v][q]  BY <2>1, ExpectedIs
  <2>3. v \in DOMAIN m /\ t \in Targets(v) /\ q \in DOMAIN m[v]  BY <2>2, SourcesIs
  <2>4. v \in Tag  BY <2>3, TagMapIs
  <2>5. t[1] = v[1]  BY <2>3, <2>4, TargetAbove
  <2>6. OnTrack(e[q], t) = OnTrack(e[q], v)  BY <2>5 DEF OnTrack
  <2>7. PICK x \in campaign.pushes : /\ x.version = e[q] /\ OnTrack(e[q], v) \in SubjectsOf(x)
                                     /\ v \in {OnTrack(e[q], v)} \cup Targets(OnTrack(e[q], v))
    BY <2>2, <2>3 DEF GoodAt
  <2>8. OnTrack(e[q], v) \in Tag  BY <2>7, SubjectsAre
  <2>9. t \in Targets(OnTrack(e[q], v))  BY <2>3, <2>7, <2>8, TargetsTransitive
  <2> HIDE DEF e
  <2> QED BY <2>6, <2>7, <2>9
<1>2. GoodAt(t, e)
  <2> HIDE DEF e
  <2> QED BY <1>1 DEF GoodAt
<1>3. GoodAt(t, g)
  <2>1. CASE t \in DOMAIN m  BY <2>1, IndexAtIs
  <2>2. CASE t \notin DOMAIN m  BY <2>2, IndexAtIs DEF GoodAt
  <2> QED BY <2>1, <2>2
<1>4. e \in Index /\ g \in Index /\ Planned(m, t) = f
  BY ExpectedIs, IndexAtIs DEF Planned
<1> HIDE DEF e, g
<1>5. /\ DOMAIN f = DOMAIN e \cup DOMAIN g /\ \A q \in DOMAIN e : f[q] = e[q]
      /\ \A q \in DOMAIN g \ DOMAIN e : f[q] = g[q]
  BY OverIs
<1>6. f \in Index
  BY <1>4, OverIs
<1> HIDE DEF f
<1>7. GoodAt(t, f)
  BY <1>2, <1>3, <1>5 DEF GoodAt
<1> QED BY <1>2, <1>4, <1>5, <1>6, <1>7 DEF e, g

\* A repair not at work.
LEMMA NoRepairIs ==
    /\ NoRepair \in RepairShape /\ NoRepair.pc = "idle" /\ NoRepair.listed = {}
    /\ NoRepair.seen = EmptyIndex /\ NoRepair.plan = EmptyIndex /\ NoRepair.confirmed = {}
    /\ NoRepair.complete /\ ~NoRepair.torn /\ NoRepair.still
BY EmptyIs DEF NoRepair, RepairShape

\* The tags are listed: every version among them.
LEMMA ListIs ==
    ASSUME TypeInv, List
    PROVE  /\ repair' \in RepairShape /\ repair.pc = "idle" /\ repair'.pc = "gather"
           /\ repair'.listed \subseteq DOMAIN tags /\ \A t \in DOMAIN tags : IsVersion(t) => t \in repair'.listed
           /\ repair'.seen = EmptyIndex /\ repair'.plan = EmptyIndex /\ repair'.confirmed = {}
           /\ repair'.complete /\ ~repair'.torn /\ repair'.still
<1> DEFINE listed == {t \in DOMAIN tags : \/ IsVersion(t) \/ t[1] = None
                                          \/ \E v \in Versions(tags) : v[1] = t[1]}
<1>1. repair.pc = "idle" /\ repair' = [NoRepair EXCEPT !.pc = "gather", !.listed = listed]
  BY DEF List
<1>2. listed \in SUBSET Tag /\ listed \subseteq DOMAIN tags /\ \A t \in DOMAIN tags : IsVersion(t) => t \in listed
  BY TagMapIs DEF TypeInv, TagsOK
<1> HIDE DEF listed
<1> QED BY <1>1, <1>2, EmptyIs DEF NoRepair, RepairShape

\* A tag is read, or the repair ends.
LEMMA ReadTagIs ==
    ASSUME TypeInv, NEW t, ReadTag(t)
    PROVE  \/ repair' = NoRepair
           \/ /\ repair' \in RepairShape /\ repair.pc = "gather" /\ repair'.pc = "gather" /\ t \in DOMAIN tags
              /\ repair'.listed = repair.listed \ {t}
              /\ DOMAIN repair'.seen = DOMAIN repair.seen \cup {t} /\ repair'.seen[t] = tags[t]
              /\ \A u \in DOMAIN repair.seen \ {t} : repair'.seen[u] = repair.seen[u]
              /\ repair'.plan = repair.plan /\ repair'.confirmed = repair.confirmed
              /\ repair'.complete = repair.complete /\ repair'.torn = repair.torn /\ repair'.still = repair.still
<1> SUFFICES ASSUME repair' # NoRepair
             PROVE  /\ repair' \in RepairShape /\ repair.pc = "gather" /\ repair'.pc = "gather" /\ t \in DOMAIN tags
                    /\ repair'.listed = repair.listed \ {t}
                    /\ DOMAIN repair'.seen = DOMAIN repair.seen \cup {t} /\ repair'.seen[t] = tags[t]
                    /\ \A u \in DOMAIN repair.seen \ {t} : repair'.seen[u] = repair.seen[u]
                    /\ repair'.plan = repair.plan /\ repair'.confirmed = repair.confirmed
                    /\ repair'.complete = repair.complete /\ repair'.torn = repair.torn
                    /\ repair'.still = repair.still
  OBVIOUS
<1> DEFINE one == [u \in {t} |-> tags[t]]
           seen == Over(one, repair.seen)
           listed == repair.listed \ {t}
<1>1. repair.pc = "gather" /\ t \in repair.listed /\ t \in DOMAIN tags
      /\ repair' = [repair EXCEPT !.listed = listed, !.seen = seen]
  BY DEF ReadTag
<1>2. repair \in RepairShape
  BY DEF TypeInv, RepairOK
<1>3. repair.seen \in TagMap /\ t \in Tag /\ listed \in SUBSET Tag
  BY <1>1, <1>2 DEF RepairShape
<1>4. tags[t] \in Index
  BY <1>1, TagMapIs DEF TypeInv, TagsOK
<1>5. DOMAIN one = {t} /\ one[t] = tags[t] /\ one = [u \in DOMAIN one |-> one[u]]
  OBVIOUS
<1> HIDE DEF one, listed
<1>6. one \in TagMap
  BY <1>3, <1>4, <1>5, TagMapIs
<1>7. /\ DOMAIN seen = DOMAIN one \cup DOMAIN repair.seen
      /\ \A u \in DOMAIN one : seen[u] = one[u]
      /\ \A u \in DOMAIN repair.seen \ DOMAIN one : seen[u] = repair.seen[u]
  BY OverIs
<1>8. seen \in TagMap
  BY <1>3, <1>6, OverIs
<1> HIDE DEF seen
<1>9. /\ repair' \in RepairShape /\ repair'.pc = "gather" /\ repair'.listed = listed /\ repair'.seen = seen
      /\ repair'.plan = repair.plan /\ repair'.confirmed = repair.confirmed
      /\ repair'.complete = repair.complete /\ repair'.torn = repair.torn /\ repair'.still = repair.still
  BY <1>1, <1>2, <1>3, <1>8 DEF RepairShape
<1> QED BY <1>1, <1>5, <1>7, <1>9 DEF listed

----------------------------------------------------------------------------
(* The steps of a repair *)

\* The aliases the repair is asked about.
Asked == Scope(Versions(repair.seen), campaign.request)

\* f has every entry of g.
Covers(f, g) == \A q \in DOMAIN g : q \in DOMAIN f /\ f[q] = g[q]

\* The plan names the aliases that need a write.
LEMMA PlanIs ==
    ASSUME CampaignOK, NEW m \in TagMap, \A v \in DOMAIN m : GoodAt(v, m[v]), NEW scope \in SUBSET Tag
    PROVE  /\ Plan(m, scope) \in TagMap
           /\ \A t : t \in DOMAIN Plan(m, scope) <=> /\ t \in scope /\ NeedsWrite(m, t)
                                                     /\ DOMAIN Planned(m, t) # {}
           /\ \A t \in DOMAIN Plan(m, scope) :
                 Plan(m, scope)[t] = Planned(m, t) /\ GoodAt(t, Plan(m, scope)[t])
<1>1. /\ \A t : t \in DOMAIN Plan(m, scope) <=> /\ t \in scope /\ NeedsWrite(m, t)
                                                /\ DOMAIN Planned(m, t) # {}
      /\ \A t \in DOMAIN Plan(m, scope) : Plan(m, scope)[t] = Planned(m, t)
      /\ Plan(m, scope) = [t \in DOMAIN Plan(m, scope) |-> Plan(m, scope)[t]]
  BY DEF Plan
<1>2. \A t : Planned(m, t) \in Index /\ GoodAt(t, Planned(m, t))
  BY ExpectedGood
<1>3. Plan(m, scope) \in TagMap
  BY <1>1, <1>2, TagMapIs
<1> QED BY <1>1, <1>2, <1>3

\* The plan is made, or the repair ends.
LEMMA PlanRepairIs ==
    ASSUME TypeInv, PlanRepair
    PROVE  \/ repair' = NoRepair
           \/ /\ repair' \in RepairShape /\ repair.pc = "gather" /\ repair'.pc = "preflight"
              /\ repair.listed = {} /\ repair'.listed = {} /\ repair'.seen = repair.seen
              /\ repair'.plan = Plan(repair.seen, Asked) /\ Asked \subseteq AliasUniverse(Versions(repair.seen))
              /\ \A t \in DOMAIN repair'.plan : DOMAIN repair'.plan[t] # {} /\ GoodAt(t, repair'.plan[t])
              /\ repair'.confirmed = repair.confirmed /\ repair'.complete = repair.complete
              /\ repair'.torn = repair.torn /\ repair'.still = repair.still
<1> SUFFICES ASSUME repair' # NoRepair
             PROVE  /\ repair' \in RepairShape /\ repair.pc = "gather" /\ repair'.pc = "preflight"
                    /\ repair.listed = {} /\ repair'.listed = {} /\ repair'.seen = repair.seen
                    /\ repair'.plan = Plan(repair.seen, Asked)
                    /\ Asked \subseteq AliasUniverse(Versions(repair.seen))
                    /\ \A t \in DOMAIN repair'.plan : DOMAIN repair'.plan[t] # {} /\ GoodAt(t, repair'.plan[t])
                    /\ repair'.confirmed = repair.confirmed /\ repair'.complete = repair.complete
                    /\ repair'.torn = repair.torn /\ repair'.still = repair.still
  OBVIOUS
<1> DEFINE plan == Plan(repair.seen, Asked)
<1>1. repair.pc = "gather" /\ repair.listed = {} /\ repair' = [repair EXCEPT !.pc = "preflight", !.plan = plan]
  BY DEF PlanRepair, Asked
<1>2. repair \in RepairShape /\ CampaignOK /\ \A v \in DOMAIN repair.seen : GoodAt(v, repair.seen[v])
  BY DEF TypeInv, RepairOK, RepairGood
<1>3. repair.seen \in TagMap
  BY <1>2 DEF RepairShape
<1>4. Versions(repair.seen) \in SUBSET Tag
  BY <1>3, TagMapIs DEF Versions
<1>5. Asked \subseteq AliasUniverse(Versions(repair.seen)) /\ Asked \in SUBSET Tag
  BY <1>4, ScopeIs, UniverseIs DEF Asked
<1>6. plan \in TagMap /\ \A t \in DOMAIN plan : DOMAIN plan[t] # {} /\ GoodAt(t, plan[t])
  BY <1>2, <1>3, <1>5, PlanIs
<1> HIDE DEF plan
<1>7. /\ repair' \in RepairShape /\ repair'.pc = "preflight" /\ repair'.listed = {}
      /\ repair'.seen = repair.seen /\ repair'.plan = plan
      /\ repair'.confirmed = repair.confirmed /\ repair'.complete = repair.complete
      /\ repair'.torn = repair.torn /\ repair'.still = repair.still
  BY <1>1, <1>2, <1>6 DEF RepairShape
<1> QED BY <1>1, <1>5, <1>6, <1>7 DEF plan

\* Every manifest is probed: orphans that are gone are dropped, aliases that
\* would lose more are refused.
LEMMA PreflightIs ==
    ASSUME TypeInv, Preflight
    PROVE  /\ repair' \in RepairShape /\ repair.pc = "preflight" /\ repair'.pc = "apply"
           /\ repair'.listed = repair.listed /\ repair'.seen = repair.seen
           /\ repair'.confirmed = repair.confirmed
           /\ repair'.torn = repair.torn /\ repair'.still = repair.still
           /\ DOMAIN repair'.plan \subseteq DOMAIN repair.plan
           /\ repair'.complete => DOMAIN repair'.plan = DOMAIN repair.plan
           /\ \A t \in DOMAIN repair'.plan :
                 /\ DOMAIN repair'.plan[t] # {}
                 /\ Covers(repair.plan[t], repair'.plan[t])
                 /\ \A q \in DOMAIN repair.plan[t] \cap DOMAIN Expected(repair.seen, t) : q \in DOMAIN repair'.plan[t]
<1> DEFINE refused == {t \in DOMAIN repair.plan : Refused(repair.seen, t, repair.plan[t], manifests)}
           Rest(index) == [q \in DOMAIN index \ Gone(index, manifests) |-> index[q]]
           plan == [t \in DOMAIN repair.plan \ refused |-> Rest(repair.plan[t])]
<1>1. repair.pc = "preflight"
      /\ repair' = [repair EXCEPT !.pc = "apply", !.complete = (refused = {}), !.plan = plan]
  BY DEF Preflight
<1>2. repair \in RepairShape /\ \A t \in DOMAIN repair.plan : DOMAIN repair.plan[t] # {}
  BY DEF TypeInv, RepairOK, RepairGood
<1>3. repair.plan \in TagMap
  BY <1>2 DEF RepairShape
<1>4. /\ DOMAIN plan = DOMAIN repair.plan \ refused
      /\ \A t \in DOMAIN plan : plan[t] = Rest(repair.plan[t])
      /\ plan = [t \in DOMAIN plan |-> plan[t]]
  OBVIOUS
<1>5. ASSUME NEW f \in Index
      PROVE  /\ Rest(f) \in Index /\ DOMAIN Rest(f) = DOMAIN f \ Gone(f, manifests)
             /\ \A q \in DOMAIN Rest(f) : Rest(f)[q] = f[q]
  BY IndexIs
<1>6. ASSUME NEW t \in DOMAIN plan
      PROVE  /\ plan[t] \in Index /\ DOMAIN plan[t] # {} /\ Covers(repair.plan[t], plan[t])
             /\ \A q \in DOMAIN repair.plan[t] \cap DOMAIN Expected(repair.seen, t) : q \in DOMAIN plan[t]
  <2>1. t \in DOMAIN repair.plan /\ ~Refused(repair.seen, t, repair.plan[t], manifests)  BY <1>4
  <2>2. repair.plan[t] \in Index  BY <1>3, <2>1, TagMapIs
  <2>3. /\ plan[t] \in Index /\ DOMAIN plan[t] = DOMAIN repair.plan[t] \ Gone(repair.plan[t], manifests)
        /\ \A q \in DOMAIN plan[t] : plan[t][q] = repair.plan[t][q]
    BY <1>4, <1>5, <2>2
  <2> HIDE DEF plan
  <2>4. /\ Gone(repair.plan[t], manifests) \cap DOMAIN Expected(repair.seen, t) = {}
        /\ Gone(repair.plan[t], manifests) = {} \/ Gone(repair.plan[t], manifests) # DOMAIN repair.plan[t]
    BY <2>1 DEF Refused
  <2>5. Gone(repair.plan[t], manifests) \subseteq DOMAIN repair.plan[t]  BY DEF Gone
  <2> QED BY <1>2, <2>1, <2>3, <2>4, <2>5 DEF Covers
<1> HIDE DEF plan
<1>7. plan \in TagMap
  BY <1>3, <1>4, <1>6, TagMapIs
<1> HIDE DEF refused
<1>8. /\ repair' \in RepairShape /\ repair'.pc = "apply" /\ repair'.listed = repair.listed
      /\ repair'.seen = repair.seen /\ repair'.plan = plan /\ repair'.complete = (refused = {})
      /\ repair'.confirmed = repair.confirmed /\ repair'.torn = repair.torn /\ repair'.still = repair.still
  BY <1>1, <1>2, <1>7 DEF RepairShape
<1> QED BY <1>1, <1>4, <1>6, <1>8

\* An alias is given up.
LEMMA GiveUpIs ==
    ASSUME TypeInv, NEW t, repair' = GiveUp(t)
    PROVE  /\ repair' \in RepairShape /\ repair'.pc = repair.pc
           /\ repair'.listed = repair.listed /\ repair'.seen = repair.seen
           /\ repair'.plan = Without(repair.plan, t) /\ DOMAIN repair'.plan = DOMAIN repair.plan \ {t}
           /\ \A u \in DOMAIN repair'.plan : repair'.plan[u] = repair.plan[u]
           /\ repair'.confirmed = repair.confirmed \ {t} /\ ~repair'.complete
           /\ repair'.torn = repair.torn /\ repair'.still = repair.still
<1> DEFINE plan == Without(repair.plan, t)
<1>1. repair \in RepairShape
  BY DEF TypeInv, RepairOK
<1>2. repair.plan \in TagMap
  BY <1>1 DEF RepairShape
<1>3. /\ plan \in TagMap /\ DOMAIN plan = DOMAIN repair.plan \ {t}
      /\ \A u \in DOMAIN plan : plan[u] = repair.plan[u]
  BY <1>2, WithoutIs
<1>4. repair' = [repair EXCEPT !.plan = plan, !.confirmed = repair.confirmed \ {t}, !.complete = FALSE]
  BY DEF GiveUp
<1> HIDE DEF plan
<1>5. /\ repair' \in RepairShape /\ repair'.pc = repair.pc
      /\ repair'.listed = repair.listed /\ repair'.seen = repair.seen
      /\ repair'.plan = plan /\ repair'.confirmed = repair.confirmed \ {t} /\ ~repair'.complete
      /\ repair'.torn = repair.torn /\ repair'.still = repair.still
  BY <1>1, <1>3, <1>4 DEF RepairShape
<1> QED BY <1>3, <1>5 DEF plan

\* An alias is found as it was, or given up.
LEMMA ConfirmIs ==
    ASSUME TypeInv, NEW t, ConfirmAlias(t)
    PROVE  \/ repair' = GiveUp(t) /\ repair.pc = "apply"
           \/ /\ repair' \in RepairShape /\ repair.pc = "apply" /\ t \in DOMAIN repair.plan
              /\ IndexAt(tags, t) = IndexAt(repair.seen, t)
              /\ repair'.pc = "apply" /\ repair'.listed = repair.listed /\ repair'.seen = repair.seen
              /\ repair'.plan = repair.plan /\ repair'.confirmed = repair.confirmed \cup {t}
              /\ repair'.complete = repair.complete
              /\ repair'.torn = repair.torn /\ repair'.still = repair.still
<1>1. repair.pc = "apply" /\ t \in DOMAIN repair.plan /\ repair' = Reread(t)
  BY DEF ConfirmAlias
<1>2. CASE IndexAt(tags, t) # IndexAt(repair.seen, t)
  BY <1>1, <1>2 DEF Reread
<1>3. CASE IndexAt(tags, t) = IndexAt(repair.seen, t)
  <2>1. repair' = [repair EXCEPT !.confirmed = @ \cup {t}]  BY <1>1, <1>3 DEF Reread
  <2>2. repair \in RepairShape  BY DEF TypeInv, RepairOK
  <2>3. repair.plan \in TagMap  BY <2>2 DEF RepairShape
  <2>4. t \in Tag  BY <1>1, <2>3, TagMapIs
  <2>5. /\ repair' \in RepairShape
        /\ repair'.pc = repair.pc /\ repair'.listed = repair.listed /\ repair'.seen = repair.seen
        /\ repair'.plan = repair.plan /\ repair'.confirmed = repair.confirmed \cup {t}
        /\ repair'.complete = repair.complete
        /\ repair'.torn = repair.torn /\ repair'.still = repair.still
    BY <2>1, <2>2, <2>4 DEF RepairShape
  <2> QED BY <1>1, <1>3, <2>5
<1> QED BY <1>2, <1>3

\* An alias is written.
LEMMA PutIs ==
    ASSUME TypeInv, NEW t, PutAlias(t)
    PROVE  /\ repair' \in RepairShape /\ repair.pc = "apply" /\ repair'.pc = "apply"
           /\ t \in repair.confirmed /\ t \in DOMAIN repair.plan /\ t \in Tag
           /\ tags' = SetTag(t, repair.plan[t]) /\ repair.plan[t] \in Index
           /\ DOMAIN repair.plan[t] # {} /\ GoodAt(t, repair.plan[t])
           /\ repair'.listed = repair.listed /\ repair'.seen = repair.seen
           /\ DOMAIN repair'.plan = DOMAIN repair.plan \ {t}
           /\ \A u \in DOMAIN repair'.plan : repair'.plan[u] = repair.plan[u]
           /\ repair'.confirmed = repair.confirmed \ {t} /\ repair'.complete = repair.complete
           /\ repair'.torn = repair.torn /\ repair'.still = repair.still
<1> DEFINE plan == Without(repair.plan, t)
<1>1. repair \in RepairShape /\ RepairGood
  BY DEF TypeInv, RepairOK
<1>2. repair.plan \in TagMap
  BY <1>1 DEF RepairShape
<1>3. /\ plan \in TagMap /\ DOMAIN plan = DOMAIN repair.plan \ {t}
      /\ \A u \in DOMAIN plan : plan[u] = repair.plan[u]
  BY <1>2, WithoutIs
<1>4. /\ repair.pc = "apply" /\ t \in repair.confirmed /\ tags' = SetTag(t, repair.plan[t])
      /\ repair' = [repair EXCEPT !.plan = plan, !.confirmed = repair.confirmed \ {t}]
  BY DEF PutAlias
<1> HIDE DEF plan
<1>5. /\ repair' \in RepairShape /\ repair'.pc = repair.pc
      /\ repair'.listed = repair.listed /\ repair'.seen = repair.seen
      /\ repair'.plan = plan /\ repair'.confirmed = repair.confirmed \ {t}
      /\ repair'.complete = repair.complete /\ repair'.torn = repair.torn /\ repair'.still = repair.still
  BY <1>1, <1>3, <1>4 DEF RepairShape
<1>6. t \in DOMAIN repair.plan /\ DOMAIN repair.plan[t] # {} /\ GoodAt(t, repair.plan[t])
  BY <1>1, <1>4 DEF RepairGood
<1>7. t \in Tag /\ repair.plan[t] \in Index
  BY <1>2, <1>6, TagMapIs
<1> QED BY <1>3, <1>4, <1>5, <1>6, <1>7

\* What the steps of a repair leave alone.
LEMMA RepairFrame ==
    ASSUME RepairNext
    PROVE  /\ UNCHANGED <<campaign, manifests, kept, todo, push, prune, failures>>
           /\ \/ List /\ marks' = marks \cup {"tangled"} /\ UNCHANGED tags
              \/ UNCHANGED marks /\ UNCHANGED tags /\ (PlanRepair \/ Preflight \/ \E t \in repair.listed : ReadTag(t))
              \/ UNCHANGED marks /\ UNCHANGED tags /\ \E t \in DOMAIN repair.plan : ConfirmAlias(t)
              \/ UNCHANGED marks /\ UNCHANGED tags /\ repair.pc = "apply" /\ \E t \in DOMAIN repair.plan : repair' = GiveUp(t)
              \/ UNCHANGED marks /\ UNCHANGED tags /\ repair' = NoRepair
              \/ UNCHANGED marks /\ \E t \in DOMAIN repair.plan : PutAlias(t)
<1>1. CASE List  BY <1>1 DEF List, registryVars
<1>2. CASE PlanRepair  BY <1>2 DEF PlanRepair, registryVars
<1>3. CASE Preflight  BY <1>3 DEF Preflight, registryVars
<1>4. CASE EndRepair \/ AbortRepair  BY <1>4 DEF EndRepair, AbortRepair, registryVars
<1>5. CASE \E t \in repair.listed : ReadTag(t)  BY <1>5 DEF ReadTag, registryVars
<1>6. ASSUME NEW t \in DOMAIN repair.plan, ConfirmAlias(t)
      PROVE  UNCHANGED <<campaign, manifests, kept, todo, push, prune, failures, marks, tags>>
  BY <1>6 DEF ConfirmAlias, registryVars
<1>7. ASSUME NEW t \in DOMAIN repair.plan, PutAlias(t)
      PROVE  UNCHANGED <<campaign, manifests, kept, todo, push, prune, failures, marks>>
  BY <1>7 DEF PutAlias
<1>8. ASSUME NEW t \in DOMAIN repair.plan, FailAlias(t)
      PROVE  /\ UNCHANGED <<campaign, manifests, kept, todo, push, prune, failures, marks, tags>>
             /\ repair.pc = "apply" /\ repair' = GiveUp(t)
  BY <1>8 DEF FailAlias, registryVars
<1> QED BY <1>1, <1>2, <1>3, <1>4, <1>5, <1>6, <1>7, <1>8 DEF RepairNext

\* What the steps of a prune and of the registry do.
LEMMA OtherFrame ==
    ASSUME TypeInv, PruneNext \/ \E m \in manifests : DeleteManifest(m)
    PROVE  /\ UNCHANGED <<campaign, kept, todo, push, failures>>
           /\ repair' \in RepairShape
           /\ repair'.pc = repair.pc /\ repair'.listed = repair.listed /\ repair'.seen = repair.seen
           /\ repair'.plan = repair.plan /\ repair'.confirmed = repair.confirmed
           /\ repair'.complete = repair.complete
           /\ repair.torn => repair'.torn
           /\ repair'.still => repair.still
           /\ \/ UNCHANGED <<tags, repair>> /\ marks' = marks \cup {"tangled", "pruned"} /\ prune'.pc # "idle"
              \/ UNCHANGED <<tags, repair, marks>> /\ (prune'.pc # "idle" => prune.pc # "idle")
              \/ /\ prune.pc # "idle" /\ prune'.pc # "idle" /\ UNCHANGED marks /\ \E t : tags' = Without(tags, t)
                 /\ repair.pc # "idle" => repair'.torn /\ ~repair'.still
                 /\ repair.pc = "idle" => repair' = repair
              \/ /\ UNCHANGED <<tags, prune>> /\ marks' = marks \cup {"tangled"}
                 /\ repair'.torn = repair.torn
                 /\ repair.pc # "idle" => ~repair'.still
<1>0. repair \in RepairShape
  BY DEF TypeInv, RepairOK
<1>1. ASSUME NEW x \in campaign.prunes, Select(x)
      PROVE  /\ UNCHANGED <<campaign, kept, todo, push, failures, tags, repair>>
             /\ marks' = marks \cup {"tangled", "pruned"} /\ prune'.pc # "idle"
  BY <1>1 DEF Select, registryVars
<1>2. ASSUME Judge \/ EndPrune
      PROVE  /\ UNCHANGED <<campaign, kept, todo, push, failures, tags, repair, marks>>
             /\ prune'.pc # "idle" => prune.pc # "idle"
  <2>1. UNCHANGED <<campaign, kept, todo, push, failures, tags, repair, marks>>
    BY <1>2 DEF Judge, EndPrune, registryVars
  <2>2. prune.pc # "idle"
    BY <1>2 DEF Judge, EndPrune
  <2> QED BY <2>1, <2>2
<1>3. ASSUME DeleteTag
      PROVE  /\ UNCHANGED <<campaign, kept, todo, push, failures, marks>>
             /\ repair' \in RepairShape
             /\ repair'.pc = repair.pc /\ repair'.listed = repair.listed /\ repair'.seen = repair.seen
             /\ repair'.plan = repair.plan /\ repair'.confirmed = repair.confirmed
             /\ repair'.complete = repair.complete
             /\ prune.pc # "idle" /\ prune'.pc # "idle" /\ \E t : tags' = Without(tags, t)
             /\ repair.pc # "idle" => repair'.torn /\ ~repair'.still
             /\ repair.pc = "idle" => repair' = repair
  <2>1. /\ UNCHANGED <<campaign, kept, todo, push, failures, marks>>
        /\ prune.pc = "delete" /\ tags' = Without(tags, Least(prune.todo))
        /\ prune' = [prune EXCEPT !.todo = @ \ {Least(prune.todo)}]
        /\ repair' = IF repair.pc = "idle" THEN repair ELSE [repair EXCEPT !.torn = TRUE, !.still = FALSE]
    BY <1>3 DEF DeleteTag
  <2>2. /\ repair' \in RepairShape
        /\ repair'.pc = repair.pc /\ repair'.listed = repair.listed /\ repair'.seen = repair.seen
        /\ repair'.plan = repair.plan /\ repair'.confirmed = repair.confirmed
        /\ repair'.complete = repair.complete
        /\ repair.pc # "idle" => repair'.torn /\ ~repair'.still
        /\ repair.pc = "idle" => repair' = repair
    BY <1>0, <2>1 DEF RepairShape
  <2>3. prune'.pc # "idle"  BY <2>1
  <2> QED BY <2>1, <2>2, <2>3
<1>4. ASSUME NEW m \in manifests, DeleteManifest(m)
      PROVE  /\ UNCHANGED <<campaign, kept, todo, push, failures, tags, prune>>
             /\ repair' \in RepairShape
             /\ repair'.pc = repair.pc /\ repair'.listed = repair.listed /\ repair'.seen = repair.seen
             /\ repair'.plan = repair.plan /\ repair'.confirmed = repair.confirmed
             /\ repair'.complete = repair.complete
             /\ marks' = marks \cup {"tangled"} /\ repair'.torn = repair.torn
             /\ repair.pc # "idle" => ~repair'.still
             /\ repair'.still => repair.still
  <2> DEFINE still == repair.still /\ repair.pc = "idle"
  <2>1. /\ UNCHANGED <<campaign, kept, todo, push, failures, tags, prune>> /\ marks' = marks \cup {"tangled"}
        /\ repair' = [repair EXCEPT !.still = still]
    BY <1>4 DEF DeleteManifest
  <2>2. still \in BOOLEAN  OBVIOUS
  <2> HIDE DEF still
  <2>3. /\ repair' \in RepairShape
        /\ repair'.pc = repair.pc /\ repair'.listed = repair.listed /\ repair'.seen = repair.seen
        /\ repair'.plan = repair.plan /\ repair'.confirmed = repair.confirmed
        /\ repair'.complete = repair.complete /\ repair'.torn = repair.torn /\ repair'.still = still
    BY <1>0, <2>1, <2>2 DEF RepairShape
  <2> QED BY <2>1, <2>3 DEF still
<1>5. CASE \E x \in campaign.prunes : Select(x)  BY <1>0, <1>1, <1>5
<1>6. CASE Judge \/ EndPrune  BY <1>0, <1>2, <1>6
<1>7. CASE DeleteTag  BY <1>3, <1>7
<1>8. CASE \E m \in manifests : DeleteManifest(m)  BY <1>4, <1>8
<1> QED BY <1>5, <1>6, <1>7, <1>8 DEF PruneNext

\* A repair, a prune and the registry keep the types.
LEMMA TypeOther ==
    ASSUME TypeInv, UNCHANGED campaign, RepairNext \/ PruneNext \/ \E m \in manifests : DeleteManifest(m)
    PROVE  TypeInv'
<1>1. CASE RepairNext
  <2>0. repair \in RepairShape /\ RepairGood /\ campaign' = campaign
    BY DEF TypeInv, RepairOK
  <2>1. /\ UNCHANGED <<manifests, kept, todo, push, prune, failures>> /\ marks' \subseteq marks \cup {"tangled"}
    BY <1>1, RepairFrame
  <2>2. JobsOK'  BY <2>1, JobsStay
  <2>3. CampaignOK'  BY <2>1 DEF TypeInv, CampaignOK
  <2>4. ASSUME NEW seen, NEW plan, NEW confirmed, repair' \in RepairShape,
               repair'.seen = seen, repair'.plan = plan, repair'.confirmed = confirmed,
               \A t \in DOMAIN seen : DOMAIN seen[t] # {} /\ GoodAt(t, seen[t]),
               \A t \in DOMAIN plan : DOMAIN plan[t] # {} /\ GoodAt(t, plan[t]),
               confirmed \subseteq DOMAIN plan, repair'.pc # "apply" => confirmed = {}
        PROVE  RepairOK'
    <3>1. RepairGood'  BY <2>0, <2>4 DEF RepairGood, GoodAt
    <3> QED BY <2>4, <3>1 DEF RepairOK
  <2>5. /\ \A t \in DOMAIN repair.seen : DOMAIN repair.seen[t] # {} /\ GoodAt(t, repair.seen[t])
        /\ \A t \in DOMAIN repair.plan : DOMAIN repair.plan[t] # {} /\ GoodAt(t, repair.plan[t])
        /\ repair.confirmed \subseteq DOMAIN repair.plan
        /\ repair.pc # "apply" => repair.confirmed = {}
    BY <2>0 DEF RepairGood
  <2>6. \A t \in DOMAIN tags : DOMAIN tags[t] # {} /\ GoodAt(t, tags[t])
    BY DEF TypeInv, TagsOK, TagsGood
  <2>7. ASSUME repair' = NoRepair PROVE RepairOK'
    <3>1. DOMAIN EmptyIndex = {}  BY EmptyIs
    <3> QED BY <2>4, <2>7, <3>1, NoRepairIs
  <2>8. ASSUME List PROVE RepairOK'
    <3>1. DOMAIN EmptyIndex = {}  BY EmptyIs
    <3>2. /\ repair' \in RepairShape /\ repair'.seen = EmptyIndex /\ repair'.plan = EmptyIndex
          /\ repair'.confirmed = {}
      BY <2>8, ListIs
    <3> QED BY <2>4, <3>1, <3>2
  <2>9. ASSUME NEW t, ReadTag(t) PROVE RepairOK'
    <3>1. CASE repair' = NoRepair  BY <2>7, <3>1
    <3>2. CASE repair' # NoRepair
      <4>1. /\ repair' \in RepairShape /\ t \in DOMAIN tags
            /\ DOMAIN repair'.seen = DOMAIN repair.seen \cup {t} /\ repair'.seen[t] = tags[t]
            /\ \A u \in DOMAIN repair.seen \ {t} : repair'.seen[u] = repair.seen[u]
            /\ repair'.plan = repair.plan /\ repair'.confirmed = repair.confirmed
            /\ repair.pc = "gather"
        BY <2>9, <3>2, ReadTagIs
      <4>2. \A u \in DOMAIN repair'.seen : DOMAIN repair'.seen[u] # {} /\ GoodAt(u, repair'.seen[u])
        BY <2>5, <2>6, <4>1
      <4> QED BY <2>4, <2>5, <4>1, <4>2
    <3> QED BY <3>1, <3>2
  <2>10. ASSUME PlanRepair PROVE RepairOK'
    <3>1. CASE repair' = NoRepair  BY <2>7, <3>1
    <3>2. CASE repair' # NoRepair
      <4>1. /\ repair' \in RepairShape /\ repair'.seen = repair.seen /\ repair'.confirmed = repair.confirmed
            /\ \A t \in DOMAIN repair'.plan : DOMAIN repair'.plan[t] # {} /\ GoodAt(t, repair'.plan[t])
            /\ repair.pc = "gather"
        BY <2>10, <3>2, PlanRepairIs
      <4> QED BY <2>4, <2>5, <4>1
    <3> QED BY <3>1, <3>2
  <2>11. ASSUME Preflight PROVE RepairOK'
    <3>1. /\ repair' \in RepairShape /\ repair'.seen = repair.seen /\ repair'.confirmed = repair.confirmed
          /\ DOMAIN repair'.plan \subseteq DOMAIN repair.plan /\ repair.pc = "preflight"
          /\ \A t \in DOMAIN repair'.plan : DOMAIN repair'.plan[t] # {} /\ Covers(repair.plan[t], repair'.plan[t])
      BY <2>11, PreflightIs
    <3>2. \A t \in DOMAIN repair'.plan : DOMAIN repair'.plan[t] # {} /\ GoodAt(t, repair'.plan[t])
      BY <2>5, <3>1 DEF GoodAt, Covers
    <3> QED BY <2>4, <2>5, <3>1, <3>2
  <2>12. ASSUME NEW t, repair' = GiveUp(t) PROVE RepairOK'
    <3>1. /\ repair' \in RepairShape /\ repair'.seen = repair.seen
          /\ DOMAIN repair'.plan = DOMAIN repair.plan \ {t}
          /\ \A u \in DOMAIN repair'.plan : repair'.plan[u] = repair.plan[u]
          /\ repair'.confirmed = repair.confirmed \ {t} /\ repair'.pc = repair.pc
      BY <2>12, GiveUpIs
    <3>2. \A u \in DOMAIN repair'.plan : DOMAIN repair'.plan[u] # {} /\ GoodAt(u, repair'.plan[u])
      BY <2>5, <3>1
    <3>3. repair.confirmed \ {t} \subseteq DOMAIN repair'.plan  BY <2>5, <3>1
    <3> QED BY <2>4, <2>5, <3>1, <3>2, <3>3
  <2>13. ASSUME NEW t, ConfirmAlias(t) PROVE RepairOK'
    <3>1. CASE repair' = GiveUp(t)  BY <2>12, <3>1
    <3>2. CASE repair' # GiveUp(t)
      <4>1. /\ repair' \in RepairShape /\ repair'.seen = repair.seen /\ repair'.plan = repair.plan
            /\ repair'.confirmed = repair.confirmed \cup {t} /\ t \in DOMAIN repair.plan
            /\ repair'.pc = "apply"
        BY <2>13, <3>2, ConfirmIs
      <4> QED BY <2>4, <2>5, <4>1
    <3> QED BY <3>1, <3>2
  <2>14. ASSUME NEW t, PutAlias(t) PROVE RepairOK' /\ TagsOK'
    <3>1. /\ repair' \in RepairShape /\ repair'.seen = repair.seen
          /\ DOMAIN repair'.plan = DOMAIN repair.plan \ {t}
          /\ \A u \in DOMAIN repair'.plan : repair'.plan[u] = repair.plan[u]
          /\ repair'.confirmed = repair.confirmed \ {t} /\ repair'.pc = "apply"
          /\ t \in Tag /\ tags' = SetTag(t, repair.plan[t]) /\ repair.plan[t] \in Index
          /\ DOMAIN repair.plan[t] # {} /\ GoodAt(t, repair.plan[t])
      BY <2>14, PutIs
    <3>2. \A u \in DOMAIN repair'.plan : DOMAIN repair'.plan[u] # {} /\ GoodAt(u, repair'.plan[u])
      BY <2>5, <3>1
    <3>3. repair.confirmed \ {t} \subseteq DOMAIN repair'.plan  BY <2>5, <3>1
    <3>4. TagsOK'  BY <3>1, TagsStep
    <3> QED BY <2>4, <2>5, <3>1, <3>2, <3>3, <3>4
  <2>15. RepairOK' /\ (UNCHANGED tags \/ TagsOK')
    BY <1>1, <2>7, <2>8, <2>9, <2>10, <2>11, <2>12, <2>13, <2>14, RepairFrame
  <2>16. TagsOK'  BY <2>15, TagsLess
  <2> QED BY <2>2, <2>3, <2>15, <2>16 DEF TypeInv
<1>2. CASE PruneNext \/ \E m \in manifests : DeleteManifest(m)
  <2>1. /\ UNCHANGED <<kept, todo, push, failures>>
        /\ repair' \in RepairShape /\ repair'.pc = repair.pc /\ repair'.seen = repair.seen
        /\ repair'.plan = repair.plan /\ repair'.confirmed = repair.confirmed
        /\ marks' \subseteq marks \cup {"tangled", "pruned"}
        /\ \/ tags' = tags \/ \E t : tags' = Without(tags, t)
    BY <1>2, OtherFrame
  <2>2. TagsOK'  BY <2>1, TagsLess
  <2>3. CampaignOK'  BY <2>1 DEF TypeInv, CampaignOK
  <2>4. JobsOK'  BY <2>1, JobsStay
  <2>5. RepairOK'  BY <2>1, RepairNoted
  <2> QED BY <2>2, <2>3, <2>4, <2>5 DEF TypeInv
<1> QED BY <1>1, <1>2

\* The inductive form of the types holds at every step of every behaviour.
THEOREM CascadeTypes == CascadeSpec => []TypeInv
<1>1. CascadeInit => TypeInv
  <2> SUFFICES ASSUME CascadeInit PROVE TypeInv  OBVIOUS
  <2>1. CampaignOK
    BY CampaignAssumption DEF CascadeInit, CampaignOK
  <2>2. TagsOK
    BY EmptyIs DEF CascadeInit, TagsOK, TagsGood
  <2>3. NoJob \in JobShape /\ NoJob.pc = "idle"
    BY EmptyIs DEF NoJob, JobShape
  <2>4. JobsOK
    BY <2>3 DEF CascadeInit, JobsOK, JobsGood
  <2>5. repair = NoRepair /\ DOMAIN EmptyIndex = {}
    BY EmptyIs DEF CascadeInit
  <2>6. RepairOK
    BY <2>5, NoRepairIs DEF RepairOK, RepairGood
  <2> QED BY <2>1, <2>2, <2>4, <2>6 DEF TypeInv
<1>2. TypeInv /\ [CascadeNext]_cascadeVars => TypeInv'
  <2> SUFFICES ASSUME TypeInv, [CascadeNext]_cascadeVars PROVE TypeInv'  OBVIOUS
  <2>1. UNCHANGED campaign  BY CampaignFixed
  <2>2. CASE PushNext  BY <2>1, <2>2, TypePush DEF PushNext
  <2>3. CASE RepairNext \/ PruneNext \/ \E m \in manifests : DeleteManifest(m)
    BY <2>1, <2>3, TypeOther
  <2>4. CASE UNCHANGED cascadeVars
    <3>1. UNCHANGED <<campaign, todo, kept, marks, failures, tags, push, repair>>
      BY <2>4 DEF cascadeVars, registryVars
    <3>2. CampaignOK'  BY <3>1 DEF TypeInv, CampaignOK
    <3>3. TagsOK'  BY <3>1, TagsLess
    <3>4. JobsOK'  BY <3>1, JobsStay
    <3>5. repair' \in RepairShape  BY <3>1 DEF TypeInv, RepairOK
    <3>6. RepairOK'  BY <3>1, <3>5, RepairNoted
    <3> QED BY <3>2, <3>3, <3>4, <3>6 DEF TypeInv
  <2> QED BY <2>2, <2>3, <2>4 DEF CascadeNext
<1> QED BY <1>1, <1>2, PTL DEF CascadeSpec

\* A tag only ever serves versions of its own subtree (decompose_targets,
\* fold_expected), whatever pushes, repairs and prunes are made at the same
\* time, for every set of versions, platforms and publishers.
THEOREM CascadeTypeCorrect == CascadeSpec => []CascadeTypeOK
<1>1. TypeInv => CascadeTypeOK
  <2> SUFFICES ASSUME TypeInv PROVE CascadeTypeOK  OBVIOUS
  <2>1. CampaignOK  BY DEF TypeInv
  <2>2. \A t \in DOMAIN tags : t \in Tag /\ GoodAt(t, tags[t])
    BY TagMapIs DEF TypeInv, TagsOK, TagsGood
  <2>3. \A t \in DOMAIN tags : \A q \in DOMAIN tags[t] :
            t \in {OnTrack(tags[t][q], t)} \cup Targets(OnTrack(tags[t][q], t))
    BY <2>1, <2>2, GoodEntry
  <2> QED BY <2>1, <2>2, <2>3 DEF CascadeTypeOK, CampaignOK
<1> QED BY <1>1, CascadeTypes, PTL

----------------------------------------------------------------------------
(* What a repair leaves *)

\* What is left to write is what was planned, less what preflight dropped.
PlanInv ==
    /\ repair.pc = "preflight" => repair.plan = Plan(repair.seen, Asked)
    /\ repair.pc = "apply" =>
          \A t \in DOMAIN repair.plan :
              /\ t \in Asked
              /\ Covers(repair.plan[t], Expected(repair.seen, t))
              /\ Covers(Planned(repair.seen, t), repair.plan[t])

\* While nothing was torn, a gather has read the registry as it is.
GatherInv ==
    repair.pc = "gather" /\ ~repair.torn =>
        /\ \A t \in DOMAIN repair.seen : t \in DOMAIN tags /\ tags[t] = repair.seen[t]
        /\ \A t \in DOMAIN tags : IsVersion(t) => t \in repair.listed \cup DOMAIN repair.seen

StillInv == repair.still => ~repair.torn

\* But for aliases, the registry is what the gather has read.
Agree ==
    LET aliases == AliasUniverse(Versions(repair.seen))
    IN /\ \A t \in DOMAIN tags : IsVersion(t) => t \in DOMAIN repair.seen \cup aliases
       /\ \A t \in DOMAIN repair.seen : t \in DOMAIN tags /\ (t \notin aliases => tags[t] = repair.seen[t])

\* In a repair nobody disturbed, an alias needs a write only while it is
\* planned, or after it was given up.
HealInv ==
    repair.still =>
        /\ repair.pc = "preflight" =>
              Agree /\ \A t \in DOMAIN repair.seen : t \in DOMAIN tags /\ tags[t] = repair.seen[t]
        /\ repair.pc = "apply" =>
              /\ Agree
              /\ repair.complete =>
                    \A t \in Asked \ DOMAIN repair.plan :
                        t \in DOMAIN tags /\ Covers(tags[t], Expected(repair.seen, t))

RepairInv == PlanInv /\ GatherInv /\ StillInv /\ HealInv

\* The types a repair relies on.
LEMMA SeenIs ==
    ASSUME TypeInv
    PROVE  /\ tags \in TagMap /\ repair \in RepairShape /\ repair.seen \in TagMap /\ repair.plan \in TagMap
           /\ Versions(tags) \in SUBSET Tag /\ Versions(repair.seen) \in SUBSET Tag
           /\ \A v \in DOMAIN repair.seen : DOMAIN repair.seen[v] # {} /\ GoodAt(v, repair.seen[v])
           /\ \A v \in DOMAIN tags : DOMAIN tags[v] # {} /\ GoodAt(v, tags[v])
           /\ Asked \subseteq AliasUniverse(Versions(repair.seen))
<1>1. tags \in TagMap /\ repair \in RepairShape
      /\ (\A v \in DOMAIN repair.seen : DOMAIN repair.seen[v] # {} /\ GoodAt(v, repair.seen[v]))
      /\ (\A v \in DOMAIN tags : DOMAIN tags[v] # {} /\ GoodAt(v, tags[v]))
  BY DEF TypeInv, TagsOK, TagsGood, RepairOK, RepairGood
<1>2. repair.seen \in TagMap /\ repair.plan \in TagMap
  BY <1>1 DEF RepairShape
<1>3. Versions(tags) \in SUBSET Tag /\ Versions(repair.seen) \in SUBSET Tag
  BY <1>1, <1>2, TagMapIs DEF Versions
<1> QED BY <1>1, <1>2, <1>3, ScopeIs DEF Asked

\* Then both fold to the same.
LEMMA AgreeIs ==
    ASSUME TypeInv, Agree
    PROVE  /\ AliasUniverse(Versions(tags)) = AliasUniverse(Versions(repair.seen))
           /\ \A t : Expected(tags, t) = Expected(repair.seen, t)
           /\ Scope(Versions(tags), campaign.request) = Asked
<1> DEFINE V == Versions(tags)
           W == Versions(repair.seen)
<1>0. V \in SUBSET Tag /\ W \in SUBSET Tag /\ tags \in TagMap /\ repair.seen \in TagMap
  BY SeenIs
<1>1. /\ \A t : t \in V <=> t \in DOMAIN tags /\ IsVersion(t)
      /\ \A t : t \in W <=> t \in DOMAIN repair.seen /\ IsVersion(t)
  BY DEF Versions
<1>2. /\ \A t \in DOMAIN tags : IsVersion(t) => t \in DOMAIN repair.seen \cup AliasUniverse(W)
      /\ \A t \in DOMAIN repair.seen : t \in DOMAIN tags /\ (t \notin AliasUniverse(W) => tags[t] = repair.seen[t])
  BY DEF Agree
<1> HIDE DEF V, W
<1>3. W \subseteq V /\ V \subseteq W \cup AliasUniverse(W)
  BY <1>1, <1>2
<1>4. \A t : t \in AliasUniverse(V) => t \in AliasUniverse(W)
  BY <1>0, <1>3, UniverseIs
<1>5. \A t : t \in AliasUniverse(W) => t \in AliasUniverse(V)
  BY <1>0, <1>3, UniverseIs
<1>6. AliasUniverse(V) = AliasUniverse(W)
  BY <1>4, <1>5
<1>7. Leaves(V) = Leaves(W) /\ \A v \in Leaves(V) : tags[v] = repair.seen[v]
  BY <1>1, <1>2, <1>3, <1>6 DEF Leaves
<1>8. \A t : Expected(tags, t) = Expected(repair.seen, t)
  BY <1>0, <1>7, ExpectedSame DEF V, W
<1>9. Scope(V, campaign.request) = Scope(W, campaign.request)
  BY <1>6, ScopeIs
<1> QED BY <1>6, <1>8, <1>9 DEF V, W, Asked

\* Every alias that is asked about should hold something.
LEMMA AskedHolds ==
    ASSUME TypeInv, NEW t \in Asked
    PROVE  DOMAIN Expected(repair.seen, t) # {} /\ DOMAIN Planned(repair.seen, t) # {}
<1>1. PICK v \in Leaves(Versions(repair.seen)) : t \in Targets(v)
  BY SeenIs, LeafBelow
<1>2. v \in DOMAIN repair.seen
  BY <1>1 DEF Leaves, Versions
<1>3. PICK q : q \in DOMAIN repair.seen[v]
  BY <1>2, SeenIs
<1>4. v \in Sources(repair.seen, t, q)
  BY <1>1, <1>3 DEF Sources
<1>5. repair.seen \in TagMap
  BY SeenIs
<1>6. q \in DOMAIN Expected(repair.seen, t)
  BY <1>4, <1>5, ExpectedIs
<1>7. CampaignOK /\ \A u \in DOMAIN repair.seen : GoodAt(u, repair.seen[u])
  BY SeenIs DEF TypeInv
<1>8. q \in DOMAIN Planned(repair.seen, t)
  BY <1>5, <1>6, <1>7, ExpectedGood
<1> QED BY <1>6, <1>8

\* Who writes a tag while a repair runs leaves it as it is, or is noticed.
LEMMA MergeNoticed ==
    ASSUME TypeInv, NEW p \in Publishers, MergeWrite(p)
    PROVE  /\ repair'.pc = repair.pc /\ repair'.listed = repair.listed /\ repair'.seen = repair.seen
           /\ repair'.plan = repair.plan /\ repair'.confirmed = repair.confirmed
           /\ repair'.complete = repair.complete
           /\ \/ repair' = repair /\ repair.pc = "idle"
              \/ repair' = repair /\ tags' = tags
              \/ /\ ~repair'.still
                 /\ ~repair'.torn => /\ ~repair.torn /\ repair.pc # "gather"
                                     /\ NextWrite(push[p].writes) \notin repair.confirmed
                                     /\ marks \cap {"pruned", "lost"} = {}
                                     /\ ~Loses(NextWrite(push[p].writes), Merged(push[p]))
<1> DEFINE t == NextWrite(push[p].writes)
           f == Merged(push[p])
<1>1. push[p].pc = "write" /\ tags' = SetTag(t, f) /\ Disturb(t, f)
  BY DEF MergeWrite, Merged
<1>2. push[p].push.platform \in DOMAIN f
  BY <1>1, MergedIs
<1> HIDE DEF t, f
<1>3. /\ repair'.pc = repair.pc /\ repair'.listed = repair.listed /\ repair'.seen = repair.seen
      /\ repair'.plan = repair.plan /\ repair'.confirmed = repair.confirmed
      /\ repair'.complete = repair.complete
      /\ \/ (repair.pc = "idle" \/ f = IndexAt(tags, t)) /\ repair' = repair
         \/ /\ ~repair'.still
            /\ ~repair'.torn => /\ ~repair.torn /\ repair.pc # "gather" /\ t \notin repair.confirmed
                                /\ marks \cap {"pruned", "lost"} = {} /\ ~Loses(t, f)
  BY <1>1, DisturbIs
<1>4. ASSUME f = IndexAt(tags, t) PROVE tags' = tags
  <2>1. t \in DOMAIN tags /\ f = tags[t]  BY <1>2, <1>4, SeenIs, IndexAtIs
  <2>2. tags = [u \in DOMAIN tags |-> tags[u]]  BY SeenIs, TagMapIs
  <2> QED BY <1>1, <2>1, <2>2, SetTagIs
<1> QED BY <1>3, <1>4 DEF t, f

\* What the steps of a push leave alone.
LEMMA PushFrame ==
    ASSUME NEW p \in Publishers,
           \/ \E x \in todo : BeginPush(p, x)
           \/ \E error \in BOOLEAN : Resolve(p, error)
           \/ PushManifest(p) \/ BeginAliases(p)
           \/ MergeRead(p) \/ MergeWrite(p) \/ PushKeepTag(p)
           \/ FailPush(p)
    PROVE  /\ UNCHANGED <<campaign, prune>>
           /\ MergeWrite(p) \/ UNCHANGED <<tags, repair>>
BY DEF BeginPush, Resolve, PushManifest, BeginAliases, MergeRead, MergeWrite, PushKeepTag, FailPush, registryVars

\* The invariants of a repair depend on it, the tags and the campaign alone.
LEMMA RepairStays ==
    ASSUME RepairInv, UNCHANGED <<campaign, tags, repair>> PROVE RepairInv'
BY DEF RepairInv, PlanInv, GatherInv, StillInv, HealInv, Agree, Asked

\* They say nothing of a repair not at work.
LEMMA RepairIdle ==
    ASSUME repair'.pc = "idle", repair'.still => ~repair'.torn PROVE RepairInv'
BY DEF RepairInv, PlanInv, GatherInv, StillInv, HealInv

\* Whoever disturbs a repair is noticed.
LEMMA RepairDisturbed ==
    ASSUME RepairInv, UNCHANGED campaign, ~repair'.still,
           repair'.pc = repair.pc, repair'.seen = repair.seen, repair'.plan = repair.plan,
           repair'.listed = repair.listed,
           repair.pc = "gather" => repair'.torn \/ (UNCHANGED tags /\ repair'.torn = repair.torn)
    PROVE  RepairInv'
<1>1. Asked' = Asked
  BY DEF Asked
<1>2. PlanInv'
  BY <1>1 DEF RepairInv, PlanInv
<1>3. GatherInv'
  BY DEF RepairInv, GatherInv
<1> QED BY <1>2, <1>3 DEF RepairInv, StillInv, HealInv

\* The steps of the repair itself.
LEMMA RepairSteps ==
    ASSUME TypeInv, RepairInv, RepairNext PROVE RepairInv'
<1> DEFINE aliases == AliasUniverse(Versions(repair.seen))
<1>0. UNCHANGED campaign
  BY RepairFrame
<1>1. PlanInv /\ GatherInv /\ StillInv /\ HealInv
  BY DEF RepairInv
<1>2. CampaignOK /\ repair.seen \in TagMap /\ Asked \subseteq aliases
      /\ (\A v \in DOMAIN repair.seen : DOMAIN repair.seen[v] # {} /\ GoodAt(v, repair.seen[v]))
  BY SeenIs DEF TypeInv
<1>3. \A t : /\ DOMAIN Expected(repair.seen, t) \subseteq DOMAIN Planned(repair.seen, t)
             /\ \A q \in DOMAIN Expected(repair.seen, t) : Planned(repair.seen, t)[q] = Expected(repair.seen, t)[q]
  BY <1>2, ExpectedGood
<1>4. ASSUME repair' = NoRepair PROVE RepairInv'
  BY <1>4, NoRepairIs, RepairIdle
<1>5. ASSUME List, UNCHANGED tags PROVE RepairInv'
  <2>1. /\ repair'.pc = "gather" /\ \A t \in DOMAIN tags : IsVersion(t) => t \in repair'.listed
        /\ DOMAIN repair'.seen = {} /\ ~repair'.torn
    BY <1>5, ListIs, EmptyIs
  <2> QED BY <1>5, <2>1 DEF RepairInv, PlanInv, GatherInv, StillInv, HealInv
<1>6. ASSUME NEW t, ReadTag(t), UNCHANGED tags, repair' # NoRepair PROVE RepairInv'
  <2>1. /\ repair.pc = "gather" /\ repair'.pc = "gather" /\ t \in DOMAIN tags
        /\ repair'.listed = repair.listed \ {t}
        /\ DOMAIN repair'.seen = DOMAIN repair.seen \cup {t} /\ repair'.seen[t] = tags[t]
        /\ \A u \in DOMAIN repair.seen \ {t} : repair'.seen[u] = repair.seen[u]
        /\ repair'.torn = repair.torn /\ repair'.still = repair.still
    BY <1>6, ReadTagIs
  <2>2. GatherInv'  BY <1>1, <1>6, <2>1 DEF GatherInv
  <2> QED BY <1>1, <2>1, <2>2 DEF RepairInv, PlanInv, StillInv, HealInv
<1>7. ASSUME PlanRepair, UNCHANGED tags, repair' # NoRepair PROVE RepairInv'
  <2>1. /\ repair.pc = "gather" /\ repair'.pc = "preflight" /\ repair.listed = {}
        /\ repair'.seen = repair.seen /\ repair'.plan = Plan(repair.seen, Asked)
        /\ repair'.torn = repair.torn /\ repair'.still = repair.still
    BY <1>7, PlanRepairIs
  <2>2. Asked' = Asked  BY <1>0, <2>1 DEF Asked
  <2>3. PlanInv'  BY <2>1, <2>2 DEF PlanInv
  <2>4. GatherInv' /\ StillInv'  BY <1>1, <2>1 DEF GatherInv, StillInv
  <2>5. HealInv'
    <3> SUFFICES ASSUME repair.still
                 PROVE  Agree' /\ \A t \in DOMAIN repair.seen : t \in DOMAIN tags /\ tags[t] = repair.seen[t]
      BY <1>7, <2>1 DEF HealInv
    <3>1. /\ \A t \in DOMAIN repair.seen : t \in DOMAIN tags /\ tags[t] = repair.seen[t]
          /\ \A t \in DOMAIN tags : IsVersion(t) => t \in DOMAIN repair.seen
      BY <1>1, <2>1 DEF GatherInv, StillInv
    <3> QED BY <1>7, <2>1, <3>1 DEF Agree
  <2> QED BY <2>3, <2>4, <2>5 DEF RepairInv
<1>8. ASSUME Preflight, UNCHANGED tags PROVE RepairInv'
  <2>1. /\ repair.pc = "preflight" /\ repair'.pc = "apply" /\ repair'.seen = repair.seen
        /\ repair'.torn = repair.torn /\ repair'.still = repair.still
        /\ DOMAIN repair'.plan \subseteq DOMAIN repair.plan
        /\ repair'.complete => DOMAIN repair'.plan = DOMAIN repair.plan
        /\ \A t \in DOMAIN repair'.plan :
              /\ Covers(repair.plan[t], repair'.plan[t])
              /\ \A q \in DOMAIN repair.plan[t] \cap DOMAIN Expected(repair.seen, t) : q \in DOMAIN repair'.plan[t]
    BY <1>8, PreflightIs
  <2>2. Asked' = Asked  BY <1>0, <2>1 DEF Asked
  <2>3. repair.plan = Plan(repair.seen, Asked) /\ Asked \in SUBSET Tag
    <3>1. Asked \in SUBSET Tag  BY <1>2, SeenIs, UniverseIs
    <3> QED BY <1>1, <2>1, <3>1 DEF PlanInv
  <2>4. /\ \A t : t \in DOMAIN repair.plan <=> /\ t \in Asked /\ NeedsWrite(repair.seen, t)
                                               /\ DOMAIN Planned(repair.seen, t) # {}
        /\ \A t \in DOMAIN repair.plan : repair.plan[t] = Planned(repair.seen, t)
    BY <1>2, <2>3, PlanIs
  <2>5. PlanInv'
    <3>1. ASSUME NEW t \in DOMAIN repair'.plan
          PROVE  /\ t \in Asked /\ Covers(repair'.plan[t], Expected(repair.seen, t))
                 /\ Covers(Planned(repair.seen, t), repair'.plan[t])
      BY <1>3, <2>1, <2>4 DEF Covers
    <3> QED BY <2>1, <2>2, <3>1 DEF PlanInv
  <2>6. GatherInv' /\ StillInv'  BY <1>1, <2>1 DEF GatherInv, StillInv
  <2>7. HealInv'
    <3> SUFFICES ASSUME repair.still
                 PROVE  Agree' /\ (repair'.complete =>
                                      \A t \in Asked \ DOMAIN repair'.plan :
                                          t \in DOMAIN tags /\ Covers(tags[t], Expected(repair.seen, t)))
      BY <1>8, <2>1, <2>2 DEF HealInv
    <3>1. Agree /\ \A t \in DOMAIN repair.seen : t \in DOMAIN tags /\ tags[t] = repair.seen[t]
      BY <1>1, <2>1 DEF HealInv
    <3>2. Agree'  BY <1>8, <2>1, <3>1 DEF Agree
    <3>3. ASSUME NEW t \in Asked, t \notin DOMAIN repair.plan
          PROVE  t \in DOMAIN tags /\ Covers(tags[t], Expected(repair.seen, t))
      <4>1. ~NeedsWrite(repair.seen, t)  BY <2>4, <3>3, AskedHolds
      <4> QED BY <3>1, <4>1 DEF NeedsWrite, Covers
    <3> QED BY <2>1, <3>2, <3>3
  <2> QED BY <2>5, <2>6, <2>7 DEF RepairInv
<1>9. ASSUME NEW t, repair' = GiveUp(t), repair.pc = "apply", UNCHANGED tags PROVE RepairInv'
  <2>1. /\ repair'.pc = repair.pc /\ repair'.seen = repair.seen
        /\ DOMAIN repair'.plan = DOMAIN repair.plan \ {t}
        /\ \A u \in DOMAIN repair'.plan : repair'.plan[u] = repair.plan[u]
        /\ ~repair'.complete /\ repair'.torn = repair.torn /\ repair'.still = repair.still
    BY <1>9, GiveUpIs
  <2>2. Asked' = Asked  BY <1>0, <2>1 DEF Asked
  <2>3. PlanInv'  BY <1>1, <1>9, <2>1, <2>2 DEF PlanInv
  <2>4. GatherInv' /\ StillInv'  BY <1>1, <1>9, <2>1 DEF GatherInv, StillInv
  <2>5. Agree => Agree'  BY <1>9, <2>1 DEF Agree
  <2>6. HealInv'  BY <1>1, <1>9, <2>1, <2>5 DEF HealInv
  <2> QED BY <2>3, <2>4, <2>6 DEF RepairInv
<1>10. ASSUME NEW t, ConfirmAlias(t), UNCHANGED tags PROVE RepairInv'
  <2>1. CASE repair' = GiveUp(t)
    BY <1>9, <1>10, <2>1 DEF ConfirmAlias
  <2>2. CASE repair' # GiveUp(t)
    <3>1. /\ repair.pc = "apply" /\ repair'.pc = "apply" /\ repair'.seen = repair.seen
          /\ repair'.plan = repair.plan /\ repair'.complete = repair.complete
          /\ repair'.torn = repair.torn /\ repair'.still = repair.still
      BY <1>10, <2>2, ConfirmIs
    <3>2. Asked' = Asked  BY <1>0, <3>1 DEF Asked
    <3>3. PlanInv'  BY <1>1, <3>1, <3>2 DEF PlanInv
    <3>4. GatherInv' /\ StillInv'  BY <1>1, <3>1 DEF GatherInv, StillInv
    <3>5. Agree => Agree'  BY <1>10, <3>1 DEF Agree
    <3>6. HealInv'  BY <1>1, <1>10, <3>1, <3>2, <3>5 DEF HealInv
    <3> QED BY <3>3, <3>4, <3>6 DEF RepairInv
  <2> QED BY <2>1, <2>2
<1>11. ASSUME NEW t, PutAlias(t) PROVE RepairInv'
  <2>1. /\ repair.pc = "apply" /\ repair'.pc = "apply" /\ repair'.seen = repair.seen /\ t \in DOMAIN repair.plan
        /\ DOMAIN repair'.plan = DOMAIN repair.plan \ {t}
        /\ \A u \in DOMAIN repair'.plan : repair'.plan[u] = repair.plan[u]
        /\ repair'.complete = repair.complete
        /\ repair'.torn = repair.torn /\ repair'.still = repair.still
        /\ tags' = SetTag(t, repair.plan[t])
    BY <1>11, PutIs
  <2>2. Asked' = Asked  BY <1>0, <2>1 DEF Asked
  <2>3. PlanInv'  BY <1>1, <2>1, <2>2 DEF PlanInv
  <2>4. GatherInv' /\ StillInv'  BY <1>1, <2>1 DEF GatherInv, StillInv
  <2>5. t \in Asked /\ Covers(repair.plan[t], Expected(repair.seen, t))
    BY <1>1, <2>1 DEF PlanInv
  <2>6. /\ DOMAIN tags' = DOMAIN tags \cup {t} /\ tags'[t] = repair.plan[t]
        /\ \A u \in DOMAIN tags \ {t} : tags'[u] = tags[u]
    BY <2>1, SetTagIs
  <2>7. Agree => Agree'
    <3> SUFFICES ASSUME Agree PROVE Agree'  OBVIOUS
    <3>1. /\ \A u \in DOMAIN tags : IsVersion(u) => u \in DOMAIN repair.seen \cup aliases
          /\ \A u \in DOMAIN repair.seen : u \in DOMAIN tags /\ (u \notin aliases => tags[u] = repair.seen[u])
      BY DEF Agree
    <3>2. t \in aliases  BY <1>2, <2>5
    <3>3. Versions(repair.seen)' = Versions(repair.seen)  BY <2>1
    <3> HIDE DEF aliases
    <3>4. /\ \A u \in DOMAIN tags' : IsVersion(u) => u \in DOMAIN repair.seen \cup aliases
          /\ \A u \in DOMAIN repair.seen : u \in DOMAIN tags' /\ (u \notin aliases => tags'[u] = repair.seen[u])
      BY <2>6, <3>1, <3>2
    <3> QED BY <2>1, <3>3, <3>4 DEF Agree, aliases
  <2>8. HealInv'
    <3> SUFFICES ASSUME repair.still
                 PROVE  Agree' /\ (repair.complete =>
                                      \A u \in Asked \ DOMAIN repair'.plan :
                                          u \in DOMAIN tags' /\ Covers(tags'[u], Expected(repair.seen, u)))
      BY <2>1, <2>2 DEF HealInv
    <3>1. Agree /\ (repair.complete =>
                      \A u \in Asked \ DOMAIN repair.plan :
                          u \in DOMAIN tags /\ Covers(tags[u], Expected(repair.seen, u)))
      BY <1>1, <2>1 DEF HealInv
    <3> QED BY <2>1, <2>5, <2>6, <2>7, <3>1
  <2> QED BY <2>3, <2>4, <2>8 DEF RepairInv
<1> QED BY <1>4, <1>5, <1>6, <1>7, <1>8, <1>9, <1>10, <1>11, RepairFrame

\* The inductive invariant of a repair.
THEOREM RepairInvariant == CascadeSpec => []RepairInv
<1>1. CascadeInit => RepairInv
  BY NoRepairIs DEF CascadeInit, RepairInv, PlanInv, GatherInv, StillInv, HealInv
<1>2. TypeInv /\ RepairInv /\ [CascadeNext]_cascadeVars => RepairInv'
  <2> SUFFICES ASSUME TypeInv, RepairInv, [CascadeNext]_cascadeVars PROVE RepairInv'  OBVIOUS
  <2>0. UNCHANGED campaign  BY CampaignFixed
  <2>1. ASSUME NEW p \in Publishers, MergeWrite(p) PROVE RepairInv'
    <3>1. CASE repair' = repair /\ repair.pc = "idle"
      BY <3>1, RepairIdle DEF RepairInv, StillInv
    <3>2. CASE repair' = repair /\ tags' = tags
      BY <2>0, <3>2, RepairStays
    <3>3. CASE ~repair'.still /\ (~repair'.torn => repair.pc # "gather")
      BY <2>0, <2>1, <3>3, MergeNoticed, RepairDisturbed
    <3> QED BY <2>1, <3>1, <3>2, <3>3, MergeNoticed
  <2>2. CASE PushNext
    BY <2>0, <2>1, <2>2, PushFrame, RepairStays DEF PushNext
  <2>3. CASE RepairNext
    BY <2>3, RepairSteps
  <2>4. CASE PruneNext \/ \E m \in manifests : DeleteManifest(m)
    <3>1. CASE UNCHANGED <<tags, repair>>
      BY <2>0, <3>1, RepairStays
    <3>2. CASE repair.pc = "idle"
      <4>1. repair'.pc = "idle" /\ (repair'.still => repair.still)
            /\ (repair' = repair \/ repair'.torn = repair.torn)
        BY <2>4, <3>2, OtherFrame
      <4> QED BY <4>1, RepairIdle DEF RepairInv, StillInv
    <3>3. CASE repair.pc # "idle" /\ ~UNCHANGED <<tags, repair>>
      <4>1. /\ repair'.pc = repair.pc /\ repair'.listed = repair.listed /\ repair'.seen = repair.seen
            /\ repair'.plan = repair.plan /\ ~repair'.still
            /\ repair'.torn \/ (UNCHANGED tags /\ repair'.torn = repair.torn)
        BY <2>4, <3>3, OtherFrame
      <4> QED BY <2>0, <4>1, RepairDisturbed
    <3> QED BY <3>1, <3>2, <3>3
  <2>5. CASE UNCHANGED cascadeVars
    BY <2>5, RepairStays DEF cascadeVars, registryVars
  <2> QED BY <2>2, <2>3, <2>4, <2>5 DEF CascadeNext
<1> QED BY <1>1, <1>2, CascadeTypes, PTL DEF CascadeSpec

\* A repair that wrote what it planned, and was not disturbed, leaves nothing
\* to repair (plan_repairs, preflight, apply): for every repository, and
\* whatever orphans preflight dropped.
THEOREM RepairsHeal == CascadeSpec => []RepairHeals
<1>1. TypeInv /\ RepairInv => RepairHeals
  <2> SUFFICES ASSUME TypeInv, RepairInv, repair.pc = "apply", DOMAIN repair.plan = {}, repair.complete,
                      repair.still, NEW t \in Scope(Versions(tags), campaign.request)
               PROVE  ~NeedsWrite(tags, t)
    BY DEF RepairHeals
  <2>1. Agree /\ \A u \in Asked : u \in DOMAIN tags /\ Covers(tags[u], Expected(repair.seen, u))
    BY DEF RepairInv, HealInv
  <2>2. t \in Asked /\ Expected(tags, t) = Expected(repair.seen, t)
    BY <2>1, AgreeIs
  <2> QED BY <2>1, <2>2 DEF NeedsWrite, Covers
<1> QED BY <1>1, CascadeTypes, RepairInvariant, PTL

----------------------------------------------------------------------------
(* Pushes made one at a time *)

HasEntry(m, t, q) == t \in DOMAIN m /\ q \in DOMAIN m[t]

\* The version m serves at t.
On(m, t, q) == OnTrack(m[t][q], t)

NoGapIn(m) ==
    \A t \in DOMAIN m : \A q \in DOMAIN m[t] :
        \A u \in {On(m, t, q)} \cup {a \in Targets(On(m, t, q)) : Less(a, t)} :
            HasEntry(m, u, q) /\ ~Less(On(m, u, q), On(m, t, q))

\* The index to be written back is the one that is there.
Fresh(m, j) == j.pc = "write" => j.read = IndexAt(m, NextWrite(j.writes))

\* Aliases are resolved and written from the lowest up, none left out.
Ordered(m, j) ==
    /\ j.pc = "resolve" =>
          /\ \A t \in j.writes \cup j.levels : \A u \in Goals(j) : Less(u, t) => u \in j.writes \cup j.levels
          /\ \A u \in j.writes : \A t \in j.levels : Less(u, t)
    /\ j.pc \in {"read", "write"} =>
          \A t \in j.writes : \A u \in Goals(j) :
              Less(u, t) => \/ u \in j.writes
                            \/ HasEntry(m, u, j.push.platform) /\ m[u][j.push.platform] = j.push.version

\* Nothing that serves the platform is passed over by an alias to be written.
Unpassed(m, j) ==
    \A t \in j.writes \cap Targets(Subject(j)) : \A o \in Versions(m) :
        Zone(Subject(j), t, o) => j.push.platform \notin DOMAIN m[o]

\* The listing a push began with has every version that it did not write itself.
Known(m, j) ==
    /\ ~j.push.cascade => j.levels = {}
    /\ j.push.cascade => /\ j.others \subseteq DOMAIN m
                         /\ \A o \in Versions(m) :
                               (j.bare => o[1] = Subject(j)[1]) => o \in j.others \cup Goals(j)

InOrder(m, j) == Writing(j) => Fresh(m, j) /\ Ordered(m, j) /\ Unpassed(m, j) /\ Known(m, j)

\* Until two commands meet, one push at a time is at work and nothing else.
Alone ==
    "tangled" \notin marks =>
        /\ repair.pc = "idle" /\ prune.pc = "idle"
        /\ \A p, r \in Publishers : push[p].pc # "idle" /\ push[r].pc # "idle" => p = r

Sequential ==
    "tangled" \notin marks /\ Separate => NoGapIn(tags) /\ \A p \in Publishers : InOrder(tags, push[p])

\* What is passed over is neither the version nor an alias of it.
LEMMA ZoneApart ==
    ASSUME NEW s \in Tag, NEW o \in Tag, NEW t \in Targets(s), Zone(s, t, o)
    PROVE  o # s /\ o \notin Targets(s) /\ o[1] = s[1]
<1>1. t \in Targets(o) /\ Less(s, o)
  BY ZoneTarget
<1>2. o[1] = s[1]
  BY <1>1, TargetAbove
<1>3. o # s
  BY <1>1, LessIrreflexive
<1>4. o \notin Targets(s)
  BY TargetAbove DEF Zone
<1> QED BY <1>2, <1>3, <1>4

\* What one publisher's step does to the others, to the marks and to the rest.
LEMMA OnePush ==
    ASSUME TypeInv, NEW p \in Publishers,
           \/ \E x \in todo : BeginPush(p, x)
           \/ \E error \in BOOLEAN : Resolve(p, error)
           \/ PushManifest(p) \/ BeginAliases(p)
           \/ MergeRead(p) \/ MergeWrite(p) \/ PushKeepTag(p)
           \/ FailPush(p)
    PROVE  /\ \A r \in Publishers \ {p} : push'[r] = push[r]
           /\ marks \subseteq marks'
           /\ repair'.pc = repair.pc /\ prune' = prune
           /\ push[p].pc = "idle" => (Busy => "tangled" \in marks')
<1>0. push \in [Publishers -> JobShape]
  BY DEF TypeInv, JobsOK
<1>1. ASSUME NEW j, Job(p, j) PROVE \A r \in Publishers \ {p} : push'[r] = push[r]
  BY <1>0, <1>1 DEF Job
<1>2. ASSUME NEW x \in todo, BeginPush(p, x)
      PROVE  /\ \E j : Job(p, j)
             /\ marks \subseteq marks' /\ UNCHANGED <<repair, prune>> /\ (Busy => "tangled" \in marks')
  BY <1>2 DEF BeginPush, registryVars
<1>3. ASSUME \/ \E error \in BOOLEAN : Resolve(p, error)
             \/ PushManifest(p) \/ BeginAliases(p) \/ MergeRead(p) \/ PushKeepTag(p) \/ FailPush(p)
      PROVE  /\ \E j : Job(p, j)
             /\ marks \subseteq marks' /\ UNCHANGED <<repair, prune>> /\ push[p].pc # "idle"
  BY <1>3 DEF Resolve, PushManifest, BeginAliases, MergeRead, PushKeepTag, FailPush, registryVars
<1>4. ASSUME MergeWrite(p)
      PROVE  /\ \E j : Job(p, j)
             /\ marks \subseteq marks' /\ UNCHANGED prune /\ repair'.pc = repair.pc /\ push[p].pc # "idle"
  <2>1. repair'.pc = repair.pc  BY <1>4, MergeNoticed
  <2> QED BY <1>4, <2>1 DEF MergeWrite
<1>5. CASE \E x \in todo : BeginPush(p, x)  BY <1>1, <1>2, <1>5
<1>6. CASE MergeWrite(p)  BY <1>1, <1>4, <1>6
<1>7. CASE ~MergeWrite(p) /\ ~\E x \in todo : BeginPush(p, x)  BY <1>1, <1>3, <1>7
<1> QED BY <1>5, <1>6, <1>7

\* A command that meets another leaves the mark.
LEMMA AloneStep ==
    ASSUME TypeInv, Alone, [CascadeNext]_cascadeVars
    PROVE  /\ Alone'
           /\ "tangled" \notin marks' =>
                 /\ "tangled" \notin marks
                 /\ UNCHANGED tags \/ \E p \in Publishers : MergeWrite(p)
                 /\ UNCHANGED push \/ PushNext
<1>1. ASSUME NEW p \in Publishers,
             \/ \E x \in todo : BeginPush(p, x)
             \/ \E error \in BOOLEAN : Resolve(p, error)
             \/ PushManifest(p) \/ BeginAliases(p)
             \/ MergeRead(p) \/ MergeWrite(p) \/ PushKeepTag(p)
             \/ FailPush(p)
      PROVE  Alone' /\ marks \subseteq marks' /\ (UNCHANGED tags \/ MergeWrite(p))
  <2>1. /\ \A r \in Publishers \ {p} : push'[r] = push[r]
        /\ marks \subseteq marks'
        /\ repair'.pc = repair.pc /\ prune' = prune
        /\ push[p].pc = "idle" => (Busy => "tangled" \in marks')
    BY <1>1, OnePush
  <2>2. UNCHANGED tags \/ MergeWrite(p)
    BY <1>1, PushFrame
  <2>3. CASE push[p].pc = "idle"
    <3> SUFFICES ASSUME "tangled" \notin marks'
                 PROVE  /\ repair'.pc = "idle" /\ prune'.pc = "idle"
                        /\ \A r \in Publishers : push'[r].pc # "idle" => r = p
      BY <2>1, <2>2 DEF Alone
    <3>1. ~Busy  BY <2>1, <2>3
    <3> QED BY <2>1, <3>1 DEF Busy
  <2>4. CASE push[p].pc # "idle"
    BY <2>1, <2>2, <2>4 DEF Alone
  <2> QED BY <2>3, <2>4
<1>2. CASE PushNext
  BY <1>1, <1>2 DEF PushNext
<1>3. CASE RepairNext
  <2>1. CASE "tangled" \in marks'  BY <2>1 DEF Alone
  <2>2. CASE "tangled" \notin marks'
    <3>1. "tangled" \notin marks /\ UNCHANGED push /\ UNCHANGED prune  BY <1>3, <2>2, RepairFrame
    <3>2. repair.pc = "idle"  BY <3>1 DEF Alone
    <3>3. UNCHANGED tags /\ repair' = NoRepair
      BY <1>3, <2>2, <3>2, RepairFrame DEF List, PlanRepair, Preflight, ReadTag, ConfirmAlias, PutAlias
    <3> QED BY <3>1, <3>3, NoRepairIs DEF Alone
  <2> QED BY <2>1, <2>2
<1>4. CASE PruneNext \/ \E m \in manifests : DeleteManifest(m)
  <2>1. CASE "tangled" \in marks'  BY <2>1 DEF Alone
  <2>2. CASE "tangled" \notin marks'
    <3>1. "tangled" \notin marks /\ UNCHANGED push /\ repair'.pc = repair.pc  BY <1>4, <2>2, OtherFrame
    <3>2. prune.pc = "idle"  BY <3>1 DEF Alone
    <3>3. UNCHANGED tags /\ prune'.pc = "idle"  BY <1>4, <2>2, <3>2, OtherFrame
    <3> QED BY <3>1, <3>3 DEF Alone
  <2> QED BY <2>1, <2>2
<1>5. CASE UNCHANGED cascadeVars
  BY <1>5 DEF cascadeVars, registryVars, Alone
<1> QED BY <1>2, <1>3, <1>4, <1>5 DEF CascadeNext

\* A track that is begun is in order.
LEMMA TrackBegins ==
    ASSUME CampaignOK, NEW m, NEW j, JobOK(j), j.pc = "resolve", j.writes = {Subject(j)},
           j.levels = (IF j.push.cascade THEN Targets(Subject(j)) ELSE {}), Known(m, j)
    PROVE  InOrder(m, j)
<1>0. Subject(j) \in Tag
  BY SubjectIs
<1>1. \A t \in Targets(Subject(j)) : t \in Tag /\ Less(Subject(j), t) /\ t # Subject(j)
  BY <1>0, TargetAbove
<1>2. Ordered(m, j)
  <2>1. ASSUME NEW t \in j.writes \cup j.levels, NEW u \in Goals(j), Less(u, t) PROVE u \in j.writes \cup j.levels
    <3>1. CASE j.push.cascade  BY <3>1 DEF Goals
    <3>2. CASE ~j.push.cascade
      <4>1. t = Subject(j)  BY <2>1, <3>2
      <4>2. u = Subject(j)  BY <1>0, <1>1, <2>1, <4>1, LessTransitive, LessIrreflexive DEF Goals
      <4> QED BY <4>2
    <3> QED BY <3>1, <3>2
  <2> QED BY <1>1, <2>1 DEF Ordered
<1>3. Unpassed(m, j)
  BY <1>1 DEF Unpassed
<1>4. Fresh(m, j)
  BY DEF Fresh
<1> QED BY <1>2, <1>3, <1>4 DEF InOrder

\* A level that is resolved leaves the push in order.
LEMMA ResolveInOrder ==
    ASSUME TypeInv, NEW p \in Publishers, NEW error, Resolve(p, error), InOrder(tags, push[p]),
           NEW j \in JobShape, Job(p, j), JobOK(j), j.pc = "resolve", j.push = push[p].push, j.bare = push[p].bare,
           j.others = push[p].others, Subject(j) = Subject(push[p]),
           push[p].pc = "resolve", push[p].levels # {},
           NEW t0 \in push[p].levels, \A u \in push[p].levels : t0 = u \/ Less(t0, u),
           \/ Blocked(push[p], t0, error) /\ j.levels = {} /\ j.writes = push[p].writes
           \/ /\ ~Blocked(push[p], t0, error)
              /\ j.levels = push[p].levels \ {t0} /\ j.writes = push[p].writes \cup {t0}
    PROVE  InOrder(tags, j)
<1> DEFINE s == Subject(push[p])
           q == push[p].push.platform
           writes == push[p].writes
           levels == push[p].levels
           others == push[p].others
<1>0. /\ push[p] \in JobShape /\ JobOK(push[p]) /\ CampaignOK
      /\ Ordered(tags, push[p]) /\ Unpassed(tags, push[p]) /\ Known(tags, push[p])
  BY JobFields DEF InOrder, Writing, TypeInv
<1>1. /\ s \in Tag /\ levels \subseteq Targets(s) /\ writes \subseteq Goals(push[p]) /\ Goals(push[p]) \subseteq Tag
      /\ Goals(push[p]) = {s} \cup Targets(s) /\ others \in SUBSET Tag /\ Goals(j) = Goals(push[p])
  BY <1>0, SubjectIs DEF JobOK, Goals, JobShape
<1>2. /\ \A t \in writes \cup levels : \A u \in Goals(push[p]) : Less(u, t) => u \in writes \cup levels
      /\ \A u \in writes : \A t \in levels : Less(u, t)
  BY <1>0 DEF Ordered
<1>3. \A t \in writes \cap Targets(s) : \A o \in Versions(tags) : Zone(s, t, o) => q \notin DOMAIN tags[o]
  BY <1>0 DEF Unpassed
<1>4. push[p].push.cascade
  BY <1>0 DEF Known
<1>5. \A o \in Versions(tags) : (push[p].bare => o[1] = s[1]) => o \in others \cup Goals(push[p])
  BY <1>0, <1>4 DEF Known
<1>6. Fresh(tags, j)
  BY DEF Fresh
<1>7. Known(tags, j)
  <2>1. others \subseteq DOMAIN tags  BY <1>0, <1>4 DEF Known
  <2> QED BY <1>1, <1>4, <1>5, <2>1 DEF Known
<1> HIDE DEF s, q, writes, levels, others
<1>8. CASE Blocked(push[p], t0, error)
  <2>1. j.levels = {} /\ j.writes = writes  BY <1>8 DEF writes
  <2>2. ASSUME NEW t \in writes, NEW u \in Goals(push[p]), Less(u, t) PROVE u \in writes
    <3>1. u \in writes \cup levels  BY <1>2, <2>2
    <3>2. ASSUME u \in levels PROVE FALSE
      <4>1. Less(t, u)  BY <1>2, <3>2
      <4> QED BY <1>1, <2>2, <4>1, LessTransitive, LessIrreflexive
    <3> QED BY <3>1, <3>2
  <2>3. Ordered(tags, j)  BY <1>1, <2>1, <2>2 DEF Ordered
  <2>4. Unpassed(tags, j)  BY <1>0, <2>1 DEF Unpassed, writes
  <2> QED BY <1>6, <1>7, <2>3, <2>4 DEF InOrder
<1>9. CASE ~Blocked(push[p], t0, error)
  <2>1. j.levels = levels \ {t0} /\ j.writes = writes \cup {t0} /\ t0 \in levels
    BY <1>9 DEF writes, levels
  <2>2. \A u \in levels : t0 = u \/ Less(t0, u)
    BY DEF levels
  <2>3. Ordered(tags, j)
    BY <1>1, <1>2, <2>1, <2>2 DEF Ordered
  <2>4. ASSUME NEW o \in Versions(tags), Zone(s, t0, o) PROVE q \notin DOMAIN tags[o]
    <3>0. o \in Tag /\ t0 \in Targets(s)  BY <1>1, <2>1, SeenIs
    <3>1. o # s /\ o \notin Targets(s) /\ o[1] = s[1]  BY <1>1, <2>4, <3>0, ZoneApart
    <3>2. o \in others  BY <1>1, <1>5, <3>1
    <3>3. CASE o \in Blockers(s, t0, others)
      BY <1>9, <3>3 DEF Blocked, s, q, others
    <3>4. ASSUME NEW u \in Targets(s), Less(u, t0), Zone(s, u, o) PROVE q \notin DOMAIN tags[o]
      <4>1. u \in writes \cup levels  BY <1>1, <1>2, <2>1, <3>4
      <4>2. u \notin levels
        BY <1>1, <2>1, <2>2, <3>4, LessTransitive, LessIrreflexive
      <4> QED BY <1>3, <3>4, <4>1, <4>2
    <3> QED BY <1>1, <2>4, <3>0, <3>2, <3>3, <3>4, ZoneBlockers
  <2>5. Unpassed(tags, j)
    BY <1>3, <2>1, <2>4 DEF Unpassed, s, q
  <2> QED BY <1>6, <1>7, <2>3, <2>5 DEF InOrder
<1> QED BY <1>8, <1>9

\* A push that is in order does not write an older version over a later one.
LEMMA WriteForward ==
    ASSUME TypeInv, Separate, NEW p \in Publishers, push[p].pc = "write", InOrder(tags, push[p]),
           NEW v \in Subjects, HasEntry(tags, v, push[p].push.platform),
           NextWrite(push[p].writes) \in {v} \cup Targets(v)
    PROVE  ~Less(Subject(push[p]), v)
<1> DEFINE s == Subject(push[p])
           t == NextWrite(push[p].writes)
<1> SUFFICES ASSUME Less(s, v) PROVE FALSE
  OBVIOUS
<1>1. JobOK(push[p]) /\ CampaignOK
  BY JobFields DEF TypeInv
<1>2. s \in Subjects /\ s \in Tag /\ v \in Tag /\ IsVersion(v)
  BY <1>1, SubjectIs, SubjectsAre
<1>3. t \in push[p].writes /\ t \in {s} \cup Targets(s)
  BY MergedIs DEF Goals
<1>4. Subjects \cap Targets(s) = {} /\ Subjects \cap Targets(v) = {}
  BY <1>2 DEF Separate
<1>5. Unpassed(tags, push[p])
  BY DEF InOrder, Writing
<1>6. t \in {v} \cup Targets(v)
  OBVIOUS
<1> HIDE DEF s, t
<1>7. t # s /\ t # v
  BY <1>2, <1>3, <1>4, <1>6, LessIrreflexive
<1>8. Zone(s, t, v)
  BY <1>2, <1>3, <1>4, <1>6, <1>7, ZoneOf
<1>9. v \in Versions(tags) /\ push[p].push.platform \in DOMAIN tags[v]
  BY <1>2 DEF HasEntry, Versions
<1> QED BY <1>3, <1>5, <1>7, <1>8, <1>9 DEF Unpassed, s

\* n is m, but for what t serves for q0.
OneEntry(m, n, t, q0) ==
    /\ DOMAIN n = DOMAIN m \cup {t}
    /\ \A u \in DOMAIN m \ {t} : n[u] = m[u]
    /\ \A u, q : HasEntry(n, u, q) <=> HasEntry(m, u, q) \/ (u = t /\ q = q0)
    /\ \A u, q : HasEntry(m, u, q) => (u = t /\ q = q0) \/ n[u][q] = m[u][q]

\* A merge into an index that is as it was read changes one entry.
LEMMA FreshWrite ==
    ASSUME TypeInv, NEW p \in Publishers, MergeWrite(p), Fresh(tags, push[p])
    PROVE  /\ OneEntry(tags, tags', NextWrite(push[p].writes), push[p].push.platform)
           /\ tags'[NextWrite(push[p].writes)][push[p].push.platform] = push[p].push.version
           /\ On(tags', NextWrite(push[p].writes), push[p].push.platform) = Subject(push[p])
           /\ ~Loses(NextWrite(push[p].writes), Merged(push[p]))
<1> DEFINE t == NextWrite(push[p].writes)
           q0 == push[p].push.platform
           f == Merged(push[p])
<1>1. push[p].pc = "write" /\ tags' = SetTag(t, f)
  BY DEF MergeWrite, Merged
<1>2. push[p].read = IndexAt(tags, t)
  BY <1>1 DEF Fresh
<1>3. /\ DOMAIN f = DOMAIN IndexAt(tags, t) \cup {q0} /\ f[q0] = push[p].push.version
      /\ \A q \in DOMAIN IndexAt(tags, t) : q # q0 => f[q] = IndexAt(tags, t)[q]
      /\ t \in Goals(push[p])
  BY <1>1, <1>2, MergedIs
<1> HIDE DEF f, t, q0
<1>4. /\ DOMAIN tags' = DOMAIN tags \cup {t} /\ tags'[t] = f
      /\ \A u \in DOMAIN tags \ {t} : tags'[u] = tags[u]
  BY <1>1, SetTagIs
<1>5. /\ t \in DOMAIN tags => IndexAt(tags, t) = tags[t]
      /\ t \notin DOMAIN tags => DOMAIN IndexAt(tags, t) = {}
  BY SeenIs, IndexAtIs
<1>6. \A u, q : HasEntry(tags', u, q) <=> HasEntry(tags, u, q) \/ (u = t /\ q = q0)
  BY <1>3, <1>4, <1>5 DEF HasEntry
<1>7. \A u, q : HasEntry(tags, u, q) => (u = t /\ q = q0) \/ tags'[u][q] = tags[u][q]
  BY <1>3, <1>4, <1>5 DEF HasEntry
<1>8. tags'[t][q0] = push[p].push.version
  BY <1>3, <1>4
<1>9. OnTrack(push[p].push.version, t) = Subject(push[p])
  BY <1>1, <1>3, JobFields, SubjectIs DEF TypeInv
<1>10. ~Loses(t, f)
  BY <1>3 DEF Loses
<1>11. OneEntry(tags, tags', t, q0)
  BY <1>4, <1>6, <1>7 DEF OneEntry
<1>12. On(tags', t, q0) = Subject(push[p])
  BY <1>8, <1>9 DEF On
<1> QED BY <1>8, <1>10, <1>11, <1>12 DEF f, t, q0

\* What a tag serves: a version that is published, of which it is the tag or an alias.
LEMMA Serves ==
    ASSUME TypeInv, NEW t, NEW q, HasEntry(tags, t, q)
    PROVE  /\ On(tags, t, q) \in Subjects /\ On(tags, t, q) \in Tag
           /\ t \in {On(tags, t, q)} \cup Targets(On(tags, t, q))
           /\ t \in Tag /\ t[1] = On(tags, t, q)[1]
<1>1. CampaignOK /\ t \in DOMAIN tags /\ GoodAt(t, tags[t]) /\ q \in DOMAIN tags[t]
  BY SeenIs DEF TypeInv, HasEntry
<1> QED BY <1>1, GoodEntry DEF On

\* A write leaves no gap.
LEMMA WriteNoGap ==
    ASSUME TypeInv, Separate, NEW p \in Publishers, MergeWrite(p), InOrder(tags, push[p]), NoGapIn(tags)
    PROVE  NoGapIn(tags')
<1> DEFINE t == NextWrite(push[p].writes)
           q0 == push[p].push.platform
           s == Subject(push[p])
<1>1. push[p].pc = "write" /\ JobOK(push[p]) /\ CampaignOK
  BY JobFields DEF MergeWrite, TypeInv
<1>2. Fresh(tags, push[p]) /\ Ordered(tags, push[p])
  BY <1>1 DEF InOrder, Writing
<1>3. /\ t \in push[p].writes /\ t \in Goals(push[p]) /\ t \in Tag
      /\ \A w \in push[p].writes : t = w \/ Less(t, w)
  BY <1>1, MergedIs
<1>4. /\ s \in Tag /\ Goals(push[p]) \subseteq Tag /\ Goals(push[p]) = {s} \cup Targets(s)
      /\ \A u \in Goals(push[p]) : OnTrack(push[p].push.version, u) = s /\ (u = s \/ Less(s, u))
  BY <1>1, SubjectIs DEF Goals
<1>5. /\ \A u, q : HasEntry(tags', u, q) <=> HasEntry(tags, u, q) \/ (u = t /\ q = q0)
      /\ \A u, q : HasEntry(tags, u, q) /\ ~(u = t /\ q = q0) => On(tags', u, q) = On(tags, u, q)
      /\ HasEntry(tags', t, q0) /\ On(tags', t, q0) = s
  <2>1. OneEntry(tags, tags', t, q0) /\ On(tags', t, q0) = s  BY <1>2, FreshWrite
  <2> HIDE DEF t, q0, s
  <2>2. \A u, q : HasEntry(tags', u, q) <=> HasEntry(tags, u, q) \/ (u = t /\ q = q0)
    BY <2>1 DEF OneEntry
  <2>3. \A u, q : HasEntry(tags, u, q) /\ ~(u = t /\ q = q0) => tags'[u][q] = tags[u][q]
    BY <2>1 DEF OneEntry
  <2> QED BY <2>1, <2>2, <2>3 DEF On
<1>6. \A v \in Subjects : HasEntry(tags, v, q0) /\ t \in {v} \cup Targets(v) => ~Less(s, v)
  BY <1>1, WriteForward
<1>7. \A u \in Goals(push[p]) :
          Less(u, t) => u \in push[p].writes \/ (HasEntry(tags, u, q0) /\ tags[u][q0] = push[p].push.version)
  BY <1>1, <1>2, <1>3 DEF Ordered
<1>8. \A a, q : HasEntry(tags, a, q) =>
          \A u \in {On(tags, a, q)} \cup {b \in Targets(On(tags, a, q)) : Less(b, a)} :
              HasEntry(tags, u, q) /\ ~Less(On(tags, u, q), On(tags, a, q))
  BY DEF NoGapIn, HasEntry
<1> HIDE DEF t, q0, s
<1>9. ASSUME NEW u, u \in {s} \cup {b \in Targets(s) : Less(b, t)}
      PROVE  HasEntry(tags', u, q0) /\ ~Less(On(tags', u, q0), s)
  <2>1. CASE u = t
    BY <1>4, <1>5, <2>1, LessIrreflexive
  <2>2. CASE u # t
    <3>1. u \in Goals(push[p]) /\ Less(u, t)  BY <1>3, <1>4, <1>9, <2>2
    <3>2. u \notin push[p].writes  BY <1>3, <1>4, <2>2, <3>1, LessTransitive, LessIrreflexive
    <3>3. HasEntry(tags, u, q0) /\ tags[u][q0] = push[p].push.version  BY <1>7, <3>1, <3>2
    <3>4. On(tags, u, q0) = s  BY <1>4, <3>1, <3>3 DEF On
    <3> QED BY <1>4, <1>5, <2>2, <3>3, <3>4, LessIrreflexive
  <2> QED BY <2>1, <2>2
<1>10. ASSUME NEW a, NEW q, HasEntry(tags, a, q), ~(a = t /\ q = q0),
              NEW u \in {On(tags, a, q)} \cup {b \in Targets(On(tags, a, q)) : Less(b, a)}
       PROVE  HasEntry(tags', u, q) /\ ~Less(On(tags', u, q), On(tags, a, q))
  <2>1. HasEntry(tags, u, q) /\ ~Less(On(tags, u, q), On(tags, a, q)) /\ HasEntry(tags, On(tags, a, q), q)
    BY <1>8, <1>10
  <2>2. CASE ~(u = t /\ q = q0)
    BY <1>5, <2>1, <2>2
  <2>3. CASE u = t /\ q = q0
    <3>1. On(tags, a, q) \in Subjects  BY <1>10, Serves
    <3>2. ~Less(s, On(tags, a, q))  BY <1>6, <1>10, <2>1, <2>3, <3>1
    <3> QED BY <1>5, <2>3, <3>2
  <2> QED BY <2>2, <2>3
<1>11. ASSUME NEW a, NEW q, HasEntry(tags', a, q),
              NEW u \in {On(tags', a, q)} \cup {b \in Targets(On(tags', a, q)) : Less(b, a)}
       PROVE  HasEntry(tags', u, q) /\ ~Less(On(tags', u, q), On(tags', a, q))
  <2>1. CASE a = t /\ q = q0
    BY <1>5, <1>9, <1>11, <2>1
  <2>2. CASE ~(a = t /\ q = q0)
    <3>1. HasEntry(tags, a, q) /\ On(tags', a, q) = On(tags, a, q)  BY <1>5, <1>11, <2>2
    <3> QED BY <1>10, <1>11, <2>2, <3>1
  <2> QED BY <2>1, <2>2
<1> QED BY <1>11 DEF NoGapIn, HasEntry

\* Nor does it take a push that is in order out of it.
LEMMA WriteInOrder ==
    ASSUME TypeInv, NEW p \in Publishers, MergeWrite(p), InOrder(tags, push[p]),
           TypeInv', UNCHANGED campaign
    PROVE  InOrder(tags', push'[p])
<1> DEFINE t == NextWrite(push[p].writes)
           q0 == push[p].push.platform
           s == Subject(push[p])
<1>1. push[p].pc = "write" /\ JobOK(push[p]) /\ CampaignOK
  BY JobFields DEF MergeWrite, TypeInv
<1>2. Fresh(tags, push[p]) /\ Ordered(tags, push[p]) /\ Unpassed(tags, push[p]) /\ Known(tags, push[p])
  BY <1>1 DEF InOrder, Writing
<1>3. /\ t \in push[p].writes /\ t \in Goals(push[p]) /\ t \in Tag
  BY <1>1, MergedIs
<1>4. /\ s \in Tag /\ Goals(push[p]) = {s} \cup Targets(s) /\ \A u \in Goals(push[p]) : u[1] = s[1]
  BY <1>1, SubjectIs DEF Goals
<1>5. /\ DOMAIN tags' = DOMAIN tags \cup {t}
      /\ \A u \in DOMAIN tags \ {t} : tags'[u] = tags[u]
      /\ \A u : HasEntry(tags, u, q0) => HasEntry(tags', u, q0)
      /\ \A u : HasEntry(tags, u, q0) /\ u # t => tags'[u][q0] = tags[u][q0]
      /\ HasEntry(tags', t, q0) /\ tags'[t][q0] = push[p].push.version
  <2>1. OneEntry(tags, tags', t, q0) /\ tags'[t][q0] = push[p].push.version  BY <1>2, FreshWrite
  <2> HIDE DEF t, q0, s
  <2> QED BY <2>1 DEF OneEntry
<1>6. \A o \in Versions(tags') : o = t \/ o \in Versions(tags)
  BY <1>5 DEF Versions
<1>7. PICK j \in JobShape :
              /\ Job(p, j) /\ JobOK(j)
              /\ j.push = push[p].push
              /\ \/ /\ j.pc = "read" /\ j.bare = push[p].bare
                    /\ j.others = push[p].others /\ Subject(j) = Subject(push[p])
                    /\ j.levels = push[p].levels /\ j.writes = push[p].writes \ {NextWrite(push[p].writes)}
                 \/ /\ j.pc = "resolve" /\ ~push[p].bare /\ j.bare
                    /\ j.others = push[p].others
                    /\ Subject(j) = WithoutVariant(j.push.version) /\ j.push.version[1] # None
                    /\ j.levels = (IF j.push.cascade THEN Targets(Subject(j)) ELSE {})
                    /\ j.writes = {Subject(j)}
                 \/ j.pc = "keep"
  BY MergeWriteIs
<1>8. push'[p] = j
  BY <1>7 DEF Job, TypeInv, JobsOK
<1>9. CASE j.pc = "keep"
  BY <1>8, <1>9 DEF InOrder, Writing
<1>10. CASE j.pc = "read"
  <2>1. /\ j.bare = push[p].bare /\ j.others = push[p].others /\ Subject(j) = s
        /\ j.levels = push[p].levels /\ j.writes = push[p].writes \ {t} /\ j.push = push[p].push
    BY <1>7, <1>10
  <2>2. Goals(j) = Goals(push[p])  BY <2>1 DEF Goals
  <2>3. Fresh(tags', j)  BY <1>10 DEF Fresh
  <2>4. Ordered(tags', j)
    <3>1. \A w \in push[p].writes : \A u \in Goals(push[p]) :
              Less(u, w) => u \in push[p].writes \/ (HasEntry(tags, u, q0) /\ tags[u][q0] = push[p].push.version)
      BY <1>1, <1>2 DEF Ordered
    <3> HIDE DEF t, q0
    <3>2. \A w \in j.writes : \A u \in Goals(j) :
              Less(u, w) => u \in j.writes \/ (HasEntry(tags', u, q0) /\ tags'[u][q0] = push[p].push.version)
      BY <1>5, <2>1, <2>2, <3>1
    <3> QED BY <1>10, <2>1, <3>2 DEF Ordered, q0
  <2>5. Unpassed(tags', j)
    <3> SUFFICES ASSUME NEW w \in j.writes \cap Targets(s), NEW o \in Versions(tags'), Zone(s, w, o)
                 PROVE  q0 \notin DOMAIN tags'[o]
      BY <2>1 DEF Unpassed
    <3>1. o \in Tag  BY <1>3, <1>6, SeenIs
    <3>2. o # s /\ o \notin Targets(s)  BY <1>4, <3>1, ZoneApart
    <3>3. o # t  BY <1>3, <1>4, <3>2
    <3>4. o \in Versions(tags) /\ tags'[o] = tags[o]  BY <1>5, <1>6, <3>3 DEF Versions
    <3> QED BY <1>2, <2>1, <3>4 DEF Unpassed
  <2>6. Known(tags', j)
    <3>1. /\ ~push[p].push.cascade => push[p].levels = {}
          /\ push[p].push.cascade => /\ push[p].others \subseteq DOMAIN tags
                                     /\ \A o \in Versions(tags) :
                                           (push[p].bare => o[1] = s[1]) => o \in push[p].others \cup Goals(push[p])
      BY <1>2 DEF Known
    <3> QED BY <1>3, <1>5, <1>6, <2>1, <2>2, <3>1 DEF Known
  <2> QED BY <1>8, <2>3, <2>4, <2>5, <2>6 DEF InOrder
<1>11. CASE j.pc = "resolve"
  <2>1. /\ ~push[p].bare /\ j.bare /\ j.others = push[p].others /\ j.push = push[p].push
        /\ Subject(j) = WithoutVariant(j.push.version) /\ j.push.version[1] # None
        /\ j.levels = (IF j.push.cascade THEN Targets(Subject(j)) ELSE {})
        /\ j.writes = {Subject(j)}
    BY <1>7, <1>11
  <2>2. s = j.push.version  BY <2>1 DEF Subject
  <2>3. Subject(j)[1] = None /\ \A u \in Goals(push[p]) : u[1] # None
    <3>1. j.push.version \in Tag  BY <1>1, <2>1, SubjectIs
    <3>2. WithoutVariant(j.push.version)[1] = None  BY <3>1 DEF WithoutVariant, Tag, Parts
    <3> QED BY <1>4, <2>1, <2>2, <3>2
  <2>4. Known(tags', j)
    <3>1. push[p].push.cascade => /\ push[p].others \subseteq DOMAIN tags
                                  /\ \A o \in Versions(tags) : o \in push[p].others \cup Goals(push[p])
      BY <1>2, <2>1 DEF Known
    <3>2. ASSUME push[p].push.cascade, NEW o \in Versions(tags'), o[1] = Subject(j)[1]
          PROVE  o \in j.others
      BY <1>3, <1>6, <2>1, <2>3, <3>1, <3>2
    <3> QED BY <1>5, <2>1, <3>1, <3>2 DEF Known
  <2>5. InOrder(tags', j)  BY <1>1, <1>7, <1>11, <2>1, <2>4, TrackBegins
  <2> QED BY <1>8, <2>5
<1> QED BY <1>7, <1>9, <1>10, <1>11

\* The steps of a push that write no tag.
LEMMA StepInOrder ==
    ASSUME TypeInv, TypeInv', UNCHANGED <<campaign, tags>>, NEW p \in Publishers, InOrder(tags, push[p]),
           \/ \E x \in todo : BeginPush(p, x)
           \/ \E error \in BOOLEAN : Resolve(p, error)
           \/ PushManifest(p) \/ BeginAliases(p)
           \/ MergeRead(p) \/ PushKeepTag(p)
           \/ FailPush(p)
    PROVE  InOrder(tags, push'[p])
<1>0. CampaignOK /\ \A j : Job(p, j) => push'[p] = j
  BY DEF Job, TypeInv, JobsOK
<1>1. ASSUME NEW x \in todo, BeginPush(p, x) PROVE InOrder(tags, push'[p])
  <2>1. PICK j \in JobShape :
              /\ Job(p, j) /\ JobOK(j)
              /\ j.pc = "resolve" /\ j.push = x /\ ~j.bare /\ Subject(j) = x.version
              /\ j.writes = {x.version}
              /\ x.cascade => j.others = Versions(tags) /\ j.levels = Targets(x.version)
              /\ ~x.cascade => j.others = {} /\ j.levels = {}
    BY <1>1, BeginIs
  <2>2. Known(tags, j)  BY <2>1 DEF Known, Versions
  <2>3. InOrder(tags, j)  BY <1>0, <2>1, <2>2, TrackBegins
  <2> QED BY <1>0, <2>1, <2>3
<1>2. ASSUME NEW error \in BOOLEAN, Resolve(p, error) PROVE InOrder(tags, push'[p])
  <2>1. PICK j \in JobShape :
              /\ Job(p, j) /\ JobOK(j)
              /\ push[p].pc = "resolve" /\ push[p].levels # {}
              /\ Least(push[p].levels) \in push[p].levels
              /\ \A u \in push[p].levels : Least(push[p].levels) = u \/ Less(Least(push[p].levels), u)
              /\ j.pc = "resolve" /\ j.push = push[p].push /\ j.bare = push[p].bare
              /\ j.others = push[p].others /\ Subject(j) = Subject(push[p])
              /\ \/ /\ Blocked(push[p], Least(push[p].levels), error)
                    /\ j.levels = {} /\ j.writes = push[p].writes
                 \/ /\ ~Blocked(push[p], Least(push[p].levels), error)
                    /\ j.levels = push[p].levels \ {Least(push[p].levels)}
                    /\ j.writes = push[p].writes \cup {Least(push[p].levels)}
    BY <1>2, ResolveIs
  <2> DEFINE t0 == Least(push[p].levels)
  <2>2. /\ t0 \in push[p].levels /\ \A u \in push[p].levels : t0 = u \/ Less(t0, u)
        /\ \/ Blocked(push[p], t0, error) /\ j.levels = {} /\ j.writes = push[p].writes
           \/ /\ ~Blocked(push[p], t0, error)
              /\ j.levels = push[p].levels \ {t0} /\ j.writes = push[p].writes \cup {t0}
    BY <2>1
  <2> HIDE DEF t0
  <2>3. InOrder(tags, j)  BY <1>2, <2>1, <2>2, ResolveInOrder
  <2> QED BY <1>0, <2>1, <2>3
<1>3. ASSUME PushManifest(p) \/ BeginAliases(p) PROVE InOrder(tags, push'[p])
  <2>1. PICK j \in JobShape :
              /\ Job(p, j)
              /\ push[p].pc = "resolve" /\ push[p].levels = {}
              /\ j.pc = "read" /\ j.push = push[p].push /\ j.bare = push[p].bare
              /\ j.others = push[p].others /\ Subject(j) = Subject(push[p])
              /\ j.levels = push[p].levels /\ j.writes = push[p].writes
    BY <1>3, WritesBegin
  <2>2. Ordered(tags, push[p]) /\ Unpassed(tags, push[p]) /\ Known(tags, push[p])
    BY <2>1 DEF InOrder, Writing
  <2>3. Ordered(tags, j) /\ Fresh(tags, j)  BY <2>1, <2>2 DEF Ordered, Fresh, Goals
  <2>4. Unpassed(tags, j) /\ Known(tags, j)  BY <2>1, <2>2 DEF Unpassed, Known, Goals
  <2> QED BY <1>0, <2>1, <2>3, <2>4 DEF InOrder
<1>4. ASSUME MergeRead(p) PROVE InOrder(tags, push'[p])
  <2>1. PICK j \in JobShape :
              /\ Job(p, j)
              /\ push[p].pc = "read"
              /\ j.pc = "write" /\ j.push = push[p].push /\ j.bare = push[p].bare
              /\ j.others = push[p].others /\ Subject(j) = Subject(push[p])
              /\ j.levels = push[p].levels /\ j.writes = push[p].writes
              /\ j.read = IndexAt(tags, NextWrite(push[p].writes))
    BY <1>4, MergeReadIs
  <2>2. Ordered(tags, push[p]) /\ Unpassed(tags, push[p]) /\ Known(tags, push[p])
    BY <2>1 DEF InOrder, Writing
  <2>3. Ordered(tags, j) /\ Fresh(tags, j)  BY <2>1, <2>2 DEF Ordered, Fresh, Goals
  <2>4. Unpassed(tags, j) /\ Known(tags, j)  BY <2>1, <2>2 DEF Unpassed, Known, Goals
  <2> QED BY <1>0, <2>1, <2>3, <2>4 DEF InOrder
<1>5. ASSUME PushKeepTag(p) \/ FailPush(p) PROVE InOrder(tags, push'[p])
  <2>1. push'[p] = NoJob  BY <1>0, <1>5 DEF PushKeepTag, FailPush
  <2> QED BY <2>1, JobFields DEF InOrder, Writing
<1> QED BY <1>1, <1>2, <1>3, <1>4, <1>5

\* One push at a time leaves no gap, and stays in order.
LEMMA SequentialStep ==
    ASSUME TypeInv, TypeInv', Alone, Sequential, [CascadeNext]_cascadeVars
    PROVE  Sequential'
<1> SUFFICES ASSUME "tangled" \notin marks', Separate'
             PROVE  NoGapIn(tags') /\ \A r \in Publishers : InOrder(tags', push'[r])
  BY DEF Sequential
<1>0. UNCHANGED campaign /\ Separate
  BY CampaignFixed
<1>1. /\ "tangled" \notin marks /\ Alone'
      /\ UNCHANGED tags \/ \E p \in Publishers : MergeWrite(p)
      /\ UNCHANGED push \/ PushNext
  BY AloneStep
<1>2. NoGapIn(tags) /\ \A p \in Publishers : InOrder(tags, push[p])
  BY <1>0, <1>1 DEF Sequential
<1>3. \A p, r \in Publishers : push'[p].pc # "idle" /\ push'[r].pc # "idle" => p = r
  BY <1>1 DEF Alone
<1>4. ASSUME NEW r \in Publishers, push'[r].pc = "idle" PROVE InOrder(tags', push'[r])
  BY <1>4 DEF InOrder, Writing
<1>5. ASSUME NEW p \in Publishers, MergeWrite(p)
      PROVE  NoGapIn(tags') /\ \A r \in Publishers : InOrder(tags', push'[r])
  <2>1. NoGapIn(tags')  BY <1>0, <1>2, <1>5, WriteNoGap
  <2>2. InOrder(tags', push'[p])  BY <1>0, <1>2, <1>5, WriteInOrder
  <2>3. push'[p].pc # "idle"
    <3>1. PICK j \in JobShape : Job(p, j) /\ j.pc # "idle"  BY <1>5, MergeWriteIs
    <3> QED BY <3>1 DEF Job, TypeInv, JobsOK
  <2> QED BY <1>3, <1>4, <2>1, <2>2, <2>3
<1>6. CASE UNCHANGED <<tags, push>>
  BY <1>2, <1>6
<1>7. ASSUME UNCHANGED tags, NEW p \in Publishers,
             \/ \E x \in todo : BeginPush(p, x)
             \/ \E error \in BOOLEAN : Resolve(p, error)
             \/ PushManifest(p) \/ BeginAliases(p)
             \/ MergeRead(p) \/ PushKeepTag(p)
             \/ FailPush(p)
      PROVE  NoGapIn(tags') /\ \A r \in Publishers : InOrder(tags', push'[r])
  <2>1. InOrder(tags, push'[p])  BY <1>0, <1>2, <1>7, StepInOrder
  <2>2. \A r \in Publishers \ {p} : push'[r] = push[r]  BY <1>7, OnePush
  <2> QED BY <1>2, <1>7, <2>1, <2>2
<1> QED BY <1>1, <1>5, <1>6, <1>7 DEF PushNext

\* The inductive invariant of pushes made one at a time.
THEOREM SequentialInvariant == CascadeSpec => [](Alone /\ Sequential)
<1>1. CascadeInit => Alone /\ Sequential
  <2> SUFFICES ASSUME CascadeInit PROVE Alone /\ Sequential  OBVIOUS
  <2>1. NoJob.pc = "idle" /\ NoRepair.pc = "idle" /\ NoPrune.pc = "idle"
    BY DEF NoJob, NoRepair, NoPrune
  <2>2. \A p \in Publishers : push[p] = NoJob  BY DEF CascadeInit
  <2>3. DOMAIN tags = {}  BY EmptyIs DEF CascadeInit
  <2>4. Alone  BY <2>1, <2>2 DEF CascadeInit, Alone
  <2>5. Sequential  BY <2>1, <2>2, <2>3 DEF Sequential, NoGapIn, InOrder, Writing
  <2> QED BY <2>4, <2>5
<1>2. TypeInv /\ TypeInv' /\ Alone /\ Sequential /\ [CascadeNext]_cascadeVars => Alone' /\ Sequential'
  BY AloneStep, SequentialStep
<1> QED BY <1>1, <1>2, CascadeTypes, PTL DEF CascadeSpec

\* Where an alias serves a version, the version's own tag and every more
\* specific alias serve the platform too and nothing older, however many
\* pushes were made one after another, failed and were made again.
THEOREM PushesLeaveNoGap == CascadeSpec => []NoGap
<1>1. Sequential => NoGap
  BY DEF Sequential, NoGap, NoGapIn, HasEntry, On
<1> QED BY <1>1, SequentialInvariant, PTL

\* No such push moves a platform of a tag back to an older version.
THEOREM PushesGoForward == CascadeSpec => NeverBackwards
<1> DEFINE Forward ==
      \A t \in DOMAIN tags : \A q \in DOMAIN tags[t] :
          "tangled" \notin marks' /\ Separate
              => q \in DOMAIN tags'[t] /\ ~Less(OnTrack(tags'[t][q], t), OnTrack(tags[t][q], t))
<1>1. TypeInv /\ TypeInv' /\ Alone /\ Sequential /\ [CascadeNext]_cascadeVars => [Forward]_cascadeVars
  <2> SUFFICES ASSUME TypeInv, TypeInv', Alone, Sequential, [CascadeNext]_cascadeVars,
                      "tangled" \notin marks', Separate,
                      NEW t \in DOMAIN tags, NEW q \in DOMAIN tags[t]
               PROVE  q \in DOMAIN tags'[t] /\ ~Less(OnTrack(tags'[t][q], t), OnTrack(tags[t][q], t))
    OBVIOUS
  <2>1. /\ "tangled" \notin marks
        /\ UNCHANGED tags \/ \E p \in Publishers : MergeWrite(p)
    BY AloneStep
  <2>2. NoGapIn(tags) /\ \A p \in Publishers : InOrder(tags, push[p])
    BY <2>1 DEF Sequential
  <2> DEFINE v == On(tags, t, q)
  <2>3. HasEntry(tags, t, q)  BY DEF HasEntry
  <2>4. v \in Subjects /\ v \in Tag /\ t \in {v} \cup Targets(v)  BY <2>3, Serves
  <2>5. HasEntry(tags, v, q)  BY <2>2, <2>3 DEF NoGapIn, HasEntry
  <2>6. CASE UNCHANGED tags
    BY <2>4, <2>6, LessIrreflexive DEF On
  <2>7. ASSUME NEW p \in Publishers, MergeWrite(p)
        PROVE  q \in DOMAIN tags'[t] /\ ~Less(OnTrack(tags'[t][q], t), v)
    <3> DEFINE t0 == NextWrite(push[p].writes)
               q0 == push[p].push.platform
    <3>1. push[p].pc = "write"  BY <2>7 DEF MergeWrite
    <3>2. Fresh(tags, push[p])  BY <2>2, <3>1 DEF InOrder, Writing
    <3>3. OneEntry(tags, tags', t0, q0) /\ On(tags', t0, q0) = Subject(push[p])
      BY <2>7, <3>2, FreshWrite
    <3>4. HasEntry(tags', t, q)  BY <2>3, <3>3 DEF OneEntry
    <3>5. CASE t = t0 /\ q = q0
      <4>1. ~Less(Subject(push[p]), v)  BY <2>2, <2>4, <2>5, <3>1, <3>5, WriteForward
      <4> QED BY <3>3, <3>4, <3>5, <4>1 DEF On, HasEntry
    <3>6. CASE ~(t = t0 /\ q = q0)
      <4>1. tags'[t][q] = tags[t][q]  BY <2>3, <3>3, <3>6 DEF OneEntry
      <4> QED BY <2>4, <3>4, <4>1, LessIrreflexive DEF On, HasEntry
    <3> QED BY <3>5, <3>6
  <2> QED BY <2>1, <2>6, <2>7 DEF On
<1> QED BY <1>1, CascadeTypes, SequentialInvariant, PTL DEF CascadeSpec, NeverBackwards

----------------------------------------------------------------------------
(* Pushes none of which failed *)

\* j has written the version's own tag and is still to write its alias t.
Pending(j, v, q, t) ==
    /\ j.pc \in {"read", "write"} /\ v = Subject(j) /\ q = j.push.platform
    /\ v \notin j.writes /\ t \in j.writes

Served(m, v, q, t) == HasEntry(m, t, q) /\ ~Less(On(m, t, q), v)

\* The aliases j will not write serve something later.
Overtaken(m, j) ==
    Writing(j) /\ Subject(j) \in j.writes =>
        \A t \in Targets(Subject(j)) \ (j.writes \cup j.levels) :
            HasEntry(m, t, j.push.platform) /\ Less(Subject(j), On(m, t, j.push.platform))

\* An alias serves the version it should and that version's own build, or is
\* about to.
Unfailed ==
    marks = {} /\ Separate =>
        /\ \A p \in Publishers : push[p].pc # "idle" => push[p].push.cascade /\ Overtaken(tags, push[p])
        /\ \A v \in Subjects : \A q : \A t \in Targets(v) :
              HasEntry(tags, v, q) => Served(tags, v, q, t) \/ \E p \in Publishers : Pending(push[p], v, q, t)
        /\ \A t, q :
              HasEntry(tags, t, q) => \/ tags[On(tags, t, q)][q] = tags[t][q]
                                      \/ \E p \in Publishers : Pending(push[p], On(tags, t, q), q, t)

\* What happened is not forgotten.
LEMMA MarksGrow ==
    ASSUME TypeInv, [CascadeNext]_cascadeVars PROVE marks \subseteq marks'
<1>1. CASE PushNext  BY <1>1, OnePush DEF PushNext
<1>2. CASE RepairNext  BY <1>2, RepairFrame
<1>3. CASE PruneNext \/ \E m \in manifests : DeleteManifest(m)  BY <1>3, OtherFrame
<1>4. CASE UNCHANGED cascadeVars  BY <1>4 DEF cascadeVars
<1> QED BY <1>1, <1>2, <1>3, <1>4 DEF CascadeNext

\* A level that is blocked serves something later, and so do those above it.
LEMMA BlockedOvertaken ==
    ASSUME TypeInv, NEW p \in Publishers, push[p].pc = "resolve", InOrder(tags, push[p]), NoGapIn(tags),
           push[p].push.cascade, NEW t0 \in push[p].levels, Blocked(push[p], t0, FALSE),
           \A v \in Subjects : \A q : \A t \in Targets(v) : HasEntry(tags, v, q) => Served(tags, v, q, t),
           NEW t \in Targets(Subject(push[p])), t = t0 \/ Less(t0, t)
    PROVE  /\ HasEntry(tags, t, push[p].push.platform)
           /\ Less(Subject(push[p]), On(tags, t, push[p].push.platform))
<1> DEFINE s == Subject(push[p])
           q == push[p].push.platform
<1>1. JobOK(push[p]) /\ CampaignOK /\ push[p] \in JobShape
  BY JobFields DEF TypeInv
<1>2. s \in Tag /\ t0 \in Targets(s) /\ push[p].others \in SUBSET Tag
  BY <1>1, SubjectIs DEF JobOK, JobShape
<1>3. push[p].others \subseteq DOMAIN tags
  BY DEF InOrder, Writing, Known
<1>4. PICK b \in Blockers(s, t0, push[p].others) : b \notin DOMAIN tags \/ q \in DOMAIN tags[b]
  BY DEF Blocked
<1>5. b \in push[p].others /\ Zone(s, t0, b)
  BY <1>2, <1>4, ZoneBlockers
<1>6. HasEntry(tags, b, q) /\ b \in Tag
  BY <1>2, <1>3, <1>4, <1>5 DEF HasEntry
<1> DEFINE w == On(tags, b, q)
<1>7. w \in Subjects /\ w \in Tag /\ b \in {w} \cup Targets(w)
  BY <1>6, Serves
<1>8. HasEntry(tags, w, q)
  BY <1>6 DEF NoGapIn, HasEntry
<1> HIDE DEF w, s, q
<1>9. Less(s, w) /\ t0 \in Targets(w)
  BY <1>2, <1>5, <1>6, <1>7, ZoneBelow
<1>10. t \in Targets(w)
  <2>1. CASE t = t0  BY <1>9, <2>1
  <2>2. CASE Less(t0, t)
    <3>1. t \in Targets(t0)  BY <1>2, <2>2, TargetsChain DEF s
    <3> QED BY <1>7, <1>9, <3>1, TargetsTransitive
  <2> QED BY <2>1, <2>2
<1>11. HasEntry(tags, t, q) /\ ~Less(On(tags, t, q), w)
  BY <1>7, <1>8, <1>10 DEF Served
<1>12. On(tags, t, q) \in Tag
  BY <1>11, Serves
<1>13. Less(s, On(tags, t, q))
  BY <1>2, <1>7, <1>9, <1>11, <1>12, LessTotal, LessTransitive
<1> QED BY <1>11, <1>13 DEF s, q

\* The steps of a push that write no tag.
LEMMA StepUnfailed ==
    ASSUME TypeInv, UNCHANGED <<campaign, tags>>, NEW p \in Publishers, Alone, Sequential, Unfailed,
           Separate, marks = {}, marks' = {},
           \/ \E x \in todo : BeginPush(p, x)
           \/ \E error \in BOOLEAN : Resolve(p, error)
           \/ PushManifest(p) \/ BeginAliases(p)
           \/ MergeRead(p) \/ PushKeepTag(p)
           \/ FailPush(p)
    PROVE  /\ push'[p].pc # "idle" => push'[p].push.cascade /\ Overtaken(tags, push'[p])
           /\ \A v, q, t : Pending(push[p], v, q, t) => Pending(push'[p], v, q, t)
<1> USE DEF Writing
<1>0. \A j : Job(p, j) => push'[p] = j
  BY DEF Job, TypeInv, JobsOK
<1>1. ASSUME NEW x \in todo, BeginPush(p, x)
      PROVE  /\ push'[p].pc # "idle" => push'[p].push.cascade /\ Overtaken(tags, push'[p])
             /\ \A v, q, t : Pending(push[p], v, q, t) => Pending(push'[p], v, q, t)
  <2>1. PICK j \in JobShape :
              /\ Job(p, j)
              /\ j.push = x /\ Subject(j) = x.version
              /\ x.cascade => j.others = Versions(tags) /\ j.levels = Targets(x.version)
    BY <1>1, BeginIs
  <2>2. x.cascade /\ push[p].pc = "idle"  BY <1>1 DEF BeginPush
  <2>3. Overtaken(tags, j)  BY <2>1, <2>2 DEF Overtaken
  <2> QED BY <1>0, <2>1, <2>2, <2>3 DEF Pending
<1>2. /\ push[p].pc # "idle" => push[p].push.cascade /\ Overtaken(tags, push[p])
      /\ NoGapIn(tags) /\ InOrder(tags, push[p])
  BY DEF Unfailed, Sequential
<1>3. ASSUME NEW error \in BOOLEAN, Resolve(p, error)
      PROVE  /\ push'[p].pc # "idle" => push'[p].push.cascade /\ Overtaken(tags, push'[p])
             /\ \A v, q, t : Pending(push[p], v, q, t) => Pending(push'[p], v, q, t)
  <2> DEFINE t0 == Least(push[p].levels)
  <2>1. PICK j \in JobShape :
              /\ Job(p, j) /\ JobOK(j)
              /\ push[p].pc = "resolve" /\ push[p].levels # {}
              /\ t0 \in push[p].levels
              /\ \A u \in push[p].levels : t0 = u \/ Less(t0, u)
              /\ j.pc = "resolve" /\ j.push = push[p].push /\ j.bare = push[p].bare
              /\ j.others = push[p].others /\ Subject(j) = Subject(push[p])
              /\ \/ Blocked(push[p], t0, error) /\ j.levels = {} /\ j.writes = push[p].writes
                 \/ /\ ~Blocked(push[p], t0, error)
                    /\ j.levels = push[p].levels \ {t0} /\ j.writes = push[p].writes \cup {t0}
    BY <1>3, ResolveIs
  <2>2. error = FALSE /\ push[p].push.cascade /\ Overtaken(tags, push[p])
    BY <1>2, <1>3, <2>1 DEF Resolve
  <2>3. Subject(push[p]) \in push[p].writes
    BY <2>1, JobFields DEF JobOK
  <2>4. \A v \in Subjects : \A q : \A t \in Targets(v) : HasEntry(tags, v, q) => Served(tags, v, q, t)
    <3>1. \A r \in Publishers : push[r].pc \notin {"read", "write"}  BY <2>1 DEF Alone
    <3> QED BY <3>1 DEF Unfailed, Pending
  <2> HIDE DEF t0
  <2>5. Overtaken(tags, j)
    <3>1. CASE ~Blocked(push[p], t0, error)
      <4>1. j.writes \cup j.levels = push[p].writes \cup push[p].levels  BY <2>1, <3>1
      <4> QED BY <2>1, <2>2, <2>3, <4>1 DEF Overtaken
    <3>2. CASE Blocked(push[p], t0, error)
      <4> SUFFICES ASSUME NEW t \in Targets(Subject(push[p])), t \notin push[p].writes
                   PROVE  /\ HasEntry(tags, t, push[p].push.platform)
                          /\ Less(Subject(push[p]), On(tags, t, push[p].push.platform))
        BY <2>1, <3>2 DEF Overtaken
      <4>1. CASE t \in push[p].levels
        BY <1>2, <2>1, <2>2, <2>4, <3>2, <4>1, BlockedOvertaken
      <4>2. CASE t \notin push[p].levels
        BY <2>1, <2>2, <2>3, <4>2 DEF Overtaken
      <4> QED BY <4>1, <4>2
    <3> QED BY <3>1, <3>2
  <2> QED BY <1>0, <2>1, <2>2, <2>5 DEF Pending
<1>4. ASSUME PushManifest(p) \/ BeginAliases(p)
      PROVE  /\ push'[p].pc # "idle" => push'[p].push.cascade /\ Overtaken(tags, push'[p])
             /\ \A v, q, t : Pending(push[p], v, q, t) => Pending(push'[p], v, q, t)
  <2>1. PICK j \in JobShape :
              /\ Job(p, j) /\ push[p].pc = "resolve"
              /\ j.push = push[p].push /\ Subject(j) = Subject(push[p])
              /\ j.levels = push[p].levels /\ j.writes = push[p].writes
    BY <1>4, WritesBegin
  <2>2. Overtaken(tags, j)  BY <1>2, <2>1 DEF Overtaken
  <2> QED BY <1>0, <1>2, <2>1, <2>2 DEF Pending
<1>5. ASSUME MergeRead(p)
      PROVE  /\ push'[p].pc # "idle" => push'[p].push.cascade /\ Overtaken(tags, push'[p])
             /\ \A v, q, t : Pending(push[p], v, q, t) => Pending(push'[p], v, q, t)
  <2>1. PICK j \in JobShape :
              /\ Job(p, j) /\ push[p].pc = "read" /\ j.pc = "write"
              /\ j.push = push[p].push /\ Subject(j) = Subject(push[p])
              /\ j.levels = push[p].levels /\ j.writes = push[p].writes
    BY <1>5, MergeReadIs
  <2>2. Overtaken(tags, j)  BY <1>2, <2>1 DEF Overtaken
  <2> QED BY <1>0, <1>2, <2>1, <2>2 DEF Pending
<1>6. ASSUME PushKeepTag(p)
      PROVE  /\ push'[p].pc # "idle" => push'[p].push.cascade /\ Overtaken(tags, push'[p])
             /\ \A v, q, t : Pending(push[p], v, q, t) => Pending(push'[p], v, q, t)
  <2>1. push'[p] = NoJob /\ push[p].pc = "keep"  BY <1>0, <1>6 DEF PushKeepTag
  <2> QED BY <2>1, JobFields DEF Pending
<1>7. ~FailPush(p)
  BY DEF FailPush
<1> QED BY <1>1, <1>3, <1>4, <1>5, <1>6, <1>7

\* What a write leaves pending.
LEMMA WritePending ==
    ASSUME TypeInv, NEW p \in Publishers, MergeWrite(p)
    PROVE  /\ push'[p].pc # "idle" /\ push'[p].push = push[p].push
           /\ \A u \in push[p].writes :
                 u # NextWrite(push[p].writes) /\ Subject(push[p]) \notin push[p].writes \ {NextWrite(push[p].writes)} =>
                     Pending(push'[p], Subject(push[p]), push[p].push.platform, u)
           /\ push[p].push.cascade => Overtaken(tags', push'[p])
           /\ Subject(push[p]) \in push[p].writes => NextWrite(push[p].writes) = Subject(push[p])
<1> DEFINE t == NextWrite(push[p].writes)
           s == Subject(push[p])
<1>1. push[p].pc = "write" /\ JobOK(push[p]) /\ CampaignOK
  BY JobFields DEF MergeWrite, TypeInv
<1>2. /\ t \in push[p].writes /\ t \in Goals(push[p]) /\ t \in Tag
      /\ \A w \in push[p].writes : t = w \/ Less(t, w)
  BY <1>1, MergedIs
<1>3. s \in Tag /\ (t = s \/ Less(s, t))
  BY <1>1, <1>2, SubjectIs
<1>4. s \in push[p].writes => t = s
  BY <1>2, <1>3, LessTransitive, LessIrreflexive
<1>5. PICK j \in JobShape :
              /\ Job(p, j) /\ j.push = push[p].push
              /\ \/ /\ push[p].writes # {NextWrite(push[p].writes)}
                    /\ j.pc = "read" /\ Subject(j) = Subject(push[p])
                    /\ j.writes = push[p].writes \ {NextWrite(push[p].writes)}
                 \/ /\ push[p].writes = {NextWrite(push[p].writes)}
                    /\ j.pc = "resolve"
                    /\ j.levels = (IF j.push.cascade THEN Targets(Subject(j)) ELSE {})
                 \/ /\ push[p].writes = {NextWrite(push[p].writes)} /\ j.pc = "keep"
  BY MergeWriteIs
<1>6. push'[p] = j
  BY <1>5 DEF Job, TypeInv, JobsOK
<1> HIDE DEF s
<1>7. \A u \in push[p].writes : u # t /\ s \notin push[p].writes \ {t} => Pending(j, s, push[p].push.platform, u)
  BY <1>5 DEF Pending, s
<1>8. ASSUME push[p].push.cascade PROVE Overtaken(tags', j)
  <2>1. CASE j.pc = "read"
    <3>1. Subject(j) \notin j.writes  BY <1>4, <1>5, <2>1 DEF s
    <3> QED BY <3>1 DEF Overtaken
  <2>2. CASE j.pc # "read"
    BY <1>5, <1>8, <2>2 DEF Overtaken, Writing
  <2> QED BY <2>1, <2>2
<1> QED BY <1>4, <1>5, <1>6, <1>7, <1>8 DEF s

\* A write completes what is pending, or leaves it pending.
LEMMA WriteUnfailed ==
    ASSUME TypeInv, NEW p \in Publishers, MergeWrite(p), Alone, Sequential, Unfailed, Separate, marks = {}
    PROVE  /\ \A v \in Subjects : \A q : \A t1 \in Targets(v) :
                 HasEntry(tags', v, q) => Served(tags', v, q, t1) \/ Pending(push'[p], v, q, t1)
           /\ \A a, q :
                 HasEntry(tags', a, q) => \/ tags'[On(tags', a, q)][q] = tags'[a][q]
                                          \/ Pending(push'[p], On(tags', a, q), q, a)
<1> DEFINE t == NextWrite(push[p].writes)
           q0 == push[p].push.platform
           s == Subject(push[p])
           writes == push[p].writes
           build == push[p].push.version
<1>1. push[p].pc = "write" /\ JobOK(push[p]) /\ CampaignOK
  BY JobFields DEF MergeWrite, TypeInv
<1>2. /\ NoGapIn(tags) /\ InOrder(tags, push[p]) /\ Fresh(tags, push[p]) /\ Ordered(tags, push[p])
      /\ Overtaken(tags, push[p])
  BY <1>1 DEF Sequential, Unfailed, InOrder, Writing
<1>3. /\ t \in writes /\ t \in Tag /\ t \in {s} \cup Targets(s) /\ s \in Tag /\ s \in Subjects
      /\ push[p].levels = {} /\ (t = s \/ Less(s, t))
  BY <1>1, MergedIs, SubjectIs DEF Goals, JobOK
<1>4. OneEntry(tags, tags', t, q0) /\ On(tags', t, q0) = s /\ tags'[t][q0] = build
  BY <1>2, FreshWrite
<1>5. /\ \A u \in writes : u # t /\ s \notin writes \ {t} => Pending(push'[p], s, q0, u)
      /\ s \in writes => t = s
  BY WritePending
<1>6. \A v \in Subjects : HasEntry(tags, v, q0) /\ t \in {v} \cup Targets(v) => ~Less(s, v)
  BY <1>1, <1>2, WriteForward
<1>7. s \in writes => \A u \in Targets(s) \ writes : HasEntry(tags, u, q0) /\ Less(s, On(tags, u, q0))
  BY <1>1, <1>2, <1>3 DEF Overtaken, Writing
<1>8. t # s => HasEntry(tags, s, q0) /\ tags[s][q0] = build
  <2> SUFFICES ASSUME t # s PROVE HasEntry(tags, s, q0) /\ tags[s][q0] = build  OBVIOUS
  <2>1. s \notin writes /\ Less(s, t) /\ s \in Goals(push[p])  BY <1>3, <1>5 DEF Goals
  <2> QED BY <1>1, <1>2, <1>3, <2>1 DEF Ordered
<1>9. /\ \A v \in Subjects : \A q : \A t1 \in Targets(v) :
            HasEntry(tags, v, q) =>
                \/ Served(tags, v, q, t1)
                \/ v = s /\ q = q0 /\ s \notin writes /\ t1 \in writes
      /\ \A a, q :
            HasEntry(tags, a, q) => \/ tags[On(tags, a, q)][q] = tags[a][q]
                                    \/ On(tags, a, q) = s /\ q = q0 /\ s \notin writes /\ a \in writes
  <2>1. \A r \in Publishers : \A v, q, u : Pending(push[r], v, q, u) => v = s /\ q = q0 /\ s \notin writes /\ u \in writes
    BY <1>1 DEF Alone, Pending
  <2>2. /\ \A v \in Subjects : \A q : \A t1 \in Targets(v) :
              HasEntry(tags, v, q) => Served(tags, v, q, t1) \/ \E r \in Publishers : Pending(push[r], v, q, t1)
        /\ \A a, q :
              HasEntry(tags, a, q) => \/ tags[On(tags, a, q)][q] = tags[a][q]
                                      \/ \E r \in Publishers : Pending(push[r], On(tags, a, q), q, a)
    BY DEF Unfailed
  <2> HIDE DEF s, q0, writes
  <2>3. ASSUME NEW v \in Subjects, NEW q, NEW t1 \in Targets(v), HasEntry(tags, v, q), ~Served(tags, v, q, t1)
        PROVE  v = s /\ q = q0 /\ s \notin writes /\ t1 \in writes
    <3>1. PICK r \in Publishers : Pending(push[r], v, q, t1)  BY <2>2, <2>3
    <3> QED BY <2>1, <3>1
  <2>4. ASSUME NEW a, NEW q, HasEntry(tags, a, q), tags[On(tags, a, q)][q] # tags[a][q]
        PROVE  On(tags, a, q) = s /\ q = q0 /\ s \notin writes /\ a \in writes
    <3>1. PICK r \in Publishers : Pending(push[r], On(tags, a, q), q, a)  BY <2>2, <2>4
    <3> QED BY <2>1, <3>1
  <2> QED BY <2>3, <2>4
<1> HIDE DEF t, q0, s, writes, build
<1>10. /\ \A u, q : HasEntry(tags', u, q) <=> HasEntry(tags, u, q) \/ (u = t /\ q = q0)
       /\ \A u, q : HasEntry(tags, u, q) => (u = t /\ q = q0) \/ tags'[u][q] = tags[u][q]
       /\ \A u, q : HasEntry(tags, u, q) => (u = t /\ q = q0) \/ On(tags', u, q) = On(tags, u, q)
  BY <1>4 DEF OneEntry, On
<1>11. ASSUME t \in Subjects PROVE t = s
  BY <1>3, <1>11 DEF Separate
<1>12. ASSUME NEW v \in Subjects, NEW q, NEW t1 \in Targets(v), HasEntry(tags', v, q)
       PROVE  Served(tags', v, q, t1) \/ Pending(push'[p], v, q, t1)
  <2>0. v \in Tag /\ t1 # v /\ t1 \in Tag  BY <1>1, <1>12, SubjectsAre, TargetAbove
  <2>1. CASE v = t /\ q = q0
    <3>1. v = s  BY <1>11, <2>1
    <3>2. s \in writes /\ s \notin writes \ {t}  BY <1>3, <2>1, <3>1
    <3>3. CASE t1 \in writes
      BY <1>5, <2>0, <2>1, <3>1, <3>2, <3>3
    <3>4. CASE t1 \notin writes
      <4>1. HasEntry(tags, t1, q0) /\ Less(s, On(tags, t1, q0))  BY <1>7, <3>1, <3>2, <3>4
      <4>2. HasEntry(tags', t1, q0) /\ On(tags', t1, q0) = On(tags, t1, q0)  BY <1>10, <2>0, <2>1, <4>1
      <4>3. On(tags, t1, q0) \in Tag  BY <4>1, Serves
      <4> QED BY <1>3, <2>1, <3>1, <4>1, <4>2, <4>3, LessTransitive, LessIrreflexive DEF Served
    <3> QED BY <3>3, <3>4
  <2>2. CASE ~(v = t /\ q = q0)
    <3>1. HasEntry(tags, v, q)  BY <1>10, <1>12, <2>2
    <3>2. CASE Served(tags, v, q, t1)
      <4>1. CASE t1 = t /\ q = q0
        <5>1. ~Less(s, v)  BY <1>6, <3>1, <4>1
        <5> QED BY <1>4, <1>10, <4>1, <5>1 DEF Served
      <4>2. CASE ~(t1 = t /\ q = q0)
        BY <1>10, <3>2, <4>2 DEF Served
      <4> QED BY <4>1, <4>2
    <3>3. CASE v = s /\ q = q0 /\ s \notin writes /\ t1 \in writes
      <4>1. CASE t1 = t
        BY <1>3, <1>4, <1>10, <3>3, <4>1, LessIrreflexive DEF Served
      <4>2. CASE t1 # t
        BY <1>5, <3>3, <4>2
      <4> QED BY <4>1, <4>2
    <3> QED BY <1>9, <3>1, <3>2, <3>3
  <2> QED BY <2>1, <2>2
<1>13. ASSUME NEW a, NEW q, HasEntry(tags', a, q)
       PROVE  \/ tags'[On(tags', a, q)][q] = tags'[a][q]
              \/ Pending(push'[p], On(tags', a, q), q, a)
  <2>1. CASE a = t /\ q = q0
    <3>1. CASE t = s
      BY <1>4, <2>1, <3>1
    <3>2. CASE t # s
      <4>1. HasEntry(tags, s, q0) /\ tags[s][q0] = build  BY <1>8, <3>2
      <4>2. tags'[s][q0] = build  BY <1>10, <3>2, <4>1
      <4> QED BY <1>4, <2>1, <4>2
    <3> QED BY <3>1, <3>2
  <2>2. CASE ~(a = t /\ q = q0)
    <3> DEFINE v == On(tags, a, q)
    <3>1. HasEntry(tags, a, q)  BY <1>10, <1>13, <2>2
    <3>2. On(tags', a, q) = v /\ tags'[a][q] = tags[a][q]  BY <1>10, <2>2, <3>1
    <3>3. v \in Subjects /\ a \in {v} \cup Targets(v)  BY <3>1, Serves
    <3>4. HasEntry(tags, v, q)  BY <1>2, <3>1 DEF NoGapIn, HasEntry
    <3>5. CASE v = s /\ q = q0 /\ s \notin writes /\ a \in writes
      BY <1>5, <2>2, <3>2, <3>5
    <3>6. CASE tags[v][q] = tags[a][q]
      <4>1. CASE ~(v = t /\ q = q0)
        BY <1>10, <3>2, <3>4, <3>6, <4>1
      <4>2. CASE v = t /\ q = q0
        <5>1. t = s /\ a \in Targets(s) /\ s \in writes  BY <1>3, <1>11, <2>2, <3>3, <4>2
        <5>2. a \in writes
          <6> SUFFICES ASSUME a \notin writes PROVE FALSE  OBVIOUS
          <6>1. Less(s, v)  BY <1>7, <4>2, <5>1
          <6> QED BY <1>3, <4>2, <5>1, <6>1, LessIrreflexive
        <5> QED BY <1>5, <2>2, <3>2, <4>2, <5>1, <5>2
      <4> QED BY <4>1, <4>2
    <3> QED BY <1>9, <3>1, <3>5, <3>6
  <2> QED BY <2>1, <2>2
<1> QED BY <1>12, <1>13

\* The inductive invariant of pushes none of which failed.
THEOREM UnfailedInvariant == CascadeSpec => []Unfailed
<1>1. CascadeInit => Unfailed
  <2> SUFFICES ASSUME CascadeInit PROVE Unfailed  OBVIOUS
  <2>1. \A p \in Publishers : push[p].pc = "idle"  BY DEF CascadeInit, NoJob
  <2>2. DOMAIN tags = {}  BY EmptyIs DEF CascadeInit
  <2> QED BY <2>1, <2>2 DEF Unfailed, HasEntry
<1>2. TypeInv /\ TypeInv' /\ Alone /\ Sequential /\ Unfailed /\ [CascadeNext]_cascadeVars => Unfailed'
  <2> SUFFICES ASSUME TypeInv, TypeInv', Alone, Sequential, Unfailed, [CascadeNext]_cascadeVars
               PROVE  Unfailed'
    OBVIOUS
  <2>00. Subjects' = Subjects  BY CampaignFixed
  <2> SUFFICES ASSUME marks' = {}, Separate'
               PROVE  /\ \A r \in Publishers :
                            push'[r].pc # "idle" => push'[r].push.cascade /\ Overtaken(tags', push'[r])
                      /\ \A v \in Subjects : \A q : \A t \in Targets(v) :
                            HasEntry(tags', v, q) =>
                                Served(tags', v, q, t) \/ \E r \in Publishers : Pending(push'[r], v, q, t)
                      /\ \A t, q :
                            HasEntry(tags', t, q) =>
                                \/ tags'[On(tags', t, q)][q] = tags'[t][q]
                                \/ \E r \in Publishers : Pending(push'[r], On(tags', t, q), q, t)
    BY <2>00 DEF Unfailed
  <2>0. UNCHANGED campaign /\ Separate /\ marks = {}
    BY CampaignFixed, MarksGrow
  <2>1. /\ Alone'
        /\ UNCHANGED tags \/ \E p \in Publishers : MergeWrite(p)
        /\ UNCHANGED push \/ PushNext
    BY AloneStep
  <2>2. \A p, r \in Publishers : push'[p].pc # "idle" /\ push'[r].pc # "idle" => p = r
    BY <2>1 DEF Alone
  <2>3. /\ \A r \in Publishers : push[r].pc # "idle" => push[r].push.cascade /\ Overtaken(tags, push[r])
        /\ \A v \in Subjects : \A q : \A t \in Targets(v) :
              HasEntry(tags, v, q) => Served(tags, v, q, t) \/ \E r \in Publishers : Pending(push[r], v, q, t)
        /\ \A t, q :
              HasEntry(tags, t, q) => \/ tags[On(tags, t, q)][q] = tags[t][q]
                                      \/ \E r \in Publishers : Pending(push[r], On(tags, t, q), q, t)
    BY <2>0 DEF Unfailed
  <2>4. CASE UNCHANGED <<tags, push>>
    BY <2>3, <2>4
  <2>5. ASSUME UNCHANGED tags, NEW p \in Publishers,
               \/ \E x \in todo : BeginPush(p, x)
               \/ \E error \in BOOLEAN : Resolve(p, error)
               \/ PushManifest(p) \/ BeginAliases(p)
               \/ MergeRead(p) \/ PushKeepTag(p)
               \/ FailPush(p)
        PROVE  /\ \A r \in Publishers :
                     push'[r].pc # "idle" => push'[r].push.cascade /\ Overtaken(tags', push'[r])
               /\ \A r \in Publishers : \A v, q, t : Pending(push[r], v, q, t) => Pending(push'[r], v, q, t)
    <3>1. /\ push'[p].pc # "idle" => push'[p].push.cascade /\ Overtaken(tags, push'[p])
          /\ \A v, q, t : Pending(push[p], v, q, t) => Pending(push'[p], v, q, t)
      BY <2>0, <2>5, StepUnfailed
    <3>2. \A r \in Publishers \ {p} : push'[r] = push[r]  BY <2>5, OnePush
    <3>3. ASSUME NEW r \in Publishers
          PROVE  push'[r].pc # "idle" => push'[r].push.cascade /\ Overtaken(tags', push'[r])
      BY <2>3, <2>5, <3>1, <3>2
    <3>4. ASSUME NEW r \in Publishers, NEW v, NEW q, NEW t, Pending(push[r], v, q, t)
          PROVE  Pending(push'[r], v, q, t)
      <4>1. CASE r = p  BY <3>1, <3>4, <4>1
      <4>2. CASE r # p  BY <3>2, <3>4, <4>2
      <4> QED BY <4>1, <4>2
    <3> QED BY <3>3, <3>4
  <2>6. CASE UNCHANGED tags /\ ~UNCHANGED push /\ ~\E p \in Publishers : MergeWrite(p)
    <3>1. PICK p \in Publishers :
             \/ \E x \in todo : BeginPush(p, x)
             \/ \E error \in BOOLEAN : Resolve(p, error)
             \/ PushManifest(p) \/ BeginAliases(p)
             \/ MergeRead(p) \/ PushKeepTag(p)
             \/ FailPush(p)
      BY <2>1, <2>6 DEF PushNext
    <3>2. /\ \A r \in Publishers :
                push'[r].pc # "idle" => push'[r].push.cascade /\ Overtaken(tags', push'[r])
          /\ \A r \in Publishers : \A v, q, t : Pending(push[r], v, q, t) => Pending(push'[r], v, q, t)
      BY <2>5, <2>6, <3>1
    <3>3. tags' = tags  BY <2>6
    <3>4. ASSUME NEW v \in Subjects, NEW q, NEW t \in Targets(v), HasEntry(tags', v, q)
          PROVE  Served(tags', v, q, t) \/ \E r \in Publishers : Pending(push'[r], v, q, t)
      BY <2>3, <3>2, <3>3, <3>4
    <3>5. ASSUME NEW t, NEW q, HasEntry(tags', t, q)
          PROVE  \/ tags'[On(tags', t, q)][q] = tags'[t][q]
                 \/ \E r \in Publishers : Pending(push'[r], On(tags', t, q), q, t)
      BY <2>3, <3>2, <3>3, <3>5
    <3> QED BY <3>2, <3>4, <3>5
  <2>7. ASSUME NEW p \in Publishers, MergeWrite(p)
        PROVE  /\ \A r \in Publishers :
                     push'[r].pc # "idle" => push'[r].push.cascade /\ Overtaken(tags', push'[r])
               /\ \A v \in Subjects : \A q : \A t \in Targets(v) :
                     HasEntry(tags', v, q) => Served(tags', v, q, t) \/ Pending(push'[p], v, q, t)
               /\ \A t, q :
                     HasEntry(tags', t, q) =>
                         \/ tags'[On(tags', t, q)][q] = tags'[t][q]
                         \/ Pending(push'[p], On(tags', t, q), q, t)
    <3>1. push[p].pc # "idle" /\ push[p].push.cascade
      BY <2>3, <2>7 DEF MergeWrite
    <3>2. push'[p].pc # "idle" /\ push'[p].push = push[p].push /\ Overtaken(tags', push'[p])
      BY <2>7, <3>1, WritePending
    <3>3. \A r \in Publishers : push'[r].pc # "idle" => push'[r].push.cascade /\ Overtaken(tags', push'[r])
      BY <2>2, <3>1, <3>2
    <3> QED BY <2>0, <2>7, <3>3, WriteUnfailed
  <2>8. CASE \E p \in Publishers : MergeWrite(p)
    BY <2>7, <2>8
  <2> QED BY <2>1, <2>4, <2>6, <2>8
<1> QED BY <1>1, <1>2, CascadeTypes, SequentialInvariant, PTL DEF CascadeSpec

\* When every tag serves what it should, the leaves of the repository are the
\* tags of the versions that were published.
LEMMA LeavesAre ==
    ASSUME TypeInv, Separate, NoGapIn(tags), NEW v
    PROVE  v \in Leaves(Versions(tags)) <=> v \in Subjects /\ v \in DOMAIN tags
<1>0. CampaignOK /\ Versions(tags) \in SUBSET Tag
  BY SeenIs DEF TypeInv
<1>1. \A u : u \in Versions(tags) <=> u \in DOMAIN tags /\ IsVersion(u)
  BY DEF Versions
<1>2. ASSUME NEW u \in DOMAIN tags
      PROVE  \E w \in Subjects : /\ w \in Tag /\ u \in {w} \cup Targets(w)
                                 /\ w \in DOMAIN tags /\ IsVersion(w)
  <2>1. PICK q : q \in DOMAIN tags[u]  BY SeenIs
  <2>2. HasEntry(tags, u, q)  BY <2>1 DEF HasEntry
  <2>3. HasEntry(tags, On(tags, u, q), q)  BY <2>2 DEF NoGapIn, HasEntry
  <2> QED BY <1>0, <2>2, <2>3, Serves, SubjectsAre DEF HasEntry
<1>3. ASSUME v \in Leaves(Versions(tags)) PROVE v \in Subjects /\ v \in DOMAIN tags
  <2>1. v \in DOMAIN tags /\ v \notin AliasUniverse(Versions(tags))  BY <1>1, <1>3 DEF Leaves
  <2>2. PICK w \in Subjects : w \in Versions(tags) /\ v \in {w} \cup Targets(w)  BY <1>1, <1>2, <2>1
  <2>3. v \notin Targets(w)  BY <1>0, <2>1, <2>2, UniverseIs
  <2> QED BY <2>1, <2>2, <2>3
<1>4. ASSUME v \in Subjects, v \in DOMAIN tags PROVE v \in Leaves(Versions(tags))
  <2>1. v \in Versions(tags)  BY <1>0, <1>1, <1>4, SubjectsAre
  <2>2. ASSUME v \in AliasUniverse(Versions(tags)) PROVE FALSE
    <3>1. PICK u \in Versions(tags) : v \in Targets(u)  BY <1>0, <2>2, UniverseIs
    <3>2. PICK w \in Subjects : w \in Tag /\ u \in {w} \cup Targets(w)  BY <1>1, <1>2
    <3>3. v \in Targets(w)  BY <3>1, <3>2, TargetsTransitive
    <3> QED BY <1>4, <3>3 DEF Separate
  <2> QED BY <2>1, <2>2 DEF Leaves
<1> QED BY <1>3, <1>4

\* Cascading pushes made one at a time, none of which failed, leave every
\* alias exactly as `ocx package cascade check` computes it from the whole
\* repository (resolve_cascade_tags against fold_expected): in any order of
\* versions and platforms, for any number of them.
THEOREM PushesReadBackClean == CascadeSpec => []ReadsBackClean
<1>1. TypeInv /\ Sequential /\ Unfailed => ReadsBackClean
  <2> SUFFICES ASSUME TypeInv, Sequential, Unfailed, marks = {}, Separate,
                      \A p \in Publishers : push[p].pc = "idle",
                      NEW t \in AliasUniverse(Versions(tags))
               PROVE  ~HasFindings(tags, t)
    BY DEF ReadsBackClean
  <2> DEFINE e == Expected(tags, t)
  <2>0. tags \in TagMap /\ Versions(tags) \in SUBSET Tag  BY SeenIs
  <2>1. NoGapIn(tags)  BY DEF Sequential
  <2>2. /\ \A v \in Subjects : \A q : \A u \in Targets(v) : HasEntry(tags, v, q) => Served(tags, v, q, u)
        /\ \A u, q : HasEntry(tags, u, q) => tags[On(tags, u, q)][q] = tags[u][q]
    BY DEF Unfailed, Pending
  <2>3. \A v : v \in Leaves(Versions(tags)) <=> v \in Subjects /\ v \in DOMAIN tags
    BY <2>1, LeavesAre
  <2>4. \A v, q : v \in Sources(tags, t, q) <=> v \in Subjects /\ t \in Targets(v) /\ HasEntry(tags, v, q)
    BY <2>3 DEF Sources, HasEntry
  <2>5. t \in DOMAIN tags
    <3>1. PICK v \in Leaves(Versions(tags)) : t \in Targets(v)  BY <2>0, LeafBelow
    <3>2. v \in Subjects /\ v \in DOMAIN tags  BY <2>3, <3>1
    <3>3. PICK q : q \in DOMAIN tags[v]  BY <3>2, SeenIs
    <3> QED BY <2>2, <3>1, <3>2, <3>3 DEF Served, HasEntry
  <2>6. ASSUME NEW q \in DOMAIN tags[t]
        PROVE  /\ On(tags, t, q) \in Sources(tags, t, q) /\ On(tags, t, q) \in Tag
               /\ tags[On(tags, t, q)][q] = tags[t][q]
    <3>1. HasEntry(tags, t, q)  BY <2>5 DEF HasEntry
    <3>2. /\ On(tags, t, q) \in Subjects /\ On(tags, t, q) \in Tag
          /\ t \in {On(tags, t, q)} \cup Targets(On(tags, t, q))
      BY <3>1, Serves
    <3>3. HasEntry(tags, On(tags, t, q), q)  BY <2>1, <3>1 DEF NoGapIn, HasEntry
    <3>4. On(tags, t, q) # t
      <4>1. On(tags, t, q) \in Leaves(Versions(tags))  BY <2>3, <3>2, <3>3 DEF HasEntry
      <4> QED BY <4>1 DEF Leaves
    <3> QED BY <2>2, <2>4, <3>1, <3>2, <3>3, <3>4
  <2>7. DOMAIN tags[t] = DOMAIN e
    <3>1. ASSUME NEW q \in DOMAIN tags[t] PROVE q \in DOMAIN e
      BY <2>0, <2>6, ExpectedIs
    <3>2. ASSUME NEW q \in DOMAIN e PROVE q \in DOMAIN tags[t]
      <4>1. PICK v : v \in Sources(tags, t, q)  BY <2>0, <3>2, ExpectedIs
      <4>2. Served(tags, v, q, t)  BY <2>2, <2>4, <4>1
      <4> QED BY <4>2 DEF Served, HasEntry
    <3> QED BY <3>1, <3>2
  <2>8. ASSUME NEW q \in DOMAIN tags[t] PROVE tags[t][q] = e[q]
    <3> DEFINE g == Greatest(Sources(tags, t, q))
               w == On(tags, t, q)
    <3>1. /\ g \in Sources(tags, t, q) /\ e[q] = tags[g][q]
          /\ \A u \in Sources(tags, t, q) : g = u \/ Less(u, g)
      BY <2>0, <2>7, ExpectedIs
    <3>2. w \in Sources(tags, t, q) /\ tags[w][q] = tags[t][q]  BY <2>6
    <3>3. ~Less(w, g)  BY <2>2, <2>4, <3>1 DEF Served
    <3> HIDE DEF g, w
    <3> QED BY <3>1, <3>2, <3>3
  <2>9. /\ tags[t] = [q \in DOMAIN tags[t] |-> tags[t][q]]
        /\ e = [q \in DOMAIN e |-> e[q]]
    <3>1. tags[t] \in Index /\ e \in Index  BY <2>0, <2>5, TagMapIs, ExpectedIs
    <3> QED BY <3>1, IndexIs
  <2>10. tags[t] = e
    <3> HIDE DEF e
    <3> QED BY <2>7, <2>8, <2>9
  <2> QED BY <2>5, <2>10 DEF HasFindings, IndexAt
<1> QED BY <1>1, CascadeTypes, SequentialInvariant, UnfailedInvariant, PTL

----------------------------------------------------------------------------
(* A repair and the pushes beside it *)

\* What f has at t is at the versions' own tags in m.  With Separate and
\* Unambiguous an own tag can hold one build only, so to be there is enough.
BackedBy(m, f, t) == \A q \in DOMAIN f : HasEntry(m, OnTrack(f[q], t), q)

AllBacked(m, f) == \A t \in DOMAIN f : BackedBy(m, f[t], t)

\* What a push is about to write back, and the version whose aliases it writes.
JobBacked(m, j) ==
    /\ j.pc = "write" => BackedBy(m, j.read, NextWrite(j.writes))
    /\ j.pc \in {"read", "write"} /\ Subject(j) \notin j.writes => HasEntry(m, Subject(j), j.push.platform)

Tidy == marks \cap {"pruned", "lost"} = {} /\ Separate /\ Unambiguous

BackedInv ==
    /\ prune.pc # "idle" => "pruned" \in marks
    /\ Tidy => /\ AllBacked(tags, tags) /\ AllBacked(tags, repair.seen) /\ AllBacked(tags, repair.plan)
               /\ \A p \in Publishers : JobBacked(tags, push[p])

\* Until it is torn, a repair works from a registry that nobody else wrote to,
\* or from one of which every entry it has read is still at an own tag.
KeepsInv ==
    repair.pc \in {"preflight", "apply"} /\ ~repair.torn /\ Separate /\ Unambiguous =>
        /\ \A t \in repair.confirmed : IndexAt(tags, t) = IndexAt(repair.seen, t)
        /\ Tidy => AllBacked(repair.seen, repair.seen)
        /\ Agree \/ (AllBacked(repair.seen, repair.seen) /\ AllBacked(tags, repair.seen))

\* No own tag of m went, and none lost a platform.
Kept(m, n) == \A v \in Subjects : \A q : HasEntry(m, v, q) => HasEntry(n, v, q)

\* An own tag holds the one build its version is published from.
LEMMA OwnEntry ==
    ASSUME CampaignOK, Separate, Unambiguous, NEW t, NEW f, GoodAt(t, f), NEW q \in DOMAIN f,
           NEW g, GoodAt(OnTrack(f[q], t), g), q \in DOMAIN g
    PROVE  g[q] = f[q] /\ OnTrack(g[q], OnTrack(f[q], t)) = OnTrack(f[q], t)
<1> DEFINE u == OnTrack(f[q], t)
           w == OnTrack(g[q], u)
<1>1. PICK x \in campaign.pushes : x.version = f[q] /\ u \in SubjectsOf(x)  BY DEF GoodAt
<1>2. PICK y \in campaign.pushes : y.version = g[q] /\ w \in SubjectsOf(y) /\ u \in {w} \cup Targets(w)
  BY DEF GoodAt
<1>3. u \in Subjects /\ w \in Subjects  BY <1>1, <1>2, SubjectsAre
<1>4. u = w
  <2> SUFFICES ASSUME u # w PROVE FALSE  OBVIOUS
  <2>1. u \in Targets(w)  BY <1>2
  <2>2. u \in Subjects \cap Targets(w)  BY <1>3, <2>1
  <2> QED BY <1>3, <2>2 DEF Separate
<1>5. u \in SubjectsOf(x) \cap SubjectsOf(y)  BY <1>1, <1>2, <1>4
<1>6. x.version = y.version  BY <1>1, <1>2, <1>5 DEF Unambiguous
<1> QED BY <1>1, <1>2, <1>4, <1>6

\* No alias a repository has is an own tag.
LEMMA AliasApart ==
    ASSUME CampaignOK, Separate, NEW m \in TagMap,
           \A v \in DOMAIN m : DOMAIN m[v] # {} /\ GoodAt(v, m[v]), NEW t \in AliasUniverse(Versions(m))
    PROVE  t \notin Subjects
<1>1. Versions(m) \in SUBSET Tag  BY TagMapIs DEF Versions
<1>2. PICK v \in Versions(m) : t \in Targets(v)  BY <1>1, UniverseIs
<1>3. v \in DOMAIN m  BY <1>2 DEF Versions
<1>4. PICK q : q \in DOMAIN m[v]  BY <1>3
<1> DEFINE w == OnTrack(m[v][q], v)
<1>5. w \in Subjects /\ w \in Tag /\ v \in {w} \cup Targets(w)  BY <1>3, <1>4, GoodEntry
<1>6. t \in Targets(w)
  <2>1. CASE v = w  BY <1>2, <2>1
  <2>2. CASE v \in Targets(w)  BY <1>2, <1>5, <2>2, TargetsTransitive
  <2> QED BY <1>5, <2>1, <2>2
<1> QED BY <1>5, <1>6 DEF Separate

\* What was backed stays backed while own tags lose nothing.
LEMMA BackedGrows ==
    ASSUME CampaignOK, NEW m, NEW n, Kept(m, n), NEW t, NEW f, GoodAt(t, f), BackedBy(m, f, t)
    PROVE  BackedBy(n, f, t)
<1> SUFFICES ASSUME NEW q \in DOMAIN f PROVE HasEntry(n, OnTrack(f[q], t), q)  BY DEF BackedBy
<1>1. HasEntry(m, OnTrack(f[q], t), q)  BY DEF BackedBy
<1>2. OnTrack(f[q], t) \in Subjects  BY GoodEntry
<1> QED BY <1>1, <1>2 DEF Kept

\* The same for every tag of a repository or of a plan.
LEMMA AllBackedGrows ==
    ASSUME CampaignOK, NEW m, NEW n, Kept(m, n), NEW f, \A t \in DOMAIN f : GoodAt(t, f[t]), AllBacked(m, f)
    PROVE  AllBacked(n, f)
<1> SUFFICES ASSUME NEW t \in DOMAIN f PROVE BackedBy(n, f[t], t)  BY DEF AllBacked
<1>1. BackedBy(m, f[t], t) /\ GoodAt(t, f[t])  BY DEF AllBacked
<1> QED BY <1>1, BackedGrows

\* The same for a push under way.
LEMMA JobBackedGrows ==
    ASSUME CampaignOK, NEW m, NEW n, Kept(m, n), NEW j, j.pc # "idle" => JobOK(j), JobBacked(m, j)
    PROVE  JobBacked(n, j)
<1>1. ASSUME j.pc = "write" PROVE BackedBy(n, j.read, NextWrite(j.writes))
  <2>1. GoodAt(NextWrite(j.writes), j.read)  BY <1>1 DEF JobOK
  <2>2. BackedBy(m, j.read, NextWrite(j.writes))  BY <1>1 DEF JobBacked
  <2> QED BY <2>1, <2>2, BackedGrows
<1>2. ASSUME j.pc \in {"read", "write"}, Subject(j) \notin j.writes
      PROVE  HasEntry(n, Subject(j), j.push.platform)
  <2>1. JobOK(j)  BY <1>2
  <2>2. Subject(j) \in Subjects  BY <2>1, SubjectIs
  <2>3. HasEntry(m, Subject(j), j.push.platform)  BY <1>2 DEF JobBacked
  <2> QED BY <2>2, <2>3 DEF Kept
<1> QED BY <1>1, <1>2 DEF JobBacked

\* A merge that drops nothing adds one entry.
LEMMA WriteAdds ==
    ASSUME TypeInv, NEW p \in Publishers, MergeWrite(p)
    PROVE  /\ tags' = SetTag(NextWrite(push[p].writes), Merged(push[p]))
           /\ HasEntry(tags', NextWrite(push[p].writes), push[p].push.platform)
           /\ tags'[NextWrite(push[p].writes)] = Merged(push[p])
           /\ Loses(NextWrite(push[p].writes), Merged(push[p])) => "lost" \in marks'
           /\ ~Loses(NextWrite(push[p].writes), Merged(push[p])) => marks' = marks /\ Kept(tags, tags')
<1> DEFINE t == NextWrite(push[p].writes)
           merged == Merged(push[p])
<1>1. tags' = SetTag(t, merged)  BY DEF MergeWrite, Merged
<1>2. marks' = IF Loses(t, merged) THEN marks \cup {"lost"} ELSE marks  BY DEF MergeWrite, Merged
<1>3. push[p].pc = "write"  BY DEF MergeWrite
<1>4. push[p].push.platform \in DOMAIN merged  BY <1>3, MergedIs
<1>5. tags \in TagMap  BY DEF TypeInv, TagsOK
<1> HIDE DEF merged, t
<1>6. DOMAIN tags' = DOMAIN tags \cup {t} /\ tags'[t] = merged /\ \A u \in DOMAIN tags \ {t} : tags'[u] = tags[u]
  BY <1>1, SetTagIs
<1>7. HasEntry(tags', t, push[p].push.platform)  BY <1>4, <1>6 DEF HasEntry
<1>8. ASSUME ~Loses(t, merged), NEW u, NEW q, HasEntry(tags, u, q) PROVE HasEntry(tags', u, q)
  <2>1. CASE u = t
    <3>1. u \in DOMAIN tags /\ q \in DOMAIN tags[u]  BY <1>8 DEF HasEntry
    <3>2. q \in DOMAIN IndexAt(tags, t)  BY <1>5, <2>1, <3>1, IndexAtIs
    <3>3. q \in DOMAIN merged  BY <1>8, <3>2 DEF Loses
    <3> QED BY <1>6, <2>1, <3>3 DEF HasEntry
  <2>2. CASE u # t
    BY <1>6, <1>8, <2>2 DEF HasEntry
  <2> QED BY <2>1, <2>2
<1>9. ~Loses(t, merged) => Kept(tags, tags')
  BY <1>8 DEF Kept
<1> QED BY <1>1, <1>2, <1>6, <1>7, <1>9 DEF t, merged

\* A repair writes aliases alone.
LEMMA PutApart ==
    ASSUME TypeInv, PlanInv, Separate, NEW t, PutAlias(t)
    PROVE  /\ t \in AliasUniverse(Versions(repair.seen)) /\ t \notin Subjects
           /\ Kept(tags, tags')
           /\ DOMAIN tags' = DOMAIN tags \cup {t} /\ tags'[t] = repair.plan[t]
           /\ \A u \in DOMAIN tags \ {t} : tags'[u] = tags[u]
<1>1. repair.pc = "apply" /\ t \in DOMAIN repair.plan /\ tags' = SetTag(t, repair.plan[t])  BY PutIs
<1>2. t \in Asked  BY <1>1 DEF PlanInv
<1>3. t \in AliasUniverse(Versions(repair.seen))  BY <1>2, SeenIs
<1>4. /\ CampaignOK /\ repair.seen \in TagMap
      /\ \A v \in DOMAIN repair.seen : DOMAIN repair.seen[v] # {} /\ GoodAt(v, repair.seen[v])
  BY SeenIs DEF TypeInv
<1>5. t \notin Subjects  BY <1>3, <1>4, AliasApart
<1>6. /\ DOMAIN tags' = DOMAIN tags \cup {t} /\ tags'[t] = repair.plan[t]
      /\ \A u \in DOMAIN tags \ {t} : tags'[u] = tags[u]
  BY <1>1, SetTagIs
<1>7. Kept(tags, tags')  BY <1>5, <1>6 DEF Kept, HasEntry
<1> QED BY <1>3, <1>5, <1>6, <1>7

\* Steps of a push but for the writes.
LEMMA StepBacked ==
    ASSUME TypeInv, UNCHANGED tags, NEW p \in Publishers, AllBacked(tags, tags), JobBacked(tags, push[p]),
           \/ \E x \in todo : BeginPush(p, x)
           \/ \E error \in BOOLEAN : Resolve(p, error)
           \/ PushManifest(p) \/ BeginAliases(p)
           \/ MergeRead(p) \/ PushKeepTag(p)
           \/ FailPush(p)
    PROVE  JobBacked(tags, push'[p])
<1>0. \A j : Job(p, j) => push'[p] = j
  BY DEF Job, TypeInv, JobsOK
<1>1. CASE \E x \in todo : BeginPush(p, x)
  <2>1. PICK j \in JobShape : Job(p, j) /\ j.pc = "resolve"  BY <1>1, BeginIs
  <2> QED BY <1>0, <2>1 DEF JobBacked
<1>2. CASE \E error \in BOOLEAN : Resolve(p, error)
  <2>1. PICK j \in JobShape : Job(p, j) /\ j.pc = "resolve"  BY <1>2, ResolveIs
  <2> QED BY <1>0, <2>1 DEF JobBacked
<1>3. CASE PushManifest(p) \/ BeginAliases(p)
  <2>1. PICK j \in JobShape :
              /\ Job(p, j) /\ push[p].pc = "resolve" /\ j.pc = "read"
              /\ Subject(j) = Subject(push[p]) /\ j.writes = push[p].writes
    BY <1>3, WritesBegin
  <2>2. Subject(push[p]) \in push[p].writes  BY <2>1, JobFields DEF JobOK
  <2>3. JobBacked(tags, j)  BY <2>1, <2>2 DEF JobBacked
  <2> QED BY <1>0, <2>1, <2>3
<1>4. CASE MergeRead(p)
  <2>1. PICK j \in JobShape :
              /\ Job(p, j) /\ push[p].pc = "read" /\ j.pc = "write" /\ j.push = push[p].push
              /\ Subject(j) = Subject(push[p]) /\ j.writes = push[p].writes
              /\ j.read = IndexAt(tags, NextWrite(push[p].writes))
    BY <1>4, MergeReadIs
  <2> DEFINE t == NextWrite(push[p].writes)
  <2>2. t \in DOMAIN tags => IndexAt(tags, t) = tags[t]  BY SeenIs, IndexAtIs
  <2>3. t \notin DOMAIN tags => DOMAIN IndexAt(tags, t) = {}  BY SeenIs, IndexAtIs
  <2> HIDE DEF t
  <2>4. BackedBy(tags, IndexAt(tags, t), t)
    <3>1. CASE t \in DOMAIN tags  BY <2>2, <3>1 DEF AllBacked
    <3>2. CASE t \notin DOMAIN tags  BY <2>3, <3>2 DEF BackedBy
    <3> QED BY <3>1, <3>2
  <2>5. BackedBy(tags, j.read, NextWrite(j.writes))  BY <2>1, <2>4 DEF t
  <2>6. JobBacked(tags, j)  BY <2>1, <2>5 DEF JobBacked
  <2> QED BY <1>0, <2>1, <2>6
<1>5. CASE PushKeepTag(p) \/ FailPush(p)
  <2>1. Job(p, NoJob)  BY <1>5 DEF PushKeepTag, FailPush
  <2>2. NoJob.pc = "idle"  BY DEF NoJob
  <2> QED BY <1>0, <2>1, <2>2 DEF JobBacked
<1> QED BY <1>1, <1>2, <1>3, <1>4, <1>5

\* A merge that drops nothing leaves everything backed.
LEMMA WriteBacked ==
    ASSUME TypeInv, NEW p \in Publishers, MergeWrite(p), Kept(tags, tags'),
           AllBacked(tags, tags), JobBacked(tags, push[p])
    PROVE  AllBacked(tags', tags') /\ JobBacked(tags', push'[p])
<1> DEFINE t == NextWrite(push[p].writes)
           q0 == push[p].push.platform
           s == Subject(push[p])
<1>1. push[p].pc = "write" /\ JobOK(push[p]) /\ CampaignOK
  BY JobFields DEF MergeWrite, TypeInv
<1>2. /\ t \in Goals(push[p])
      /\ DOMAIN Merged(push[p]) = DOMAIN push[p].read \cup {q0}
      /\ Merged(push[p])[q0] = push[p].push.version
      /\ \A q \in DOMAIN push[p].read : q # q0 => Merged(push[p])[q] = push[p].read[q]
  BY <1>1, MergedIs
<1>3. s \in Subjects /\ OnTrack(push[p].push.version, t) = s
  BY <1>1, <1>2, SubjectIs
<1>4. s \in push[p].writes => t = s
  BY WritePending
<1>5. HasEntry(tags', s, q0)
  <2>1. CASE s \in push[p].writes  BY <1>4, <2>1, WriteAdds
  <2>2. CASE s \notin push[p].writes
    <3>1. HasEntry(tags, s, q0)  BY <1>1, <2>2 DEF JobBacked
    <3> QED BY <1>3, <3>1 DEF Kept
  <2> QED BY <2>1, <2>2
<1>6. BackedBy(tags', push[p].read, t)
  <2>1. BackedBy(tags, push[p].read, t)  BY <1>1 DEF JobBacked
  <2>2. GoodAt(t, push[p].read)  BY <1>1 DEF JobOK
  <2> QED BY <1>1, <2>1, <2>2, BackedGrows
<1>7. /\ DOMAIN tags' = DOMAIN tags \cup {t} /\ tags'[t] = Merged(push[p])
      /\ \A u \in DOMAIN tags \ {t} : tags'[u] = tags[u]
  BY WriteAdds, SetTagIs
<1>8. PICK j \in JobShape :
              /\ Job(p, j) /\ j.push = push[p].push
              /\ \/ j.pc = "read" /\ Subject(j) = Subject(push[p])
                 \/ j.pc = "resolve" \/ j.pc = "keep"
  BY MergeWriteIs
<1>9. push'[p] = j
  BY <1>8 DEF Job, TypeInv, JobsOK
<1> HIDE DEF t, s, q0
<1>10. BackedBy(tags', Merged(push[p]), t)
  <2> SUFFICES ASSUME NEW q \in DOMAIN Merged(push[p])
               PROVE  HasEntry(tags', OnTrack(Merged(push[p])[q], t), q)
    BY DEF BackedBy
  <2>1. CASE q = q0  BY <1>2, <1>3, <1>5, <2>1
  <2>2. CASE q # q0  BY <1>2, <1>6, <2>2 DEF BackedBy
  <2> QED BY <2>1, <2>2
<1>11. AllBacked(tags', tags')
  <2> SUFFICES ASSUME NEW u \in DOMAIN tags' PROVE BackedBy(tags', tags'[u], u)  BY DEF AllBacked
  <2>1. CASE u = t  BY <1>7, <1>10, <2>1
  <2>2. CASE u # t
    <3>1. u \in DOMAIN tags /\ tags'[u] = tags[u]  BY <1>7, <2>2
    <3>2. GoodAt(u, tags[u]) /\ BackedBy(tags, tags[u], u)  BY <3>1, SeenIs DEF AllBacked
    <3>3. BackedBy(tags', tags[u], u)  BY <1>1, <3>2, BackedGrows
    <3> QED BY <3>1, <3>3
  <2> QED BY <2>1, <2>2
<1>12. JobBacked(tags', j)
  <2>1. j.pc = "read" => HasEntry(tags', Subject(j), j.push.platform)
    BY <1>5, <1>8 DEF s, q0
  <2> QED BY <1>8, <2>1 DEF JobBacked
<1> QED BY <1>9, <1>11, <1>12

\* What is planned comes from what was read.
LEMMA PlanBacked ==
    ASSUME CampaignOK, NEW n, NEW m \in TagMap, \A v \in DOMAIN m : GoodAt(v, m[v]),
           NEW scope \in SUBSET Tag, AllBacked(n, m)
    PROVE  AllBacked(n, Plan(m, scope))
<1> SUFFICES ASSUME NEW t \in DOMAIN Plan(m, scope) PROVE BackedBy(n, Plan(m, scope)[t], t)
  BY DEF AllBacked
<1>1. Plan(m, scope)[t] = Planned(m, t)  BY PlanIs
<1> SUFFICES ASSUME NEW q \in DOMAIN Planned(m, t) PROVE HasEntry(n, OnTrack(Planned(m, t)[q], t), q)
  BY <1>1 DEF BackedBy
<1>2. DOMAIN Planned(m, t) = DOMAIN Expected(m, t) \cup DOMAIN IndexAt(m, t)  BY ExpectedGood
<1>3. CASE q \in DOMAIN Expected(m, t)
  <2> DEFINE g == Greatest(Sources(m, t, q))
  <2>1. Planned(m, t)[q] = Expected(m, t)[q]  BY <1>3, ExpectedGood
  <2>2. g \in Sources(m, t, q) /\ Expected(m, t)[q] = m[g][q]  BY <1>3, ExpectedIs
  <2> HIDE DEF g
  <2>3. g \in DOMAIN m /\ t \in Targets(g) /\ q \in DOMAIN m[g]  BY <2>2, SourcesIs
  <2>4. g \in Tag  BY <2>3, TagMapIs
  <2>5. t[1] = g[1]  BY <2>3, <2>4, TargetAbove
  <2>6. OnTrack(m[g][q], t) = OnTrack(m[g][q], g)  BY <2>5 DEF OnTrack
  <2>7. HasEntry(n, OnTrack(m[g][q], g), q)  BY <2>3 DEF AllBacked, BackedBy
  <2> QED BY <2>1, <2>2, <2>6, <2>7
<1>4. CASE q \notin DOMAIN Expected(m, t)
  <2>1. q \in DOMAIN IndexAt(m, t)  BY <1>2, <1>4
  <2>2. Planned(m, t)[q] = IndexAt(m, t)[q]  BY <1>4, <2>1, ExpectedGood
  <2>3. t \in DOMAIN m /\ IndexAt(m, t) = m[t]  BY <2>1, IndexAtIs
  <2>4. HasEntry(n, OnTrack(m[t][q], t), q)  BY <2>1, <2>3 DEF AllBacked, BackedBy
  <2> QED BY <2>2, <2>3, <2>4
<1> QED BY <1>3, <1>4

\* Steps of a repair.
LEMMA RepairBacked ==
    ASSUME TypeInv, RepairInv, Separate, RepairNext,
           AllBacked(tags, tags), AllBacked(tags, repair.seen), AllBacked(tags, repair.plan)
    PROVE  /\ Kept(tags, tags') /\ AllBacked(tags', tags')
           /\ AllBacked(tags', repair'.seen) /\ AllBacked(tags', repair'.plan)
<1>0. /\ CampaignOK /\ repair.seen \in TagMap
      /\ \A v \in DOMAIN repair.seen : GoodAt(v, repair.seen[v])
      /\ \A v \in DOMAIN tags : GoodAt(v, tags[v])
      /\ \A v \in DOMAIN repair.plan : GoodAt(v, repair.plan[v])
  BY SeenIs DEF TypeInv, RepairOK, RepairGood
<1>1. ASSUME UNCHANGED tags PROVE Kept(tags, tags') /\ AllBacked(tags', tags')
  BY <1>1 DEF Kept
<1>2. ASSUME UNCHANGED tags, repair' = NoRepair
      PROVE  AllBacked(tags', repair'.seen) /\ AllBacked(tags', repair'.plan)
  BY <1>2, NoRepairIs, EmptyIs DEF AllBacked
<1>3. ASSUME UNCHANGED tags, List
      PROVE  AllBacked(tags', repair'.seen) /\ AllBacked(tags', repair'.plan)
  BY <1>3, ListIs, EmptyIs DEF AllBacked
<1>4. ASSUME UNCHANGED tags, NEW t, ReadTag(t), repair' # NoRepair
      PROVE  AllBacked(tags', repair'.seen) /\ AllBacked(tags', repair'.plan)
  <2>1. /\ t \in DOMAIN tags
        /\ DOMAIN repair'.seen = DOMAIN repair.seen \cup {t} /\ repair'.seen[t] = tags[t]
        /\ \A u \in DOMAIN repair.seen \ {t} : repair'.seen[u] = repair.seen[u]
        /\ repair'.plan = repair.plan
    BY <1>4, ReadTagIs
  <2>2. ASSUME NEW u \in DOMAIN repair'.seen PROVE BackedBy(tags, repair'.seen[u], u)
    <3>1. CASE u = t  BY <2>1, <3>1 DEF AllBacked
    <3>2. CASE u # t  BY <2>1, <2>2, <3>2 DEF AllBacked
    <3> QED BY <3>1, <3>2
  <2>3. AllBacked(tags, repair'.seen)  BY <2>2 DEF AllBacked
  <2> QED BY <1>4, <2>1, <2>3
<1>5. ASSUME UNCHANGED tags, PlanRepair, repair' # NoRepair
      PROVE  AllBacked(tags', repair'.seen) /\ AllBacked(tags', repair'.plan)
  <2>1. repair'.seen = repair.seen /\ repair'.plan = Plan(repair.seen, Asked)  BY <1>5, PlanRepairIs
  <2>2. Asked \in SUBSET Tag  BY SeenIs, UniverseIs
  <2>3. AllBacked(tags, Plan(repair.seen, Asked))  BY <1>0, <2>2, PlanBacked
  <2> QED BY <1>5, <2>1, <2>3
<1>6. ASSUME UNCHANGED tags, Preflight
      PROVE  AllBacked(tags', repair'.seen) /\ AllBacked(tags', repair'.plan)
  <2>1. /\ repair'.seen = repair.seen /\ DOMAIN repair'.plan \subseteq DOMAIN repair.plan
        /\ \A t \in DOMAIN repair'.plan : Covers(repair.plan[t], repair'.plan[t])
    BY <1>6, PreflightIs
  <2>2. ASSUME NEW t \in DOMAIN repair'.plan PROVE BackedBy(tags, repair'.plan[t], t)
    <3>1. Covers(repair.plan[t], repair'.plan[t]) /\ BackedBy(tags, repair.plan[t], t)
      BY <2>1, <2>2 DEF AllBacked
    <3> QED BY <3>1 DEF Covers, BackedBy
  <2>3. AllBacked(tags, repair'.plan)  BY <2>2 DEF AllBacked
  <2> QED BY <1>6, <2>1, <2>3
<1>7. ASSUME UNCHANGED tags, NEW t, repair' = GiveUp(t)
      PROVE  AllBacked(tags', repair'.seen) /\ AllBacked(tags', repair'.plan)
  <2>1. /\ repair'.seen = repair.seen /\ DOMAIN repair'.plan = DOMAIN repair.plan \ {t}
        /\ \A u \in DOMAIN repair'.plan : repair'.plan[u] = repair.plan[u]
    BY <1>7, GiveUpIs
  <2>2. AllBacked(tags, repair'.plan)  BY <2>1 DEF AllBacked
  <2> QED BY <1>7, <2>1, <2>2
<1>8. ASSUME UNCHANGED tags, NEW t, ConfirmAlias(t)
      PROVE  AllBacked(tags', repair'.seen) /\ AllBacked(tags', repair'.plan)
  <2>1. repair' = GiveUp(t) \/ (repair'.seen = repair.seen /\ repair'.plan = repair.plan)
    BY <1>8, ConfirmIs
  <2> QED BY <1>7, <1>8, <2>1
<1>9. ASSUME NEW t, PutAlias(t)
      PROVE  /\ Kept(tags, tags') /\ AllBacked(tags', tags')
             /\ AllBacked(tags', repair'.seen) /\ AllBacked(tags', repair'.plan)
  <2>1. /\ Kept(tags, tags')
        /\ DOMAIN tags' = DOMAIN tags \cup {t} /\ tags'[t] = repair.plan[t]
        /\ \A u \in DOMAIN tags \ {t} : tags'[u] = tags[u]
    BY <1>9, PutApart DEF RepairInv
  <2>2. /\ t \in DOMAIN repair.plan
        /\ repair'.seen = repair.seen /\ DOMAIN repair'.plan = DOMAIN repair.plan \ {t}
        /\ \A u \in DOMAIN repair'.plan : repair'.plan[u] = repair.plan[u]
    BY <1>9, PutIs
  <2>3. AllBacked(tags', tags) /\ AllBacked(tags', repair.seen) /\ AllBacked(tags', repair.plan)
    BY <1>0, <2>1, AllBackedGrows
  <2>4. ASSUME NEW u \in DOMAIN tags' PROVE BackedBy(tags', tags'[u], u)
    <3>1. CASE u = t  BY <2>1, <2>2, <2>3, <3>1 DEF AllBacked
    <3>2. CASE u # t  BY <2>1, <2>3, <2>4, <3>2 DEF AllBacked
    <3> QED BY <3>1, <3>2
  <2>5. AllBacked(tags', tags')  BY <2>4 DEF AllBacked
  <2>6. AllBacked(tags', repair'.plan)  BY <2>2, <2>3 DEF AllBacked
  <2> QED BY <2>1, <2>2, <2>3, <2>5, <2>6
<1>10. CASE repair' = NoRepair /\ UNCHANGED tags  BY <1>1, <1>2, <1>10
<1>11. CASE ~(repair' = NoRepair /\ UNCHANGED tags)
  BY <1>1, <1>3, <1>4, <1>5, <1>6, <1>7, <1>8, <1>9, <1>11, RepairFrame
<1> QED BY <1>10, <1>11

\* One step keeps everything backed, and no own tag loses anything.
LEMMA BackedStep ==
    ASSUME TypeInv, RepairInv, BackedInv, [CascadeNext]_cascadeVars
    PROVE  BackedInv' /\ (Tidy' => Tidy /\ Kept(tags, tags'))
<1>0. UNCHANGED campaign /\ marks \subseteq marks' /\ CampaignOK
      /\ (Separate' <=> Separate) /\ (Unambiguous' <=> Unambiguous)
  BY CampaignFixed, MarksGrow DEF TypeInv
<1>1. Tidy' => Tidy
  BY <1>0 DEF Tidy
<1>2. /\ \A v \in DOMAIN repair.seen : GoodAt(v, repair.seen[v])
      /\ \A v \in DOMAIN repair.plan : GoodAt(v, repair.plan[v])
      /\ \A p \in Publishers : push[p].pc # "idle" => JobOK(push[p])
  BY SeenIs, JobFields DEF TypeInv, RepairOK, RepairGood
<1>3. Tidy => /\ AllBacked(tags, tags) /\ AllBacked(tags, repair.seen) /\ AllBacked(tags, repair.plan)
              /\ \A p \in Publishers : JobBacked(tags, push[p])
  BY DEF BackedInv
<1>4. ASSUME Tidy' => Kept(tags, tags') /\ AllBacked(tags', tags'),
             Tidy' => AllBacked(tags', repair'.seen) /\ AllBacked(tags', repair'.plan),
             Tidy' => \A p \in Publishers : JobBacked(tags', push'[p]),
             prune'.pc # "idle" => "pruned" \in marks'
      PROVE  BackedInv' /\ (Tidy' => Tidy /\ Kept(tags, tags'))
  BY <1>1, <1>4 DEF BackedInv
<1>5. ASSUME Tidy', Kept(tags, tags')
      PROVE  /\ AllBacked(tags', repair.seen) /\ AllBacked(tags', repair.plan)
             /\ \A p \in Publishers : JobBacked(tags', push[p])
  <2>1. AllBacked(tags', repair.seen) /\ AllBacked(tags', repair.plan)
    BY <1>0, <1>1, <1>2, <1>3, <1>5, AllBackedGrows
  <2>2. ASSUME NEW p \in Publishers PROVE JobBacked(tags', push[p])
    BY <1>0, <1>1, <1>2, <1>3, <1>5, JobBackedGrows
  <2> QED BY <2>1, <2>2
<1>6. UNCHANGED tags => Kept(tags, tags')
  BY DEF Kept
<1>7. ASSUME NEW p \in Publishers,
             \/ \E x \in todo : BeginPush(p, x)
             \/ \E error \in BOOLEAN : Resolve(p, error)
             \/ PushManifest(p) \/ BeginAliases(p)
             \/ MergeRead(p) \/ MergeWrite(p) \/ PushKeepTag(p)
             \/ FailPush(p)
      PROVE  BackedInv' /\ (Tidy' => Tidy /\ Kept(tags, tags'))
  <2>1. UNCHANGED prune /\ (MergeWrite(p) \/ UNCHANGED <<tags, repair>>)  BY <1>7, PushFrame
  <2>2. \A r \in Publishers \ {p} : push'[r] = push[r]  BY <1>7, OnePush
  <2>3. ASSUME Tidy'
        PROVE  /\ Kept(tags, tags') /\ AllBacked(tags', tags') /\ JobBacked(tags', push'[p])
               /\ repair'.seen = repair.seen /\ repair'.plan = repair.plan
    <3>1. CASE MergeWrite(p)
      <4>1. "lost" \notin marks'  BY <2>3 DEF Tidy
      <4>2. Kept(tags, tags')  BY <3>1, <4>1, WriteAdds
      <4>3. AllBacked(tags', tags') /\ JobBacked(tags', push'[p])
        BY <1>1, <1>3, <2>3, <3>1, <4>2, WriteBacked
      <4> QED BY <3>1, <4>2, <4>3, MergeNoticed
    <3>2. CASE ~MergeWrite(p)
      <4>1. UNCHANGED <<tags, repair>>  BY <2>1, <3>2
      <4>2. JobBacked(tags, push'[p])  BY <1>1, <1>3, <1>7, <2>3, <3>2, <4>1, StepBacked
      <4> QED BY <1>1, <1>3, <1>6, <2>3, <4>1, <4>2
    <3> QED BY <3>1, <3>2
  <2>4. Tidy' => \A r \in Publishers : JobBacked(tags', push'[r])
    BY <1>5, <2>2, <2>3
  <2>5. prune'.pc # "idle" => "pruned" \in marks'  BY <1>0, <2>1 DEF BackedInv
  <2> QED BY <1>4, <1>5, <2>3, <2>4, <2>5
<1>8. CASE PushNext
  BY <1>7, <1>8 DEF PushNext
<1>9. CASE RepairNext
  <2>1. UNCHANGED <<push, prune>>  BY <1>9, RepairFrame
  <2>2. ASSUME Tidy'
        PROVE  /\ Kept(tags, tags') /\ AllBacked(tags', tags')
               /\ AllBacked(tags', repair'.seen) /\ AllBacked(tags', repair'.plan)
    <3>1. Separate  BY <1>1, <2>2 DEF Tidy
    <3> QED BY <1>1, <1>3, <1>9, <2>2, <3>1, RepairBacked
  <2>3. Tidy' => \A r \in Publishers : JobBacked(tags', push'[r])
    BY <1>5, <2>1, <2>2
  <2>4. prune'.pc # "idle" => "pruned" \in marks'  BY <1>0, <2>1 DEF BackedInv
  <2> QED BY <1>4, <2>2, <2>3, <2>4
<1>10. CASE PruneNext \/ \E m \in manifests : DeleteManifest(m)
  <2>1. /\ UNCHANGED push /\ repair'.seen = repair.seen /\ repair'.plan = repair.plan
        /\ \/ UNCHANGED tags /\ marks' = marks \cup {"tangled", "pruned"}
           \/ UNCHANGED tags /\ (prune'.pc # "idle" => prune.pc # "idle")
           \/ prune.pc # "idle" /\ prune'.pc # "idle" /\ UNCHANGED marks
    BY <1>10, OtherFrame
  <2>2. prune'.pc # "idle" => "pruned" \in marks'
    BY <1>0, <2>1 DEF BackedInv
  <2>3. ASSUME Tidy' PROVE UNCHANGED tags
    <3>1. "pruned" \notin marks  BY <1>1, <2>3 DEF Tidy
    <3> QED BY <2>1, <3>1 DEF BackedInv
  <2>4. Tidy' => Kept(tags, tags') /\ AllBacked(tags', tags')
    BY <1>1, <1>3, <1>6, <2>3
  <2> QED BY <1>4, <1>5, <2>1, <2>2, <2>4
<1>11. CASE UNCHANGED cascadeVars
  <2>1. UNCHANGED <<tags, push, repair, prune, marks>>  BY <1>11 DEF cascadeVars, registryVars
  <2>2. prune'.pc # "idle" => "pruned" \in marks'  BY <2>1 DEF BackedInv
  <2>3. Tidy' => Kept(tags, tags') /\ AllBacked(tags', tags')  BY <1>1, <1>3, <1>6, <2>1
  <2> QED BY <1>4, <1>5, <2>1, <2>2, <2>3
<1> QED BY <1>8, <1>9, <1>10, <1>11 DEF CascadeNext

\* A repair that starts to write has read the registry as it is.
LEMMA PlanKeeps ==
    ASSUME TypeInv, RepairInv, BackedInv, UNCHANGED <<tags, marks>>, Separate' <=> Separate,
           Unambiguous' <=> Unambiguous, PlanRepair, repair' # NoRepair
    PROVE  KeepsInv'
<1>1. /\ repair.pc = "gather" /\ repair.listed = {} /\ repair'.seen = repair.seen
      /\ repair'.torn = repair.torn /\ repair'.confirmed = repair.confirmed
  BY PlanRepairIs
<1> SUFFICES ASSUME ~repair.torn
             PROVE  /\ repair'.confirmed = {}
                    /\ Tidy => AllBacked(repair.seen, repair.seen)
                    /\ Agree'
  BY <1>1 DEF KeepsInv, Tidy
<1>2. repair'.confirmed = {}  BY <1>1 DEF TypeInv, RepairOK, RepairGood
<1>3. /\ \A t \in DOMAIN repair.seen : t \in DOMAIN tags /\ tags[t] = repair.seen[t]
      /\ \A t \in DOMAIN tags : IsVersion(t) => t \in DOMAIN repair.seen
  BY <1>1 DEF RepairInv, GatherInv
<1>4. Agree'  BY <1>1, <1>3 DEF Agree
<1>5. ASSUME Tidy, NEW t \in DOMAIN repair.seen, NEW q \in DOMAIN repair.seen[t]
      PROVE  HasEntry(repair.seen, OnTrack(repair.seen[t][q], t), q)
  <2> DEFINE v == OnTrack(repair.seen[t][q], t)
  <2>1. GoodAt(t, repair.seen[t]) /\ CampaignOK  BY SeenIs DEF TypeInv
  <2>2. v \in Subjects /\ IsVersion(v)  BY <2>1, GoodEntry, SubjectsAre
  <2>3. HasEntry(tags, v, q)  BY <1>3, <1>5 DEF BackedInv, AllBacked, BackedBy
  <2> QED BY <1>3, <2>2, <2>3 DEF HasEntry
<1>6. Tidy => AllBacked(repair.seen, repair.seen)  BY <1>5 DEF AllBacked, BackedBy
<1> QED BY <1>2, <1>4, <1>6

\* A step that writes no tag.
LEMMA KeepsStays ==
    ASSUME TypeInv, KeepsInv, Tidy' => Tidy, Separate' <=> Separate, Unambiguous' <=> Unambiguous,
           UNCHANGED tags, repair'.pc \in {"preflight", "apply"} => repair.pc \in {"preflight", "apply"},
           repair.torn => repair'.torn, repair'.seen = repair.seen,
           \A t \in repair'.confirmed : t \in repair.confirmed \/ IndexAt(tags, t) = IndexAt(repair.seen, t)
    PROVE  KeepsInv'
<1> SUFFICES ASSUME repair'.pc \in {"preflight", "apply"}, ~repair'.torn, Separate, Unambiguous
             PROVE  /\ \A t \in repair'.confirmed : IndexAt(tags, t) = IndexAt(repair.seen, t)
                    /\ Tidy' => AllBacked(repair.seen, repair.seen)
                    /\ Agree' \/ (AllBacked(repair.seen, repair.seen) /\ AllBacked(tags, repair.seen))
  BY DEF KeepsInv
<1>1. /\ \A t \in repair.confirmed : IndexAt(tags, t) = IndexAt(repair.seen, t)
      /\ Tidy => AllBacked(repair.seen, repair.seen)
      /\ Agree \/ (AllBacked(repair.seen, repair.seen) /\ AllBacked(tags, repair.seen))
  BY DEF KeepsInv
<1>2. Agree => Agree'  BY DEF Agree
<1> QED BY <1>1, <1>2

\* A write of one tag leaves what readers find at the others.
LEMMA IndexStays ==
    ASSUME NEW t, DOMAIN tags' = DOMAIN tags \cup {t}, \A u \in DOMAIN tags \ {t} : tags'[u] = tags[u],
           NEW u, u # t
    PROVE  IndexAt(tags', u) = IndexAt(tags, u)
BY DEF IndexAt

\* A write of the repair itself: it disturbs no own tag, hence neither case of KeepsInv.
LEMMA PutKeeps ==
    ASSUME TypeInv, RepairInv, KeepsInv, Separate' <=> Separate, Unambiguous' <=> Unambiguous,
           UNCHANGED <<campaign, marks>>, NEW t, PutAlias(t)
    PROVE  KeepsInv'
<1>1. /\ repair.pc = "apply" /\ repair'.seen = repair.seen
      /\ repair'.confirmed = repair.confirmed \ {t} /\ repair'.torn = repair.torn
  BY PutIs
<1> SUFFICES ASSUME ~repair.torn, Separate, Unambiguous
             PROVE  /\ \A u \in repair'.confirmed : IndexAt(tags', u) = IndexAt(repair.seen, u)
                    /\ Tidy => AllBacked(repair.seen, repair.seen)
                    /\ Agree' \/ (AllBacked(repair.seen, repair.seen) /\ AllBacked(tags', repair.seen))
  BY <1>1 DEF KeepsInv, Tidy
<1>2. /\ \A u \in repair.confirmed : IndexAt(tags, u) = IndexAt(repair.seen, u)
      /\ Tidy => AllBacked(repair.seen, repair.seen)
      /\ Agree \/ (AllBacked(repair.seen, repair.seen) /\ AllBacked(tags, repair.seen))
  BY <1>1 DEF KeepsInv
<1>3. /\ t \in AliasUniverse(Versions(repair.seen)) /\ Kept(tags, tags')
      /\ DOMAIN tags' = DOMAIN tags \cup {t}
      /\ \A u \in DOMAIN tags \ {t} : tags'[u] = tags[u]
  BY PutApart DEF RepairInv
<1>4. \A u \in repair'.confirmed : IndexAt(tags', u) = IndexAt(repair.seen, u)
  BY <1>1, <1>2, <1>3, IndexStays
<1>5. Agree => Agree'
  BY <1>1, <1>3 DEF Agree
<1>6. AllBacked(tags, repair.seen) => AllBacked(tags', repair.seen)
  <2>1. CampaignOK /\ \A v \in DOMAIN repair.seen : GoodAt(v, repair.seen[v])  BY SeenIs DEF TypeInv
  <2> QED BY <1>3, <2>1, AllBackedGrows
<1> QED BY <1>2, <1>4, <1>5, <1>6

\* A write of a push: it tears the repair, or drops nothing, and then the repair
\* goes from the first case of KeepsInv to the second.
LEMMA WriteKeeps ==
    ASSUME TypeInv, RepairInv, BackedInv, KeepsInv, Separate' <=> Separate, Unambiguous' <=> Unambiguous,
           NEW p \in Publishers, MergeWrite(p)
    PROVE  KeepsInv'
<1> DEFINE t == NextWrite(push[p].writes)
<1>1. /\ repair'.pc = repair.pc /\ repair'.seen = repair.seen /\ repair'.confirmed = repair.confirmed
      /\ \/ repair' = repair /\ repair.pc = "idle"
         \/ repair' = repair /\ tags' = tags
         \/ ~repair'.torn => /\ ~repair.torn /\ t \notin repair.confirmed
                             /\ marks \cap {"pruned", "lost"} = {}
                             /\ ~Loses(t, Merged(push[p]))
  BY MergeNoticed
<1>2. CASE repair' = repair /\ repair.pc = "idle"
  BY <1>2 DEF KeepsInv
<1>3. Tidy' => Tidy
  <2>1. marks \subseteq marks'  BY OnePush
  <2> QED BY <2>1 DEF Tidy
<1>4. CASE repair' = repair /\ tags' = tags
  BY <1>3, <1>4, KeepsStays
<1>5. CASE ~repair'.torn => /\ ~repair.torn /\ t \notin repair.confirmed
                            /\ marks \cap {"pruned", "lost"} = {}
                            /\ ~Loses(t, Merged(push[p]))
  <2> SUFFICES ASSUME repair.pc \in {"preflight", "apply"}, ~repair'.torn, Separate, Unambiguous
               PROVE  /\ \A u \in repair.confirmed : IndexAt(tags', u) = IndexAt(repair.seen, u)
                      /\ AllBacked(repair.seen, repair.seen) /\ AllBacked(tags', repair.seen)
    BY <1>1 DEF KeepsInv
  <2>1. Tidy /\ ~repair.torn /\ t \notin repair.confirmed  BY <1>5 DEF Tidy
  <2>2. /\ \A u \in repair.confirmed : IndexAt(tags, u) = IndexAt(repair.seen, u)
        /\ AllBacked(repair.seen, repair.seen)
    BY <2>1 DEF KeepsInv
  <2>3. tags' = SetTag(t, Merged(push[p])) /\ Kept(tags, tags')  BY <1>5, WriteAdds
  <2>4. AllBacked(tags, repair.seen)  BY <2>1 DEF BackedInv
  <2>5. CampaignOK /\ \A v \in DOMAIN repair.seen : GoodAt(v, repair.seen[v])  BY SeenIs DEF TypeInv
  <2>6. AllBacked(tags', repair.seen)  BY <2>3, <2>4, <2>5, AllBackedGrows
  <2> HIDE DEF t
  <2>7. DOMAIN tags' = DOMAIN tags \cup {t} /\ \A u \in DOMAIN tags \ {t} : tags'[u] = tags[u]
    BY <2>3, SetTagIs
  <2>8. ASSUME NEW u \in repair.confirmed PROVE IndexAt(tags', u) = IndexAt(repair.seen, u)
    BY <2>1, <2>2, <2>7, IndexStays
  <2> QED BY <2>2, <2>6, <2>8
<1> QED BY <1>1, <1>2, <1>4, <1>5

\* Every step keeps KeepsInv.
LEMMA KeepsStep ==
    ASSUME TypeInv, RepairInv, BackedInv, KeepsInv, [CascadeNext]_cascadeVars
    PROVE  KeepsInv'
<1>0. UNCHANGED campaign /\ marks \subseteq marks'
      /\ (Separate' <=> Separate) /\ (Unambiguous' <=> Unambiguous)
  BY CampaignFixed, MarksGrow
<1>1. Tidy' => Tidy
  BY <1>0 DEF Tidy
<1>2. ASSUME UNCHANGED <<tags, repair>> PROVE KeepsInv'
  BY <1>0, <1>1, <1>2, KeepsStays
<1>3. ASSUME NEW p \in Publishers,
             \/ \E x \in todo : BeginPush(p, x)
             \/ \E error \in BOOLEAN : Resolve(p, error)
             \/ PushManifest(p) \/ BeginAliases(p)
             \/ MergeRead(p) \/ MergeWrite(p) \/ PushKeepTag(p)
             \/ FailPush(p)
      PROVE  KeepsInv'
  <2>1. MergeWrite(p) \/ UNCHANGED <<tags, repair>>  BY <1>3, PushFrame
  <2> QED BY <1>0, <1>2, <2>1, WriteKeeps
<1>4. CASE PushNext
  BY <1>3, <1>4 DEF PushNext
<1>5. CASE RepairNext
  <2>1. ASSUME repair' = NoRepair PROVE KeepsInv'  BY <2>1, NoRepairIs DEF KeepsInv
  <2>2. ASSUME List PROVE KeepsInv'
    <3>1. repair'.pc = "gather"  BY <2>2, ListIs
    <3> QED BY <3>1 DEF KeepsInv
  <2>3. ASSUME NEW t, ReadTag(t) PROVE KeepsInv'
    <3>1. repair' = NoRepair \/ repair'.pc = "gather"  BY <2>3, ReadTagIs
    <3> QED BY <2>1, <3>1 DEF KeepsInv
  <2>4. ASSUME PlanRepair, UNCHANGED <<tags, marks>> PROVE KeepsInv'
    BY <1>0, <2>1, <2>4, PlanKeeps
  <2>5. ASSUME Preflight, UNCHANGED tags PROVE KeepsInv'
    <3>1. /\ repair.pc = "preflight" /\ repair'.seen = repair.seen
          /\ repair'.confirmed = repair.confirmed /\ repair'.torn = repair.torn
      BY <2>5, PreflightIs
    <3> QED BY <1>0, <1>1, <2>5, <3>1, KeepsStays
  <2>6. ASSUME NEW t, repair' = GiveUp(t), UNCHANGED tags PROVE KeepsInv'
    <3>1. /\ repair'.pc = repair.pc /\ repair'.seen = repair.seen
          /\ repair'.confirmed \subseteq repair.confirmed /\ repair'.torn = repair.torn
      BY <2>6, GiveUpIs
    <3> QED BY <1>0, <1>1, <2>6, <3>1, KeepsStays
  <2>7. ASSUME NEW t, ConfirmAlias(t), UNCHANGED tags PROVE KeepsInv'
    <3>1. \/ repair' = GiveUp(t)
          \/ /\ repair.pc = "apply" /\ repair'.seen = repair.seen /\ repair'.torn = repair.torn
             /\ repair'.confirmed = repair.confirmed \cup {t} /\ IndexAt(tags, t) = IndexAt(repair.seen, t)
      BY <2>7, ConfirmIs
    <3> QED BY <1>0, <1>1, <2>6, <2>7, <3>1, KeepsStays
  <2>8. ASSUME NEW t, PutAlias(t), UNCHANGED marks PROVE KeepsInv'
    BY <1>0, <2>8, PutKeeps
  <2> QED BY <1>5, <2>1, <2>2, <2>3, <2>4, <2>5, <2>6, <2>7, <2>8, RepairFrame
<1>6. CASE PruneNext \/ \E m \in manifests : DeleteManifest(m)
  <2>1. /\ repair'.pc = repair.pc /\ repair'.seen = repair.seen /\ repair'.confirmed = repair.confirmed
        /\ repair.torn => repair'.torn
        /\ UNCHANGED tags \/ repair'.torn \/ repair.pc = "idle"
    BY <1>6, OtherFrame
  <2>2. CASE UNCHANGED tags  BY <1>0, <1>1, <2>1, <2>2, KeepsStays
  <2>3. CASE repair'.torn \/ repair.pc = "idle"  BY <2>1, <2>3 DEF KeepsInv
  <2> QED BY <2>1, <2>2, <2>3
<1>7. CASE UNCHANGED cascadeVars
  BY <1>2, <1>7 DEF cascadeVars, registryVars
<1> QED BY <1>4, <1>5, <1>6, <1>7 DEF CascadeNext

\* The inductive invariant of a repair that runs beside pushes.
THEOREM BackedInvariant == CascadeSpec => [](BackedInv /\ KeepsInv)
<1>1. CascadeInit => BackedInv /\ KeepsInv
  <2> SUFFICES ASSUME CascadeInit PROVE BackedInv /\ KeepsInv  OBVIOUS
  <2>1. \A p \in Publishers : push[p].pc = "idle"  BY DEF CascadeInit, NoJob
  <2>2. DOMAIN tags = {} /\ DOMAIN repair.seen = {} /\ DOMAIN repair.plan = {} /\ repair.pc = "idle"
    BY EmptyIs, NoRepairIs DEF CascadeInit
  <2>3. prune.pc = "idle"  BY DEF CascadeInit, NoPrune
  <2>4. AllBacked(tags, tags) /\ AllBacked(tags, repair.seen) /\ AllBacked(tags, repair.plan)
    BY <2>2 DEF AllBacked
  <2>5. \A p \in Publishers : JobBacked(tags, push[p])  BY <2>1 DEF JobBacked
  <2> QED BY <2>2, <2>3, <2>4, <2>5 DEF BackedInv, KeepsInv
<1>2. TypeInv /\ RepairInv /\ BackedInv /\ KeepsInv /\ [CascadeNext]_cascadeVars => (BackedInv /\ KeepsInv)'
  BY BackedStep, KeepsStep
<1> QED BY <1>1, <1>2, CascadeTypes, RepairInvariant, PTL DEF CascadeSpec

\* A repair whose gather was not disturbed never replaces, in an alias that it
\* read again, an entry that is right by what the registry holds at that
\* moment, whatever pushes wrote since the gather.
THEOREM RepairsKeepRight == CascadeSpec => RepairKeepsRight
<1> DEFINE Keeps ==
      \A t \in repair.confirmed :
          PutAlias(t) /\ ~repair.torn /\ t \in DOMAIN tags /\ Separate /\ Unambiguous
              => \A q \in DOMAIN tags[t] \cap DOMAIN Expected(tags, t) :
                    tags[t][q] = Expected(tags, t)[q]
                        => q \in DOMAIN tags'[t] /\ tags'[t][q] = tags[t][q]
<1>1. TypeInv /\ RepairInv /\ KeepsInv => Keeps
  <2> SUFFICES ASSUME TypeInv, RepairInv, KeepsInv,
                      NEW t \in repair.confirmed, PutAlias(t), ~repair.torn, t \in DOMAIN tags,
                      Separate, Unambiguous,
                      NEW q \in DOMAIN tags[t] \cap DOMAIN Expected(tags, t),
                      tags[t][q] = Expected(tags, t)[q]
               PROVE  q \in DOMAIN tags'[t] /\ tags'[t][q] = tags[t][q]
    OBVIOUS
  <2> DEFINE seen == repair.seen
             c == tags[t][q]
  <2>1. /\ repair.pc = "apply" /\ t \in DOMAIN repair.plan /\ t \in Tag
        /\ tags' = SetTag(t, repair.plan[t])
    BY PutIs
  <2>2. tags'[t] = repair.plan[t]  BY <2>1, SetTagIs
  <2>3. /\ IndexAt(tags, t) = IndexAt(seen, t)
        /\ Agree \/ (AllBacked(seen, seen) /\ AllBacked(tags, seen))
    BY <2>1 DEF KeepsInv
  <2>4. /\ CampaignOK /\ tags \in TagMap /\ seen \in TagMap
        /\ Versions(tags) \in SUBSET Tag /\ Versions(seen) \in SUBSET Tag
        /\ \A v \in DOMAIN seen : DOMAIN seen[v] # {} /\ GoodAt(v, seen[v])
        /\ \A v \in DOMAIN tags : DOMAIN tags[v] # {} /\ GoodAt(v, tags[v])
    BY SeenIs DEF TypeInv
  <2>5. t \in DOMAIN seen /\ seen[t] = tags[t]
    BY <2>3, <2>4, IndexAtIs
  <2>6. /\ t \in AliasUniverse(Versions(seen))
        /\ Covers(repair.plan[t], Expected(seen, t))
    BY <2>1, PutApart DEF RepairInv, PlanInv
  <2>7. CASE Agree
    <3>1. Expected(tags, t) = Expected(seen, t)  BY <2>7, AgreeIs
    <3> QED BY <2>2, <2>6, <3>1 DEF Covers
  <2>8. CASE AllBacked(seen, seen) /\ AllBacked(tags, seen)
    <3> DEFINE v == OnTrack(c, t)
               w == Greatest(Sources(seen, t, q))
               g == Greatest(Sources(tags, t, q))
    <3>1. GoodAt(t, seen[t]) /\ q \in DOMAIN seen[t] /\ seen[t][q] = c  BY <2>4, <2>5
    <3>2. v \in Subjects /\ v \in Tag /\ IsVersion(v) /\ t \in {v} \cup Targets(v)
      BY <2>4, <3>1, GoodEntry, SubjectsAre
    <3>3. t \in Targets(v)  BY <2>4, <2>6, <3>2, AliasApart
    <3>4. HasEntry(seen, v, q) /\ HasEntry(tags, v, q)
      BY <2>5, <2>8, <3>1 DEF AllBacked, BackedBy
    <3>5. v \in Sources(seen, t, q)
      <4>1. v \notin AliasUniverse(Versions(seen))  BY <2>4, <3>2, AliasApart
      <4> QED BY <3>2, <3>3, <3>4, <4>1, SourcesIs DEF HasEntry
    <3>6. q \in DOMAIN Expected(seen, t)  BY <2>4, <3>5, ExpectedIs
    <3>7. /\ w \in Sources(seen, t, q) /\ (w = v \/ Less(v, w))
          /\ Expected(seen, t)[q] = seen[w][q]
      BY <2>4, <3>5, <3>6, ExpectedIs
    <3>8. /\ g \in Sources(tags, t, q) /\ \A x \in Sources(tags, t, q) : g = x \/ Less(x, g)
          /\ c = tags[g][q]
      BY <2>4, ExpectedIs
    <3> HIDE DEF v, w, g
    \* The version the plan takes was published, and is there still.
    <3>9. w \in DOMAIN seen /\ IsVersion(w) /\ w \notin AliasUniverse(Versions(seen))
          /\ t \in Targets(w) /\ q \in DOMAIN seen[w] /\ w \in Tag
      BY <2>4, <3>7, SourcesIs, TagMapIs
    <3>10. OnTrack(seen[w][q], w) = w /\ w \in Subjects
      <4> DEFINE x == OnTrack(seen[w][q], w)
      <4>1. x \in Subjects /\ IsVersion(x) /\ w \in {x} \cup Targets(x)
        BY <2>4, <3>9, GoodEntry, SubjectsAre
      <4>2. HasEntry(seen, x, q)  BY <2>8, <3>9 DEF AllBacked, BackedBy
      <4>3. x \in Versions(seen)  BY <4>1, <4>2 DEF HasEntry, Versions
      <4>4. w \notin Targets(x)  BY <2>4, <3>9, <4>3, UniverseIs
      <4> QED BY <4>1, <4>4
    <3>11. HasEntry(tags, w, q)
      <4>1. HasEntry(tags, OnTrack(seen[w][q], w), q)  BY <2>8, <3>9 DEF AllBacked, BackedBy
      <4> QED BY <3>10, <4>1
    <3>12. w \in Sources(tags, t, q)
      <4>1. w \notin AliasUniverse(Versions(tags))  BY <2>4, <3>10, AliasApart
      <4> QED BY <3>9, <3>11, <4>1, SourcesIs DEF HasEntry
    \* The version the alias should serve is the one it serves.
    <3>13. g \in DOMAIN tags /\ g \notin AliasUniverse(Versions(tags)) /\ t \in Targets(g)
           /\ q \in DOMAIN tags[g] /\ g \in Tag
      BY <2>4, <3>8, SourcesIs, TagMapIs
    <3>14. g = v
      <4>1. t[1] = g[1]  BY <3>13, TargetAbove
      <4>2. OnTrack(tags[g][q], g) = v  BY <3>8, <4>1 DEF OnTrack, v
      <4>3. g \in {v} \cup Targets(v)  BY <2>4, <3>13, <4>2, GoodEntry
      <4>4. v \in Versions(tags)  BY <3>2, <3>4 DEF HasEntry, Versions
      <4>5. g \notin Targets(v)  BY <2>4, <3>13, <4>4, UniverseIs
      <4> QED BY <4>3, <4>5
    <3>15. w = v
      <4>1. g = w \/ Less(w, g)  BY <3>8, <3>12
      <4> QED BY <3>2, <3>7, <3>9, <3>14, <4>1, LessTransitive, LessIrreflexive
    <3>16. seen[v][q] = c
      <4>1. GoodAt(v, seen[v]) /\ q \in DOMAIN seen[v]  BY <2>4, <3>4 DEF HasEntry
      <4>2. v = OnTrack(seen[t][q], t)  BY <3>1 DEF v
      <4>3. seen[v][q] = seen[t][q]  BY <2>4, <3>1, <4>1, <4>2, OwnEntry
      <4> QED BY <3>1, <4>3
    <3>17. q \in DOMAIN repair.plan[t] /\ repair.plan[t][q] = Expected(seen, t)[q]
      BY <2>6, <3>6 DEF Covers
    <3> QED BY <2>2, <3>7, <3>15, <3>16, <3>17
  <2> QED BY <2>3, <2>7, <2>8
<1>2. TypeInv /\ RepairInv /\ BackedInv /\ KeepsInv => [Keeps]_cascadeVars
  BY <1>1
<1> QED BY <1>2, CascadeTypes, RepairInvariant, BackedInvariant, PTL DEF RepairKeepsRight
================================================================================
