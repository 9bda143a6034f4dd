---------------------------- MODULE OrderLemmas -----------------------------
(***************************************************************************)
(* Facts the other proofs need: about sets of numbers (there is a least    *)
(* one, they can be gone through in order), about what the operators of    *)
(* Selections return, about how often a sequence has a member, and that    *)
(* what is computed step by step exists.                                   *)
(***************************************************************************)
EXTENDS Selections, FiniteSetTheorems, SequenceTheorems, WellFoundedInduction, TLAPS

\* A set of numbers has a least one.
LEMMA LeastNumber ==
    ASSUME NEW S \in SUBSET Nat, S # {}
    PROVE  \E n \in S : \A m \in S : n <= m
<1>1. PICK n \in S : \A m \in S : ~(<<m, n>> \in OpToRel(<, Nat))
  BY WFMin, NatLessThanWellFounded
<1>2. ASSUME NEW m \in S, m < n PROVE FALSE
  <2>1. <<m, n>> \in Nat \X Nat /\ <<m, n>>[1] < <<m, n>>[2]
    BY <1>2
  <2>2. <<m, n>> \in OpToRel(<, Nat)
    BY <2>1, Zenon DEF OpToRel
  <2> QED
    BY <1>1, <2>2
<1>3. \A m \in S : n <= m
  BY <1>2
<1> QED
  BY <1>3

\* The members of ids in their order, none left out.
Ordered(s, k, ids) ==
    /\ s \in [1 .. k -> ids]
    /\ \A x, y \in 1 .. k : x < y => s[x] < s[y]
    /\ \A v \in ids : \E x \in 1 .. k : s[x] = v

\* Any set of positions can be gone through in order.
LEMMA CanBeOrdered ==
    ASSUME NEW a \in Nat, NEW b \in Nat, NEW ids \in SUBSET (a + 1 .. b)
    PROVE  \E s : Ordered(s, Cardinality(ids), ids)
<1> DEFINE Bad == {m \in Nat : \E S \in SUBSET (a + 1 .. m) : \A s : ~Ordered(s, Cardinality(S), S)}
<1>1. ASSUME Bad # {} PROVE FALSE
  <2>1. Bad \in SUBSET Nat
    OBVIOUS
  <2>2. PICK m \in Bad : \A other \in Bad : m <= other
    BY <1>1, <2>1, LeastNumber
  <2>3. m \in Nat
    BY <2>1
  <2>4. PICK S \in SUBSET (a + 1 .. m) : \A s : ~Ordered(s, Cardinality(S), S)
    BY <2>2
  <2> HIDE DEF Bad
  <2>5. CASE S = {}
    <3>1. Cardinality(S) = 0
      BY <2>5, FS_EmptySet
    <3>2. Ordered(<<>>, 0, S)
      BY <2>5 DEF Ordered
    <3> QED
      BY <2>4, <3>1, <3>2
  <2>6. CASE S # {}
    <3>0. \A e \in S : e \in Nat /\ a + 1 <= e /\ e <= m
      BY <2>3
    <3>1. m > a /\ m - 1 \in Nat
      <4>1. PICK e \in S : TRUE
        BY <2>6
      <4>2. e \in Nat /\ a + 1 <= e /\ e <= m
        BY <3>0
      <4> QED
        BY <2>3, <4>2
    <3>2. m - 1 \notin Bad
      BY <2>2, <2>3, <3>1
    <3>3. \A T \in SUBSET (a + 1 .. m - 1) : \E s : Ordered(s, Cardinality(T), T)
      BY <3>1, <3>2 DEF Bad
    <3>4. CASE m \notin S
      <4>1. S \in SUBSET (a + 1 .. m - 1)
        BY <2>3, <3>0, <3>1, <3>4
      <4> QED
        BY <2>4, <3>3, <4>1
    <3>5. CASE m \in S
      <4>1. S \ {m} \in SUBSET (a + 1 .. m - 1)
        BY <2>3, <3>0, <3>1
      <4>2. PICK s : Ordered(s, Cardinality(S \ {m}), S \ {m})
        BY <3>3, <4>1
      <4>3. IsFiniteSet(S)
        <5>1. IsFiniteSet(a + 1 .. m)
          BY <2>3, FS_Interval
        <5> QED
          BY <5>1, FS_Subset
      <4>4. PICK k \in Nat : k = Cardinality(S \ {m}) /\ Cardinality(S) = k + 1
        <5>1. Cardinality(S) \in Nat /\ Cardinality(S \ {m}) = Cardinality(S) - 1
          BY <3>5, <4>3, FS_RemoveElement, FS_CardinalityType
        <5>2. IsFiniteSet(S \ {m})
          BY <4>3, FS_Subset
        <5>3. Cardinality(S \ {m}) \in Nat
          BY <5>2, FS_CardinalityType
        <5> QED
          BY <5>1, <5>3
      <4>5. PICK t : t = [x \in 1 .. k + 1 |-> IF x = k + 1 THEN m ELSE s[x]]
        OBVIOUS
      <4>6. /\ s \in [1 .. k -> S \ {m}]
            /\ \A x, y \in 1 .. k : x < y => s[x] < s[y]
            /\ \A v \in S \ {m} : \E x \in 1 .. k : s[x] = v
        BY <4>2, <4>4 DEF Ordered
      <4>7. \A x \in 1 .. k : s[x] \in S /\ s[x] < m
        <5> SUFFICES ASSUME NEW x \in 1 .. k PROVE s[x] \in S /\ s[x] < m
          OBVIOUS
        <5>1. PICK e \in S : e = s[x] /\ e # m
          BY <4>6
        <5>2. e \in Nat /\ e <= m
          BY <3>0
        <5> QED
          BY <2>3, <5>1, <5>2
      <4>0. \A x \in 1 .. k + 1 : t[x] = IF x = k + 1 THEN m ELSE s[x]
        BY <4>5
      <4>8. /\ \A x \in 1 .. k : x \in 1 .. k + 1 /\ t[x] = s[x]
            /\ k + 1 \in 1 .. k + 1 /\ t[k + 1] = m
            /\ \A x \in 1 .. k + 1 : x = k + 1 \/ x \in 1 .. k
        <5>1. ASSUME NEW x \in 1 .. k PROVE x \in 1 .. k + 1 /\ x # k + 1
          BY <4>4
        <5>2. k + 1 \in 1 .. k + 1
          BY <4>4
        <5>3. ASSUME NEW x \in 1 .. k + 1, x # k + 1 PROVE x \in 1 .. k
          BY <4>4, <5>3
        <5> QED
          BY <4>0, <5>1, <5>2, <5>3
      <4>9. t \in [1 .. k + 1 -> S]
        BY <3>5, <4>5, <4>7, <4>8
      <4>10. \A x, y \in 1 .. k + 1 : x < y => t[x] < t[y]
        <5> SUFFICES ASSUME NEW x \in 1 .. k + 1, NEW y \in 1 .. k + 1, x < y
                     PROVE  t[x] < t[y]
          OBVIOUS
        <5>1. x \in 1 .. k
          BY <4>4
        <5>2. CASE y = k + 1
          BY <4>7, <4>8, <5>1, <5>2
        <5>3. CASE y \in 1 .. k
          BY <4>6, <4>8, <5>1, <5>3
        <5> QED
          BY <4>8, <5>2, <5>3
      <4>11. \A v \in S : \E x \in 1 .. k + 1 : t[x] = v
        BY <4>6, <4>8
      <4>12. Ordered(t, k + 1, S)
        BY <4>9, <4>10, <4>11 DEF Ordered
      <4> QED
        BY <2>4, <4>4, <4>12
    <3> QED
      BY <3>4, <3>5
  <2> QED
    BY <2>5, <2>6
<1>2. b \notin Bad
  BY <1>1
<1> QED
  BY <1>2

\* Ascending does what it says.
LEMMA AscendingIs ==
    ASSUME NEW a \in Nat, NEW b \in Nat, NEW ids \in SUBSET (a + 1 .. b)
    PROVE  Ordered(Ascending(ids), Cardinality(ids), ids)
<1>1. \E s : Ordered(s, Cardinality(ids), ids)
  BY CanBeOrdered
<1> QED
  BY <1>1 DEF Ascending, Ordered

\* Picked returns the members at these positions, each once.
LEMMA PickedIs ==
    ASSUME NEW S, NEW s \in Seq(S), NEW ids \in SUBSET (1 .. Len(s))
    PROVE  /\ Picked(s, ids) \in Seq(S) /\ Len(Picked(s, ids)) = Cardinality(ids)
           /\ \E f \in [1 .. Len(Picked(s, ids)) -> ids] :
                /\ \A a, b \in 1 .. Len(Picked(s, ids)) : f[a] = f[b] => a = b
                /\ \A id \in ids : \E a \in 1 .. Len(Picked(s, ids)) : f[a] = id
                /\ \A a \in 1 .. Len(Picked(s, ids)) : Picked(s, ids)[a] = s[f[a]]
<1>1. Len(s) \in Nat
  OBVIOUS
<1>2. PICK k \in Nat : k = Cardinality(ids)
  <2>1. IsFiniteSet(1 .. Len(s))
    BY <1>1, FS_Interval
  <2> QED
    BY <2>1, FS_Subset, FS_CardinalityType
<1>3. PICK f : f = Ascending(ids)
  OBVIOUS
<1>4. Ordered(f, k, ids)
  <2>1. ids \in SUBSET (0 + 1 .. Len(s))
    OBVIOUS
  <2> QED
    BY <1>1, <1>2, <1>3, <2>1, AscendingIs
<1>5. PICK t : t = Picked(s, ids)
  OBVIOUS
<1>6. t = [a \in 1 .. k |-> s[f[a]]]
  BY <1>2, <1>3, <1>5 DEF Picked
<1>7. /\ f \in [1 .. k -> ids]
      /\ \A a, b \in 1 .. k : a < b => f[a] < f[b]
      /\ \A id \in ids : \E a \in 1 .. k : f[a] = id
  BY <1>4 DEF Ordered
<1>8. \A a \in 1 .. k : f[a] \in 1 .. Len(s) /\ t[a] = s[f[a]] /\ s[f[a]] \in S
  <2> SUFFICES ASSUME NEW a \in 1 .. k
               PROVE  f[a] \in 1 .. Len(s) /\ t[a] = s[f[a]] /\ s[f[a]] \in S
    OBVIOUS
  <2>1. PICK v \in ids : v = f[a]
    BY <1>7
  <2>2. v \in 1 .. Len(s)
    BY <2>1
  <2>3. s[v] \in S
    BY <2>2
  <2>4. t[a] = s[f[a]]
    BY <1>6
  <2> QED
    BY <2>1, <2>2, <2>3, <2>4
<1>9. t \in Seq(S) /\ Len(t) = k
  <2>1. t \in [1 .. k -> S]
    BY <1>6, <1>8
  <2> QED
    BY <1>2, <2>1, IsASeq, LenProperties
<1>10. \A a, b \in 1 .. k : f[a] = f[b] => a = b
  <2> SUFFICES ASSUME NEW a \in 1 .. k, NEW b \in 1 .. k, f[a] = f[b], a # b PROVE FALSE
    OBVIOUS
  <2>1. f[a] \in Nat /\ f[b] \in Nat
    BY <1>8
  <2>2. a < b \/ b < a
    BY <1>2
  <2>3. f[a] < f[b] \/ f[b] < f[a]
    BY <1>7, <2>2
  <2> QED
    BY <2>1, <2>3
<1>11. /\ Picked(s, ids) \in Seq(S) /\ Len(Picked(s, ids)) = Cardinality(ids)
       /\ Len(Picked(s, ids)) = k
  BY <1>2, <1>5, <1>9
<1>12. \A a \in 1 .. k : Picked(s, ids)[a] = s[f[a]]
  BY <1>5, <1>8
<1> QED
  BY <1>7, <1>10, <1>11, <1>12, Zenon

\* t has the members of s at the positions f names, and these are ids.
PickedBy(f, t, s, ids) ==
    /\ f \in [1 .. Len(t) -> ids]
    /\ \A a, b \in 1 .. Len(t) : f[a] = f[b] => a = b
    /\ \A id \in ids : \E a \in 1 .. Len(t) : f[a] = id
    /\ \A a \in 1 .. Len(t) : t[a] = s[f[a]]

LEMMA PickedHas ==
    ASSUME NEW S, NEW s \in Seq(S), NEW ids \in SUBSET (1 .. Len(s))
    PROVE  \E f : PickedBy(f, Picked(s, ids), s, ids)
<1>1. PICK f \in [1 .. Len(Picked(s, ids)) -> ids] :
        /\ \A a, b \in 1 .. Len(Picked(s, ids)) : f[a] = f[b] => a = b
        /\ \A id \in ids : \E a \in 1 .. Len(Picked(s, ids)) : f[a] = id
        /\ \A a \in 1 .. Len(Picked(s, ids)) : Picked(s, ids)[a] = s[f[a]]
  BY PickedIs
<1> QED
  BY <1>1, Zenon DEF PickedBy

-----------------------------------------------------------------------------
(* Counting.                                                               *)

\* Sets whose members pair off have as many.
LEMMA PairedOff ==
    ASSUME NEW S, NEW T, IsFiniteSet(S), NEW f \in [S -> T],
           \A x, y \in S : f[x] = f[y] => x = y,
           \A v \in T : \E x \in S : f[x] = v
    PROVE  IsFiniteSet(T) /\ Cardinality(T) = Cardinality(S)
<1>1. f \in Bijection(S, T)
  BY DEF Bijection, Injection, Surjection, IsInjective
<1>2. ExistsBijection(S, T)
  BY <1>1 DEF ExistsBijection
<1> QED
  BY <1>2, FS_Bijection

\* Positions of a sequence are finitely many.
LEMMA PositionsFinite ==
    ASSUME NEW n \in Nat, NEW P \in SUBSET (1 .. n)
    PROVE  IsFiniteSet(P) /\ Cardinality(P) \in Nat
<1>1. IsFiniteSet(1 .. n)
  BY FS_Interval
<1> QED
  BY <1>1, FS_Subset, FS_CardinalityType

LEMMA CountType ==
    ASSUME NEW S, NEW s \in Seq(S), NEW p
    PROVE  CountOf(s, p) \in Nat
<1>1. {i \in 1 .. Len(s) : s[i] = p} \in SUBSET (1 .. Len(s)) /\ Len(s) \in Nat
  OBVIOUS
<1> QED
  BY <1>1, PositionsFinite DEF CountOf

\* A sequence without p has it zero times, and only such a one.
LEMMA CountZero ==
    ASSUME NEW S, NEW s \in Seq(S), NEW p
    PROVE  CountOf(s, p) = 0 <=> \A i \in 1 .. Len(s) : s[i] # p
<1> DEFINE P == {i \in 1 .. Len(s) : s[i] = p}
<1>1. P \in SUBSET (1 .. Len(s)) /\ Len(s) \in Nat
  OBVIOUS
<1>2. IsFiniteSet(P)
  BY <1>1, PositionsFinite
<1>3. Cardinality(P) = 0 <=> P = {}
  BY <1>2, FS_EmptySet
<1> QED
  BY <1>3 DEF CountOf

\* p is there once if it is at one position and no other.
LEMMA CountOne ==
    ASSUME NEW S, NEW s \in Seq(S), NEW p, NEW k \in 1 .. Len(s), s[k] = p,
           \A i \in 1 .. Len(s) : s[i] = p => i = k
    PROVE  CountOf(s, p) = 1
<1>1. {i \in 1 .. Len(s) : s[i] = p} = {k}
  OBVIOUS
<1> QED
  BY <1>1, FS_Singleton DEF CountOf

\* p is there once only if it is at one position and no other.
LEMMA CountedOnce ==
    ASSUME NEW S, NEW s \in Seq(S), NEW p, CountOf(s, p) <= 1,
           NEW i \in 1 .. Len(s), NEW j \in 1 .. Len(s), s[i] = p, s[j] = p
    PROVE  i = j
<1> DEFINE P == {m \in 1 .. Len(s) : s[m] = p}
<1>1. P \in SUBSET (1 .. Len(s)) /\ Len(s) \in Nat
  OBVIOUS
<1>2. IsFiniteSet(P) /\ Cardinality(P) \in Nat
  BY <1>1, PositionsFinite
<1>3. i \in P /\ j \in P
  OBVIOUS
<1>4. IsFiniteSet(P \ {i}) /\ Cardinality(P \ {i}) = Cardinality(P) - 1
  BY <1>2, <1>3, FS_RemoveElement
<1>5. Cardinality(P \ {i}) \in Nat
  BY <1>4, FS_CardinalityType
<1>6. Cardinality(P) <= 1
  BY DEF CountOf
<1>7. Cardinality(P \ {i}) = 0
  BY <1>2, <1>4, <1>5, <1>6
<1>8. P \ {i} = {}
  BY <1>4, <1>7, FS_EmptySet
<1> QED
  BY <1>3, <1>8

\* The occurrences in a concatenation are those in its halves.
LEMMA CountConcat ==
    ASSUME NEW S, NEW s \in Seq(S), NEW t \in Seq(S), NEW p
    PROVE  CountOf(s \o t, p) = CountOf(s, p) + CountOf(t, p)
<1>1. PICK m \in Nat, n \in Nat : m = Len(s) /\ n = Len(t)
  OBVIOUS
<1>2. PICK u : u = s \o t
  OBVIOUS
<1>3. /\ Len(u) = m + n
      /\ \A i \in 1 .. m : u[i] = s[i]
      /\ \A i \in 1 .. n : u[m + i] = t[i]
  BY <1>1, <1>2
<1> DEFINE A == {i \in 1 .. m : s[i] = p}
           B == {i \in 1 .. n : t[i] = p}
           C == {i \in 1 .. m + n : u[i] = p}
           D == C \ A
           f == [i \in B |-> m + i]
<1>4. A \in SUBSET (1 .. m) /\ B \in SUBSET (1 .. n)
  OBVIOUS
<1>5. IsFiniteSet(A) /\ IsFiniteSet(B) /\ Cardinality(A) \in Nat /\ Cardinality(B) \in Nat
  BY <1>4, PositionsFinite
<1>6. A \subseteq C
  BY <1>3
<1>7. \A i \in B : m + i \in D
  <2> SUFFICES ASSUME NEW i \in B PROVE m + i \in C /\ m + i \notin A
    OBVIOUS
  <2>1. i \in 1 .. n /\ t[i] = p
    OBVIOUS
  <2>2. m + i \in 1 .. m + n /\ m + i \notin 1 .. m
    BY <2>1
  <2>3. u[m + i] = p
    BY <1>3, <2>1
  <2> QED
    BY <2>2, <2>3
<1>8. \A v \in D : \E i \in B : m + i = v
  <2> SUFFICES ASSUME NEW v \in D PROVE v - m \in B /\ m + (v - m) = v
    OBVIOUS
  <2>1. v \in 1 .. m + n /\ u[v] = p /\ v \notin A
    OBVIOUS
  <2>2. v \notin 1 .. m
    BY <1>3, <2>1
  <2>3. v - m \in 1 .. n /\ m + (v - m) = v
    BY <2>1, <2>2
  <2>4. t[v - m] = p
    BY <1>3, <2>1, <2>3
  <2> QED
    BY <2>3, <2>4
<1>9. f \in [B -> D] /\ (\A x, y \in B : f[x] = f[y] => x = y) /\ \A v \in D : \E x \in B : f[x] = v
  <2>1. f \in [B -> D]
    BY <1>7
  <2>2. \A x, y \in B : f[x] = f[y] => x = y
    BY <1>4
  <2>3. \A v \in D : \E x \in B : f[x] = v
    BY <1>8
  <2> QED
    BY <2>1, <2>2, <2>3
<1> HIDE DEF f
<1>10. IsFiniteSet(D) /\ Cardinality(D) = Cardinality(B)
  BY <1>5, <1>9, PairedOff
<1>11. A \cap D = {} /\ C = A \cup D
  BY <1>6
<1> HIDE DEF A, D
<1>12. Cardinality(C) = Cardinality(A) + Cardinality(B)
  <2>1. Cardinality(A \cap D) = 0
    BY <1>11, FS_EmptySet
  <2>2. Cardinality(A \cup D) = Cardinality(A) + Cardinality(D) - Cardinality(A \cap D)
    BY <1>5, <1>10, FS_Union
  <2>3. Cardinality(C) = Cardinality(A \cup D)
    BY <1>11
  <2> HIDE DEF B, C
  <2> QED
    BY <1>5, <1>10, <2>1, <2>2, <2>3
<1> QED
  BY <1>1, <1>2, <1>3, <1>12 DEF CountOf, A

\* The positions among ids that hold p.
Spots(s, ids, p) == {i \in ids : s[i] = p}

\* What Picked returns has p as often as the positions do.
LEMMA CountPicked ==
    ASSUME NEW S, NEW s \in Seq(S), NEW ids \in SUBSET (1 .. Len(s)), NEW p
    PROVE  CountOf(Picked(s, ids), p) = Cardinality(Spots(s, ids, p))
<1>1. PICK t : t = Picked(s, ids)
  OBVIOUS
<1>2. t \in Seq(S)
  BY <1>1, PickedIs
<1>3. PICK f \in [1 .. Len(t) -> ids] :
        /\ \A a, b \in 1 .. Len(t) : f[a] = f[b] => a = b
        /\ \A id \in ids : \E a \in 1 .. Len(t) : f[a] = id
        /\ \A a \in 1 .. Len(t) : t[a] = s[f[a]]
  BY <1>1, PickedIs, SMTT(30)
<1>4. PICK n \in Nat : n = Len(t)
  BY <1>2
<1> DEFINE A == {a \in 1 .. n : t[a] = p}
           B == {i \in ids : s[i] = p}
           g == [a \in A |-> f[a]]
<1>5. A \in SUBSET (1 .. n)
  OBVIOUS
<1>6. IsFiniteSet(A)
  BY <1>5, PositionsFinite
<1>7. \A a \in A : f[a] \in B
  BY <1>3, <1>4
<1>8. g \in [A -> B]
  BY <1>7
<1>9. \A x, y \in A : g[x] = g[y] => x = y
  BY <1>3, <1>4
<1>10. \A v \in B : \E x \in A : g[x] = v
  <2> SUFFICES ASSUME NEW v \in B PROVE \E x \in A : g[x] = v
    OBVIOUS
  <2>1. PICK x \in 1 .. n : f[x] = v
    BY <1>3, <1>4
  <2>2. x \in A
    BY <1>3, <1>4, <2>1
  <2> QED
    BY <2>1, <2>2
<1> HIDE DEF g
<1>11. Cardinality(B) = Cardinality(A)
  BY <1>6, <1>8, <1>9, <1>10, PairedOff
<1> QED
  BY <1>1, <1>4, <1>11 DEF CountOf, Spots

LEMMA CountEmpty ==
    ASSUME NEW p
    PROVE  CountOf(<<>>, p) = 0
<1>1. {i \in 1 .. Len(<<>>) : <<>>[i] = p} = {}
  OBVIOUS
<1> QED
  BY <1>1, FS_EmptySet DEF CountOf

LEMMA CountSingle ==
    ASSUME NEW x, NEW p
    PROVE  CountOf(<<x>>, p) = IF x = p THEN 1 ELSE 0
<1>1. PICK t : t = <<x>>
  OBVIOUS
<1>2. t \in Seq({x}) /\ Len(t) = 1 /\ t[1] = x /\ 1 \in 1 .. Len(t)
  BY <1>1
<1>3. \A i \in 1 .. Len(t) : i = 1
  BY <1>2
<1>4. CASE x = p
  BY <1>1, <1>2, <1>3, <1>4, CountOne
<1>5. CASE x # p
  <2>1. CountOf(t, p) = 0
    <3>1. \A i \in 1 .. Len(t) : t[i] # p
      BY <1>2, <1>3, <1>5
    <3> QED
      BY <1>2, <3>1, CountZero
  <2> QED
    BY <1>1, <1>5, <2>1
<1> QED
  BY <1>4, <1>5

\* The occurrences in a sequence are its head and those in its tail.
LEMMA CountHead ==
    ASSUME NEW S, NEW s \in Seq(S), s # <<>>, NEW p
    PROVE  CountOf(s, p) = (IF Head(s) = p THEN 1 ELSE 0) + CountOf(Tail(s), p)
<1>1. Head(s) \in S /\ Tail(s) \in Seq(S) /\ s = <<Head(s)>> \o Tail(s)
  BY HeadTailProperties
<1>2. <<Head(s)>> \in Seq(S)
  BY <1>1
<1>3. CountOf(<<Head(s)>> \o Tail(s), p) = CountOf(<<Head(s)>>, p) + CountOf(Tail(s), p)
  BY <1>1, <1>2, CountConcat
<1> QED
  BY <1>1, <1>3, CountSingle

\* A sequence that lists a set has each member once and nothing else.
LEMMA CountOrdering ==
    ASSUME NEW S, IsFiniteSet(S), NEW s \in Orderings(S), NEW p
    PROVE  s \in Seq(S) /\ CountOf(s, p) = IF p \in S THEN 1 ELSE 0
<1>1. PICK n \in Nat : n = Cardinality(S)
  BY FS_CardinalityType
<1>2. /\ s \in [1 .. n -> S]
      /\ \A a, b \in 1 .. n : s[a] = s[b] => a = b
      /\ \A x \in S : \E a \in 1 .. n : s[a] = x
  BY <1>1 DEF Orderings
<1>3. s \in Seq(S) /\ Len(s) = n
  BY <1>2, IsASeq, LenProperties
<1>4. CASE p \in S
  <2>1. PICK a \in 1 .. Len(s) : s[a] = p
    BY <1>2, <1>3, <1>4
  <2>2. \A b \in 1 .. Len(s) : s[b] = p => b = a
    BY <1>2, <1>3, <2>1
  <2> QED
    BY <1>3, <1>4, <2>1, <2>2, CountOne
<1>5. CASE p \notin S
  <2>1. CountOf(s, p) = 0
    BY <1>2, <1>3, <1>5, CountZero
  <2> QED
    BY <1>3, <1>5, <2>1
<1> QED
  BY <1>4, <1>5

\* What is computed step by step exists: f[b] is what step makes of b and f[b - 1].
Iterate(f, n, S, init, step) ==
    /\ f \in [0 .. n -> S] /\ f[0] = init
    /\ \A b \in 1 .. n : f[b] = step[<<b, f[b - 1]>>]

LEMMA Iterates ==
    ASSUME NEW S, NEW init \in S, NEW step \in [Nat \X S -> S], NEW n \in Nat
    PROVE  \E f : Iterate(f, n, S, init, step)
<1> DEFINE Bad == {m \in Nat : ~ \E f : Iterate(f, m, S, init, step)}
<1>1. SUFFICES ASSUME Bad # {} PROVE FALSE
  OBVIOUS
<1>2. Bad \in SUBSET Nat
  OBVIOUS
<1> HIDE DEF Bad
<1>3. PICK m \in Bad : \A k \in Bad : m <= k
  BY <1>1, <1>2, LeastNumber
<1>4. m \in Nat /\ ~ \E f : Iterate(f, m, S, init, step)
  BY <1>3 DEF Bad
<1>5. CASE m = 0
  <2>1. Iterate([b \in 0 .. 0 |-> init], 0, S, init, step)
    BY DEF Iterate
  <2> QED
    BY <2>1, <1>4, <1>5
<1>6. CASE m # 0
  <2>1. m - 1 \in Nat /\ ~(m <= m - 1)
    BY <1>4, <1>6
  <2>2. PICK f : Iterate(f, m - 1, S, init, step)
    BY <2>1, <1>3 DEF Bad
  <2>3. f[m - 1] \in S /\ step[<<m, f[m - 1]>>] \in S
    BY <2>1, <2>2, <1>4 DEF Iterate
  <2>4. PICK g : g = [b \in 0 .. m |-> IF b = m THEN step[<<m, f[m - 1]>>] ELSE f[b]]
    OBVIOUS
  <2>5. g \in [0 .. m -> S] /\ g[0] = init
    BY <2>1, <2>2, <2>3, <2>4, <1>4, <1>6 DEF Iterate
  <2>6. ASSUME NEW b \in 1 .. m PROVE g[b] = step[<<b, g[b - 1]>>]
    <3>1. g[b - 1] = f[b - 1]
      BY <2>4, <1>4
    <3>2. CASE b = m
      BY <3>1, <3>2, <2>4, <1>4
    <3>3. CASE b # m
      <4>1. b \in 1 .. m - 1
        BY <3>3, <1>4
      <4>2. f[b] = step[<<b, f[b - 1]>>]
        BY <4>1, <2>2 DEF Iterate
      <4>3. g[b] = f[b]
        BY <2>4, <3>3, <1>4
      <4> QED
        BY <4>2, <4>3, <3>1
    <3> QED
      BY <3>2, <3>3
  <2> QED
    BY <2>5, <2>6, <1>4 DEF Iterate
<1> QED
  BY <1>5, <1>6

\* And there is no other that follows the same steps.
StepsBy(e, n, S, init, step) ==
    e[0] = init /\ \A b \in 1 .. n : e[b - 1] \in S => e[b] = step[<<b, e[b - 1]>>]

LEMMA IteratesOnce ==
    ASSUME NEW S, NEW init, NEW step, NEW n \in Nat, NEW f, Iterate(f, n, S, init, step),
           NEW e, StepsBy(e, n, S, init, step)
    PROVE  \A b \in 0 .. n : e[b] = f[b] /\ e[b] \in S
<1>1. f \in [0 .. n -> S] /\ f[0] = init /\ \A b \in 1 .. n : f[b] = step[<<b, f[b - 1]>>]
  BY DEF Iterate
<1>2. e[0] = init /\ \A b \in 1 .. n : e[b - 1] \in S => e[b] = step[<<b, e[b - 1]>>]
  BY DEF StepsBy
<1> DEFINE Bad == {k \in 0 .. n : e[k] # f[k]}
<1>3. ASSUME Bad # {} PROVE FALSE
  <2>1. Bad \in SUBSET Nat
    OBVIOUS
  <2>2. PICK k \in Bad : \A j \in Bad : k <= j
    BY <2>1, <1>3, LeastNumber
  <2>3. k # 0
    BY <2>2, <1>1, <1>2
  <2>4. k \in 1 .. n /\ k - 1 \in 0 .. n /\ ~(k <= k - 1)
    BY <2>2, <2>3
  <2>5. e[k - 1] = f[k - 1]
    BY <2>2, <2>4
  <2> QED
    BY <2>2, <2>4, <2>5, <1>1, <1>2
<1> QED
  BY <1>1, <1>3

=============================================================================
