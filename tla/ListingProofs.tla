--------------------------- MODULE ListingProofs ----------------------------
(***************************************************************************)
(* Proofs about the calls that list and look up: page by page (Paging), a  *)
(* batch of photos by name (PhotoLookup), and the tree under a public link *)
(* (Visitor).                                                              *)
(***************************************************************************)
EXTENDS Paging, PhotoLookup, Visitor, OrderLemmas, FiniteSetTheorems, SequenceTheorems, TLAPS

-----------------------------------------------------------------------------
(* Listings.                                                               *)

PagingState ==
    [at : {"idle", "paging", "details", "done"},
     style : {"none", "anchor", "invitations", "timeline", "trash"},
     after : Nat, page : Nat, keep : SUBSET Row, got : Seq(Row), always : SUBSET Row,
     changed : BOOLEAN, skipped : SUBSET Row]
PagingTypes == rows \subseteq Row /\ listing \in [Pager -> PagingState]

Steady(r) == r.style = "trash" => ~r.changed

\* What was there all along still is, while pages are taken.
AlwaysThere(r, there) == r.at = "paging" => r.always \subseteq there

\* By anchor: everything up to it has been listed that had to be, and nothing beyond.
UpToAnchor(r) ==
    r.at = "paging" /\ r.style # "trash" =>
        /\ \A x \in Members(r.got) : x <= r.after
        /\ \A x \in r.always \cap r.keep : x <= r.after => x \in Members(r.got)

\* By number, while nothing changes: the pages taken are the front of the list.
Front(there, n) == {Ascending(there)[j] : j \in 1 .. n}
UpToPage(r, there) ==
    r.at = "paging" /\ r.style = "trash" /\ ~r.changed =>
        /\ r.always = there /\ r.keep = Row
        /\ r.page * PageSize <= Cardinality(there)
        /\ Members(r.got) = Front(there, r.page * PageSize)
ListedAll(r) ==
    r.at \in {"details", "done"} /\ Steady(r) =>
        (r.always \cap r.keep) \ r.skipped \subseteq Members(r.got)
PagerInv(r, there) ==
    /\ AlwaysThere(r, there) /\ UpToAnchor(r) /\ UpToPage(r, there) /\ ListedAll(r)
    /\ Steady(r) => ~Repeats(r.got)
    /\ r.at \in {"paging", "details"} => r.skipped = {}
PagingInv == PagingTypes /\ \A l \in Pager : PagerInv(listing[l], rows)

\* A finite set of numbers has a bound.
LEMMA FiniteBounded ==
    ASSUME NEW S \in SUBSET Nat, IsFiniteSet(S)
    PROVE  \E b \in Nat : \A x \in S : x <= b
<1> DEFINE Bad == {n \in Nat : \E T \in SUBSET Nat : /\ IsFiniteSet(T) /\ Cardinality(T) = n
                                                    /\ \A b \in Nat : \E x \in T : ~(x <= b)}
<1>1. ASSUME Bad # {} PROVE FALSE
  <2>1. PICK n \in Bad : \A m \in Bad : n <= m
    BY <1>1, LeastNumber
  <2>2. PICK T \in SUBSET Nat : /\ IsFiniteSet(T) /\ Cardinality(T) = n
                                /\ \A b \in Nat : \E x \in T : ~(x <= b)
    BY <2>1
  <2>3. PICK x \in T : ~(x <= 0)
    BY <2>2
  <2>4. IsFiniteSet(T \ {x}) /\ Cardinality(T \ {x}) = n - 1
    BY <2>2, FS_RemoveElement
  <2>5. Cardinality(T \ {x}) \in Nat
    BY <2>4, FS_CardinalityType
  <2>6. n - 1 \notin Bad
    BY <2>1, <2>4, <2>5
  <2>7. PICK b \in Nat : \A y \in T \ {x} : y <= b
    <3>1. T \ {x} \in SUBSET Nat
      BY <2>2
    <3> QED
      BY <2>4, <2>5, <2>6, <3>1
  <2>8. PICK c \in Nat : c = IF b < x THEN x ELSE b
    BY <2>2
  <2>9. \A y \in T : y <= c
    BY <2>2, <2>7, <2>8
  <2> QED
    BY <2>2, <2>9
<1> QED
  <2>1. Cardinality(S) \in Nat
    BY FS_CardinalityType
  <2> QED
    BY <1>1, <2>1

\* Rows can be listed in order.
LEMMA RowsOrdered ==
    ASSUME NEW S \in SUBSET Row
    PROVE  Cardinality(S) \in Nat /\ Ordered(Ascending(S), Cardinality(S), S)
<1>1. IsFiniteSet(S) /\ S \in SUBSET Nat
  BY PagingAssumption, FS_Subset
<1>2. PICK b \in Nat : \A x \in S : x <= b
  BY <1>1, FiniteBounded
<1>3. S \in SUBSET (0 + 1 .. b)
  BY <1>2, PagingAssumption
<1> QED
  BY <1>1, <1>3, AscendingIs, FS_CardinalityType

\* A slice of an ordered listing.
Slice(t, s, S, from, to) ==
    /\ t \in Seq(S) /\ Len(t) = to - from
    /\ \A j \in 1 .. to - from : t[j] = s[from + j]
LEMMA NoneTwice ==
    ASSUME NEW s, NEW n \in Nat, NEW S, S \subseteq Nat, Ordered(s, n, S)
    PROVE  \A x, y \in 1 .. n : s[x] = s[y] => x = y
<1>1. s \in [1 .. n -> S] /\ \A x, y \in 1 .. n : x < y => s[x] < s[y]
  BY DEF Ordered
<1> SUFFICES ASSUME NEW x \in 1 .. n, NEW y \in 1 .. n, s[x] = s[y], x # y PROVE FALSE
  OBVIOUS
<1>2. s[x] \in Nat /\ s[y] \in Nat
  BY <1>1
<1>3. x < y \/ y < x
  OBVIOUS
<1> QED
  BY <1>1, <1>2, <1>3

LEMMA SliceIs ==
    ASSUME NEW s, NEW n \in Nat, NEW S, S \subseteq Nat, Ordered(s, n, S),
           NEW from \in Nat, NEW to \in Nat, from <= to, to <= n,
           NEW t, t = SubSeq(s, from + 1, to)
    PROVE  Slice(t, s, S, from, to)
<1>1. s \in [1 .. n -> S]
  BY DEF Ordered
<1>2. s \in Seq(S) /\ Len(s) = n
  BY <1>1, IsASeq, LenProperties
<1>3. t \in Seq(S) /\ Len(t) = to - from /\ \A j \in 1 .. to - from : t[j] = s[from + j]
  BY <1>2
<1> QED
  BY <1>3 DEF Slice

\* A page after an anchor: the next rows, and all of them if the page is not full.
PageOf(page, anchor) ==
    /\ page \in Seq(Row) /\ ~Repeats(page)
    /\ \A x \in Members(page) : x \in rows /\ x > anchor
    /\ page = <<>> => \A x \in rows : x <= anchor
    /\ page # <<>> => /\ LastOf(page) \in Members(page)
                      /\ \A x \in Members(page) : x <= LastOf(page)
                      /\ \A x \in rows : anchor < x /\ x <= LastOf(page) => x \in Members(page)
    /\ ~FullPage(page) => \A x \in rows : x > anchor => x \in Members(page)

LEMMA PageAfterIs ==
    ASSUME rows \subseteq Row, NEW anchor \in Nat
    PROVE  PageOf(PageAfter(anchor), anchor)
<1>1. PICK S : S = {r \in rows : r > anchor}
  OBVIOUS
<1>2. S \in SUBSET Row /\ S \subseteq Nat
  BY <1>1, PagingAssumption
<1>3. PICK n \in Nat : n = Cardinality(S)
  BY <1>2, RowsOrdered
<1>4. PICK s : s = Ascending(S)
  OBVIOUS
<1>5. Ordered(s, n, S)
  BY <1>2, <1>3, <1>4, RowsOrdered
<1>6. /\ s \in [1 .. n -> S]
      /\ \A x, y \in 1 .. n : x < y => s[x] < s[y]
      /\ \A v \in S : \E x \in 1 .. n : s[x] = v
  BY <1>5 DEF Ordered
<1>7. Len(s) = n
  BY <1>6, LenProperties
<1>8. PICK m : m = IF n < PageSize THEN n ELSE PageSize
  OBVIOUS
<1>9. m \in Nat /\ m <= n /\ m <= PageSize /\ (m < PageSize => m = n) /\ (m = 0 => n = 0)
  BY <1>8, PagingAssumption
<1>10. PICK page : page = PageAfter(anchor)
  OBVIOUS
<1>11. page = SubSeq(s, 1, m)
  BY <1>1, <1>4, <1>7, <1>8, <1>10 DEF PageAfter
<1>12. page \in Seq(S) /\ Len(page) = m /\ \A j \in 1 .. m : page[j] = s[j]
  <2>1. page = SubSeq(s, 0 + 1, m)
    BY <1>11
  <2>3. 0 \in Nat /\ m \in Nat /\ 0 <= m /\ m <= n
    BY <1>9
  <2>2. Slice(page, s, S, 0, m)
    BY <1>2, <1>5, <2>1, <2>3, SliceIs, Zenon
  <2> QED
    BY <1>9, <2>2 DEF Slice
<1>13. \A x, y \in 1 .. n : s[x] = s[y] => x = y
  BY <1>2, <1>5, NoneTwice
<1>14. page \in Seq(Row)
  <2>1. page \in Seq(S) /\ S \subseteq Row
    BY <1>2, <1>12
  <2> QED
    BY <2>1
<1>15. ~Repeats(page)
  BY <1>9, <1>12, <1>13 DEF Repeats
<1>16. \A x : x \in Members(page) <=> \E j \in 1 .. m : x = s[j]
  BY <1>12, <1>13 DEF Members
<1>17. \A x \in Members(page) : x \in rows /\ x > anchor
  BY <1>1, <1>6, <1>9, <1>16
<1>18. \A j \in 1 .. n : s[j] \in Nat
  BY <1>2, <1>6
<1>19. \A v \in rows : v > anchor => \E j \in 1 .. n : s[j] = v
  BY <1>1, <1>6
<1>20. ASSUME page = <<>> PROVE \A x \in rows : x <= anchor
  <2>1. n = 0
    BY <1>9, <1>12, <1>20
  <2>2. \A x \in rows : x \in Nat
    BY PagingAssumption
  <2> QED
    BY <1>19, <2>1, <2>2
<1>21. ASSUME page # <<>>
       PROVE  /\ LastOf(page) \in Members(page)
              /\ \A x \in Members(page) : x <= LastOf(page)
              /\ \A x \in rows : anchor < x /\ x <= LastOf(page) => x \in Members(page)
  <2>1. m \in 1 .. m /\ m \in 1 .. n
    BY <1>9, <1>12, <1>14, <1>21
  <2>2. LastOf(page) = s[m] /\ s[m] \in Nat
    BY <1>12, <1>13, <1>18, <2>1 DEF LastOf
  <2>3. ASSUME NEW x \in Members(page) PROVE x <= s[m]
    <3>1. PICK j \in 1 .. m : x = s[j]
      BY <1>16
    <3>2. j = m \/ (j < m /\ j \in 1 .. n)
      BY <1>9
    <3> QED
      BY <1>6, <1>18, <2>1, <3>1, <3>2
  <2>4. ASSUME NEW x \in rows, anchor < x, x <= s[m] PROVE x \in Members(page)
    <3>1. PICK j \in 1 .. n : s[j] = x
      BY <1>19, <2>4
    <3>2. ~(m < j)
      BY <1>6, <1>18, <2>1, <2>4, <3>1
    <3>3. j \in 1 .. m
      BY <1>9, <3>2
    <3> QED
      BY <1>16, <3>1, <3>3
  <2> QED
    BY <1>16, <2>1, <2>2, <2>3, <2>4
<1>22. ASSUME ~FullPage(page) PROVE \A x \in rows : x > anchor => x \in Members(page)
  <2>1. m = n
    BY <1>9, <1>12, <1>22, PagingAssumption DEF FullPage
  <2> QED
    BY <1>16, <1>19, <2>1
<1> QED
  BY <1>10, <1>14, <1>15, <1>17, <1>20, <1>21, <1>22 DEF PageOf

\* A page has rows, none twice, whatever its number.
LEMMA NumberedPageTyped ==
    ASSUME rows \subseteq Row, NEW p \in Nat
    PROVE  PageNumber(p) \in Seq(Row) /\ ~Repeats(PageNumber(p))
<1>1. PICK n \in Nat : n = Cardinality(rows)
  BY RowsOrdered
<1>2. PICK s : s = Ascending(rows)
  OBVIOUS
<1>3. Ordered(s, n, rows) /\ rows \subseteq Nat
  BY <1>1, <1>2, RowsOrdered, PagingAssumption
<1>4. s \in [1 .. n -> rows]
  BY <1>3 DEF Ordered
<1>5. PICK from \in Nat : from = p * PageSize
  BY PagingAssumption
<1>6. (p + 1) * PageSize = from + PageSize
  BY <1>5, PagingAssumption
<1>7. Len(s) = n
  BY <1>1, <1>4, LenProperties
<1>8. PICK to : to = IF from + PageSize < n THEN from + PageSize ELSE n
  OBVIOUS
<1>9. to \in Nat /\ to <= n
  BY <1>1, <1>5, <1>8, PagingAssumption
<1>10. PICK page : page = PageNumber(p)
  OBVIOUS
<1>11. page = SubSeq(s, from + 1, to)
  BY <1>2, <1>5, <1>6, <1>7, <1>8, <1>10 DEF PageNumber
<1>12. CASE from <= to
  <2>1. Slice(page, s, rows, from, to)
    BY <1>3, <1>9, <1>11, <1>12, SliceIs, Zenon
  <2>2. /\ page \in Seq(rows) /\ Len(page) = to - from
        /\ \A j \in 1 .. to - from : page[j] = s[from + j]
    BY <2>1 DEF Slice
  <2>3. \A x, y \in 1 .. n : s[x] = s[y] => x = y
    BY <1>3, NoneTwice
  <2>4. page \in Seq(Row)
    BY <2>2
  <2>5. ~Repeats(page)
    <3> SUFFICES ASSUME NEW x \in 1 .. to - from, NEW y \in 1 .. to - from, page[x] = page[y]
                 PROVE  x = y
      BY <2>2 DEF Repeats
    <3>1. from + x \in 1 .. n /\ from + y \in 1 .. n
      BY <1>9
    <3>2. from + x = from + y
      BY <2>2, <2>3, <3>1
    <3> QED
      BY <3>2
  <2> QED
    BY <1>10, <2>4, <2>5
<1>13. CASE ~(from <= to)
  <2>1. s \in Seq(rows)
    BY <1>1, <1>4, IsASeq
  <2>2. page = <<>>
    BY <1>9, <1>11, <1>13, <2>1
  <2>3. <<>> \in Seq(Row) /\ Len(<<>>) = 0
    OBVIOUS
  <2>4. ~Repeats(<<>>)
    BY <2>3 DEF Repeats
  <2> QED
    BY <1>10, <2>2, <2>3, <2>4
<1> QED
  BY <1>12, <1>13

\* A numbered page: the next part of the list, and its end if the page is not full.
PageAt(page, p) ==
    /\ page \in Seq(Row) /\ ~Repeats(page)
    /\ Members(page) \cap Front(rows, p * PageSize) = {}
    /\ FullPage(page) => /\ (p + 1) * PageSize <= Cardinality(rows)
                         /\ Members(page) \cup Front(rows, p * PageSize) = Front(rows, (p + 1) * PageSize)
    /\ ~FullPage(page) => Members(page) \cup Front(rows, p * PageSize) = rows

LEMMA PageNumberIs ==
    ASSUME rows \subseteq Row, NEW p \in Nat, p * PageSize <= Cardinality(rows)
    PROVE  PageAt(PageNumber(p), p)
<1>1. PICK n \in Nat : n = Cardinality(rows)
  BY RowsOrdered
<1>2. PICK s : s = Ascending(rows)
  OBVIOUS
<1>3. Ordered(s, n, rows) /\ rows \subseteq Nat
  BY <1>1, <1>2, RowsOrdered, PagingAssumption
<1>4. s \in [1 .. n -> rows] /\ \A v \in rows : \E x \in 1 .. n : s[x] = v
  BY <1>3 DEF Ordered
<1>5. PICK from \in Nat : from = p * PageSize
  BY PagingAssumption
<1>6. (p + 1) * PageSize = from + PageSize
  BY <1>5, PagingAssumption
<1>7. Len(s) = n
  BY <1>1, <1>4, LenProperties
<1>8. PICK to : to = IF from + PageSize < n THEN from + PageSize ELSE n
  OBVIOUS
<1>9. to \in Nat /\ from <= to /\ to <= n
  BY <1>1, <1>5, <1>8, PagingAssumption
<1>10. PICK page : page = PageNumber(p)
  OBVIOUS
<1>11. page = SubSeq(s, from + 1, to)
  BY <1>2, <1>5, <1>6, <1>7, <1>8, <1>10 DEF PageNumber
<1>12. Slice(page, s, rows, from, to)
  BY <1>3, <1>9, <1>11, SliceIs, Zenon
<1>13. page \in Seq(rows) /\ Len(page) = to - from /\ \A j \in 1 .. to - from : page[j] = s[from + j]
  BY <1>12 DEF Slice
<1>14. \A x, y \in 1 .. n : s[x] = s[y] => x = y
  BY <1>3, NoneTwice
<1>15. page \in Seq(Row)
  BY <1>10, NumberedPageTyped
<1>16. ~Repeats(page)
  BY <1>10, NumberedPageTyped
<1>17. \A v : v \in Members(page) <=> \E k \in from + 1 .. to : v = s[k]
  <2>1. ASSUME NEW v \in Members(page) PROVE \E k \in from + 1 .. to : v = s[k]
    <3>1. PICK j \in 1 .. to - from : v = page[j]
      BY <1>13 DEF Members
    <3>2. from + j \in from + 1 .. to
      BY <1>9
    <3> QED
      BY <1>13, <3>1, <3>2
  <2>2. ASSUME NEW k \in from + 1 .. to PROVE s[k] \in Members(page)
    <3>1. k - from \in 1 .. to - from /\ from + (k - from) = k
      BY <1>9
    <3>2. page[k - from] = s[k]
      BY <1>13, <3>1
    <3> QED
      BY <1>13, <3>1, <3>2 DEF Members
  <2> QED
    BY <2>1, <2>2
<1>18. \A m \in Nat : \A v : v \in Front(rows, m) <=> \E k \in 1 .. m : v = s[k]
  BY <1>2 DEF Front
<1>19. Members(page) \cap Front(rows, from) = {}
  <2> SUFFICES ASSUME NEW v, v \in Members(page), v \in Front(rows, from) PROVE FALSE
    OBVIOUS
  <2>1. PICK k \in from + 1 .. to : v = s[k]
    BY <1>17
  <2>2. PICK j \in 1 .. from : v = s[j]
    BY <1>18
  <2>3. k \in 1 .. n /\ j \in 1 .. n /\ j # k
    BY <1>9
  <2> QED
    BY <1>14, <2>1, <2>2, <2>3
<1>20. \A v : v \in Members(page) \/ v \in Front(rows, from) <=> v \in Front(rows, to)
  <2>1. \A k \in 1 .. to : k \in 1 .. from \/ k \in from + 1 .. to
    BY <1>9
  <2>2. \A k \in from + 1 .. to : k \in 1 .. to
    BY <1>9
  <2>3. \A k \in 1 .. from : k \in 1 .. to
    BY <1>9
  <2> QED
    BY <1>9, <1>17, <1>18, <2>1, <2>2, <2>3
<1>21. ASSUME FullPage(page)
       PROVE  from + PageSize <= n /\ to = from + PageSize
  <2>1. to - from >= PageSize
    BY <1>13, <1>21 DEF FullPage
  <2> QED
    BY <1>1, <1>8, <1>9, <2>1, PagingAssumption
<1>22. ASSUME ~FullPage(page) PROVE to = n
  <2>1. ~(to - from >= PageSize)
    BY <1>13, <1>22 DEF FullPage
  <2> QED
    BY <1>1, <1>8, <1>9, <2>1, PagingAssumption
<1>23. \A v : v \in Front(rows, n) <=> v \in rows
  BY <1>4, <1>18
<1>24. Members(page) \cup Front(rows, from) = Front(rows, to)
  BY <1>20
<1>25. Front(rows, n) = rows
  BY <1>23
<1> QED
  <2>1. FullPage(page) => /\ (p + 1) * PageSize <= Cardinality(rows)
                         /\ Members(page) \cup Front(rows, p * PageSize) = Front(rows, (p + 1) * PageSize)
    BY <1>1, <1>5, <1>6, <1>21, <1>24
  <2>2. ~FullPage(page) => Members(page) \cup Front(rows, p * PageSize) = rows
    BY <1>5, <1>22, <1>24, <1>25
  <2>3. PageAt(page, p)
    BY <1>5, <1>15, <1>16, <1>19, <2>1, <2>2 DEF PageAt
  <2> QED
    BY <1>10, <2>3

\* What Picked returns repeats nothing its sequence does not.
LEMMA PickedMembers ==
    ASSUME NEW S, NEW s \in Seq(S), NEW ids \in SUBSET (1 .. Len(s)), ~Repeats(s)
    PROVE  /\ Picked(s, ids) \in Seq(S) /\ ~Repeats(Picked(s, ids))
           /\ Members(Picked(s, ids)) = {s[i] : i \in ids}
<1>1. PICK t : t = Picked(s, ids)
  OBVIOUS
<1>2. t \in Seq(S)
  BY <1>1, PickedIs
<1>3. \E f : PickedBy(f, t, s, ids)
  BY <1>1, PickedHas
<1>4. PICK f \in [1 .. Len(t) -> ids] :
        /\ \A a, b \in 1 .. Len(t) : f[a] = f[b] => a = b
        /\ \A id \in ids : \E a \in 1 .. Len(t) : f[a] = id
        /\ \A a \in 1 .. Len(t) : t[a] = s[f[a]]
  BY <1>3, Zenon DEF PickedBy
<1>5. ~Repeats(t)
  <2>1. ASSUME NEW a \in 1 .. Len(t), NEW b \in 1 .. Len(t), a # b, t[a] = t[b] PROVE FALSE
    <3>1. PICK x \in ids, y \in ids : x = f[a] /\ y = f[b]
      BY <1>4
    <3>2. x # y /\ s[x] = s[y]
      BY <1>4, <2>1, <3>1
    <3> QED
      BY <3>2 DEF Repeats
  <2> QED
    BY <2>1 DEF Repeats
<1>6. Members(t) = {s[i] : i \in ids}
  <2>1. \A a \in 1 .. Len(t) : t[a] \in {s[i] : i \in ids}
    BY <1>4
  <2>2. ASSUME NEW i \in ids PROVE \E a \in 1 .. Len(t) : t[a] = s[i]
    BY <1>4
  <2> QED
    BY <2>1, <2>2 DEF Members
<1> QED
  BY <1>1, <1>2, <1>5, <1>6

\* Two sequences without repetition that share nothing make one.
LEMMA JoinedMembers ==
    ASSUME NEW S, NEW s \in Seq(S), NEW t \in Seq(S)
    PROVE  /\ s \o t \in Seq(S) /\ Members(s \o t) = Members(s) \cup Members(t)
           /\ ~Repeats(s) /\ ~Repeats(t) /\ Members(s) \cap Members(t) = {} => ~Repeats(s \o t)
<1>1. PICK m \in Nat, n \in Nat : m = Len(s) /\ n = Len(t)
  OBVIOUS
<1>2. PICK u : u = s \o t
  OBVIOUS
<1>3. /\ u \in Seq(S) /\ Len(u) = m + n
      /\ \A i \in 1 .. m : u[i] = s[i]
      /\ \A i \in 1 .. n : u[m + i] = t[i]
  BY <1>1, <1>2
<1>4. ASSUME NEW i \in 1 .. m + n
      PROVE  \/ i \in 1 .. m /\ u[i] = s[i]
             \/ i - m \in 1 .. n /\ u[i] = t[i - m]
  <2>1. i \in 1 .. m \/ (i - m \in 1 .. n /\ m + (i - m) = i)
    OBVIOUS
  <2> QED
    BY <1>3, <2>1
<1>5. Members(u) = Members(s) \cup Members(t)
  <2>1. \A i \in 1 .. m : i \in 1 .. m + n
    OBVIOUS
  <2>2. \A i \in 1 .. n : m + i \in 1 .. m + n
    OBVIOUS
  <2>3. ASSUME NEW v \in Members(u) PROVE v \in Members(s) \/ v \in Members(t)
    <3>1. PICK i \in 1 .. m + n : u[i] = v
      BY <1>3 DEF Members
    <3> QED
      BY <1>1, <1>4, <3>1 DEF Members
  <2>4. ASSUME NEW v, v \in Members(s) \/ v \in Members(t) PROVE v \in Members(u)
    <3>1. (\E i \in 1 .. m : s[i] = v) \/ (\E i \in 1 .. n : t[i] = v)
      BY <1>1, <2>4 DEF Members
    <3>2. \E i \in 1 .. m + n : u[i] = v
      BY <1>3, <2>1, <2>2, <3>1
    <3> QED
      BY <1>3, <3>2 DEF Members
  <2> QED
    BY <2>3, <2>4
<1>6. ASSUME ~Repeats(s), ~Repeats(t), Members(s) \cap Members(t) = {} PROVE ~Repeats(u)
  <2> SUFFICES ASSUME NEW i \in 1 .. m + n, NEW j \in 1 .. m + n, u[i] = u[j] PROVE i = j
    BY <1>3 DEF Repeats
  <2>1. \A a \in 1 .. m, b \in 1 .. n : s[a] # t[b]
    BY <1>1, <1>6 DEF Members
  <2>2. CASE i \in 1 .. m /\ u[i] = s[i]
    <3>1. j \in 1 .. m /\ u[j] = s[j]
      BY <1>4, <2>1, <2>2
    <3> QED
      BY <1>1, <1>6, <2>2, <3>1 DEF Repeats
  <2>3. CASE i - m \in 1 .. n /\ u[i] = t[i - m]
    <3>1. j - m \in 1 .. n /\ u[j] = t[j - m]
      BY <1>4, <2>1, <2>3
    <3>2. i - m = j - m
      BY <1>1, <1>6, <2>3, <3>1 DEF Repeats
    <3> QED
      BY <3>2
  <2> QED
    BY <1>4, <2>2, <2>3
<1> QED
  BY <1>2, <1>3, <1>5, <1>6

\* What taking a page makes of a listing.
Gathers(r, q, page, at) ==
    /\ q \in PagingState
    /\ q.at = at /\ q.style = r.style /\ q.page = r.page + 1 /\ q.keep = r.keep
    /\ q.after = IF page = <<>> THEN r.after ELSE LastOf(page)
    /\ q.always = r.always /\ q.skipped = r.skipped
    /\ Steady(q) <=> Steady(r)
    /\ Members(q.got) = Members(r.got) \cup (Members(page) \cap r.keep)
    /\ ~Repeats(r.got) /\ Members(r.got) \cap Members(page) = {} => ~Repeats(q.got)

\* One listing changes.
Replaced(l, q) ==
    listing' \in [Pager -> PagingState] /\ listing'[l] = q
        /\ \A k \in Pager \ {l} : listing'[k] = listing[k]
LEMMA ReplacedKeeps ==
    ASSUME PagingInv, NEW l \in Pager, NEW q, Replaced(l, q), rows' = rows, PagerInv(q, rows)
    PROVE  PagingInv'
BY DEF Replaced, PagingInv, PagingTypes

LEMMA GathersPage ==
    ASSUME PagingInv, NEW l \in Pager, NEW page \in Seq(Row), ~Repeats(page), NEW on, NEW next,
           NEW at \in {"paging", "details", "done"}, at = IF on THEN "paging" ELSE next,
           Gather(l, page, on, next)
    PROVE  \E q : Replaced(l, q) /\ Gathers(listing[l], q, page, at)
<1>1. PICK r \in PagingState : r = listing[l]
  BY DEF PagingInv, PagingTypes
<1>2. PICK ids : ids = {i \in 1 .. Len(page) : page[i] \in r.keep}
  OBVIOUS
<1>3. PICK more : more = Picked(page, ids)
  OBVIOUS
<1>4. ids \in SUBSET (1 .. Len(page))
  BY <1>2
<1>5. more \in Seq(Row) /\ ~Repeats(more) /\ Members(more) = {page[i] : i \in ids}
  BY <1>3, <1>4, PickedMembers
<1>6. Members(more) = Members(page) \cap r.keep
  BY <1>2, <1>5 DEF Members
<1>7. r.got \in Seq(Row) /\ r.after \in Nat /\ r.page \in Nat
  BY <1>1 DEF PagingState
<1>8. PICK got : got = r.got \o more
  OBVIOUS
<1>9. /\ got \in Seq(Row) /\ Members(got) = Members(r.got) \cup Members(more)
      /\ ~Repeats(r.got) /\ ~Repeats(more) /\ Members(r.got) \cap Members(more) = {} => ~Repeats(got)
  BY <1>5, <1>7, <1>8, JoinedMembers
<1>10. PICK after : after = IF page = <<>> THEN r.after ELSE LastOf(page)
  OBVIOUS
<1>11. after \in Nat
  <2>1. CASE page = <<>>
    BY <1>7, <1>10, <2>1
  <2>2. CASE page # <<>>
    <3>1. Len(page) \in 1 .. Len(page)
      BY <2>2
    <3>2. LastOf(page) \in Row
      BY <3>1 DEF LastOf
    <3> QED
      BY <1>10, <2>2, <3>2, PagingAssumption
  <2> QED
    BY <2>1, <2>2
<1>12. PICK q : q = [r EXCEPT !.got = got, !.after = after, !.page = r.page + 1, !.at = at]
  OBVIOUS
<1>13. listing' = [listing EXCEPT ![l] = q]
  <2>1. listing' = [listing EXCEPT ![l] =
           [r EXCEPT !.got = r.got \o Picked(page, {i \in 1 .. Len(page) : page[i] \in r.keep}),
                     !.after = IF page = <<>> THEN r.after ELSE LastOf(page),
                     !.page = r.page + 1,
                     !.at = IF on THEN "paging" ELSE next]]
    BY <1>1, Zenon DEF Gather
  <2>2. listing' = [listing EXCEPT ![l] =
           [r EXCEPT !.got = r.got \o more, !.after = after, !.page = r.page + 1, !.at = at]]
    BY <1>2, <1>3, <1>10, <2>1
  <2> QED
    BY <1>8, <1>12, <2>2
<1>14. q \in PagingState
  <2>1. r.page + 1 \in Nat /\ at \in {"idle", "paging", "details", "done"}
    BY <1>7
  <2> QED
    BY <1>1, <1>9, <1>11, <1>12, <2>1, Zenon DEF PagingState
<1>15. /\ q.at = at /\ q.style = r.style /\ q.page = r.page + 1 /\ q.keep = r.keep
       /\ q.after = after /\ q.always = r.always /\ q.skipped = r.skipped /\ q.got = got
  BY <1>1, <1>12 DEF PagingState
<1>16. q.changed = r.changed
  BY <1>1, <1>12, Zenon DEF PagingState
<1>17. Steady(q) <=> Steady(r)
  BY <1>15, <1>16 DEF Steady
<1>18. ~Repeats(r.got) /\ Members(r.got) \cap Members(page) = {} => ~Repeats(q.got)
  BY <1>5, <1>6, <1>9, <1>15
<1>19. Gathers(r, q, page, at)
  BY <1>6, <1>9, <1>10, <1>14, <1>15, <1>17, <1>18 DEF Gathers
<1>20. Replaced(l, q)
  BY <1>13, <1>14 DEF Replaced, PagingInv, PagingTypes
<1> QED
  BY <1>1, <1>19, <1>20

\* A page by anchor: whatever ends the listing, nothing was left behind.
LEMMA AnchoredGathers ==
    ASSUME NEW r \in PagingState, PagerInv(r, rows), rows \subseteq Row, r.at = "paging", r.style # "trash",
           NEW page, PageOf(page, r.after), NEW at \in {"paging", "details", "done"},
           at # "paging" => \A x \in rows : x > r.after => x \in Members(page),
           NEW q, Gathers(r, q, page, at)
    PROVE  PagerInv(q, rows)
<1>1. /\ q.at = at /\ q.style = r.style /\ q.keep = r.keep
      /\ q.always = r.always /\ q.skipped = r.skipped
      /\ Members(q.got) = Members(r.got) \cup (Members(page) \cap r.keep)
      /\ ~Repeats(r.got) /\ Members(r.got) \cap Members(page) = {} => ~Repeats(q.got)
      /\ q.after = IF page = <<>> THEN r.after ELSE LastOf(page)
  BY DEF Gathers
<1>2. r.always \subseteq rows /\ r.skipped = {} /\ Steady(r) /\ ~Repeats(r.got)
  BY DEF PagerInv, AlwaysThere, Steady
<1>3. /\ \A x \in Members(r.got) : x <= r.after
      /\ \A x \in r.always \cap r.keep : x <= r.after => x \in Members(r.got)
  BY DEF PagerInv, UpToAnchor
<1>4. \A x \in Members(page) : x \in rows /\ x > r.after
  BY DEF PageOf
<1>5. rows \subseteq Nat /\ r.after \in Nat /\ r.got \in Seq(Row)
  BY PagingAssumption DEF PagingState
<1>6. \A x \in Members(r.got) : x \in Nat
  <2>1. \A x \in Members(r.got) : x \in Row
    BY <1>5 DEF Members
  <2> QED
    BY <2>1, PagingAssumption
<1>7. Members(r.got) \cap Members(page) = {}
  <2> SUFFICES ASSUME NEW x \in Members(r.got), x \in Members(page) PROVE FALSE
    OBVIOUS
  <2>1. x \in Nat /\ x <= r.after /\ x > r.after
    BY <1>3, <1>4, <1>6
  <2> QED
    BY <1>5, <2>1
<1>8. ~Repeats(q.got)
  BY <1>1, <1>2, <1>7
<1>9. \A x \in Members(q.got) : x <= q.after
  <2>1. CASE page = <<>>
    <3>1. Members(page) = {}
      BY <2>1 DEF Members
    <3> QED
      BY <1>1, <1>3, <2>1, <3>1
  <2>2. CASE page # <<>>
    <3>1. LastOf(page) \in Nat /\ LastOf(page) > r.after /\ \A x \in Members(page) : x <= LastOf(page)
      BY <1>4, <1>5, <2>2 DEF PageOf
    <3> QED
      BY <1>1, <1>3, <1>5, <1>6, <2>2, <3>1
  <2> QED
    BY <2>1, <2>2
<1>10. \A x \in q.always \cap q.keep : x <= q.after => x \in Members(q.got)
  <2> SUFFICES ASSUME NEW x \in r.always \cap r.keep, x <= q.after PROVE x \in Members(q.got)
    BY <1>1
  <2>1. x \in rows /\ x \in Nat
    BY <1>2, <1>5
  <2>2. CASE x <= r.after
    BY <1>1, <1>3, <2>2
  <2>3. CASE ~(x <= r.after)
    <3>1. page # <<>>
      BY <1>1, <2>3
    <3>2. x \in Members(page)
      BY <1>1, <1>5, <2>1, <2>3, <3>1 DEF PageOf
    <3> QED
      BY <1>1, <3>2
  <2> QED
    BY <2>2, <2>3
<1>11. ASSUME at # "paging" PROVE (q.always \cap q.keep) \ q.skipped \subseteq Members(q.got)
  <2> SUFFICES ASSUME NEW x \in r.always \cap r.keep PROVE x \in Members(q.got)
    BY <1>1
  <2>1. x \in rows /\ x \in Nat
    BY <1>2, <1>5
  <2> QED
    BY <1>1, <1>3, <1>5, <1>11, <2>1
<1> QED
  BY <1>1, <1>2, <1>8, <1>9, <1>10, <1>11
     DEF PagerInv, AlwaysThere, UpToAnchor, UpToPage, ListedAll

\* A numbered page, as long as nothing has changed.
LEMMA NumberedGathers ==
    ASSUME NEW r \in PagingState, PagerInv(r, rows), rows \subseteq Row, r.at = "paging", r.style = "trash",
           NEW page, r.page * PageSize <= Cardinality(rows) => PageAt(page, r.page),
           NEW at, at = IF FullPage(page) THEN "paging" ELSE "done",
           NEW q, Gathers(r, q, page, at)
    PROVE  PagerInv(q, rows)
<1>1. /\ q.at = at /\ q.style = r.style /\ q.keep = r.keep /\ q.page = r.page + 1
      /\ q.always = r.always /\ q.skipped = r.skipped
      /\ Members(q.got) = Members(r.got) \cup (Members(page) \cap r.keep)
      /\ ~Repeats(r.got) /\ Members(r.got) \cap Members(page) = {} => ~Repeats(q.got)
      /\ Steady(q) <=> Steady(r)
  BY DEF Gathers
<1>2. r.always \subseteq rows /\ r.skipped = {}
  BY DEF PagerInv, AlwaysThere
<1>3. CASE Steady(r)
  <2>1. /\ r.always = rows /\ r.keep = Row /\ r.page * PageSize <= Cardinality(rows)
        /\ Members(r.got) = Front(rows, r.page * PageSize) /\ ~Repeats(r.got)
    BY <1>3 DEF PagerInv, UpToPage, Steady
  <2>2. PageAt(page, r.page)
    BY <2>1
  <2>3. Members(page) \subseteq Row
    BY <2>2 DEF PageAt, Members
  <2>4. Members(q.got) = Members(page) \cup Front(rows, r.page * PageSize)
    BY <1>1, <2>1, <2>3
  <2>5. ~Repeats(q.got)
    BY <1>1, <2>1, <2>2 DEF PageAt
  <2>6. CASE FullPage(page)
    <3>1. /\ (r.page + 1) * PageSize <= Cardinality(rows)
          /\ Members(q.got) = Front(rows, (r.page + 1) * PageSize)
      BY <2>2, <2>4, <2>6 DEF PageAt
    <3>2. q.at = "paging"
      BY <1>1, <2>6
    <3>3. UpToPage(q, rows)
      BY <1>1, <2>1, <3>1 DEF UpToPage
    <3> QED
      BY <1>1, <1>2, <2>5, <3>2, <3>3 DEF PagerInv, AlwaysThere, UpToAnchor, ListedAll
  <2>7. CASE ~FullPage(page)
    <3>1. Members(q.got) = rows
      BY <2>2, <2>4, <2>7 DEF PageAt
    <3>2. q.at = "done"
      BY <1>1, <2>7
    <3> QED
      BY <1>1, <2>1, <2>5, <3>1, <3>2 DEF PagerInv, AlwaysThere, UpToAnchor, UpToPage, ListedAll
  <2> QED
    BY <2>6, <2>7
<1>4. CASE ~Steady(r)
  <2>1. ~Steady(q)
    BY <1>1, <1>4
  <2>2. UpToPage(q, rows)
    BY <2>1 DEF UpToPage, Steady
  <2> QED
    BY <1>1, <1>2, <2>1, <2>2 DEF PagerInv, AlwaysThere, UpToAnchor, ListedAll
<1> QED
  BY <1>3, <1>4

LEMMA PagingBegins ==
    ASSUME PagingInv, NEW l \in Pager, NEW style \in {"anchor", "invitations", "timeline", "trash"},
           NEW keep \in SUBSET Row, style = "trash" => keep = Row, BeginPaging(l, style, keep)
    PROVE  PagingInv'
<1>1. PICK q : q = [NoListing EXCEPT !.at = "paging", !.style = style, !.keep = keep, !.always = rows]
  OBVIOUS
<1>2. listing' = [listing EXCEPT ![l] = q] /\ rows' = rows
  BY <1>1 DEF BeginPaging
<1>3. rows \subseteq Row
  BY DEF PagingInv, PagingTypes
<1>4. <<>> \in Seq(Row)
  OBVIOUS
<1>5. q \in PagingState
  BY <1>1, <1>3, <1>4 DEF NoListing, PagingState
<1>6. /\ q.at = "paging" /\ q.style = style /\ q.keep = keep /\ q.always = rows /\ q.got = <<>>
      /\ q.after = 0 /\ q.page = 0 /\ q.skipped = {}
  BY <1>1 DEF NoListing
<1>7. Members(q.got) = {} /\ ~Repeats(q.got)
  <2>1. Len(q.got) = 0
    BY <1>6
  <2> QED
    BY <2>1 DEF Members, Repeats
<1>8. UpToAnchor(q)
  <2>1. \A x \in rows : ~(x <= 0)
    BY <1>3, PagingAssumption
  <2> QED
    BY <1>6, <1>7, <2>1 DEF UpToAnchor
<1>9. UpToPage(q, rows)
  <2>1. q.page * PageSize = 0 /\ Cardinality(rows) \in Nat
    BY <1>3, <1>6, RowsOrdered, PagingAssumption
  <2>2. Front(rows, 0) = {}
    BY DEF Front
  <2>3. q.page * PageSize <= Cardinality(rows)
    BY <2>1
  <2>4. Front(rows, q.page * PageSize) = {}
    BY <2>1, <2>2, Zenon
  <2> QED
    BY <1>6, <1>7, <2>3, <2>4 DEF UpToPage
<1>10. PagerInv(q, rows)
  BY <1>6, <1>7, <1>8, <1>9 DEF PagerInv, AlwaysThere, ListedAll
<1>11. Replaced(l, q)
  BY <1>2, <1>5 DEF Replaced, PagingInv, PagingTypes
<1> QED
  BY <1>2, <1>10, <1>11, ReplacedKeeps

LEMMA AnchoredKeeps ==
    ASSUME PagingInv, NEW l \in Pager, TakeAnchoredPage(l) \/ TakeTimelinePage(l)
    PROVE  PagingInv'
<1>1. PICK r \in PagingState : r = listing[l]
  BY DEF PagingInv, PagingTypes
<1>2. rows \subseteq Row /\ PagerInv(r, rows) /\ rows' = rows /\ r.after \in Nat
  BY <1>1 DEF PagingInv, PagingTypes, PagingState, TakeAnchoredPage, TakeTimelinePage
<1>3. r.at = "paging" /\ r.style # "trash"
  BY <1>1 DEF TakeAnchoredPage, TakeTimelinePage
<1>4. PICK page : page = PageAfter(r.after)
  OBVIOUS
<1>5. PageOf(page, r.after)
  BY <1>2, <1>4, PageAfterIs
<1>6. page \in Seq(Row) /\ ~Repeats(page)
  BY <1>5 DEF PageOf
<1>7. \E at \in {"paging", "details", "done"} : \E q :
         /\ Replaced(l, q) /\ Gathers(r, q, page, at)
         /\ at # "paging" => \A x \in rows : x > r.after => x \in Members(page)
  <2>1. CASE TakeAnchoredPage(l)
    <3>1. PICK next \in {"details", "done"} : Gather(l, page, More(page), next)
      BY <1>1, <1>4, <2>1 DEF TakeAnchoredPage
    <3>2. PICK at \in {"paging", "details", "done"} : at = IF More(page) THEN "paging" ELSE next
      OBVIOUS
    <3>3. PICK q : Replaced(l, q) /\ Gathers(r, q, page, at)
      BY <1>1, <1>6, <3>1, <3>2, GathersPage
    <3>4. ASSUME at # "paging", NEW x \in rows, x > r.after PROVE x \in Members(page)
      <4>1. ~More(page)
        BY <3>2, <3>4
      <4>2. x \in Nat
        BY <1>2, PagingAssumption
      <4>3. page # <<>>
        BY <1>2, <1>5, <3>4, <4>2 DEF PageOf
      <4>4. ~(x > LastOf(page))
        BY <4>1, <4>3 DEF More
      <4>5. LastOf(page) \in Nat
        <5>1. LastOf(page) \in rows
          BY <1>5, <4>3 DEF PageOf
        <5> QED
          BY <1>2, <5>1, PagingAssumption
      <4>6. r.after < x /\ x <= LastOf(page)
        BY <1>2, <3>4, <4>2, <4>4, <4>5
      <4> QED
        BY <1>5, <4>3, <4>6 DEF PageOf
    <3> QED
      BY <3>3, <3>4
  <2>2. CASE TakeTimelinePage(l)
    <3>1. Gather(l, page, FullPage(page), "done")
      BY <1>1, <1>4, <2>2 DEF TakeTimelinePage
    <3>2. PICK at \in {"paging", "details", "done"} : at = IF FullPage(page) THEN "paging" ELSE "done"
      OBVIOUS
    <3>3. PICK q : Replaced(l, q) /\ Gathers(r, q, page, at)
      BY <1>1, <1>6, <3>1, <3>2, GathersPage
    <3>4. at # "paging" => \A x \in rows : x > r.after => x \in Members(page)
      BY <1>5, <3>2 DEF PageOf
    <3> QED
      BY <3>3, <3>4
  <2> QED
    BY <2>1, <2>2
<1>8. PICK q : Replaced(l, q) /\ PagerInv(q, rows)
  BY <1>2, <1>3, <1>5, <1>7, AnchoredGathers
<1> QED
  BY <1>2, <1>8, ReplacedKeeps

LEMMA NumberedKeeps ==
    ASSUME PagingInv, NEW l \in Pager, TakeTrashPage(l)
    PROVE  PagingInv'
<1>1. PICK r \in PagingState : r = listing[l]
  BY DEF PagingInv, PagingTypes
<1>2. rows \subseteq Row /\ PagerInv(r, rows) /\ rows' = rows /\ r.page \in Nat
  BY <1>1 DEF PagingInv, PagingTypes, PagingState, TakeTrashPage
<1>3. PICK page : page = PageNumber(r.page)
  OBVIOUS
<1>4. /\ r.at = "paging" /\ r.style = "trash" /\ Gather(l, page, FullPage(page), "done")
  BY <1>1, <1>3 DEF TakeTrashPage
<1>5. r.page * PageSize <= Cardinality(rows) => PageAt(page, r.page)
  BY <1>2, <1>3, PageNumberIs
<1>6. page \in Seq(Row) /\ ~Repeats(page)
  BY <1>2, <1>3, NumberedPageTyped
<1>7. PICK at \in {"paging", "details", "done"} : at = IF FullPage(page) THEN "paging" ELSE "done"
  OBVIOUS
<1>8. PICK q : Replaced(l, q) /\ Gathers(r, q, page, at)
  BY <1>1, <1>4, <1>6, <1>7, GathersPage
<1>9. PagerInv(q, rows)
  BY <1>2, <1>4, <1>5, <1>7, <1>8, NumberedGathers
<1> QED
  BY <1>2, <1>8, <1>9, ReplacedKeeps

\* Loading the invitations takes out those that fail, and says so.
LEMMA InvitationsKeep ==
    ASSUME PagingInv, NEW l \in Pager, LoadInvitations(l)
    PROVE  PagingInv'
<1>1. PICK r \in PagingState : r = listing[l]
  BY DEF PagingInv, PagingTypes
<1>2. PagerInv(r, rows) /\ rows' = rows /\ r.at = "details"
  BY <1>1 DEF PagingInv, LoadInvitations
<1>3. PICK lost \in SUBSET Members(listing[l].got) :
        listing' = [listing EXCEPT ![l] =
             [listing[l] EXCEPT !.at = "done", !.skipped = lost,
                       !.got = Picked(listing[l].got,
                                  {i \in 1 .. Len(listing[l].got) : listing[l].got[i] \notin lost})]]
  BY Zenon DEF LoadInvitations
<1>4. PICK ids : ids = {i \in 1 .. Len(r.got) : r.got[i] \notin lost}
  OBVIOUS
<1>5. PICK got : got = Picked(r.got, ids)
  OBVIOUS
<1>6. PICK q : q = [r EXCEPT !.at = "done", !.skipped = lost, !.got = got]
  OBVIOUS
<1>7. listing' = [listing EXCEPT ![l] = q] /\ lost \subseteq Members(r.got)
  BY <1>1, <1>3, <1>4, <1>5, <1>6
<1>8. r.got \in Seq(Row) /\ ids \in SUBSET (1 .. Len(r.got))
  BY <1>1, <1>4 DEF PagingState
<1>9. got \in Seq(Row)
  BY <1>5, <1>8, PickedIs
<1>10. lost \subseteq Row
  BY <1>7, <1>8 DEF Members
<1>11. q \in PagingState
  <2>1. "done" \in {"idle", "paging", "details", "done"}
    OBVIOUS
  <2> QED
    BY <1>1, <1>6, <1>9, <1>10, <2>1, Zenon DEF PagingState
<1>12. /\ q.at = "done" /\ q.style = r.style /\ q.keep = r.keep /\ q.always = r.always
       /\ q.skipped = lost /\ q.got = got
  BY <1>1, <1>6 DEF PagingState
<1>13. q.changed = r.changed
  BY <1>1, <1>6, Zenon DEF PagingState
<1>14. Steady(q) <=> Steady(r)
  BY <1>12, <1>13 DEF Steady
<1>15. ASSUME Steady(r)
       PROVE  ~Repeats(q.got) /\ (q.always \cap q.keep) \ q.skipped \subseteq Members(q.got)
  <2>1. ~Repeats(r.got) /\ r.always \cap r.keep \subseteq Members(r.got)
    BY <1>2, <1>15 DEF PagerInv, ListedAll
  <2>2. ~Repeats(got) /\ Members(got) = {r.got[i] : i \in ids}
    BY <1>5, <1>8, <2>1, PickedMembers
  <2>3. \A x \in Members(r.got) : x \notin lost => x \in Members(got)
    BY <1>4, <2>2 DEF Members
  <2> QED
    BY <1>12, <2>1, <2>2, <2>3
<1>16. PagerInv(q, rows)
  BY <1>12, <1>14, <1>15 DEF PagerInv, AlwaysThere, UpToAnchor, UpToPage, ListedAll
<1>17. Replaced(l, q)
  BY <1>7, <1>11 DEF Replaced, PagingInv, PagingTypes
<1> QED
  BY <1>2, <1>16, <1>17, ReplacedKeeps

\* A row comes or goes.
LEMMA ChangeKeeps ==
    ASSUME PagingInv, ChangeRows
    PROVE  PagingInv'
<1>1. rows' \subseteq Row
  BY DEF PagingInv, PagingTypes, ChangeRows
<1>2. ASSUME NEW l \in Pager
      PROVE  listing'[l] \in PagingState /\ PagerInv(listing'[l], rows')
  <2>1. PICK r \in PagingState : r = listing[l] /\ PagerInv(r, rows)
    BY DEF PagingInv, PagingTypes
  <2>2. PICK q : q = listing'[l]
    OBVIOUS
  <2>3. CASE r.at \in {"idle", "done"}
    <3>1. q = r
      BY <2>1, <2>2, <2>3 DEF ChangeRows
    <3> QED
      BY <2>1, <2>2, <2>3, <3>1 DEF PagerInv, AlwaysThere, UpToAnchor, UpToPage
  <2>4. CASE r.at \notin {"idle", "done"}
    <3>1. q = [r EXCEPT !.always = r.always \cap rows', !.changed = TRUE]
      BY <2>1, <2>2, <2>4 DEF ChangeRows
    <3>2. r.always \cap rows' \in SUBSET Row /\ TRUE \in BOOLEAN
      BY <1>1
    <3>3. q \in PagingState
      BY <2>1, <3>1, <3>2, Zenon DEF PagingState
    <3>4. /\ q.at = r.at /\ q.style = r.style /\ q.keep = r.keep /\ q.after = r.after
          /\ q.always = r.always \cap rows' /\ q.skipped = r.skipped /\ q.got = r.got
      BY <2>1, <3>1 DEF PagingState
    <3>5. q.changed = TRUE
      BY <2>1, <3>1, Zenon DEF PagingState
    <3>6. Steady(q) <=> r.style # "trash"
      BY <3>4, <3>5 DEF Steady
    <3>7. Steady(q) => Steady(r)
      BY <3>6 DEF Steady
    <3>8. UpToPage(q, rows')
      BY <3>4, <3>5 DEF UpToPage
    <3>9. AlwaysThere(q, rows') /\ UpToAnchor(q)
      BY <2>1, <3>4 DEF PagerInv, AlwaysThere, UpToAnchor
    <3>10. ListedAll(q)
      BY <2>1, <3>4, <3>7 DEF PagerInv, ListedAll
    <3> QED
      BY <2>1, <2>2, <3>3, <3>4, <3>7, <3>8, <3>9, <3>10 DEF PagerInv
  <2> QED
    BY <2>3, <2>4
<1>3. listing' \in [Pager -> PagingState]
  <2>1. PICK g : g = listing'
    OBVIOUS
  <2>2. DOMAIN g = Pager /\ g = [l \in Pager |-> g[l]]
    BY <2>1 DEF ChangeRows
  <2>3. \A l \in Pager : g[l] \in PagingState
    BY <1>2, <2>1
  <2> QED
    BY <2>1, <2>2, <2>3
<1> QED
  BY <1>1, <1>2, <1>3 DEF PagingInv, PagingTypes

LEMMA PagingStep == PagingInv /\ [PagingNext]_pagingVars => PagingInv'
<1> SUFFICES ASSUME PagingInv, [PagingNext]_pagingVars PROVE PagingInv'
  OBVIOUS
<1>1. ASSUME NEW l \in Pager,
             \/ EnumerateFolderChildren(l) \/ EnumerateAlbums(l) \/ EnumerateAlbum(l)
             \/ EnumerateSharedAlbums(l) \/ EnumerateSharedByMe(l) \/ EnumerateSharedWithMe(l)
             \/ EnumeratePhotosSharedWithMe(l) \/ ListIncomingInvitations(l)
             \/ EnumerateTimeline(l) \/ EnumerateTrash(l)
      PROVE  PagingInv'
  <2>1. PICK style \in {"anchor", "invitations", "timeline", "trash"}, keep \in SUBSET Row :
            BeginPaging(l, style, keep) /\ (style = "trash" => keep = Row)
    <3>1. Row \in SUBSET Row /\ PhotoRow \in SUBSET Row /\ Row \ PhotoRow \in SUBSET Row
      BY PagingAssumption
    <3> QED
      BY <1>1, <3>1 DEF EnumerateFolderChildren, EnumerateAlbums, EnumerateAlbum,
         EnumerateSharedAlbums, EnumerateSharedByMe, EnumerateSharedWithMe,
         EnumeratePhotosSharedWithMe, ListIncomingInvitations, EnumerateTimeline, EnumerateTrash
  <2> QED
    BY <2>1, PagingBegins
<1>2. ASSUME NEW l \in Pager, TakeAnchoredPage(l) \/ TakeTimelinePage(l) PROVE PagingInv'
  BY <1>2, AnchoredKeeps
<1>3. ASSUME NEW l \in Pager, TakeTrashPage(l) PROVE PagingInv'
  BY <1>3, NumberedKeeps
<1>4. ASSUME NEW l \in Pager, LoadInvitations(l) PROVE PagingInv'
  BY <1>4, InvitationsKeep
<1>5. CASE ChangeRows
  BY <1>5, ChangeKeeps
<1>6. CASE UNCHANGED pagingVars
  BY <1>6 DEF pagingVars, PagingInv, PagingTypes
<1> QED
  BY <1>1, <1>2, <1>3, <1>4, <1>5, <1>6 DEF PagingNext

\* However the list changes between two pages, a finished listing names what was there
\* all along and nothing twice; by number, if nothing changed.
THEOREM EverythingListedOnce == PagingSpec => []ListedOnce
<1>1. PagingInit => PagingInv
  <2> SUFFICES ASSUME PagingInit PROVE PagingInv
    OBVIOUS
  <2>1. rows \subseteq Row /\ listing = [l \in Pager |-> NoListing]
    BY DEF PagingInit
  <2>2. <<>> \in Seq(Row)
    OBVIOUS
  <2>3. NoListing \in PagingState
    BY <2>2 DEF NoListing, PagingState
  <2>4. PagerInv(NoListing, rows)
    <3>1. NoListing.at = "idle" /\ NoListing.got = <<>>
      BY DEF NoListing
    <3>2. Len(NoListing.got) = 0
      BY <3>1
    <3>3. ~Repeats(NoListing.got)
      BY <3>2 DEF Repeats
    <3> QED
      BY <3>1, <3>3 DEF PagerInv, AlwaysThere, UpToAnchor, UpToPage, ListedAll
  <2> QED
    BY <2>1, <2>3, <2>4 DEF PagingInv, PagingTypes
<1>2. PagingInv => ListedOnce
  BY DEF PagingInv, PagerInv, ListedAll, Steady, ListedOnce
<1> QED
  BY <1>1, <1>2, PagingStep, PTL DEF PagingSpec

-----------------------------------------------------------------------------
(* Looking photos up.                                                      *)

Sought == [name : PhotoName, digest : Digest]
LookupTypes ==
    /\ volume \in [Stored -> StoredPhoto] /\ throughout \subseteq Stored
    /\ inputs \in Seq(Sought) /\ hashes \in Seq(PhotoName)
    /\ matches \in [1 .. Len(inputs) -> Seq(Stored)]

\* A name that has not been sent waits once.
NamesOnce == \A a, b \in 1 .. Len(hashes) : hashes[a] = hashes[b] => a = b
Unsent(name) == \E a \in 1 .. Len(hashes) : hashes[a] = name

\* An input has its photos once its name has been sent, and none before.
AnswersSoFar ==
    asking \in {"one", "many", "names"} =>
        \A i \in 1 .. Len(inputs), p \in throughout :
            CountOf(matches[i], p) =
                IF Candidate(p) /\ Matches(p, inputs[i]) /\ ~Unsent(inputs[i].name) THEN 1 ELSE 0
LookupInv == LookupTypes /\ NamesOnce /\ AnswersSoFar

\* The distinct names: each once, none forgotten.
LEMMA NameHashesAre ==
    ASSUME NEW items \in Seq(Sought)
    PROVE  /\ NameHashes(items) \in Seq(PhotoName)
           /\ \A a, b \in 1 .. Len(NameHashes(items)) :
                NameHashes(items)[a] = NameHashes(items)[b] => a = b
           /\ \A i \in 1 .. Len(items) :
                \E a \in 1 .. Len(NameHashes(items)) : NameHashes(items)[a] = items[i].name
<1>1. PICK n \in Nat : n = Len(items)
  OBVIOUS
<1>2. \A i \in 1 .. n : items[i].name \in PhotoName
  <2>1. \A i \in 1 .. n : items[i] \in Sought
    BY <1>1
  <2> QED
    BY <2>1 DEF Sought
<1>3. PICK names : names = HashesEach(items)
  OBVIOUS
<1>4. names \in Seq(PhotoName) /\ Len(names) = n /\ \A i \in 1 .. n : names[i] = items[i].name
  <2>1. names = [i \in 1 .. n |-> items[i].name]
    BY <1>1, <1>3 DEF HashesEach
  <2>2. names \in [1 .. n -> PhotoName]
    BY <1>2, <2>1
  <2> QED
    BY <1>1, <2>1, <2>2, IsASeq, LenProperties
<1>5. PICK first : first = {i \in 1 .. n : \A j \in 1 .. i - 1 : items[j].name # items[i].name}
  OBVIOUS
<1>6. PICK t : t = NameHashes(items)
  OBVIOUS
<1>7. t = Picked(names, first)
  BY <1>1, <1>3, <1>5, <1>6 DEF NameHashes
<1>8. first \in SUBSET (1 .. Len(names))
  BY <1>4, <1>5
<1>9. t \in Seq(PhotoName)
  BY <1>4, <1>7, <1>8, PickedIs
<1>15. \E f : PickedBy(f, t, names, first)
  BY <1>4, <1>7, <1>8, PickedHas
<1>10. PICK f \in [1 .. Len(t) -> first] :
         /\ \A a, b \in 1 .. Len(t) : f[a] = f[b] => a = b
         /\ \A id \in first : \E a \in 1 .. Len(t) : f[a] = id
         /\ \A a \in 1 .. Len(t) : t[a] = names[f[a]]
  BY <1>15, Zenon DEF PickedBy
<1>11. \A a \in 1 .. Len(t) : f[a] \in 1 .. n /\ t[a] = items[f[a]].name
  BY <1>4, <1>5, <1>10
<1>12. \A x, y \in first : x < y => items[x].name # items[y].name
  BY <1>1, <1>5
<1>13. ASSUME NEW a \in 1 .. Len(t), NEW b \in 1 .. Len(t), t[a] = t[b], a # b PROVE FALSE
  <2>1. PICK x \in first, y \in first : x = f[a] /\ y = f[b]
    BY <1>10
  <2>2. x # y /\ x \in Nat /\ y \in Nat
    BY <1>5, <1>10, <1>13, <2>1
  <2>3. items[x].name = items[y].name
    BY <1>11, <1>13, <2>1
  <2> QED
    BY <1>12, <2>2, <2>3
<1>14. ASSUME NEW i \in 1 .. n PROVE \E a \in 1 .. Len(t) : t[a] = items[i].name
  <2> DEFINE same == {j \in 1 .. n : items[j].name = items[i].name}
  <2>1. same \in SUBSET Nat /\ same # {}
    OBVIOUS
  <2>2. PICK j \in same : \A k \in same : j <= k
    BY <2>1, LeastNumber
  <2>3. j \in first
    BY <1>1, <1>5, <2>2
  <2>4. PICK a \in 1 .. Len(t) : f[a] = j
    BY <1>10, <2>3
  <2> QED
    BY <1>11, <2>2, <2>4
<1> QED
  BY <1>1, <1>6, <1>9, <1>13, <1>14

\* A call begins: every name waits, and nothing has been found.
LEMMA LookupBegins ==
    ASSUME LookupInv, NEW kind, NEW items \in Wanted, BeginLookup(kind, items)
    PROVE  LookupInv'
<1>1. items \in Seq(Sought)
  BY PhotoLookupAssumption DEF Sought
<1>2. PICK n \in Nat : n = Len(items)
  BY <1>1
<1>3. /\ inputs' = items /\ hashes' = NameHashes(items) /\ throughout' = Stored
      /\ volume' = volume /\ matches' = [i \in 1 .. n |-> <<>>]
  BY <1>2 DEF BeginLookup
<1>4. /\ hashes' \in Seq(PhotoName)
      /\ \A a, b \in 1 .. Len(hashes') : hashes'[a] = hashes'[b] => a = b
      /\ \A i \in 1 .. n : \E a \in 1 .. Len(hashes') : hashes'[a] = items[i].name
  BY <1>1, <1>2, <1>3, NameHashesAre
<1>5. LookupTypes'
  <2>1. <<>> \in Seq(Stored)
    OBVIOUS
  <2>2. matches' \in [1 .. n -> Seq(Stored)]
    BY <1>3, <2>1, Zenon
  <2> QED
    BY <1>1, <1>2, <1>3, <1>4, <2>2 DEF LookupInv, LookupTypes
<1>6. AnswersSoFar'
  <2> SUFFICES ASSUME NEW i \in 1 .. n, NEW p \in Stored
               PROVE  CountOf(matches'[i], p) = 0 /\ Unsent(inputs[i].name)'
    BY <1>2, <1>3 DEF AnswersSoFar
  <2>1. matches'[i] = <<>>
    BY <1>3
  <2>2. CountOf(<<>>, p) = 0
    <3>1. <<>> \in Seq(Stored) /\ Len(<<>>) = 0
      OBVIOUS
    <3>2. \A k \in 1 .. Len(<<>>) : <<>>[k] # p
      BY <3>1
    <3> QED
      BY <3>1, <3>2, CountZero
  <2> QED
    BY <1>3, <1>4, <2>1, <2>2 DEF Unsent
<1> QED
  BY <1>4, <1>5, <1>6 DEF LookupInv, NamesOnce

\* Of the photos that are found, an input gets each it matches once.
LEMMA FoundOnce ==
    ASSUME NEW S, NEW s \in Orderings(S), IsFiniteSet(S), NEW wanted \in SUBSET S, NEW p
    PROVE  /\ Picked(s, {k \in DOMAIN s : s[k] \in wanted}) \in Seq(S)
           /\ CountOf(Picked(s, {k \in DOMAIN s : s[k] \in wanted}), p)
                = IF p \in wanted THEN 1 ELSE 0
<1>0. PICK ids : ids = {k \in DOMAIN s : s[k] \in wanted}
  OBVIOUS
<1>1. PICK n \in Nat : n = Cardinality(S)
  BY FS_CardinalityType
<1>2. /\ s \in [1 .. n -> S]
      /\ \A a, b \in 1 .. n : s[a] = s[b] => a = b
      /\ \A x \in S : \E a \in 1 .. n : s[a] = x
  <2>1. s \in [1 .. n -> S]
    BY <1>1 DEF Orderings
  <2>2. DOMAIN s = 1 .. n
    BY <2>1
  <2> QED
    BY <2>1, <2>2 DEF Orderings
<1>3. s \in Seq(S) /\ Len(s) = n
  BY <1>1, <1>2, IsASeq, LenProperties
<1>4. ids \in SUBSET (1 .. Len(s))
  BY <1>0, <1>2, <1>3
<1>5. Picked(s, ids) \in Seq(S)
  BY <1>3, <1>4, PickedIs
<1>8. CountOf(Picked(s, ids), p) = Cardinality(Spots(s, ids, p))
  BY <1>3, <1>4, CountPicked
<1>6. CASE p \in wanted
  <2>1. PICK a \in 1 .. n : s[a] = p
    BY <1>2, <1>6
  <2>2. Spots(s, ids, p) = {a}
    BY <1>0, <1>2, <1>6, <2>1 DEF Spots
  <2>3. CountOf(Picked(s, ids), p) = 1
    BY <1>8, <2>2, FS_Singleton
  <2> QED
    BY <1>0, <1>5, <1>6, <2>3
<1>7. CASE p \notin wanted
  <2>1. Spots(s, ids, p) = {}
    BY <1>0, <1>7 DEF Spots
  <2>2. CountOf(Picked(s, ids), p) = 0
    BY <1>8, <2>1, FS_EmptySet
  <2> QED
    BY <1>0, <1>5, <1>7, <2>2
<1> QED
  BY <1>0, <1>5, <1>6, <1>7

\* A chunk of names is answered.
LEMMA ChunkAnswered ==
    ASSUME LookupInv, AskChunk, IsFiniteSet(Stored)
    PROVE  LookupInv'
<1>1. /\ volume \in [Stored -> StoredPhoto] /\ throughout \subseteq Stored
      /\ inputs \in Seq(Sought) /\ hashes \in Seq(PhotoName)
      /\ matches \in [1 .. Len(inputs) -> Seq(Stored)]
  BY DEF LookupInv, LookupTypes
<1>2. PICK n : n = IF Len(hashes) < ChunkSize THEN Len(hashes) ELSE ChunkSize
  OBVIOUS
<1>3. n \in 0 .. Len(hashes) /\ Len(hashes) \in Nat
  BY <1>1, <1>2, PhotoLookupAssumption
<1>4. PICK chunk : chunk = {hashes[i] : i \in 1 .. n}
  OBVIOUS
<1>5. PICK S : S = {p \in Stored : volume[p].name \in chunk /\ Candidate(p)}
  OBVIOUS
<1>6. PICK found \in Orderings(S) :
         matches' = [i \in 1 .. Len(inputs) |->
            matches[i] \o Picked(found, {k \in DOMAIN found : Matches(found[k], inputs[i])})]
  BY <1>2, <1>4, <1>5 DEF AskChunk
<1>7. /\ hashes' = SubSeq(hashes, n + 1, Len(hashes)) /\ asking \in {"one", "many", "names"}
      /\ volume' = volume /\ asking' = asking /\ inputs' = inputs /\ throughout' = throughout
  BY <1>2 DEF AskChunk
<1>8. /\ hashes' \in Seq(PhotoName) /\ Len(hashes') = Len(hashes) - n
      /\ \A a \in 1 .. Len(hashes) - n : hashes'[a] = hashes[n + a]
  BY <1>1, <1>3, <1>7
<1>9. IsFiniteSet(S) /\ S \subseteq Stored
  BY <1>5, FS_Subset
<1>10. ASSUME NEW i \in 1 .. Len(inputs), NEW p
       PROVE  /\ matches'[i] \in Seq(Stored)
              /\ CountOf(matches'[i], p) = CountOf(matches[i], p)
                    + (IF p \in S /\ Matches(p, inputs[i]) THEN 1 ELSE 0)
  <2>1. PICK ids : ids = {k \in DOMAIN found : Matches(found[k], inputs[i])}
    OBVIOUS
  <2>2. PICK wanted : wanted = {x \in S : Matches(x, inputs[i])}
    OBVIOUS
  <2>3. \A k \in DOMAIN found : found[k] \in S
    BY <1>6 DEF Orderings
  <2>4. ids = {k \in DOMAIN found : found[k] \in wanted} /\ wanted \in SUBSET S
    BY <2>1, <2>2, <2>3
  <2>5. PICK more : more = Picked(found, ids)
    OBVIOUS
  <2>10. more = Picked(found, {k \in DOMAIN found : found[k] \in wanted})
    BY <2>4, <2>5
  <2>6. more \in Seq(S) /\ CountOf(more, p) = IF p \in wanted THEN 1 ELSE 0
    BY <1>6, <1>9, <2>4, <2>10, FoundOnce
  <2>7. more \in Seq(Stored)
    BY <1>9, <2>6
  <2>8. matches[i] \in Seq(Stored) /\ matches'[i] = matches[i] \o more
    BY <1>1, <1>6, <2>1, <2>5
  <2>9. CountOf(matches'[i], p) = CountOf(matches[i], p) + CountOf(more, p)
    BY <2>7, <2>8, CountConcat
  <2> QED
    BY <2>2, <2>6, <2>7, <2>8, <2>9
<1>11. LookupTypes'
  <2>1. matches' \in [1 .. Len(inputs) -> Seq(Stored)]
    BY <1>6, <1>10, Zenon
  <2> QED
    BY <1>1, <1>7, <1>8, <2>1 DEF LookupTypes
<1>12. NamesOnce'
  <2> SUFFICES ASSUME NEW a \in 1 .. Len(hashes) - n, NEW b \in 1 .. Len(hashes) - n,
                      hashes'[a] = hashes'[b]
               PROVE  a = b
    BY <1>8 DEF NamesOnce
  <2>1. n + a \in 1 .. Len(hashes) /\ n + b \in 1 .. Len(hashes)
    BY <1>3
  <2>2. n + a = n + b
    BY <1>8, <2>1 DEF LookupInv, NamesOnce
  <2> QED
    BY <1>3, <2>2
<1>13. \A name : Unsent(name)' <=> Unsent(name) /\ name \notin chunk
  <2> SUFFICES ASSUME NEW name
               PROVE  Unsent(name)' <=> Unsent(name) /\ name \notin chunk
    OBVIOUS
  <2>1. ASSUME Unsent(name)' PROVE Unsent(name) /\ name \notin chunk
    <3>1. PICK a \in 1 .. Len(hashes) - n : hashes'[a] = name
      BY <1>8, <2>1 DEF Unsent
    <3>2. n + a \in 1 .. Len(hashes) /\ hashes[n + a] = name
      BY <1>3, <1>8, <3>1
    <3>3. ASSUME NEW k \in 1 .. n, hashes[k] = name PROVE FALSE
      <4>1. k \in 1 .. Len(hashes)
        BY <1>3
      <4>2. k = n + a
        BY <3>2, <3>3, <4>1 DEF LookupInv, NamesOnce
      <4> QED
        BY <1>3, <4>2
    <3> QED
      BY <1>4, <3>2, <3>3 DEF Unsent
  <2>2. ASSUME Unsent(name), name \notin chunk PROVE Unsent(name)'
    <3>1. PICK k \in 1 .. Len(hashes) : hashes[k] = name
      BY <2>2 DEF Unsent
    <3>2. k \notin 1 .. n
      BY <1>4, <2>2, <3>1
    <3>3. k - n \in 1 .. Len(hashes) - n /\ n + (k - n) = k
      BY <1>3, <3>1, <3>2
    <3>4. hashes'[k - n] = name
      BY <1>8, <3>1, <3>3
    <3> QED
      BY <1>8, <3>3, <3>4 DEF Unsent
  <2> QED
    BY <2>1, <2>2
<1>14. \A name \in chunk : Unsent(name)
  BY <1>3, <1>4 DEF Unsent
<1>15. AnswersSoFar'
  <2> SUFFICES ASSUME NEW i \in 1 .. Len(inputs), NEW p \in throughout
               PROVE  CountOf(matches'[i], p) =
                        IF Candidate(p) /\ Matches(p, inputs[i]) /\ ~Unsent(inputs[i].name)'
                        THEN 1 ELSE 0
    BY <1>7 DEF AnswersSoFar, Candidate, Matches
  <2>1. p \in Stored
    BY <1>1
  <2>2. CountOf(matches[i], p) =
            IF Candidate(p) /\ Matches(p, inputs[i]) /\ ~Unsent(inputs[i].name) THEN 1 ELSE 0
    BY <1>7 DEF LookupInv, AnswersSoFar
  <2>3. CountOf(matches'[i], p) = CountOf(matches[i], p)
                    + (IF p \in S /\ Matches(p, inputs[i]) THEN 1 ELSE 0)
    BY <1>10
  <2>4. Matches(p, inputs[i]) => volume[p].name = inputs[i].name
    BY DEF Matches
  <2>5. p \in S <=> volume[p].name \in chunk /\ Candidate(p)
    BY <1>5, <2>1
  <2>6. inputs[i].name \in chunk => Unsent(inputs[i].name)
    BY <1>14
  <2>7. Unsent(inputs[i].name)' <=> Unsent(inputs[i].name) /\ inputs[i].name \notin chunk
    <3>1. PICK name : name = inputs[i].name
      OBVIOUS
    <3>2. Unsent(inputs[i].name)' <=> Unsent(name)'
      BY <1>7, <3>1 DEF Unsent
    <3> QED
      BY <1>13, <3>1, <3>2
  <2> HIDE DEF Unsent
  <2>8. CASE Candidate(p) /\ Matches(p, inputs[i])
    BY <2>2, <2>3, <2>4, <2>5, <2>6, <2>7, <2>8
  <2>9. CASE ~(Candidate(p) /\ Matches(p, inputs[i]))
    BY <2>2, <2>3, <2>5, <2>9
  <2> QED
    BY <2>8, <2>9
<1> QED
  BY <1>11, <1>12, <1>15 DEF LookupInv

LEMMA LookupStep == LookupInv /\ [LookupNext]_lookupVars => LookupInv'
<1> SUFFICES ASSUME LookupInv, [LookupNext]_lookupVars PROVE LookupInv'
  OBVIOUS
<1>1. CASE \E items \in Wanted : FindPhotoDuplicates(items) \/ FindPhotoDuplicatesMany(items)
                                    \/ PhotoNameCollisions(items)
  BY <1>1, LookupBegins DEF FindPhotoDuplicates, FindPhotoDuplicatesMany, PhotoNameCollisions
<1>2. CASE AskChunk
  BY <1>2, ChunkAnswered, PhotoLookupAssumption
<1>3. CASE AskChunkFails \/ LookupEnds
  <2>1. asking' = "done"
    BY <1>3 DEF AskChunkFails, LookupEnds
  <2>2. UNCHANGED <<volume, throughout, inputs, hashes, matches>>
    BY <1>3 DEF AskChunkFails, LookupEnds
  <2>3. AnswersSoFar'
    BY <2>1 DEF AnswersSoFar
  <2> QED
    BY <2>2, <2>3 DEF LookupInv, LookupTypes, NamesOnce
<1>4. CASE VolumeChanges
  <2>1. PICK q \in Stored, to \in StoredPhoto :
            volume' = [volume EXCEPT ![q] = to] /\ throughout' = throughout \ {q}
    BY <1>4 DEF VolumeChanges
  <2>2. UNCHANGED <<asking, inputs, hashes, matches>>
    BY <1>4 DEF VolumeChanges
  <2>3. LookupTypes'
    BY <2>1, <2>2 DEF LookupInv, LookupTypes
  <2>4. \A p \in throughout' : volume'[p] = volume[p] /\ p \in throughout
    BY <2>1 DEF LookupInv, LookupTypes
  <2>5. \A p \in throughout', i \in 1 .. Len(inputs) :
            (Candidate(p)' <=> Candidate(p)) /\ (Matches(p, inputs[i])' <=> Matches(p, inputs[i]))
    BY <2>2, <2>4 DEF Candidate, Matches
  <2>6. \A name : Unsent(name)' <=> Unsent(name)
    BY <2>2 DEF Unsent
  <2>7. AnswersSoFar'
    <3> SUFFICES ASSUME asking \in {"one", "many", "names"},
                        NEW i \in 1 .. Len(inputs), NEW p \in throughout'
                 PROVE  CountOf(matches[i], p) =
                          IF Candidate(p)' /\ Matches(p, inputs[i])' /\ ~Unsent(inputs[i].name)'
                          THEN 1 ELSE 0
      BY <2>2 DEF AnswersSoFar
    <3>1. CountOf(matches[i], p) =
            IF Candidate(p) /\ Matches(p, inputs[i]) /\ ~Unsent(inputs[i].name) THEN 1 ELSE 0
      BY <2>4 DEF LookupInv, AnswersSoFar
    <3>2. PICK name : name = inputs[i].name
      OBVIOUS
    <3>3. Unsent(inputs[i].name)' <=> Unsent(name)'
      BY <2>2, <3>2 DEF Unsent
    <3>4. Unsent(inputs[i].name)' <=> Unsent(inputs[i].name)
      BY <2>6, <3>2, <3>3
    <3>5. (Candidate(p)' <=> Candidate(p)) /\ (Matches(p, inputs[i])' <=> Matches(p, inputs[i]))
      BY <2>5
    <3> QED
      BY <3>1, <3>4, <3>5
  <2> QED
    BY <2>2, <2>3, <2>7 DEF LookupInv, NamesOnce
<1>5. CASE UNCHANGED lookupVars
  <2>1. UNCHANGED <<volume, throughout, inputs, hashes, matches, asking>>
    BY <1>5 DEF lookupVars
  <2> QED
    BY <2>1 DEF LookupInv, LookupTypes, NamesOnce, AnswersSoFar, Candidate, Matches, Unsent
<1> QED
  BY <1>1, <1>2, <1>3, <1>4, <1>5 DEF LookupNext

\* find_photo_duplicates_many and photo_name_collisions: every input has, when the last
\* chunk has been answered, exactly the photos that match it, each once.
THEOREM InputsAlwaysAnswered == LookupSpec => []EachInputAnswered
<1>1. LookupInit => LookupInv
  <2> SUFFICES ASSUME LookupInit PROVE LookupInv
    OBVIOUS
  <2>1. hashes = <<>> /\ inputs = <<>> /\ matches = <<>> /\ throughout = {} /\ asking = "idle"
    BY DEF LookupInit
  <2>2. volume \in [Stored -> StoredPhoto]
    BY DEF LookupInit
  <2>3. Len(hashes) = 0 /\ Len(inputs) = 0
    BY <2>1
  <2>4. hashes \in Seq(PhotoName) /\ inputs \in Seq(Sought)
    BY <2>1
  <2>5. matches \in [1 .. Len(inputs) -> Seq(Stored)]
    BY <2>1, <2>3
  <2> QED
    BY <2>1, <2>2, <2>3, <2>4, <2>5 DEF LookupInv, LookupTypes, NamesOnce, AnswersSoFar
<1>2. LookupInv => EachInputAnswered
  <2> SUFFICES ASSUME LookupInv, asking \in {"one", "many", "names"}, hashes = <<>>
               PROVE  \A i \in 1 .. Len(inputs), p \in throughout :
                        CountOf(matches[i], p)
                            = IF Candidate(p) /\ Matches(p, inputs[i]) THEN 1 ELSE 0
    BY DEF EachInputAnswered
  <2>1. Len(hashes) = 0
    OBVIOUS
  <2>2. \A name : ~Unsent(name)
    BY <2>1 DEF Unsent
  <2> QED
    BY <2>2 DEF LookupInv, AnswersSoFar
<1> QED
  BY <1>1, <1>2, LookupStep, PTL DEF LookupSpec

-----------------------------------------------------------------------------
(* The crawl of a public link.                                             *)

\* Where the links may be, and the folders above n when they are at w.
Whereabouts == {w \in [VisitedLink -> Directory \cup {Nowhere}] : w[TopLink] = Nowhere}
Up(w, S) == \A m \in S : w[m] \in S \cup {Nowhere}
PathOf(w, n) ==
    {m \in VisitedLink : \A S \in SUBSET VisitedLink : n \in S /\ Up(w, S) => m \in S}

\* What nothing has disturbed is under the shared folder, and so is what is above it.
StaysPut(w, U) ==
    U \subseteq VisitedLink /\ \A n \in U : TopLink \in PathOf(w, n) /\ PathOf(w, n) \subseteq U

\* The folders still to be gone into, and how often a sequence has each link.
Queue(folders, taken, next) == SubSeq(folders, taken + 1, Len(folders)) \o next
Counts(s) == [m \in VisitedLink |-> CountOf(s, m)]

\* Of the links nothing disturbed (U): none is queued or gathered twice, a queued one
\* has been gathered, and a link has been gathered, or was skipped, exactly if its
\* folder has been gone into.  Q and G say how often a link is queued and gathered.
Reached(G, f) == f = TopLink \/ G[f] = 1
WentInto(Q, G, f) == Reached(G, f) /\ Q[f] = 0
Walked(w, U, sk, Q, G) ==
    /\ \A m \in U : Q[m] <= 1 /\ G[m] <= 1
    /\ \A m \in U : Q[m] = 1 => Reached(G, m)
    /\ TopLink \in U => G[TopLink] = 0
    /\ \A m \in U \ {TopLink} : G[m] = 1 => WentInto(Q, G, w[m])
    /\ \A m \in U \ {TopLink} : WentInto(Q, G, w[m]) => G[m] = 1 \/ m \in sk

\* A listing of the folder f: each undisturbed child is on its way or was skipped, and
\* no other link that nothing disturbed is there.
Located == VisitedLink \X (Directory \cup {Nowhere})
Listing ==
    [at : {"ids", "details", "keys"}, ids : Seq(VisitedLink), left : Seq(Located),
     nodes : Seq(VisitedLink), chain : Seq(Located)]
UnderWay(r, w, m) == CountOf(r.left, <<m, w[m]>>) + CountOf(r.nodes, m)
Empty(r) == r.left = <<>> /\ r.nodes = <<>> /\ r.chain = <<>>
ListingOf(r, f, w, U, sk) ==
    /\ r \in Listing
    /\ r.at # "keys" => Empty(r)
    /\ r.at = "details" => \A m \in U : CountOf(r.ids, m) = IF w[m] = f THEN 1 ELSE 0
    /\ r.at = "keys" =>
         \A m \in U : \/ UnderWay(r, w, m) = IF w[m] = f THEN 1 ELSE 0
                      \/ UnderWay(r, w, m) = 0 /\ m \in sk
    /\ \A k \in 1 .. Len(r.left) : r.left[k][1] \in U => r.left[k][2] = w[r.left[k][1]]
    /\ \A k \in 1 .. Len(r.chain) :
         r.left # <<>> /\ r.left[1][1] \in U =>
            /\ r.chain[k][1] \in PathOf(w, r.left[1][1]) \ {TopLink}
            /\ r.chain[k][2] = w[r.chain[k][1]]

FreshVisit == {"closed", "refused", "proving", "open"}
VisitLabels == FreshVisit \cup {"crawling", "crawled", "failed"}
VisitIs(v, label) == \E password, salt : v = [at |-> label, password |-> password, salt |-> salt]
CrawlTypes ==
    /\ level \in Seq(Directory) /\ below \in Seq(Directory) /\ gathered \in Seq(VisitedLink)
    /\ yielded \in 0 .. Len(level) /\ DOMAIN listings = 1 .. Len(level)
CrawlInv ==
    /\ CrawlTypes
    /\ StaysPut(within, undisturbed)
    /\ Walked(within, undisturbed, skipped, Counts(Queue(level, yielded, below)), Counts(gathered))
    /\ \A i \in yielded + 1 .. Len(level) :
         ListingOf(listings[i], level[i], within, undisturbed, skipped)
Untouched ==
    /\ level = <<>> /\ below = <<>> /\ gathered = <<>> /\ listings = <<>> /\ yielded = 0
    /\ undisturbed = {} /\ skipped = {}
VisitorInv ==
    /\ within \in Whereabouts
    /\ \E label \in VisitLabels : VisitIs(visit, label)
    /\ visit.at \in FreshVisit => Untouched
    /\ visit.at \in {"crawling", "crawled"} => CrawlInv
    /\ visit.at = "crawled" => level = <<>> /\ below = <<>>

\* The folders above n: n is among them, they are closed upwards, and no other set
\* closed upwards that has n is smaller.
LEMMA PathIs ==
    ASSUME NEW w \in Whereabouts, NEW n \in VisitedLink
    PROVE  /\ n \in PathOf(w, n) /\ PathOf(w, n) \subseteq VisitedLink /\ Up(w, PathOf(w, n))
           /\ \A S \in SUBSET VisitedLink : n \in S /\ Up(w, S) => PathOf(w, n) \subseteq S
<1>1. n \in PathOf(w, n) /\ PathOf(w, n) \subseteq VisitedLink
  BY DEF PathOf
<1>2. \A S \in SUBSET VisitedLink : n \in S /\ Up(w, S) => PathOf(w, n) \subseteq S
  BY DEF PathOf
<1>3. Up(w, PathOf(w, n))
  <2> SUFFICES ASSUME NEW m \in PathOf(w, n), w[m] # Nowhere PROVE w[m] \in PathOf(w, n)
    BY DEF Up
  <2>1. m \in VisitedLink /\ w[m] \in VisitedLink
    BY VisitorAssumption DEF PathOf, Whereabouts
  <2>2. ASSUME NEW S \in SUBSET VisitedLink, n \in S, Up(w, S) PROVE w[m] \in S
    <3>1. m \in S
      BY <2>2 DEF PathOf
    <3> QED
      BY <2>2, <3>1 DEF Up
  <2> QED
    BY <2>1, <2>2 DEF PathOf
<1> QED
  BY <1>1, <1>2, <1>3

\* What is above something above n is above n.
LEMMA PathWithin ==
    ASSUME NEW w \in Whereabouts, NEW n \in VisitedLink, NEW c \in PathOf(w, n)
    PROVE  PathOf(w, c) \subseteq PathOf(w, n)
<1>1. PathOf(w, n) \in SUBSET VisitedLink /\ Up(w, PathOf(w, n))
  BY PathIs
<1>2. c \in VisitedLink
  BY <1>1
<1> QED
  BY <1>1, <1>2, PathIs

\* A link that is under the shared folder has a folder that is, unless it is the shared
\* folder.
LEMMA PathStep ==
    ASSUME NEW w \in Whereabouts, NEW n \in VisitedLink, TopLink \in PathOf(w, n), n # TopLink
    PROVE  /\ w[n] \in Directory /\ w[n] \in PathOf(w, n)
           /\ TopLink \in PathOf(w, w[n])
<1>1. w[n] \in Directory \cup {Nowhere}
  BY DEF Whereabouts
<1>2. ASSUME w[n] = Nowhere PROVE FALSE
  <2>1. {n} \in SUBSET VisitedLink /\ Up(w, {n})
    BY <1>2 DEF Up
  <2>2. PathOf(w, n) \subseteq {n}
    BY <2>1, PathIs
  <2> QED
    BY <2>2
<1>3. w[n] \in Directory /\ w[n] \in VisitedLink
  BY <1>1, <1>2, VisitorAssumption
<1>4. w[n] \in PathOf(w, n)
  BY <1>2, PathIs DEF Up
<1>5. PICK P : P = PathOf(w, w[n])
  OBVIOUS
<1>6. w[n] \in P /\ P \subseteq VisitedLink /\ Up(w, P)
  BY <1>3, <1>5, PathIs
<1>7. {n} \cup P \in SUBSET VisitedLink /\ Up(w, {n} \cup P) /\ n \in {n} \cup P
  BY <1>6 DEF Up
<1>8. PathOf(w, n) \subseteq {n} \cup P
  BY <1>7, PathIs
<1> QED
  BY <1>3, <1>4, <1>5, <1>8

\* What is under the shared folder has only such folders above it.
LEMMA SharedAbove ==
    ASSUME NEW w \in Whereabouts, NEW n \in VisitedLink, TopLink \in PathOf(w, n),
           NEW c \in PathOf(w, n)
    PROVE  TopLink \in PathOf(w, c)
<1> DEFINE D == {m \in PathOf(w, n) : TopLink \in PathOf(w, m)}
<1>1. D \in SUBSET VisitedLink /\ n \in D
  BY PathIs
<1>2. Up(w, D)
  <2> SUFFICES ASSUME NEW m \in D, w[m] # Nowhere PROVE w[m] \in D
    BY DEF Up
  <2>1. m \in VisitedLink /\ TopLink \in PathOf(w, m) /\ m \in PathOf(w, n)
    BY <1>1
  <2>2. m # TopLink
    BY DEF Whereabouts
  <2>3. TopLink \in PathOf(w, w[m])
    BY <2>1, <2>2, PathStep
  <2>4. w[m] \in PathOf(w, n)
    BY <2>1, PathIs DEF Up
  <2> QED
    BY <2>3, <2>4
<1> HIDE DEF D
<1>3. PathOf(w, n) \subseteq D
  BY <1>1, <1>2, PathIs
<1> QED
  BY <1>3 DEF D

\* A move leaves the way up from a link alone that does not lead past it.
LEMMA MovePath ==
    ASSUME NEW w \in Whereabouts, NEW n \in VisitedLink, NEW z \in Whereabouts,
           \A c \in VisitedLink \ {n} : z[c] = w[c], NEW m \in VisitedLink, n \notin PathOf(w, m)
    PROVE  PathOf(z, m) = PathOf(w, m)
<1>1. PICK P, R : P = PathOf(w, m) /\ R = PathOf(z, m)
  OBVIOUS
<1>2. m \in P /\ P \in SUBSET VisitedLink /\ Up(w, P) /\ n \notin P
  BY <1>1, PathIs
<1>3. m \in R /\ R \in SUBSET VisitedLink /\ Up(z, R)
  BY <1>1, PathIs
<1>4. Up(z, P)
  BY <1>2 DEF Up
<1>5. R \subseteq P
  BY <1>1, <1>2, <1>4, PathIs
<1>6. Up(w, R)
  BY <1>2, <1>3, <1>5 DEF Up
<1>7. P \subseteq R
  BY <1>1, <1>3, <1>6, PathIs
<1> QED
  BY <1>1, <1>5, <1>7

\* A move keeps the rest of what nothing disturbed steady, and where it is.
LEMMA MoveSteady ==
    ASSUME NEW w \in Whereabouts, NEW n \in VisitedLink, NEW z \in Whereabouts,
           \A c \in VisitedLink \ {n} : z[c] = w[c],
           NEW U, StaysPut(w, U), NEW V, V \subseteq U, \A m \in U : m \in V <=> n \notin PathOf(w, m)
    PROVE  StaysPut(z, V) /\ \A m \in V : z[m] = w[m] /\ PathOf(z, m) = PathOf(w, m)
<1>1. U \subseteq VisitedLink
  BY DEF StaysPut
<1>2. ASSUME NEW m \in V
      PROVE  /\ z[m] = w[m] /\ PathOf(z, m) = PathOf(w, m)
             /\ TopLink \in PathOf(z, m) /\ PathOf(z, m) \subseteq V
  <2>1. m \in U /\ m \in VisitedLink /\ n \notin PathOf(w, m)
    BY <1>1
  <2>2. PathOf(z, m) = PathOf(w, m)
    BY <2>1, MovePath
  <2>3. m # n
    BY <2>1, PathIs
  <2>4. TopLink \in PathOf(w, m) /\ PathOf(w, m) \subseteq U
    BY <2>1 DEF StaysPut
  <2>5. ASSUME NEW c \in PathOf(w, m) PROVE c \in V
    <3>1. PathOf(w, c) \subseteq PathOf(w, m)
      BY <2>1, PathWithin
    <3> QED
      BY <2>1, <2>4, <3>1
  <2> QED
    BY <2>1, <2>2, <2>3, <2>4, <2>5
<1> QED
  BY <1>1, <1>2 DEF StaysPut

\* A steady link's folder is steady.
LEMMA SteadyFolder ==
    ASSUME NEW w \in Whereabouts, NEW U, StaysPut(w, U), NEW m \in U \ {TopLink}
    PROVE  w[m] \in Directory /\ w[m] \in U /\ w[m] \in VisitedLink /\ w[m] \in PathOf(w, m)
<1>1. m \in VisitedLink /\ TopLink \in PathOf(w, m) /\ PathOf(w, m) \subseteq U
  BY DEF StaysPut
<1> QED
  BY <1>1, PathStep, VisitorAssumption

-----------------------------------------------------------------------------
\* What holds of more links holds of fewer, and more may have been skipped.
LEMMA WalkedLess ==
    ASSUME NEW w, NEW z, NEW U, NEW V \in SUBSET U, \A m \in V : z[m] = w[m], NEW sk, NEW more,
           sk \subseteq more, NEW Q, NEW G, Walked(w, U, sk, Q, G)
    PROVE  Walked(z, V, more, Q, G)
  BY Zenon DEF Walked

LEMMA ListingLess ==
    ASSUME NEW w, NEW z, NEW U, NEW V \in SUBSET U,
           \A m \in V : z[m] = w[m] /\ PathOf(z, m) = PathOf(w, m) /\ PathOf(w, m) \subseteq V,
           NEW sk, NEW more, sk \subseteq more, NEW r, NEW f, ListingOf(r, f, w, U, sk)
    PROVE  ListingOf(r, f, z, V, more)
<1>1. /\ r \in Listing
      /\ r.at # "keys" => Empty(r)
  BY DEF ListingOf
<1>2. r.at = "details" => \A m \in V : CountOf(r.ids, m) = IF z[m] = f THEN 1 ELSE 0
  BY DEF ListingOf
<1>3. r.at = "keys" =>
         \A m \in V : \/ UnderWay(r, z, m) = IF z[m] = f THEN 1 ELSE 0
                      \/ UnderWay(r, z, m) = 0 /\ m \in more
  BY DEF ListingOf, UnderWay
<1>4. \A k \in 1 .. Len(r.left) : r.left[k][1] \in V => r.left[k][2] = z[r.left[k][1]]
  BY DEF ListingOf
<1>5. ASSUME NEW k \in 1 .. Len(r.chain), r.left # <<>>, r.left[1][1] \in V
      PROVE  /\ r.chain[k][1] \in PathOf(z, r.left[1][1]) \ {TopLink}
             /\ r.chain[k][2] = z[r.chain[k][1]]
  <2>1. PICK m \in V : m = r.left[1][1]
    BY <1>5
  <2>2. r.chain[k][1] \in PathOf(w, m) \ {TopLink} /\ r.chain[k][2] = w[r.chain[k][1]]
    BY <1>5, <2>1 DEF ListingOf
  <2> QED
    BY <2>1, <2>2
<1> QED
  BY <1>1, <1>2, <1>3, <1>4, <1>5 DEF ListingOf

\* What a listing of the folder f, with N[m] nodes of the link m, leaves queued and
\* gathered.
TakesUp(w, U, sk, f, N) ==
    \A m \in U : N[m] = (IF w[m] = f THEN 1 ELSE 0) \/ (N[m] = 0 /\ m \in sk)
Requeued(Q, Q2, f, N) ==
    \A m \in VisitedLink : Q2[m] = (IF m = f THEN Q[m] - 1 ELSE Q[m])
                                   + (IF m \in Directory THEN N[m] ELSE 0)
Regathered(G, G2, N) == \A m \in VisitedLink : G2[m] = G[m] + N[m]

\* A listing of the folder f is taken: f is no longer queued, and its children are
\* gathered and those that are folders queued.
LEMMA WalkedTake ==
    ASSUME NEW w \in Whereabouts, NEW U, StaysPut(w, U), NEW sk,
           NEW Q \in [VisitedLink -> Nat], NEW G \in [VisitedLink -> Nat], Walked(w, U, sk, Q, G),
           NEW N \in [VisitedLink -> Nat], NEW f \in Directory, Q[f] >= 1,
           TakesUp(w, U, sk, f, N),
           NEW Q2 \in [VisitedLink -> Nat], NEW G2 \in [VisitedLink -> Nat],
           Requeued(Q, Q2, f, N), Regathered(G, G2, N)
    PROVE  Walked(w, U, sk, Q2, G2)
<1> USE DEF WentInto, Reached, TakesUp, Requeued, Regathered
<1>1. U \subseteq VisitedLink /\ f \in VisitedLink /\ f # Nowhere /\ w[TopLink] = Nowhere
  BY VisitorAssumption DEF StaysPut, Whereabouts
<1>2. /\ \A m \in U : Q[m] \in Nat /\ G[m] \in Nat /\ N[m] \in Nat /\ Q2[m] \in Nat /\ G2[m] \in Nat
      /\ \A m \in U : G2[m] = G[m] + N[m]
      /\ \A m \in U : Q2[m] = (IF m = f THEN Q[m] - 1 ELSE Q[m])
                              + (IF m \in Directory THEN N[m] ELSE 0)
      /\ Q[f] \in Nat
  BY <1>1
<1>3. \A m \in U : Q[m] <= 1 /\ G[m] <= 1 /\ (Q[m] = 1 => Reached(G, m))
  BY DEF Walked
<1>4. TopLink \in U => G[TopLink] = 0 /\ N[TopLink] = 0
  BY <1>1, <1>2 DEF Walked
<1>5. \A m \in U \ {TopLink} : w[m] \in U /\ w[m] \in Directory
  BY SteadyFolder
<1>6. \A m \in U \ {TopLink} : G[m] = 1 => WentInto(Q, G, w[m])
  BY DEF Walked
<1>7. \A m \in U \ {TopLink} : WentInto(Q, G, w[m]) => G[m] = 1 \/ m \in sk
  BY DEF Walked
\* The children of f had not been gathered.
<1>8. \A m \in U : N[m] >= 1 => N[m] = 1 /\ w[m] = f /\ m # TopLink /\ f \in U /\ G[m] = 0 /\ Q[m] = 0
  <2> SUFFICES ASSUME NEW m \in U, N[m] >= 1
               PROVE  N[m] = 1 /\ w[m] = f /\ m # TopLink /\ f \in U /\ G[m] = 0 /\ Q[m] = 0
    OBVIOUS
  <2>1. N[m] = 1 /\ w[m] = f /\ m # TopLink
    BY <1>1, <1>2
  <2>2. f \in U
    BY <1>5, <2>1
  <2>3. G[m] # 1
    BY <1>2, <1>6, <2>1
  <2>4. G[m] = 0
    BY <1>2, <1>3, <2>3
  <2>5. Q[m] # 1
    BY <1>3, <2>1, <2>4
  <2> QED
    BY <1>2, <1>3, <2>1, <2>2, <2>4, <2>5
<1>9. \A m \in U : N[m] = 0 \/ N[m] >= 1
  BY <1>2
<1>10. \A m \in U : Q2[m] <= 1 /\ G2[m] <= 1
  <2> SUFFICES ASSUME NEW m \in U PROVE Q2[m] <= 1 /\ G2[m] <= 1
    OBVIOUS
  <2>1. CASE N[m] = 0
    <3>1. G2[m] = G[m]
      BY <1>2, <2>1
    <3>2. Q2[m] = Q[m] \/ Q2[m] = Q[m] - 1
      BY <1>2, <2>1
    <3>3. PICK a \in Nat, b \in Nat : a = Q[m] /\ b = Q2[m]
      BY <1>2
    <3>4. a <= 1 /\ G[m] <= 1
      BY <1>3, <3>3
    <3>5. b <= 1
      BY <3>2, <3>3, <3>4
    <3> QED
      BY <3>1, <3>3, <3>4, <3>5
  <2>2. CASE N[m] >= 1
    <3>1. N[m] = 1 /\ G[m] = 0 /\ Q[m] = 0
      BY <1>8, <2>2
    <3>2. m # f
      BY <3>1
    <3>3. G2[m] = 1
      BY <1>2, <3>1
    <3>4. Q2[m] = IF m \in Directory THEN 1 ELSE 0
      BY <1>2, <3>1, <3>2
    <3> QED
      BY <3>3, <3>4
  <2> QED
    BY <1>9, <2>1, <2>2
<1>11. \A m \in U : Q2[m] = 1 => Reached(G2, m)
  <2> SUFFICES ASSUME NEW m \in U, Q2[m] = 1 PROVE Reached(G2, m)
    OBVIOUS
  <2>1. CASE N[m] = 0
    <3>1. Q[m] = 1
      BY <1>2, <1>3, <2>1
    <3> QED
      BY <1>2, <1>3, <2>1, <3>1
  <2>2. CASE N[m] >= 1
    BY <1>2, <1>8, <2>2
  <2> QED
    BY <1>9, <2>1, <2>2
<1>12. TopLink \in U => G2[TopLink] = 0
  BY <1>2, <1>4
\* f itself is not queued again.
<1>13. f \in U => Q2[f] = 0 /\ Reached(G2, f) /\ N[f] = 0
  <2> SUFFICES ASSUME f \in U PROVE Q2[f] = 0 /\ Reached(G2, f) /\ N[f] = 0
    OBVIOUS
  <2>1. Q[f] = 1 /\ Reached(G, f)
    BY <1>2, <1>3
  <2>2. N[f] = 0
    BY <1>8, <1>9, <2>1
  <2> QED
    BY <1>2, <2>1, <2>2
<1>14. ASSUME NEW m \in U \ {TopLink}, G2[m] = 1 PROVE WentInto(Q2, G2, w[m])
  <2>1. CASE N[m] >= 1
    BY <1>8, <1>13, <2>1
  <2>2. CASE N[m] = 0
    <3>1. PICK g \in U : g = w[m]
      BY <1>5
    <3>2. Reached(G, g) /\ Q[g] = 0
      BY <1>2, <1>6, <1>14, <2>2, <3>1
    <3>3. N[g] = 0
      <4>1. ASSUME N[g] >= 1 PROVE FALSE
        BY <1>8, <3>2, <4>1
      <4> QED
        BY <1>9, <4>1
    <3>4. g # f
      BY <1>2, <3>2
    <3>5. Q2[g] = 0
      BY <1>2, <3>2, <3>3, <3>4
    <3>6. G2[g] = G[g]
      BY <1>2, <3>3
    <3> QED
      BY <3>1, <3>2, <3>5, <3>6
  <2> QED
    BY <1>9, <2>1, <2>2
<1>15. ASSUME NEW m \in U \ {TopLink}, WentInto(Q2, G2, w[m]) PROVE G2[m] = 1 \/ m \in sk
  <2>1. PICK g \in U : g = w[m] /\ g \in Directory
    BY <1>5
  <2>2. CASE g = f
    <3>1. N[m] = 1 \/ m \in sk
      BY <2>1, <2>2
    <3>2. N[m] = 1 => G2[m] = 1
      BY <1>2, <1>8
    <3> QED
      BY <3>1, <3>2
  <2>3. CASE g # f
    <3>1. Q[g] = 0 /\ N[g] = 0
      BY <1>2, <1>15, <2>1, <2>3
    <3>2. Reached(G, g)
      BY <1>2, <1>15, <2>1, <3>1
    <3>3. G[m] = 1 \/ m \in sk
      BY <1>7, <2>1, <3>1, <3>2
    <3>4. N[m] = 0
      <4>1. N[m] >= 1 => w[m] = f
        BY <1>8
      <4> QED
        BY <1>9, <2>1, <2>3, <4>1
    <3> QED
      BY <1>2, <3>3, <3>4
  <2> QED
    BY <2>2, <2>3
<1> QED
  BY <1>10, <1>11, <1>12, <1>14, <1>15 DEF Walked

-----------------------------------------------------------------------------
\* A listing that has not begun.
LEMMA ListingBegins ==
    ASSUME NEW f, NEW w, NEW U, NEW sk
    PROVE  ListingOf(NewListing, f, w, U, sk)
<1>1. PICK e : e = <<>>
  OBVIOUS
<1>2. e \in Seq(VisitedLink) /\ e \in Seq(Located) /\ Len(e) = 0
  BY <1>1
<1>3. PICK r : r = NewListing
  OBVIOUS
<1>4. r \in Listing /\ r.at = "ids" /\ r.left = e /\ r.nodes = e /\ r.chain = e
  BY <1>1, <1>2, <1>3 DEF NewListing, Listing
<1>5. ListingOf(r, f, w, U, sk)
  BY <1>1, <1>2, <1>4 DEF ListingOf, Empty
<1> QED
  BY <1>3, <1>5

\* The children's ids have come.
LEMMA ListingHasIds ==
    ASSUME NEW w \in Whereabouts, NEW U \in SUBSET VisitedLink, NEW sk, NEW f,
           NEW r, ListingOf(r, f, w, U, sk), r.at = "ids",
           NEW kids \in Orderings({n \in VisitedLink : w[n] = f})
    PROVE  ListingOf([r EXCEPT !.at = "details", !.ids = kids], f, w, U, sk)
<1>1. PICK K : K = {n \in VisitedLink : w[n] = f}
  OBVIOUS
<1>2. K \subseteq VisitedLink /\ IsFiniteSet(K)
  BY <1>1, VisitorAssumption, FS_Subset
<1>3. kids \in Seq(K) /\ \A m : CountOf(kids, m) = IF m \in K THEN 1 ELSE 0
  BY <1>1, <1>2, CountOrdering
<1>4. kids \in Seq(VisitedLink)
  BY <1>2, <1>3, SeqMonotonic
<1>5. PICK q : q = [r EXCEPT !.at = "details", !.ids = kids]
  OBVIOUS
<1>6. r \in Listing /\ Empty(r)
  BY DEF ListingOf
<1>7. /\ q \in Listing /\ q.at = "details" /\ q.ids = kids
      /\ q.left = <<>> /\ q.nodes = <<>> /\ q.chain = <<>>
  BY <1>4, <1>5, <1>6 DEF Listing, Empty
<1>8. \A m \in U : CountOf(q.ids, m) = IF w[m] = f THEN 1 ELSE 0
  BY <1>1, <1>3, <1>7
<1>9. Len(q.left) = 0 /\ Len(q.chain) = 0
  BY <1>7
<1>10. ListingOf(q, f, w, U, sk)
  BY <1>7, <1>8, <1>9 DEF ListingOf, Empty
<1> QED
  BY <1>5, <1>10

\* The children's details have come, of those that are still shared.
Detailed(there, w) == [k \in 1 .. Len(there) |-> <<there[k], w[there[k]]>>]
StillShared(ids, w) ==
    Picked(ids, {k \in 1 .. Len(ids) : ids[k] \in VisitedLink /\ TopLink \in PathOf(w, ids[k])})

LEMMA ListingHasDetails ==
    ASSUME NEW w \in Whereabouts, NEW U, StaysPut(w, U), NEW sk, NEW f,
           NEW r, ListingOf(r, f, w, U, sk), r.at = "details"
    PROVE  ListingOf([r EXCEPT !.at = "keys", !.left = Detailed(StillShared(r.ids, w), w)],
                     f, w, U, sk)
<1>1. r \in Listing /\ Empty(r) /\ U \subseteq VisitedLink
  BY DEF ListingOf, StaysPut
<1>2. PICK ids \in Seq(VisitedLink) : ids = r.ids
  BY <1>1 DEF Listing
<1>3. PICK P \in SUBSET (1 .. Len(ids)) :
        P = {k \in 1 .. Len(ids) : ids[k] \in VisitedLink /\ TopLink \in PathOf(w, ids[k])}
  OBVIOUS
<1>4. PICK there : there = Picked(ids, P)
  OBVIOUS
<1>5. there = StillShared(r.ids, w)
  BY <1>2, <1>3, <1>4 DEF StillShared
<1>6. there \in Seq(VisitedLink)
  BY <1>4, PickedIs
<1>7. PICK left : left = Detailed(there, w)
  OBVIOUS
<1>8. Len(there) \in Nat /\ \A k \in 1 .. Len(there) : there[k] \in VisitedLink
  BY <1>6
<1>9. left \in [1 .. Len(there) -> Located]
  <2>1. \A k \in 1 .. Len(there) : <<there[k], w[there[k]]>> \in Located
    BY <1>8 DEF Located, Whereabouts
  <2> QED
    BY <1>7, <2>1 DEF Detailed
<1>10. left \in Seq(Located) /\ Len(left) = Len(there)
  BY <1>8, <1>9, IsASeq, LenProperties
<1>11. \A k \in 1 .. Len(left) : left[k] = <<there[k], w[there[k]]>>
  BY <1>7, <1>10 DEF Detailed
<1>12. ASSUME NEW m \in U PROVE CountOf(left, <<m, w[m]>>) = IF w[m] = f THEN 1 ELSE 0
  <2>1. {k \in 1 .. Len(left) : left[k] = <<m, w[m]>>} = {k \in 1 .. Len(there) : there[k] = m}
    BY <1>10, <1>11
  <2>2. CountOf(left, <<m, w[m]>>) = CountOf(there, m)
    BY <2>1 DEF CountOf
  <2>3. CountOf(there, m) = Cardinality(Spots(ids, P, m))
    BY <1>4, CountPicked
  <2>4. Spots(ids, P, m) = {k \in 1 .. Len(ids) : ids[k] = m}
    BY <1>1, <1>3 DEF Spots, StaysPut
  <2>5. CountOf(ids, m) = IF w[m] = f THEN 1 ELSE 0
    BY <1>2 DEF ListingOf
  <2> QED
    BY <2>2, <2>3, <2>4, <2>5 DEF CountOf
<1>13. PICK q : q = [r EXCEPT !.at = "keys", !.left = left]
  OBVIOUS
<1>14. q \in Listing /\ q.at = "keys" /\ q.left = left /\ q.nodes = <<>> /\ q.chain = <<>>
  BY <1>1, <1>10, <1>13 DEF Listing, Empty
<1>15. \A m \in U : UnderWay(q, w, m) = IF w[m] = f THEN 1 ELSE 0
  <2> SUFFICES ASSUME NEW m \in U PROVE UnderWay(q, w, m) = IF w[m] = f THEN 1 ELSE 0
    OBVIOUS
  <2>1. CountOf(q.nodes, m) = 0
    BY <1>14, CountEmpty
  <2>2. CountOf(q.left, <<m, w[m]>>) = IF w[m] = f THEN 1 ELSE 0
    BY <1>12, <1>14
  <2> QED
    BY <2>1, <2>2 DEF UnderWay
<1>16. \A k \in 1 .. Len(q.left) : q.left[k][2] = w[q.left[k][1]]
  BY <1>11, <1>14
<1>17. Len(q.chain) = 0
  BY <1>14
<1>18. ListingOf(q, f, w, U, sk)
  BY <1>14, <1>15, <1>16, <1>17 DEF ListingOf
<1> QED
  BY <1>5, <1>7, <1>13, <1>18

\* How many of a link's entries are under way when the first child is through: as
\* before, but for that child, which is now built or not (n is 1 or 0).
LEMMA FirstThrough ==
    ASSUME NEW w, NEW U \in SUBSET VisitedLink, NEW sk, NEW f,
           NEW r, ListingOf(r, f, w, U, sk), r.at = "keys", r.left # <<>>,
           NEW q \in Listing, q.at = "keys", q.left = Tail(r.left), q.chain = <<>>, NEW sk2,
           sk \subseteq sk2,
           \A m \in U : \/ CountOf(q.nodes, m) = CountOf(r.nodes, m)
                                                 + (IF Head(r.left)[1] = m THEN 1 ELSE 0)
                        \/ /\ CountOf(q.nodes, m) = CountOf(r.nodes, m)
                           /\ Head(r.left)[1] = m => m \in sk2
    PROVE  ListingOf(q, f, w, U, sk2)
<1>1. r.left \in Seq(Located) /\ r.nodes \in Seq(VisitedLink) /\ q.nodes \in Seq(VisitedLink)
  BY DEF ListingOf, Listing
<1>2. PICK left \in Seq(Located) : left = r.left /\ left # <<>>
  BY <1>1
<1>3. /\ Head(left) \in Located /\ Head(left) = left[1] /\ Tail(left) \in Seq(Located)
      /\ Len(left) \in Nat \ {0} /\ Len(Tail(left)) = Len(left) - 1
      /\ \A k \in 1 .. Len(Tail(left)) : Tail(left)[k] = left[k + 1] /\ k + 1 \in 1 .. Len(left)
  BY <1>2
<1>4. \A k \in 1 .. Len(left) : left[k][1] \in U => left[k][2] = w[left[k][1]]
  BY <1>2 DEF ListingOf
<1>5. \A k \in 1 .. Len(q.left) : q.left[k][1] \in U => q.left[k][2] = w[q.left[k][1]]
  BY <1>2, <1>3, <1>4
<1>6. ASSUME NEW m \in U
      PROVE  \/ UnderWay(q, w, m) = IF w[m] = f THEN 1 ELSE 0
             \/ UnderWay(q, w, m) = 0 /\ m \in sk2
  <2>1. PICK a \in Nat, b \in Nat : a = CountOf(left, <<m, w[m]>>) /\ b = CountOf(Tail(left), <<m, w[m]>>)
    BY <1>3, CountType
  <2>2. PICK c \in Nat, d \in Nat : c = CountOf(r.nodes, m) /\ d = CountOf(q.nodes, m)
    BY <1>1, CountType
  <2>3. Head(left)[1] = m <=> Head(left) = <<m, w[m]>>
    <3>1. 1 \in 1 .. Len(left)
      BY <1>3
    <3>2. PICK x \in VisitedLink, y \in Directory \cup {Nowhere} : Head(left) = <<x, y>>
      BY <1>3 DEF Located
    <3>3. x = m => y = w[m]
      BY <1>3, <1>4, <3>1, <3>2
    <3> QED
      BY <3>2, <3>3
  <2>4. a = (IF Head(left)[1] = m THEN 1 ELSE 0) + b
    BY <1>2, <2>1, <2>3, CountHead
  <2>5. a + c = (IF w[m] = f THEN 1 ELSE 0) \/ (a + c = 0 /\ m \in sk)
    BY <1>2, <2>1, <2>2 DEF ListingOf, UnderWay
  <2>6. d = c + (IF Head(left)[1] = m THEN 1 ELSE 0) \/ (d = c /\ (Head(left)[1] = m => m \in sk2))
    BY <1>2, <2>2
  <2>7. UnderWay(q, w, m) = b + d
    BY <1>2, <2>1, <2>2 DEF UnderWay
  <2>8. CASE Head(left)[1] = m
    <3>1. a = 1 + b /\ (d = c + 1 \/ (d = c /\ m \in sk2))
      BY <2>4, <2>6, <2>8
    <3>2. b = 0 /\ c = 0
      BY <2>5, <3>1
    <3> QED
      BY <2>5, <2>7, <3>1, <3>2
  <2>9. CASE Head(left)[1] # m
    <3>1. a = b /\ d = c
      BY <2>4, <2>6, <2>9
    <3> QED
      BY <2>5, <2>7, <3>1
  <2> QED
    BY <2>8, <2>9
<1>7. Len(q.chain) = 0
  OBVIOUS
<1> QED
  BY <1>5, <1>6, <1>7 DEF ListingOf

\* The child is built.
LEMMA ListingBuilds ==
    ASSUME NEW w, NEW U \in SUBSET VisitedLink, NEW sk, NEW f,
           NEW r, ListingOf(r, f, w, U, sk), r.at = "keys", r.left # <<>>
    PROVE  ListingOf([r EXCEPT !.nodes = Append(@, Head(r.left)[1]), !.left = Tail(@),
                               !.chain = <<>>], f, w, U, sk)
<1>1. PICK q : q = [r EXCEPT !.nodes = Append(@, Head(r.left)[1]), !.left = Tail(@), !.chain = <<>>]
  OBVIOUS
<1>2. r \in Listing /\ r.left \in Seq(Located) /\ r.nodes \in Seq(VisitedLink)
  BY DEF ListingOf, Listing
<1>3. PICK x : x = Head(r.left)[1]
  OBVIOUS
<1>4. x \in VisitedLink /\ Tail(r.left) \in Seq(Located) /\ <<x>> \in Seq(VisitedLink)
  BY <1>2, <1>3 DEF Located
<1>5. /\ Append(r.nodes, x) \in Seq(VisitedLink) /\ <<>> \in Seq(Located)
      /\ Append(r.nodes, x) = r.nodes \o <<x>>
  BY <1>2, <1>4, AppendIsConcat
<1>6. /\ q \in Listing /\ q.at = "keys" /\ q.left = Tail(r.left) /\ q.chain = <<>>
      /\ q.nodes = Append(r.nodes, x)
  BY <1>1, <1>2, <1>3, <1>4, <1>5 DEF Listing
<1>7. ASSUME NEW m \in U
      PROVE  CountOf(q.nodes, m) = CountOf(r.nodes, m) + (IF x = m THEN 1 ELSE 0)
  <2>1. CountOf(r.nodes \o <<x>>, m) = CountOf(r.nodes, m) + CountOf(<<x>>, m)
    BY <1>2, <1>4, CountConcat
  <2> QED
    BY <1>5, <1>6, <2>1, CountSingle
<1>8. ListingOf(q, f, w, U, sk)
  BY <1>3, <1>6, <1>7, FirstThrough
<1> QED
  BY <1>1, <1>8

\* The child is left out: it had been disturbed, or is recorded.
LEMMA ListingSkips ==
    ASSUME NEW w, NEW U \in SUBSET VisitedLink, NEW sk, NEW f,
           NEW r, ListingOf(r, f, w, U, sk), r.at = "keys", r.left # <<>>, NEW sk2,
           sk \subseteq sk2, Head(r.left)[1] \in U => Head(r.left)[1] \in sk2
    PROVE  ListingOf([r EXCEPT !.left = Tail(@), !.chain = <<>>], f, w, U, sk2)
<1>1. PICK q : q = [r EXCEPT !.left = Tail(@), !.chain = <<>>]
  OBVIOUS
<1>2. r \in Listing /\ r.left \in Seq(Located)
  BY DEF ListingOf, Listing
<1>3. Tail(r.left) \in Seq(Located) /\ <<>> \in Seq(Located)
  BY <1>2
<1>4. q \in Listing /\ q.at = "keys" /\ q.left = Tail(r.left) /\ q.chain = <<>> /\ q.nodes = r.nodes
  BY <1>1, <1>2, <1>3 DEF Listing
<1>5. \A m \in U : CountOf(q.nodes, m) = CountOf(r.nodes, m) /\ (Head(r.left)[1] = m => m \in sk2)
  BY <1>4
<1>6. ListingOf(q, f, w, U, sk2)
  BY <1>4, <1>5, FirstThrough
<1> QED
  BY <1>1, <1>6

\* The way up from an undisturbed child stays on what is above it.
CursorOf(r) == IF r.chain = <<>> THEN Head(r.left)[2] ELSE LastOf(r.chain)[2]

LEMMA CursorAbove ==
    ASSUME NEW w \in Whereabouts, NEW U, StaysPut(w, U), NEW sk, NEW f \in Directory,
           NEW r, ListingOf(r, f, w, U, sk), r.at = "keys", r.left # <<>>, Head(r.left)[1] \in U
    PROVE  /\ CursorOf(r) \in PathOf(w, Head(r.left)[1]) /\ CursorOf(r) \in VisitedLink
           /\ TopLink \in PathOf(w, CursorOf(r))
<1>1. U \subseteq VisitedLink /\ r.left \in Seq(Located) /\ r.chain \in Seq(Located)
  BY DEF ListingOf, Listing, StaysPut
<1>2. PICK m \in U : m = Head(r.left)[1]
  OBVIOUS
<1>3. m \in VisitedLink /\ TopLink \in PathOf(w, m) /\ PathOf(w, m) \subseteq VisitedLink
  BY <1>1 DEF StaysPut
<1>4. Head(r.left) = r.left[1] /\ 1 \in 1 .. Len(r.left) /\ Len(r.left) \in Nat \ {0}
  BY <1>1
<1>5. Head(r.left) = <<m, w[m]>>
  <2>1. Head(r.left)[2] = w[m]
    BY <1>2, <1>4 DEF ListingOf
  <2>2. Head(r.left) \in Located
    BY <1>1
  <2> QED
    BY <1>2, <2>1, <2>2 DEF Located
<1>6. m # TopLink
  <2> SUFFICES ASSUME m = TopLink PROVE FALSE
    OBVIOUS
  <2>1. w[m] # f
    BY VisitorAssumption DEF Whereabouts
  <2>2. UnderWay(r, w, m) = 0
    BY <1>2, <2>1 DEF ListingOf
  <2>3. PICK a \in Nat, b \in Nat : a = CountOf(r.left, <<m, w[m]>>) /\ b = CountOf(r.nodes, m)
    BY <1>1, CountType DEF ListingOf, Listing
  <2>4. a = 0
    BY <2>2, <2>3 DEF UnderWay
  <2> QED
    BY <1>1, <1>4, <1>5, <2>3, <2>4, CountZero
<1>7. PICK c \in PathOf(w, m) \ {TopLink} : CursorOf(r) = w[c]
  <2>1. CASE r.chain = <<>>
    BY <1>3, <1>5, <1>6, <2>1, PathIs DEF CursorOf
  <2>2. CASE r.chain # <<>>
    <3>1. Len(r.chain) \in 1 .. Len(r.chain)
      BY <1>1, <2>2
    <3>2. PICK k \in 1 .. Len(r.chain) : k = Len(r.chain)
      BY <3>1
    <3>3. r.chain[k][1] \in PathOf(w, m) \ {TopLink} /\ r.chain[k][2] = w[r.chain[k][1]]
      BY <1>2, <1>4 DEF ListingOf
    <3> QED
      BY <2>2, <3>2, <3>3 DEF CursorOf, LastOf
  <2> QED
    BY <2>1, <2>2
<1>8. c \in VisitedLink /\ TopLink \in PathOf(w, c) /\ PathOf(w, c) \subseteq PathOf(w, m)
  BY <1>3, SharedAbove, PathWithin
<1>9. w[c] \in PathOf(w, c) /\ TopLink \in PathOf(w, w[c])
  BY <1>7, <1>8, PathStep
<1> QED
  BY <1>2, <1>3, <1>7, <1>8, <1>9

\* One more node is climbed past.
LEMMA ListingClimbs ==
    ASSUME NEW w \in Whereabouts, NEW U, StaysPut(w, U), NEW sk, NEW f \in Directory,
           NEW r, ListingOf(r, f, w, U, sk), r.at = "keys", r.left # <<>>,
           NEW c \in VisitedLink \ {TopLink}, c = CursorOf(r)
    PROVE  ListingOf([r EXCEPT !.chain = Append(@, <<c, w[c]>>)], f, w, U, sk)
<1>1. PICK q : q = [r EXCEPT !.chain = Append(@, <<c, w[c]>>)]
  OBVIOUS
<1>2. r \in Listing /\ r.left \in Seq(Located) /\ r.chain \in Seq(Located)
  BY DEF ListingOf, Listing
<1>3. PICK e \in Located : e = <<c, w[c]>>
  BY DEF Located, Whereabouts
<1>4. Append(r.chain, e) \in Seq(Located)
  BY <1>2
<1>5. /\ q \in Listing /\ q.at = "keys" /\ q.left = r.left /\ q.nodes = r.nodes
      /\ q.chain = Append(r.chain, e)
  BY <1>1, <1>2, <1>3, <1>4 DEF Listing
<1>6. ASSUME NEW k \in 1 .. Len(q.chain), q.left # <<>>, q.left[1][1] \in U
      PROVE  /\ q.chain[k][1] \in PathOf(w, q.left[1][1]) \ {TopLink}
             /\ q.chain[k][2] = w[q.chain[k][1]]
  <2>1. PICK n \in Nat : n = Len(r.chain)
    BY <1>2
  <2>2. /\ Len(q.chain) = n + 1 /\ q.chain[n + 1] = e
        /\ \A j \in 1 .. n : q.chain[j] = r.chain[j]
    BY <1>2, <1>5, <2>1, AppendProperties
  <2>3. CASE k \in 1 .. n
    <3>1. q.chain[k] = r.chain[k]
      BY <2>2, <2>3
    <3> QED
      BY <1>5, <1>6, <2>1, <2>3, <3>1 DEF ListingOf
  <2>4. CASE k = n + 1
    <3>1. q.chain[k] = <<c, w[c]>>
      BY <1>3, <2>2, <2>4
    <3>2. Head(r.left)[1] \in U /\ Head(r.left) = q.left[1]
      BY <1>2, <1>5, <1>6
    <3>3. c \in PathOf(w, q.left[1][1])
      BY <3>2, CursorAbove
    <3> QED
      BY <3>1, <3>3
  <2> QED
    BY <2>1, <2>2, <2>3, <2>4
<1>7. \A m \in U : UnderWay(q, w, m) = UnderWay(r, w, m)
  BY <1>5 DEF UnderWay
<1>8. ListingOf(q, f, w, U, sk)
  BY <1>5, <1>6, <1>7 DEF ListingOf
<1> QED
  BY <1>1, <1>3, <1>8

-----------------------------------------------------------------------------
LEMMA LinkPathIs == \A n : LinkPath(n) = PathOf(within, n)
  BY DEF LinkPath, Upward, PathOf, Up

LEMMA VisitAt ==
    ASSUME NEW v, NEW label, VisitIs(v, label)
    PROVE  v.at = label
  BY DEF VisitIs

LEMMA VisitorStarts == VisitorInit => VisitorInv
<1> SUFFICES ASSUME VisitorInit PROVE VisitorInv
  OBVIOUS
<1>1. within \in Whereabouts
  BY VisitorAssumption DEF VisitorInit, Whereabouts
<1>2. VisitIs(visit, "closed") /\ visit.at = "closed"
  <2>1. VisitIs(visit, "closed")
    BY Zenon DEF VisitorInit, VisitIs
  <2> QED
    BY <2>1, VisitAt
<1>3. Untouched
  BY DEF VisitorInit, Untouched
<1> QED
  BY <1>1, <1>2, <1>3 DEF VisitorInv, VisitLabels, FreshVisit

LEMMA VisitMoves ==
    ASSUME NEW v, NEW label, VisitIs(v, label), NEW next
    PROVE  VisitIs([v EXCEPT !.at = next], next)
<1>1. PICK p, salt : v = [at |-> label, password |-> p, salt |-> salt]
  BY DEF VisitIs
<1>2. [v EXCEPT !.at = next] = [at |-> next, password |-> p, salt |-> salt]
  BY <1>1
<1> QED
  BY <1>2 DEF VisitIs

\* What says nothing of the crawl: its label stays, and what it has.
LEMMA CrawlSame ==
    ASSUME VisitorInv, UNCHANGED <<within, crawlVars>>, UNCHANGED visit
    PROVE  VisitorInv'
<1>1. /\ level' = level /\ listings' = listings /\ yielded' = yielded /\ below' = below
      /\ gathered' = gathered /\ undisturbed' = undisturbed /\ skipped' = skipped
      /\ within' = within /\ visit' = visit
  BY DEF crawlVars
<1>2. CrawlInv => CrawlInv'
  BY <1>1 DEF CrawlInv, CrawlTypes
<1>3. Untouched => Untouched'
  BY <1>1 DEF Untouched
<1> QED
  BY <1>1, <1>2, <1>3 DEF VisitorInv

\* The handshake.
LEMMA HandshakeSteps ==
    ASSUME VisitorInv, AskInfo \/ Prove
    PROVE  VisitorInv'
<1>1. /\ level' = level /\ listings' = listings /\ yielded' = yielded /\ below' = below
      /\ gathered' = gathered /\ undisturbed' = undisturbed /\ skipped' = skipped
      /\ within' = within
  BY DEF AskInfo, Prove, crawlVars
<1>2. PICK label \in VisitLabels : VisitIs(visit, label)
  BY DEF VisitorInv
<1>3. PICK p, salt : visit = [at |-> label, password |-> p, salt |-> salt]
  BY <1>2 DEF VisitIs
<1>4. visit.at \in FreshVisit
  BY DEF AskInfo, Prove, FreshVisit
<1>5. Untouched'
  BY <1>1, <1>4 DEF VisitorInv, Untouched
<1>6. PICK next \in {"refused", "proving", "open"} : \E other :
        visit' = [at |-> next, password |-> p, salt |-> other]
  <2>1. CASE AskInfo
    <3>1. PICK next \in {"refused", "proving"} :
            visit' = [visit EXCEPT !.at = next, !.salt = secret.password]
      BY <2>1, Zenon DEF AskInfo
    <3>2. visit' = [at |-> next, password |-> p, salt |-> secret.password]
      BY <1>3, <3>1
    <3> QED
      BY <3>2
  <2>2. CASE Prove
    <3>1. PICK next \in {"refused", "open"} : visit' = [visit EXCEPT !.at = next]
      BY <2>2, Zenon DEF Prove
    <3>2. visit' = [at |-> next, password |-> p, salt |-> salt]
      BY <1>3, <3>1
    <3> QED
      BY <3>2
  <2> QED
    BY <2>1, <2>2
<1>7. VisitIs(visit', next) /\ visit'.at = next
  <2>1. VisitIs(visit', next)
    BY <1>6, Zenon DEF VisitIs
  <2> QED
    BY <2>1, VisitAt
<1> QED
  BY <1>1, <1>5, <1>7 DEF VisitorInv, VisitLabels, FreshVisit

\* A walk that fails has nothing to keep.
LEMMA CrawlFailing ==
    ASSUME VisitorInv, CrawlFails, within' = within
    PROVE  VisitorInv'
<1>1. PICK label \in VisitLabels : VisitIs(visit, label)
  BY DEF VisitorInv
<1>2. VisitIs(visit', "failed")
  BY <1>1, VisitMoves DEF CrawlFails
<1>3. visit'.at = "failed"
  BY <1>2, VisitAt
<1> QED
  BY <1>2, <1>3 DEF VisitorInv, VisitLabels, FreshVisit

\* A step of one listing.
LEMMA ListingStep ==
    ASSUME VisitorInv, visit.at = "crawling", UNCHANGED visit,
           NEW i \in yielded + 1 .. Len(level), NEW q, listings' = [listings EXCEPT ![i] = q],
           ListingOf(q, level[i], within, undisturbed, skipped'), skipped \subseteq skipped',
           UNCHANGED <<within, level, yielded, below, gathered, undisturbed>>
    PROVE  VisitorInv'
<1>1. CrawlInv
  BY DEF VisitorInv
<1>2. CrawlTypes'
  BY <1>1 DEF CrawlInv, CrawlTypes
<1>3. Walked(within, undisturbed, skipped', Counts(Queue(level, yielded, below)), Counts(gathered))
  BY <1>1, WalkedLess DEF CrawlInv
<1>4. ASSUME NEW j \in yielded + 1 .. Len(level)
      PROVE  ListingOf(listings'[j], level[j], within, undisturbed, skipped')
  <2>1. j \in DOMAIN listings
    BY <1>1 DEF CrawlInv, CrawlTypes
  <2>2. CASE j = i
    BY <2>1, <2>2
  <2>3. CASE j # i
    <3>1. listings'[j] = listings[j]
      BY <2>1, <2>3
    <3>2. ListingOf(listings[j], level[j], within, undisturbed, skipped)
      BY <1>1 DEF CrawlInv
    <3>3. \A m \in undisturbed : PathOf(within, m) \subseteq undisturbed
      BY <1>1 DEF CrawlInv, StaysPut
    <3> QED
      BY <3>1, <3>2, <3>3, ListingLess
  <2> QED
    BY <2>2, <2>3
<1>5. CrawlInv'
  BY <1>1, <1>2, <1>3, <1>4 DEF CrawlInv
<1> QED
  BY <1>5 DEF VisitorInv, FreshVisit

\* What a listing that is started has to go by.
LEMMA AtWork ==
    ASSUME VisitorInv, NEW i \in 1 .. Len(level), NEW label, Working(i, label)
    PROVE  /\ visit.at = "crawling" /\ i \in yielded + 1 .. Len(level) /\ CrawlInv
           /\ ListingOf(listings[i], level[i], within, undisturbed, skipped)
           /\ listings[i].at = label /\ level[i] \in Directory
           /\ within \in Whereabouts /\ undisturbed \in SUBSET VisitedLink
           /\ StaysPut(within, undisturbed)
<1>1. visit.at = "crawling" /\ listings[i].at = label /\ yielded < i
  BY DEF Working, Started
<1>2. CrawlInv /\ within \in Whereabouts
  BY <1>1 DEF VisitorInv
<1>3. yielded \in Nat /\ Len(level) \in Nat /\ level[i] \in Directory
  BY <1>2 DEF CrawlInv, CrawlTypes
<1>4. i \in yielded + 1 .. Len(level)
  BY <1>1, <1>3
<1> QED
  BY <1>1, <1>2, <1>3, <1>4 DEF CrawlInv, StaysPut

LEMMA ListFolderStep ==
    ASSUME VisitorInv, NEW i \in 1 .. Len(level), ListFolder(i)
    PROVE  VisitorInv'
<1>1. Working(i, "ids")
  BY DEF ListFolder
<1>2. CASE CrawlFails
  BY <1>2, CrawlFailing DEF ListFolder, Rest
<1>3. CASE ~CrawlFails
  <2>1. PICK kids \in Orderings(Kids(level[i])) :
          Put(i, [listings[i] EXCEPT !.at = "details", !.ids = kids])
    BY <1>3 DEF ListFolder
  <2>2. visit' = visit
    BY <1>3 DEF ListFolder
  <2>3. Kids(level[i]) = {n \in VisitedLink : within[n] = level[i]}
    BY DEF Kids
  <2>4. PICK q : q = [listings[i] EXCEPT !.at = "details", !.ids = kids]
    OBVIOUS
  <2>5. ListingOf(q, level[i], within, undisturbed, skipped)
    BY <1>1, <2>3, <2>4, AtWork, ListingHasIds
  <2>6. /\ skipped' = skipped /\ listings' = [listings EXCEPT ![i] = q]
        /\ UNCHANGED <<within, level, yielded, below, gathered, undisturbed>>
    BY <2>1, <2>4 DEF ListFolder, Rest, Put
  <2> QED
    BY <1>1, <2>2, <2>5, <2>6, AtWork, ListingStep
<1> QED
  BY <1>2, <1>3

LEMMA FetchLinkDetailsStep ==
    ASSUME VisitorInv, NEW i \in 1 .. Len(level), FetchLinkDetails(i)
    PROVE  VisitorInv'
<1>1. Working(i, "details")
  BY DEF FetchLinkDetails
<1>2. CASE CrawlFails
  BY <1>2, CrawlFailing DEF FetchLinkDetails, Rest
<1>3. CASE ~CrawlFails
  <2>1. PICK r : r = listings[i]
    OBVIOUS
  <2>2. PICK P : P = {k \in 1 .. Len(r.ids) : Shared(r.ids[k])}
    OBVIOUS
  <2>3. PICK there : there = Picked(r.ids, P)
    OBVIOUS
  <2>4. Put(i, [r EXCEPT !.at = "keys", !.left = Detailed(there, within)]) /\ visit' = visit
    BY <1>3, <2>1, <2>2, <2>3 DEF FetchLinkDetails, Detailed
  <2>5. P = {k \in 1 .. Len(r.ids) : r.ids[k] \in VisitedLink /\ TopLink \in PathOf(within, r.ids[k])}
    BY <2>2, LinkPathIs DEF Shared
  <2>6. there = StillShared(r.ids, within)
    BY <2>3, <2>5 DEF StillShared
  <2>7. PICK q : q = [r EXCEPT !.at = "keys", !.left = Detailed(there, within)]
    OBVIOUS
  <2>8. ListingOf(q, level[i], within, undisturbed, skipped)
    BY <1>1, <2>1, <2>6, <2>7, AtWork, ListingHasDetails
  <2>9. /\ skipped' = skipped /\ listings' = [listings EXCEPT ![i] = q]
        /\ UNCHANGED <<within, level, yielded, below, gathered, undisturbed>>
    BY <2>4, <2>7 DEF FetchLinkDetails, Rest, Put
  <2> QED
    BY <1>1, <2>4, <2>8, <2>9, AtWork, ListingStep
<1> QED
  BY <1>2, <1>3

LEMMA BuildNodeStep ==
    ASSUME VisitorInv, NEW i \in 1 .. Len(level), BuildNode(i)
    PROVE  VisitorInv'
<1>1. Working(i, "keys") /\ listings[i].left # <<>>
  BY DEF BuildNode
<1>2. PICK r : r = listings[i]
  OBVIOUS
<1>3. PICK q : q = [r EXCEPT !.nodes = Append(@, Head(r.left)[1]), !.left = Tail(@), !.chain = <<>>]
  OBVIOUS
<1>4. /\ skipped' = skipped /\ listings' = [listings EXCEPT ![i] = q] /\ visit' = visit
      /\ UNCHANGED <<within, level, yielded, below, gathered, undisturbed>>
  BY <1>2, <1>3 DEF BuildNode, Rest, Put, Child
<1>5. ListingOf(q, level[i], within, undisturbed, skipped)
  BY <1>1, <1>2, <1>3, AtWork, ListingBuilds
<1> QED
  BY <1>1, <1>4, <1>5, AtWork, ListingStep

LEMMA ClimbOneStep ==
    ASSUME VisitorInv, NEW i \in 1 .. Len(level), ClimbOne(i)
    PROVE  VisitorInv'
<1>1. Working(i, "keys") /\ listings[i].left # <<>>
  BY DEF ClimbOne
<1>2. PICK r : r = listings[i]
  OBVIOUS
<1>3. /\ visit' = visit
      /\ UNCHANGED <<within, level, yielded, below, gathered, undisturbed>>
  BY DEF ClimbOne, Rest
<1>4. PICK c : c = CursorOf(r) /\ c = Cursor(i)
  BY <1>2 DEF Cursor, CursorOf, Child
<1>5. /\ ListingOf(r, level[i], within, undisturbed, skipped) /\ r.at = "keys" /\ r.left # <<>>
      /\ level[i] \in Directory /\ within \in Whereabouts /\ StaysPut(within, undisturbed)
      /\ undisturbed \in SUBSET VisitedLink /\ i \in yielded + 1 .. Len(level)
      /\ visit.at = "crawling"
  BY <1>1, <1>2, AtWork
<1>6. CASE listings' = listings /\ skipped' = skipped
  <2>1. CrawlInv'
    BY <1>1, <1>3, <1>6, AtWork DEF CrawlInv, CrawlTypes
  <2> QED
    BY <1>3, <1>5, <2>1 DEF VisitorInv, FreshVisit
<1>7. CASE /\ c # TopLink /\ Shared(c) /\ skipped' = skipped
           /\ Put(i, [listings[i] EXCEPT !.chain = Append(@, <<c, within[c]>>)])
  <2>1. PICK q : q = [r EXCEPT !.chain = Append(@, <<c, within[c]>>)]
    OBVIOUS
  <2>2. c \in VisitedLink \ {TopLink}
    BY <1>7 DEF Shared
  <2>3. ListingOf(q, level[i], within, undisturbed, skipped)
    BY <1>4, <1>5, <2>1, <2>2, ListingClimbs
  <2>4. listings' = [listings EXCEPT ![i] = q] /\ skipped' = skipped
    BY <1>2, <1>7, <2>1 DEF Put
  <2> QED
    BY <1>3, <1>5, <2>3, <2>4, ListingStep
<1>8. ASSUME Skip(i), skipped \subseteq skipped',
             Head(r.left)[1] \in undisturbed => Head(r.left)[1] \in skipped'
      PROVE  VisitorInv'
  <2>1. PICK q : q = [r EXCEPT !.left = Tail(@), !.chain = <<>>]
    OBVIOUS
  <2>2. ListingOf(q, level[i], within, undisturbed, skipped')
    BY <1>5, <1>8, <2>1, ListingSkips
  <2>3. listings' = [listings EXCEPT ![i] = q]
    BY <1>2, <1>8, <2>1 DEF Skip, Put
  <2> QED
    BY <1>3, <1>5, <1>8, <2>2, <2>3, ListingStep
<1>9. CASE ~Shared(c) /\ Skip(i) /\ skipped' = skipped
  <2>1. Head(r.left)[1] \notin undisturbed
    BY <1>4, <1>5, <1>9, CursorAbove, LinkPathIs DEF Shared
  <2> QED
    BY <1>8, <1>9, <2>1
<1>10. CASE Skip(i) /\ skipped' = skipped \cup {Child(i)[1]}
  BY <1>2, <1>8, <1>10 DEF Child
<1> QED
  BY <1>4, <1>6, <1>7, <1>9, <1>10 DEF ClimbOne

LEMMA MoveLinkStep ==
    ASSUME VisitorInv, NEW n \in VisitedLink, NEW d \in Directory \cup {Nowhere}, MoveLink(n, d)
    PROVE  VisitorInv'
<1>1. /\ within \in Whereabouts /\ n \in VisitedLink \ {TopLink}
      /\ within' = [within EXCEPT ![n] = d]
      /\ undisturbed' = {m \in undisturbed : n \notin PathOf(within, m)}
      /\ UNCHANGED <<visit, level, listings, yielded, below, gathered, skipped>>
  BY LinkPathIs DEF VisitorInv, MoveLink
<1>2. within' \in Whereabouts
  BY <1>1, VisitorAssumption DEF Whereabouts
<1>3. ASSUME Untouched PROVE Untouched'
  BY <1>1, <1>3 DEF Untouched
<1>4. ASSUME CrawlInv PROVE CrawlInv'
  <2>1. StaysPut(within, undisturbed)
    BY <1>4 DEF CrawlInv
  <2>2. PICK z, V : z = within' /\ V = undisturbed'
    OBVIOUS
  <2>3. /\ StaysPut(z, V) /\ V \in SUBSET undisturbed
        /\ \A m \in V : z[m] = within[m] /\ PathOf(z, m) = PathOf(within, m)
    <3>1. z \in Whereabouts /\ \A c \in VisitedLink \ {n} : z[c] = within[c]
      BY <1>1, <1>2, <2>2 DEF Whereabouts
    <3>2. V \subseteq undisturbed /\ \A m \in undisturbed : m \in V <=> n \notin PathOf(within, m)
      BY <1>1, <2>2
    <3>3. StaysPut(z, V) /\ \A m \in V : z[m] = within[m] /\ PathOf(z, m) = PathOf(within, m)
      BY <1>1, <2>1, <3>1, <3>2, MoveSteady
    <3> QED
      BY <3>2, <3>3
  <2>4. \A m \in V : PathOf(within, m) \subseteq V
    BY <2>3 DEF StaysPut
  <2>5. Walked(z, V, skipped, Counts(Queue(level, yielded, below)), Counts(gathered))
    BY <1>4, <2>3, WalkedLess DEF CrawlInv
  <2>6. ASSUME NEW i \in yielded + 1 .. Len(level)
        PROVE  ListingOf(listings[i], level[i], z, V, skipped)
    <3>1. ListingOf(listings[i], level[i], within, undisturbed, skipped)
      BY <1>4 DEF CrawlInv
    <3> QED
      BY <2>3, <2>4, <3>1, ListingLess
  <2>7. CrawlTypes'
    BY <1>1, <1>4 DEF CrawlInv, CrawlTypes
  <2> QED
    BY <1>1, <2>2, <2>3, <2>5, <2>6, <2>7 DEF CrawlInv
<1> QED
  BY <1>1, <1>2, <1>3, <1>4 DEF VisitorInv

LEMMA BeginCrawlStep ==
    ASSUME VisitorInv, BeginCrawl
    PROVE  VisitorInv'
<1>1. /\ visit.at = "open" /\ visit' = [visit EXCEPT !.at = "crawling"]
      /\ level' = <<TopLink>> /\ listings' = <<NewListing>>
      /\ undisturbed' = {n \in VisitedLink : Shared(n)}
      /\ UNCHANGED <<within, yielded, below, gathered, skipped>>
  BY DEF BeginCrawl
<1>2. Untouched /\ within \in Whereabouts
  BY <1>1 DEF VisitorInv, FreshVisit
<1>3. VisitIs(visit', "crawling") /\ visit'.at = "crawling"
  <2>1. PICK label \in VisitLabels : VisitIs(visit, label)
    BY DEF VisitorInv
  <2>2. VisitIs(visit', "crawling")
    BY <1>1, <2>1, VisitMoves
  <2> QED
    BY <2>2, VisitAt
<1>4. PICK U : U = undisturbed' /\ U = {n \in VisitedLink : TopLink \in PathOf(within, n)}
  BY <1>1, LinkPathIs DEF Shared
<1>5. StaysPut(within, U)
  <2> SUFFICES ASSUME NEW n \in U, NEW c \in PathOf(within, n) PROVE c \in U
    BY <1>4 DEF StaysPut
  <2>1. n \in VisitedLink /\ TopLink \in PathOf(within, n)
    BY <1>4
  <2>2. TopLink \in PathOf(within, c) /\ c \in VisitedLink
    BY <1>2, <2>1, SharedAbove, PathIs
  <2> QED
    BY <1>4, <2>2
<1>6. level' = <<TopLink>> /\ yielded' = 0 /\ below' = <<>> /\ gathered' = <<>> /\ skipped' = {}
  BY <1>1, <1>2 DEF Untouched
<1>7. CrawlTypes'
  <2>1. PICK t : t = <<TopLink>>
    OBVIOUS
  <2>2. t \in Seq(Directory) /\ Len(t) = 1
    BY <2>1, VisitorAssumption
  <2>3. <<>> \in Seq(Directory) /\ <<>> \in Seq(VisitedLink)
    OBVIOUS
  <2>4. DOMAIN listings' = 1 .. 1
    BY <1>1
  <2> QED
    BY <1>6, <2>1, <2>2, <2>3, <2>4 DEF CrawlTypes
<1>8. Queue(level', yielded', below') = <<TopLink>>
  <2>1. PICK t : t = <<TopLink>>
    OBVIOUS
  <2>2. t \in Seq(Directory) /\ Len(t) = 1
    BY <2>1, VisitorAssumption
  <2>3. SubSeq(t, 0 + 1, Len(t)) = t
    BY <2>2
  <2>4. t \o <<>> = t
    BY <2>2
  <2> QED
    BY <1>6, <2>1, <2>3, <2>4 DEF Queue
<1>9. PICK Q, G : Q = Counts(<<TopLink>>) /\ G = Counts(<<>>)
  OBVIOUS
<1>10. \A m \in VisitedLink : Q[m] = (IF TopLink = m THEN 1 ELSE 0) /\ G[m] = 0
  BY <1>9, CountSingle, CountEmpty DEF Counts
<1>11. Walked(within, U, {}, Q, G)
  <2>1. U \subseteq VisitedLink
    BY <1>4
  <2>2. \A m \in U \ {TopLink} : within[m] \in VisitedLink
    BY <1>2, <1>5, SteadyFolder
  <2>3. \A m \in U \ {TopLink} : ~WentInto(Q, G, within[m])
    BY <1>10, <2>2, VisitorAssumption DEF WentInto, Reached
  <2> QED
    BY <1>10, <2>1, <2>3 DEF Walked, Reached
<1>12. ASSUME NEW i \in yielded' + 1 .. Len(level')
       PROVE  ListingOf(listings'[i], level'[i], within, U, {})
  <2>1. i = 1
    BY <1>6
  <2>2. listings'[i] = NewListing
    BY <1>1, <2>1
  <2> QED
    BY <2>2, ListingBegins
<1>13. CrawlInv'
  BY <1>1, <1>4, <1>5, <1>6, <1>7, <1>8, <1>9, <1>11, <1>12 DEF CrawlInv
<1> QED
  BY <1>1, <1>2, <1>3, <1>13 DEF VisitorInv, VisitLabels, FreshVisit

\* How often a link is queued: in what is left of the level, and in the next one.
LEMMA QueueCounts ==
    ASSUME NEW folders \in Seq(Directory), NEW k \in Nat, k <= Len(folders),
           NEW next \in Seq(Directory), NEW m
    PROVE  /\ SubSeq(folders, k + 1, Len(folders)) \in Seq(Directory)
           /\ Queue(folders, k, next) \in Seq(Directory)
           /\ CountOf(Queue(folders, k, next), m) =
                 CountOf(SubSeq(folders, k + 1, Len(folders)), m) + CountOf(next, m)
<1>1. PICK t : t = SubSeq(folders, k + 1, Len(folders))
  OBVIOUS
<1>2. t \in Seq(Directory)
  BY <1>1
<1>3. Queue(folders, k, next) = t \o next
  BY <1>1 DEF Queue
<1>4. t \o next \in Seq(Directory)
  BY <1>2
<1>5. CountOf(t \o next, m) = CountOf(t, m) + CountOf(next, m)
  BY <1>2, CountConcat
<1> QED
  BY <1>1, <1>2, <1>3, <1>4, <1>5

\* The folders among the nodes of a listing.
LEMMA FoldersOf ==
    ASSUME NEW nodes \in Seq(VisitedLink), NEW folders,
           folders = Picked(nodes, {k \in 1 .. Len(nodes) : nodes[k] \in Directory})
    PROVE  /\ folders \in Seq(Directory)
           /\ \A m \in VisitedLink :
                 CountOf(folders, m) = IF m \in Directory THEN CountOf(nodes, m) ELSE 0
<1>1. PICK P \in SUBSET (1 .. Len(nodes)) : P = {k \in 1 .. Len(nodes) : nodes[k] \in Directory}
  OBVIOUS
<1>2. folders = Picked(nodes, P)
  BY <1>1
<1>3. folders \in Seq(VisitedLink) /\ \E g : PickedBy(g, folders, nodes, P)
  <2>1. folders \in Seq(VisitedLink)
    BY <1>2, PickedIs
  <2>2. \E g : PickedBy(g, folders, nodes, P)
    BY <1>2, PickedHas
  <2> QED
    BY <2>1, <2>2
<1>4. Len(folders) \in Nat /\ folders \in [1 .. Len(folders) -> VisitedLink]
  BY <1>3, LenProperties
<1>5. \A k \in 1 .. Len(folders) : folders[k] \in Directory
  BY <1>1, <1>3 DEF PickedBy
<1>6. folders \in [1 .. Len(folders) -> Directory]
  BY <1>4, <1>5
<1>7. folders \in Seq(Directory)
  BY <1>4, <1>6, IsASeq
<1>8. ASSUME NEW m \in VisitedLink
      PROVE  CountOf(folders, m) = IF m \in Directory THEN CountOf(nodes, m) ELSE 0
  <2>1. CountOf(folders, m) = Cardinality(Spots(nodes, P, m))
    BY <1>2, CountPicked
  <2>2. CASE m \in Directory
    <3>1. Spots(nodes, P, m) = {k \in 1 .. Len(nodes) : nodes[k] = m}
      BY <1>1, <2>2 DEF Spots
    <3> QED
      BY <2>1, <2>2, <3>1 DEF CountOf
  <2>3. CASE m \notin Directory
    <3>1. CountOf(folders, m) = 0
      BY <1>3, <1>5, <2>3, CountZero
    <3> QED
      BY <2>3, <3>1
  <2> QED
    BY <2>2, <2>3
<1> QED
  BY <1>7, <1>8

LEMMA CountsType ==
    ASSUME NEW S, NEW s \in Seq(S)
    PROVE  Counts(s) \in [VisitedLink -> Nat] /\ \A m \in VisitedLink : Counts(s)[m] = CountOf(s, m)
  BY CountType DEF Counts

LEMMA TakeListingStep ==
    ASSUME VisitorInv, NEW i \in 1 .. Len(level), TakeListing(i)
    PROVE  VisitorInv'
<1>1. /\ Working(i, "keys") /\ listings[i].left = <<>> /\ i = yielded + 1 /\ yielded' = i
      /\ gathered' = gathered \o listings[i].nodes
      /\ UNCHANGED <<within, visit, level, listings, undisturbed, skipped>>
  BY DEF TakeListing
<1>2. PICK r, f : r = listings[i] /\ f = level[i]
  OBVIOUS
<1>3. /\ visit.at = "crawling" /\ CrawlInv /\ ListingOf(r, f, within, undisturbed, skipped)
      /\ r.at = "keys" /\ f \in Directory /\ within \in Whereabouts
      /\ undisturbed \in SUBSET VisitedLink /\ StaysPut(within, undisturbed)
  BY <1>1, <1>2, AtWork
<1>4. PICK nodes \in Seq(VisitedLink) : nodes = r.nodes
  BY <1>3 DEF ListingOf, Listing
<1>5. PICK folders : /\ folders = Picked(nodes, {k \in 1 .. Len(nodes) : nodes[k] \in Directory})
                     /\ below' = below \o folders
  BY <1>2, <1>4 DEF TakeListing, NextLevel, Below
<1>6. /\ folders \in Seq(Directory)
      /\ \A m \in VisitedLink :
            CountOf(folders, m) = IF m \in Directory THEN CountOf(nodes, m) ELSE 0
  BY <1>5, FoldersOf
<1>7. /\ level \in Seq(Directory) /\ below \in Seq(Directory) /\ gathered \in Seq(VisitedLink)
      /\ yielded \in Nat /\ i \in Nat /\ i <= Len(level) /\ yielded <= Len(level) /\ Len(level) \in Nat
  BY <1>1, <1>3 DEF CrawlInv, CrawlTypes
<1>8. below' \in Seq(Directory) /\ gathered' \in Seq(VisitedLink)
  BY <1>1, <1>2, <1>4, <1>5, <1>6, <1>7
<1>9. CrawlTypes'
  BY <1>1, <1>3, <1>7, <1>8 DEF CrawlInv, CrawlTypes
<1>10. PICK rest : rest = SubSeq(level, i + 1, Len(level))
  OBVIOUS
<1>11. rest \in Seq(Directory) /\ SubSeq(level, yielded + 1, Len(level)) = <<f>> \o rest
  <2>1. rest \in Seq(Directory)
    BY <1>7, <1>10
  <2>2. SubSeq(level, i, Len(level)) = <<level[i]>> \o SubSeq(level, i + 1, Len(level))
    BY <1>7, SubSeqRecursiveFirst
  <2> QED
    BY <1>1, <1>2, <1>10, <2>1, <2>2
<1>12. PICK Q, Q2, G, G2, N :
         /\ Q = Counts(Queue(level, yielded, below)) /\ Q2 = Counts(Queue(level, i, below'))
         /\ G = Counts(gathered) /\ G2 = Counts(gathered') /\ N = Counts(nodes)
  OBVIOUS
<1>13. /\ Q \in [VisitedLink -> Nat] /\ Q2 \in [VisitedLink -> Nat] /\ N \in [VisitedLink -> Nat]
       /\ G \in [VisitedLink -> Nat] /\ G2 \in [VisitedLink -> Nat]
  <2>1. Queue(level, yielded, below) \in Seq(Directory) /\ Queue(level, i, below') \in Seq(Directory)
    BY <1>7, <1>8, QueueCounts
  <2> QED
    BY <1>4, <1>7, <1>8, <1>12, <2>1, CountsType
<1>14. ASSUME NEW m \in VisitedLink
       PROVE  /\ G2[m] = G[m] + N[m]
              /\ Q[m] = (IF f = m THEN 1 ELSE 0) + (CountOf(rest, m) + CountOf(below, m))
              /\ Q2[m] = (CountOf(rest, m) + CountOf(below, m)) + (IF m \in Directory THEN N[m] ELSE 0)
              /\ CountOf(rest, m) \in Nat /\ CountOf(below, m) \in Nat
  <2>1. /\ N[m] = CountOf(nodes, m) /\ G[m] = CountOf(gathered, m) /\ G2[m] = CountOf(gathered', m)
        /\ Q[m] = CountOf(Queue(level, yielded, below), m)
        /\ Q2[m] = CountOf(Queue(level, i, below'), m)
    BY <1>12 DEF Counts
  <2>2. CountOf(gathered', m) = CountOf(gathered, m) + CountOf(nodes, m)
    BY <1>1, <1>2, <1>4, <1>7, CountConcat
  <2>3. CountOf(rest, m) \in Nat /\ CountOf(below, m) \in Nat /\ CountOf(nodes, m) \in Nat
    BY <1>4, <1>7, <1>11, CountType
  <2>4. CountOf(below', m) = CountOf(below, m) + CountOf(folders, m)
    BY <1>5, <1>6, <1>7, CountConcat
  <2>5. <<f>> \in Seq(Directory)
    BY <1>3
  <2>6. CountOf(<<f>> \o rest, m) = (IF f = m THEN 1 ELSE 0) + CountOf(rest, m)
    <3>1. CountOf(<<f>> \o rest, m) = CountOf(<<f>>, m) + CountOf(rest, m)
      BY <1>11, <2>5, CountConcat
    <3>2. CountOf(<<f>>, m) = IF f = m THEN 1 ELSE 0
      BY CountSingle
    <3> QED
      BY <3>1, <3>2
  <2>7. CountOf(Queue(level, yielded, below), m) = CountOf(<<f>> \o rest, m) + CountOf(below, m)
    <3>1. CountOf(Queue(level, yielded, below), m) =
             CountOf(SubSeq(level, yielded + 1, Len(level)), m) + CountOf(below, m)
      BY <1>7, QueueCounts
    <3> QED
      BY <1>11, <3>1
  <2>8. CountOf(Queue(level, i, below'), m) = CountOf(rest, m) + CountOf(below', m)
    BY <1>7, <1>8, <1>10, QueueCounts
  <2>9. CountOf(folders, m) = IF m \in Directory THEN N[m] ELSE 0
    BY <1>6, <2>1
  <2>10. Q[m] = (IF f = m THEN 1 ELSE 0) + (CountOf(rest, m) + CountOf(below, m))
    BY <2>1, <2>3, <2>6, <2>7
  <2>11. Q2[m] = (CountOf(rest, m) + CountOf(below, m)) + (IF m \in Directory THEN N[m] ELSE 0)
    BY <2>1, <2>3, <2>4, <2>8, <2>9
  <2> QED
    BY <2>1, <2>2, <2>3, <2>10, <2>11
<1>15. Walked(within, undisturbed, skipped, Q, G)
  BY <1>3, <1>12 DEF CrawlInv
<1>16. \A m \in undisturbed : \/ N[m] = IF within[m] = f THEN 1 ELSE 0
                              \/ N[m] = 0 /\ m \in skipped
  <2> SUFFICES ASSUME NEW m \in undisturbed
               PROVE  \/ N[m] = IF within[m] = f THEN 1 ELSE 0
                      \/ N[m] = 0 /\ m \in skipped
    OBVIOUS
  <2>1. CountOf(r.left, <<m, within[m]>>) = 0
    BY <1>1, <1>2, CountEmpty
  <2>2. N[m] = CountOf(nodes, m) /\ N[m] \in Nat
    BY <1>3, <1>12, <1>13 DEF Counts
  <2>3. UnderWay(r, within, m) = N[m]
    BY <1>4, <2>1, <2>2 DEF UnderWay
  <2> QED
    BY <1>3, <2>3 DEF ListingOf
<1>17. f \in VisitedLink /\ Q[f] >= 1
  <2>1. f \in VisitedLink
    BY <1>3, VisitorAssumption
  <2> QED
    BY <1>14, <2>1
<1>18. \A m \in VisitedLink : Q2[m] = (IF m = f THEN Q[m] - 1 ELSE Q[m])
                                      + (IF m \in Directory THEN N[m] ELSE 0)
  <2> SUFFICES ASSUME NEW m \in VisitedLink
               PROVE  Q2[m] = (IF m = f THEN Q[m] - 1 ELSE Q[m])
                              + (IF m \in Directory THEN N[m] ELSE 0)
    OBVIOUS
  <2>1. PICK a \in Nat : a = CountOf(rest, m) + CountOf(below, m)
    BY <1>14
  <2>2. a = IF m = f THEN Q[m] - 1 ELSE Q[m]
    BY <1>14, <2>1
  <2> QED
    BY <1>14, <2>1, <2>2
<1>19. Walked(within, undisturbed, skipped, Q2, G2)
  <2>1. TakesUp(within, undisturbed, skipped, f, N)
    BY <1>16 DEF TakesUp
  <2>2. Requeued(Q, Q2, f, N) /\ Regathered(G, G2, N)
    BY <1>14, <1>18 DEF Requeued, Regathered
  <2> QED
    BY <1>3, <1>13, <1>15, <1>17, <2>1, <2>2, WalkedTake
<1>20. \A j \in yielded' + 1 .. Len(level) : j \in yielded + 1 .. Len(level)
  BY <1>1, <1>7
<1>21. CrawlInv'
  BY <1>1, <1>3, <1>9, <1>12, <1>19, <1>20 DEF CrawlInv
<1> QED
  BY <1>1, <1>3, <1>21 DEF VisitorInv, FreshVisit

LEMMA LevelDoneStep ==
    ASSUME VisitorInv, LevelDone
    PROVE  VisitorInv'
<1>1. /\ visit.at = "crawling" /\ yielded = Len(level) /\ level' = below /\ below' = <<>>
      /\ yielded' = 0 /\ listings' = [i \in 1 .. Len(below) |-> NewListing]
      /\ UNCHANGED <<within, gathered, undisturbed, skipped>>
  BY DEF LevelDone
<1>2. PICK next \in {"crawling", "crawled"} :
        visit' = [visit EXCEPT !.at = next] /\ (next = "crawled" => below = <<>>)
  BY Zenon DEF LevelDone
<1>3. VisitIs(visit', next) /\ visit'.at = next
  <2>1. PICK label \in VisitLabels : VisitIs(visit, label)
    BY DEF VisitorInv
  <2>2. VisitIs(visit', next)
    BY <1>2, <2>1, VisitMoves
  <2> QED
    BY <2>2, VisitAt
<1>4. CrawlInv /\ within \in Whereabouts
  BY <1>1 DEF VisitorInv
<1>5. level \in Seq(Directory) /\ below \in Seq(Directory) /\ gathered \in Seq(VisitedLink)
  BY <1>4 DEF CrawlInv, CrawlTypes
<1>6. CrawlTypes'
  <2>1. <<>> \in Seq(Directory)
    OBVIOUS
  <2>2. Len(below) \in Nat
    BY <1>5
  <2> QED
    BY <1>1, <1>5, <2>1, <2>2 DEF CrawlTypes
<1>7. Queue(level', yielded', below') = Queue(level, yielded, below)
  <2>1. SubSeq(level, Len(level) + 1, Len(level)) = <<>>
    BY <1>5
  <2>2. SubSeq(below, 0 + 1, Len(below)) = below
    BY <1>5
  <2>3. <<>> \o below = below /\ below \o <<>> = below
    BY <1>5
  <2> QED
    BY <1>1, <2>1, <2>2, <2>3 DEF Queue
<1>8. ASSUME NEW i \in yielded' + 1 .. Len(level')
      PROVE  ListingOf(listings'[i], level'[i], within, undisturbed, skipped)
  <2>1. listings'[i] = NewListing
    BY <1>1, <1>5
  <2> QED
    BY <2>1, ListingBegins
<1>9. CrawlInv'
  BY <1>1, <1>4, <1>6, <1>7, <1>8 DEF CrawlInv
<1> QED
  BY <1>1, <1>2, <1>3, <1>4, <1>9 DEF VisitorInv, VisitLabels, FreshVisit

\* A walk that is through has gone into every folder that nothing disturbed: going up
\* from a link that was not gathered, none was, and yet the shared folder is one of them.
LEMMA CrawledIsComplete == VisitorInv => CrawlComplete
<1> SUFFICES ASSUME VisitorInv, visit.at = "crawled", NEW n \in undisturbed \ {TopLink},
                    skipped \cap ({n} \cup LinkAbove(n)) = {}
             PROVE  CountOf(gathered, n) = 1
  BY DEF CrawlComplete
<1>1. /\ CrawlInv /\ within \in Whereabouts /\ level = <<>> /\ below = <<>>
      /\ StaysPut(within, undisturbed) /\ undisturbed \subseteq VisitedLink
  BY DEF VisitorInv, CrawlInv, StaysPut
<1>2. PICK Q, G : /\ Q = Counts(Queue(level, yielded, below)) /\ G = Counts(gathered)
                  /\ Walked(within, undisturbed, skipped, Q, G)
  BY <1>1 DEF CrawlInv
<1>3. gathered \in Seq(VisitedLink) /\ yielded = 0
  BY <1>1 DEF CrawlInv, CrawlTypes
<1>4. Queue(level, yielded, below) = <<>>
  BY <1>1, <1>3 DEF Queue
<1>5. \A m \in VisitedLink : Q[m] = 0 /\ G[m] = CountOf(gathered, m) /\ G[m] \in Nat
  BY <1>2, <1>3, <1>4, CountEmpty, CountType DEF Counts
<1>6. \A m \in undisturbed : G[m] = 0 \/ G[m] = 1
  <2> SUFFICES ASSUME NEW m \in undisturbed PROVE G[m] = 0 \/ G[m] = 1
    OBVIOUS
  <2>1. G[m] <= 1 /\ G[m] \in Nat
    BY <1>1, <1>2, <1>5 DEF Walked
  <2> QED
    BY <2>1
<1>7. LinkPath(n) = PathOf(within, n)
  BY LinkPathIs
<1>8. TopLink \in PathOf(within, n) /\ PathOf(within, n) \subseteq undisturbed
  BY <1>1 DEF StaysPut
<1> DEFINE D == {m \in PathOf(within, n) : m # TopLink /\ G[m] = 0}
<1>9. Up(within, D)
  <2> SUFFICES ASSUME NEW m \in D, within[m] # Nowhere PROVE within[m] \in D
    BY DEF Up
  <2>1. m \in undisturbed \ {TopLink} /\ m \in PathOf(within, n) /\ m \notin skipped
    BY <1>7, <1>8 DEF LinkAbove
  <2>2. within[m] \in undisturbed /\ within[m] \in VisitedLink
    BY <1>1, <2>1, SteadyFolder
  <2>3. within[m] \in PathOf(within, n)
    BY <1>1, <2>1, PathIs DEF Up
  <2>4. G[m] # 1
    OBVIOUS
  <2>5. ~WentInto(Q, G, within[m])
    BY <1>2, <2>1, <2>4 DEF Walked
  <2>6. within[m] # TopLink /\ G[within[m]] # 1
    BY <1>5, <2>2, <2>5 DEF WentInto, Reached
  <2>7. G[within[m]] = 0
    BY <1>6, <2>2, <2>6
  <2> QED
    BY <2>3, <2>6, <2>7
<1>10. ASSUME G[n] = 0 PROVE FALSE
  <2>1. n \in D /\ D \in SUBSET VisitedLink
    BY <1>1, <1>8, <1>10, PathIs
  <2>2. PathOf(within, n) \subseteq D
    BY <1>1, <1>9, <2>1, PathIs
  <2> QED
    BY <1>8, <2>2
<1> QED
  BY <1>1, <1>5, <1>6, <1>10

LEMMA VisitorStep == VisitorInv /\ [VisitorNext]_visitorVars => VisitorInv'
<1> SUFFICES ASSUME VisitorInv, [VisitorNext]_visitorVars PROVE VisitorInv'
  OBVIOUS
<1>1. CASE UNCHANGED visitorVars
  BY <1>1, CrawlSame DEF visitorVars
<1>2. CASE ChangeSecret
  BY <1>2, CrawlSame DEF ChangeSecret
<1>3. ASSUME NEW i \in 1 .. Len(level),
             ListFolder(i) \/ FetchLinkDetails(i) \/ BuildNode(i) \/ ClimbOne(i) \/ TakeListing(i)
      PROVE  VisitorInv'
  BY <1>3, ListFolderStep, FetchLinkDetailsStep, BuildNodeStep, ClimbOneStep, TakeListingStep
<1> QED
  BY <1>1, <1>2, <1>3, MoveLinkStep, HandshakeSteps, BeginCrawlStep, LevelDoneStep DEF VisitorNext

\* A walk through a public link that succeeds has gathered every node exactly once that
\* stayed where it was, with the folders above it, except where a request for a key
\* failed: whatever the tree, the owner's moves, the listings under way and their order.
THEOREM CrawlAlwaysComplete == VisitorSpec => []CrawlComplete
<1>1. VisitorSpec => []VisitorInv
  BY VisitorStarts, VisitorStep, PTL DEF VisitorSpec
<1> QED
  BY <1>1, CrawledIsComplete, PTL
=============================================================================
