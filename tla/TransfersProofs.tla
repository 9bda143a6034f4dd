-------------------------- MODULE TransfersProofs --------------------------
(***************************************************************************)
(* Proofs about uploads and downloads that share one pool of permits, for  *)
(* any number of transfers, blocks, permits and any widths: blocks and     *)
(* permits are accounted for, and a download writes its blocks in order.   *)
(***************************************************************************)
EXTENDS Transfers, FiniteSetTheorems, SequenceTheorems, TLAPS

-----------------------------------------------------------------------------
(* The pipeline of one upload as a line of blocks: of r blocks read, the   *)
(* first k have left the channel and are in the batch b or among the jobs  *)
(* t that are stored, the next ones are in the channel c, the one after    *)
(* them may be in the outbox o, and the last ones are in the window w.     *)

Consecutive(s, base) == \A x \in 1 .. Len(s) : s[x] = base + x
Out(o) == IF o = 0 THEN 0 ELSE 1

Line(k, r, w, o, c, b, t) ==
    /\ k + Len(c) + Out(o) + Len(w) = r
    /\ Consecutive(c, k)
    /\ o # 0 => o = k + Len(c) + 1
    /\ Consecutive(w, k + Len(c) + Out(o))
    /\ (b \cup t) \ {0} = 1 .. k
    /\ b \cap t \subseteq {0}

OwnedOf(w, o, c, b) == Elems(w) \cup ({o} \ {0}) \cup Elems(c) \cup (b \ {0})

\* Consecutive blocks make up an interval.
Spans(s, base) == Elems(s) = (base + 1) .. (base + Len(s))

LEMMA ElemsConsecutive ==
    ASSUME NEW s \in Seq(Nat), NEW base \in Int, Consecutive(s, base)
    PROVE  Spans(s, base)
<1>1. Len(s) \in Nat /\ DOMAIN s = 1 .. Len(s)
  OBVIOUS
<1>2. ASSUME NEW i \in Elems(s) PROVE i \in (base + 1) .. (base + Len(s))
  BY <1>1 DEF Elems, Consecutive
<1>3. ASSUME NEW i \in (base + 1) .. (base + Len(s)) PROVE i \in Elems(s)
  <2>1. i - base \in 1 .. Len(s)
    BY <1>1
  <2>2. s[i - base] = i
    BY <2>1 DEF Consecutive
  <2> QED
    BY <1>1, <2>1, <2>2 DEF Elems
<1> QED
  BY <1>2, <1>3 DEF Spans

Keeps(new, old) == new = old
With(new, old, i) == new = old \cup {i}
Without(new, old, i) == new = old \ {i}

\* What is owned is what has not left the channel and what is left of the batch; with
\* what is stored it makes up all that was read.
Accounted(k, r, w, o, c, b, t) ==
    /\ k <= r
    /\ OwnedOf(w, o, c, b) = ((k + 1) .. r) \cup (b \ {0})
    /\ OwnedOf(w, o, c, b) \cup (t \ {0}) = 1 .. r
    /\ OwnedOf(w, o, c, b) \cap t = {}

\* Who owns what follows from the order of the line.
LEMMA LineOwned ==
    ASSUME NEW k \in Nat, NEW r \in Nat, NEW w \in Seq(Nat), NEW o \in Nat, NEW c \in Seq(Nat),
           NEW b \in SUBSET Nat, NEW t \in SUBSET Nat, Line(k, r, w, o, c, b, t)
    PROVE  Accounted(k, r, w, o, c, b, t)
<1>1. PICK lw \in Nat, lc \in Nat, x \in {0, 1} : lw = Len(w) /\ lc = Len(c) /\ x = Out(o)
  BY DEF Out
<1>2. k + lc + x + lw = r
  BY <1>1 DEF Line
<1>3. Elems(c) = (k + 1) .. (k + lc)
  <2>1. Spans(c, k)
    BY ElemsConsecutive DEF Line
  <2> QED
    BY <1>1, <2>1 DEF Spans
<1>4. Elems(w) = (k + lc + x + 1) .. (k + lc + x + lw)
  <2>1. PICK m \in Nat : m = k + lc + x
    OBVIOUS
  <2>2. Consecutive(w, m)
    BY <1>1, <2>1 DEF Line
  <2>3. Spans(w, m)
    BY <2>2, ElemsConsecutive
  <2> QED
    BY <1>1, <2>1, <2>3 DEF Spans
<1>5. {o} \ {0} = (k + lc + 1) .. (k + lc + x)
  <2>1. CASE o = 0
    BY <1>1, <2>1 DEF Out
  <2>2. CASE o # 0
    <3>1. o = k + lc + 1 /\ x = 1
      BY <1>1, <2>2 DEF Line, Out
    <3> QED
      BY <2>2, <3>1
  <2> QED
    BY <2>1, <2>2
<1>6. Elems(w) \cup ({o} \ {0}) \cup Elems(c) = (k + 1) .. r
  <2>1. ASSUME NEW i \in Int
        PROVE  \/ i \in (k + lc + x + 1) .. (k + lc + x + lw)
               \/ i \in (k + lc + 1) .. (k + lc + x)
               \/ i \in (k + 1) .. (k + lc)
               <=> i \in (k + 1) .. r
    BY <1>2
  <2>2. \A i \in Elems(w) \cup ({o} \ {0}) \cup Elems(c) : i \in Int
    BY <1>3, <1>4, <1>5
  <2>3. \A i \in Int : i \in Elems(w) \cup ({o} \ {0}) \cup Elems(c) <=> i \in (k + 1) .. r
    BY <1>3, <1>4, <1>5, <2>1
  <2> QED
    BY <2>2, <2>3
<1>7. OwnedOf(w, o, c, b) = ((k + 1) .. r) \cup (b \ {0})
  BY <1>6 DEF OwnedOf
<1>8. (b \cup t) \ {0} = 1 .. k /\ b \cap t \subseteq {0} /\ k <= r
  BY <1>2 DEF Line
<1>9. OwnedOf(w, o, c, b) \cup (t \ {0}) = 1 .. r
  BY <1>7, <1>8
<1>10. OwnedOf(w, o, c, b) \cap t = {}
  BY <1>7, <1>8
<1> QED
  BY <1>7, <1>8, <1>9, <1>10 DEF Accounted

\* A block is read into the window.
LEMMA LineRead ==
    ASSUME NEW k \in Nat, NEW r \in Nat, NEW w \in Seq(Nat), NEW o \in Nat, NEW c \in Seq(Nat),
           NEW b \in SUBSET Nat, NEW t \in SUBSET Nat, Line(k, r, w, o, c, b, t),
           NEW w2, w2 = Append(w, r + 1)
    PROVE  /\ w2 \in Seq(Nat) /\ Line(k, r + 1, w2, o, c, b, t)
           /\ With(OwnedOf(w2, o, c, b), OwnedOf(w, o, c, b), r + 1)
<1>1. PICK lw \in Nat, lc \in Nat, x \in {0, 1} : lw = Len(w) /\ lc = Len(c) /\ x = Out(o)
  BY DEF Out
<1>2. /\ w2 \in Seq(Nat) /\ Len(w2) = lw + 1
      /\ \A y \in 1 .. lw : w2[y] = w[y]
      /\ w2[lw + 1] = r + 1
  BY <1>1
<1>3. k + lc + x + lw = r
  BY <1>1 DEF Line
<1>4. Consecutive(w2, k + lc + x)
  <2> SUFFICES ASSUME NEW y \in 1 .. (lw + 1) PROVE w2[y] = k + lc + x + y
    BY <1>2 DEF Consecutive
  <2>1. CASE y \in 1 .. lw
    BY <1>1, <1>2, <2>1 DEF Line, Consecutive
  <2>2. CASE y = lw + 1
    BY <1>2, <1>3, <2>2
  <2>3. y \in 1 .. lw \/ y = lw + 1
    OBVIOUS
  <2> QED
    BY <2>1, <2>2, <2>3
<1>5. Line(k, r + 1, w2, o, c, b, t)
  <2>1. k + lc + x + (lw + 1) = r + 1
    BY <1>3
  <2> QED
    BY <1>1, <1>2, <1>4, <2>1 DEF Line
<1>6. OwnedOf(w2, o, c, b) = ((k + 1) .. (r + 1)) \cup (b \ {0})
  <2>1. PICK r2 \in Nat : r2 = r + 1
    OBVIOUS
  <2>2. Accounted(k, r2, w2, o, c, b, t)
    BY <1>2, <1>5, <2>1, LineOwned
  <2> QED
    BY <2>1, <2>2 DEF Accounted
<1>7. OwnedOf(w, o, c, b) = ((k + 1) .. r) \cup (b \ {0}) /\ k <= r
  <2>1. Accounted(k, r, w, o, c, b, t)
    BY LineOwned
  <2> QED
    BY <2>1 DEF Accounted
<1>8. OwnedOf(w2, o, c, b) = OwnedOf(w, o, c, b) \cup {r + 1}
  BY <1>6, <1>7
<1> QED
  BY <1>2, <1>5, <1>8 DEF With

\* The oldest block of the window goes to the outbox.
LEMMA LineNext ==
    ASSUME NEW k \in Nat, NEW r \in Nat, NEW w \in Seq(Nat), NEW c \in Seq(Nat),
           NEW b \in SUBSET Nat, NEW t \in SUBSET Nat, Line(k, r, w, 0, c, b, t), w # <<>>,
           NEW w2, NEW o2, w2 = Tail(w), o2 = Head(w)
    PROVE  /\ Line(k, r, w2, o2, c, b, t)
           /\ o2 \in Nat \ {0} /\ w2 \in Seq(Nat)
           /\ Keeps(OwnedOf(w2, o2, c, b), OwnedOf(w, 0, c, b))
<1>1. PICK lw \in Nat \ {0}, lc \in Nat : lw = Len(w) /\ lc = Len(c)
  OBVIOUS
<1>2. /\ w2 \in Seq(Nat) /\ Len(w2) = lw - 1
      /\ \A y \in 1 .. (lw - 1) : w2[y] = w[y + 1]
      /\ o2 = w[1]
  BY <1>1
<1>3. k + lc + lw = r /\ \A y \in 1 .. lw : w[y] = k + lc + y
  BY <1>1 DEF Line, Consecutive, Out
<1>4. o2 = k + lc + 1 /\ o2 \in Nat \ {0}
  BY <1>2, <1>3
<1>5. Consecutive(w2, k + lc + 1)
  <2> SUFFICES ASSUME NEW y \in 1 .. (lw - 1) PROVE w2[y] = k + lc + 1 + y
    BY <1>2 DEF Consecutive
  <2>1. w[y + 1] = k + lc + (y + 1)
    BY <1>3
  <2> QED
    BY <1>2, <2>1
<1>6. Line(k, r, w2, o2, c, b, t)
  <2>1. k + lc + 1 + (lw - 1) = r
    BY <1>3
  <2> QED
    BY <1>1, <1>2, <1>4, <1>5, <2>1 DEF Line, Out
<1>7. OwnedOf(w2, o2, c, b) = ((k + 1) .. r) \cup (b \ {0})
  <2>1. Accounted(k, r, w2, o2, c, b, t)
    BY <1>2, <1>4, <1>6, LineOwned
  <2> QED
    BY <2>1 DEF Accounted
<1>8. OwnedOf(w, 0, c, b) = ((k + 1) .. r) \cup (b \ {0})
  <2>1. Accounted(k, r, w, 0, c, b, t)
    BY LineOwned
  <2> QED
    BY <2>1 DEF Accounted
<1> QED
  BY <1>2, <1>4, <1>6, <1>7, <1>8 DEF Keeps

\* The block in the outbox enters the channel.
LEMMA LineSend ==
    ASSUME NEW k \in Nat, NEW r \in Nat, NEW w \in Seq(Nat), NEW o \in Nat \ {0},
           NEW c \in Seq(Nat), NEW b \in SUBSET Nat, NEW t \in SUBSET Nat,
           Line(k, r, w, o, c, b, t), NEW c2, c2 = Append(c, o)
    PROVE  /\ Line(k, r, w, 0, c2, b, t) /\ c2 \in Seq(Nat)
           /\ Keeps(OwnedOf(w, 0, c2, b), OwnedOf(w, o, c, b))
<1>1. PICK lw \in Nat, lc \in Nat : lw = Len(w) /\ lc = Len(c)
  OBVIOUS
<1>2. /\ c2 \in Seq(Nat) /\ Len(c2) = lc + 1
      /\ \A y \in 1 .. lc : c2[y] = c[y]
      /\ c2[lc + 1] = o
  BY <1>1
<1>3. k + lc + 1 + lw = r /\ o = k + lc + 1 /\ \A y \in 1 .. lc : c[y] = k + y
  BY <1>1 DEF Line, Out, Consecutive
<1>4. Consecutive(c2, k)
  <2> SUFFICES ASSUME NEW y \in 1 .. (lc + 1) PROVE c2[y] = k + y
    BY <1>2 DEF Consecutive
  <2>1. CASE y \in 1 .. lc
    BY <1>2, <1>3, <2>1
  <2>2. CASE y = lc + 1
    BY <1>2, <1>3, <2>2
  <2>3. y \in 1 .. lc \/ y = lc + 1
    OBVIOUS
  <2> QED
    BY <2>1, <2>2, <2>3
<1>5. Line(k, r, w, 0, c2, b, t)
  <2>1. k + (lc + 1) + 0 + lw = r /\ k + (lc + 1) + 0 = k + lc + 1
    BY <1>3
  <2>2. Consecutive(w, k + lc + 1)
    BY <1>1 DEF Line, Out
  <2> QED
    BY <1>1, <1>2, <1>4, <2>1, <2>2 DEF Line, Out
<1>6. OwnedOf(w, 0, c2, b) = ((k + 1) .. r) \cup (b \ {0})
  <2>1. Accounted(k, r, w, 0, c2, b, t)
    BY <1>2, <1>5, LineOwned
  <2> QED
    BY <2>1 DEF Accounted
<1>7. OwnedOf(w, o, c, b) = ((k + 1) .. r) \cup (b \ {0})
  <2>1. Accounted(k, r, w, o, c, b, t)
    BY LineOwned
  <2> QED
    BY <2>1 DEF Accounted
<1> QED
  BY <1>2, <1>5, <1>6, <1>7 DEF Keeps

Empty(b) == b = {}
SplitTypes(b2, c2) == b2 \in SUBSET Nat /\ c2 \in Seq(Nat)
Split(c, n, b2, c2) ==
    /\ n <= Len(c) /\ c2 = SubSeq(c, n + 1, Len(c))
    /\ \E z \in SUBSET {0} : b2 = Elems(SubSeq(c, 1, n)) \cup z

\* What a split leaves are blocks.
LEMMA SplitTyped ==
    ASSUME NEW c \in Seq(Nat), NEW n \in Nat, NEW b2, NEW c2, Split(c, n, b2, c2)
    PROVE  SplitTypes(b2, c2)
<1>1. PICK lc \in Nat : lc = Len(c) /\ n <= lc /\ c2 = SubSeq(c, n + 1, lc)
  BY DEF Split
<1>2. c2 \in Seq(Nat)
  BY <1>1
<1>3. PICK z \in SUBSET {0} : b2 = Elems(SubSeq(c, 1, n)) \cup z
  BY DEF Split
<1>4. SubSeq(c, 1, n) \in Seq(Nat)
  BY <1>1
<1>5. Elems(SubSeq(c, 1, n)) \subseteq Nat
  BY <1>4 DEF Elems
<1>6. z \subseteq Nat
  OBVIOUS
<1>7. b2 \in SUBSET Nat
  BY <1>3, <1>5, <1>6, Zenon
<1> QED
  BY <1>2, <1>7 DEF SplitTypes

\* The first n blocks of the channel become the batch, with or without thumbnails.
LEMMA LineReceive ==
    ASSUME NEW k \in Nat, NEW r \in Nat, NEW w \in Seq(Nat), NEW o \in Nat, NEW c \in Seq(Nat),
           NEW b \in SUBSET Nat, NEW t \in SUBSET Nat, Line(k, r, w, o, c, b, t), Empty(b),
           NEW n \in Nat, NEW b2, NEW c2, NEW k2, k2 = k + n, Split(c, n, b2, c2)
    PROVE  /\ Line(k2, r, w, o, c2, b2, t)
           /\ SplitTypes(b2, c2)
           /\ Keeps(OwnedOf(w, o, c2, b2), OwnedOf(w, o, c, b))
<1>1. PICK lw \in Nat, lc \in Nat, x \in {0, 1} : lw = Len(w) /\ lc = Len(c) /\ x = Out(o)
  BY DEF Out
<1>2. PICK s : s = SubSeq(c, 1, n)
  OBVIOUS
<1>3. n <= lc /\ c2 = SubSeq(c, n + 1, lc)
  BY <1>1 DEF Split
<1>4. s \in Seq(Nat) /\ Len(s) = n /\ \A y \in 1 .. n : s[y] = c[y]
  BY <1>1, <1>2, <1>3
<1>5. c2 \in Seq(Nat) /\ Len(c2) = lc - n /\ \A y \in 1 .. (lc - n) : c2[y] = c[n + y]
  <2>1. n + 1 \in Nat /\ lc - (n + 1) + 1 = lc - n /\ lc - n \in Nat
    BY <1>3
  <2>2. /\ SubSeq(c, n + 1, lc) \in Seq(Nat)
        /\ Len(SubSeq(c, n + 1, lc)) = lc - n
        /\ \A y \in 1 .. (lc - n) : SubSeq(c, n + 1, lc)[y] = c[(n + 1) + y - 1]
    BY <1>1, <1>3, <2>1, SubSeqProperties, SMTT(30)
  <2>3. \A y \in 1 .. (lc - n) : (n + 1) + y - 1 = n + y
    BY <1>3
  <2> QED
    BY <1>3, <2>2, <2>3
<1>6. \A y \in 1 .. lc : c[y] = k + y
  BY <1>1 DEF Line, Consecutive
<1>7. Elems(s) = (k + 1) .. (k + n)
  <2>1. Consecutive(s, k)
    <3> SUFFICES ASSUME NEW y \in 1 .. n PROVE s[y] = k + y
      BY <1>4 DEF Consecutive
    <3>1. y \in 1 .. lc
      BY <1>3
    <3> QED
      BY <1>4, <1>6, <3>1
  <2>2. Spans(s, k)
    BY <1>4, <2>1, ElemsConsecutive
  <2> QED
    BY <1>4, <2>2 DEF Spans
<1>8. Consecutive(c2, k + n)
  <2> SUFFICES ASSUME NEW y \in 1 .. (lc - n) PROVE c2[y] = k + n + y
    BY <1>5 DEF Consecutive
  <2>1. c[n + y] = k + (n + y)
    BY <1>3, <1>6
  <2> QED
    BY <1>3, <1>5, <2>1
<1>9. t \ {0} = 1 .. k /\ k + lc + x + lw = r
  BY <1>1 DEF Line, Empty
<1>10. b2 \in SUBSET Nat /\ b2 \ {0} = (k + 1) .. (k + n)
  <2>4. PICK z \in SUBSET {0} : b2 = Elems(SubSeq(c, 1, n)) \cup z
    BY DEF Split
  <2>1. b2 = ((k + 1) .. (k + n)) \cup z
    BY <1>2, <1>7, <2>4
  <2>2. \A i \in (k + 1) .. (k + n) : i \in Nat /\ i # 0
    BY <1>3
  <2>3. 0 \in Nat /\ z \subseteq {0}
    OBVIOUS
  <2> QED
    BY <2>1, <2>2, <2>3, Zenon
<1>11. (b2 \cup t) \ {0} = 1 .. (k + n) /\ b2 \cap t \subseteq {0}
  <2>1. (1 .. k) \cup ((k + 1) .. (k + n)) = 1 .. (k + n)
    BY <1>3
  <2>2. (b2 \cup t) \ {0} = (t \ {0}) \cup (b2 \ {0})
    OBVIOUS
  <2>3. ((k + 1) .. (k + n)) \cap (1 .. k) = {}
    OBVIOUS
  <2>4. (b2 \ {0}) \cap (t \ {0}) = {}
    BY <1>9, <1>10, <2>3
  <2> QED
    BY <1>9, <1>10, <2>1, <2>2, <2>4
<1>12. Line(k + n, r, w, o, c2, b2, t)
  <2>1. k + n + (lc - n) + x + lw = r /\ k + n + (lc - n) + x = k + lc + x
        /\ k + n + (lc - n) + 1 = k + lc + 1
    BY <1>3, <1>9
  <2>2. Consecutive(w, k + lc + x) /\ (o # 0 => o = k + lc + 1)
    BY <1>1 DEF Line
  <2> QED
    BY <1>1, <1>5, <1>8, <1>11, <2>1, <2>2 DEF Line
<1>13. PICK m \in Nat : m = k + n
  BY <1>3
<1>14. OwnedOf(w, o, c2, b2) = ((m + 1) .. r) \cup (b2 \ {0}) /\ m <= r
  <2>1. Accounted(m, r, w, o, c2, b2, t)
    BY <1>5, <1>10, <1>12, <1>13, LineOwned
  <2> QED
    BY <2>1 DEF Accounted
<1>15. OwnedOf(w, o, c, b) = (k + 1) .. r
  <2>1. Accounted(k, r, w, o, c, b, t)
    BY LineOwned
  <2> QED
    BY <2>1 DEF Accounted, Empty
<1>16. ((m + 1) .. r) \cup (b2 \ {0}) = (k + 1) .. r
  BY <1>3, <1>10, <1>13, <1>14
<1> QED
  BY <1>5, <1>10, <1>12, <1>13, <1>14, <1>15, <1>16 DEF Keeps, SplitTypes

\* A job of the batch is stored.
LEMMA LineStore ==
    ASSUME NEW k \in Nat, NEW r \in Nat, NEW w \in Seq(Nat), NEW o \in Nat, NEW c \in Seq(Nat),
           NEW b \in SUBSET Nat, NEW t \in SUBSET Nat, Line(k, r, w, o, c, b, t), NEW i \in b,
           NEW b2, NEW t2, Without(b2, b, i), With(t2, t, i)
    PROVE  /\ Line(k, r, w, o, c, b2, t2) /\ b2 \in SUBSET Nat /\ t2 \in SUBSET Nat
           /\ Without(OwnedOf(w, o, c, b2), OwnedOf(w, o, c, b), i)
<1>1. Line(k, r, w, o, c, b2, t2) /\ b2 \in SUBSET Nat /\ t2 \in SUBSET Nat
  BY DEF Line, With, Without
<1>2. OwnedOf(w, o, c, b) = ((k + 1) .. r) \cup (b \ {0})
  <2>1. Accounted(k, r, w, o, c, b, t)
    BY LineOwned
  <2> QED
    BY <2>1 DEF Accounted
<1>3. OwnedOf(w, o, c, b2) = ((k + 1) .. r) \cup (b2 \ {0})
  <2>1. Accounted(k, r, w, o, c, b2, t2)
    BY <1>1, LineOwned
  <2> QED
    BY <2>1 DEF Accounted
<1>4. i \in Nat /\ (i # 0 => i \in 1 .. k)
  BY DEF Line
<1>5. i \notin (k + 1) .. r
  BY <1>4
<1>6. OwnedOf(w, o, c, b2) = OwnedOf(w, o, c, b) \ {i}
  BY <1>2, <1>3, <1>5 DEF Without
<1> QED
  BY <1>1, <1>6 DEF Without

-----------------------------------------------------------------------------
(* The uploads.                                                            *)

EncStates == {"fill", "wait", "next", "send", "done", "ended"}
UplStates == {"recv", "prepare", "store", "done", "ok", "failed"}

UploadTypes ==
    /\ size \in [Upload -> Nat] /\ read \in [Upload -> Nat] /\ outbox \in [Upload -> Nat]
    /\ window \in [Upload -> Seq(Nat)] /\ chan \in [Upload -> Seq(Nat)]
    /\ batch \in [Upload -> SUBSET Nat] /\ stored \in [Upload -> SUBSET Nat]
    /\ enc \in [Upload -> EncStates] /\ upl \in [Upload -> UplStates]
    /\ drained \in [Upload -> BOOLEAN] /\ thumbs \in [Upload -> BOOLEAN]

\* An upload that has not failed has its blocks in line; one that has owns nothing.
LineInv(u) ==
    /\ upl[u] # "failed" =>
          \E k \in Nat : Line(k, read[u], window[u], outbox[u], chan[u], batch[u], stored[u])
    /\ upl[u] = "failed" =>
          window[u] = <<>> /\ outbox[u] = 0 /\ chan[u] = <<>> /\ batch[u] = {}

\* What the two halves of an upload know of the pipeline by where they stand.
EncInv(u) ==
    /\ read[u] <= size[u]
    /\ drained[u] => read[u] = size[u]
    /\ enc[u] = "send" <=> outbox[u] # 0
    /\ enc[u] = "next" => drained[u] \/ window[u] # <<>>
    /\ enc[u] = "done" => drained[u] /\ window[u] = <<>>

UplInv(u) ==
    /\ upl[u] = "recv" => batch[u] = {}
    /\ upl[u] = "done" => enc[u] = "done" /\ chan[u] = <<>> /\ batch[u] = {} /\ ~thumbs[u]
    /\ upl[u] = "ok" => drained[u] /\ ~thumbs[u]
    /\ enc[u] = "ended" <=> upl[u] \in {"ok", "failed"}

UInv(u) == LineInv(u) /\ EncInv(u) /\ UplInv(u)

\* All that UInv and Owned look at.
UState(u) == <<size[u], enc[u], upl[u], read[u], drained[u], window[u], outbox[u], chan[u],
               thumbs[u], batch[u], stored[u]>>

LEMMA UStateKept ==
    ASSUME NEW u \in Upload, UInv(u), UState(u)' = UState(u)
    PROVE  UInv(u)' /\ Owned(u)' = Owned(u)
BY DEF UState, UInv, LineInv, EncInv, UplInv, Owned

LEMMA OwnedIsOwnedOf ==
    ASSUME NEW u \in Upload
    PROVE  Owned(u) = OwnedOf(window[u], outbox[u], chan[u], batch[u])
BY DEF Owned, OwnedOf

\* AwaitPermit, StopFilling, Prepared, Encrypted: only enc or upl moves.
LEMMA IdleSteps ==
    ASSUME UploadTypes, NEW u \in Upload, UInv(u),
           AwaitPermit(u) \/ StopFilling(u) \/ Prepared(u)
    PROVE  /\ UploadTypes' /\ UInv(u)' /\ Owned(u)' = Owned(u)
           /\ \A v \in Upload \ {u} : UState(v)' = UState(v)
<1>1. /\ UNCHANGED <<size, read, drained, window, outbox, chan, thumbs, batch, stored>>
      /\ \/ enc[u] = "fill" /\ UNCHANGED upl
            /\ \/ enc' = [enc EXCEPT ![u] = "wait"]
               \/ enc' = [enc EXCEPT ![u] = "next"] /\ (drained[u] \/ window[u] # <<>>)
         \/ upl[u] = "prepare" /\ UNCHANGED enc /\ upl' = [upl EXCEPT ![u] = "store"]
  <2>1. CASE AwaitPermit(u)
    BY <2>1 DEF AwaitPermit, Set
  <2>2. CASE StopFilling(u)
    <3>1. drained[u] \/ window[u] # <<>>
      <4>1. ASSUME window[u] = <<>>, ~drained[u] PROVE FALSE
        <5>1. ~(Len(window[u]) < MaxEncrypts)
          BY <2>2, <4>1 DEF StopFilling, WantsBlock
        <5>2. Len(window[u]) = 0
          BY <4>1
        <5> QED
          BY <5>1, <5>2, WidthAssumption
      <4> QED
        BY <4>1
    <3> QED
      BY <2>2, <3>1 DEF StopFilling, Set
  <2>3. CASE Prepared(u)
    BY <2>3 DEF Prepared, Set
  <2> QED
    BY <2>1, <2>2, <2>3
<1>2. UploadTypes'
  BY <1>1 DEF UploadTypes, EncStates, UplStates
<1>3. UInv(u)'
  <2>1. LineInv(u)'
    BY <1>1 DEF UploadTypes, UInv, LineInv
  <2>2. EncInv(u)'
    BY <1>1 DEF UploadTypes, UInv, EncInv
  <2>3. UplInv(u)'
    BY <1>1 DEF UploadTypes, UInv, UplInv
  <2> QED
    BY <2>1, <2>2, <2>3 DEF UInv
<1>4. Owned(u)' = Owned(u)
  BY <1>1 DEF Owned
<1>5. \A v \in Upload \ {u} : UState(v)' = UState(v)
  BY <1>1 DEF UState, UploadTypes
<1> QED
  BY <1>2, <1>3, <1>4, <1>5

\* A block is read into the window.
LEMMA ReadStep ==
    ASSUME UploadTypes, NEW u \in Upload, UInv(u), ReadBlock(u), read[u] + 1 <= size[u]
    PROVE  /\ UploadTypes' /\ UInv(u)' /\ Owned(u)' = Owned(u) \cup {read[u] + 1}
           /\ \A v \in Upload \ {u} : UState(v)' = UState(v)
<1>1. /\ read' = [read EXCEPT ![u] = read[u] + 1]
      /\ window' = [window EXCEPT ![u] = Append(window[u], read[u] + 1)]
      /\ enc' = [enc EXCEPT ![u] = "fill"] /\ enc[u] \in {"wait", "fill"}
      /\ enc[u] = "fill" => ~drained[u]
      /\ UNCHANGED <<size, upl, drained, outbox, chan, thumbs, batch, stored>>
  BY DEF ReadBlock, Set, WantsBlock
<1>2. /\ read[u] \in Nat /\ size[u] \in Nat /\ window[u] \in Seq(Nat) /\ outbox[u] \in Nat
      /\ chan[u] \in Seq(Nat) /\ batch[u] \in SUBSET Nat /\ stored[u] \in SUBSET Nat
      /\ read'[u] = read[u] + 1 /\ window'[u] = Append(window[u], read[u] + 1)
      /\ enc'[u] = "fill"
  BY <1>1 DEF UploadTypes
<1>3. PICK k \in Nat : Line(k, read[u], window[u], outbox[u], chan[u], batch[u], stored[u])
  <2>1. upl[u] # "failed"
    BY <1>1 DEF UInv, UplInv
  <2> QED
    BY <2>1 DEF UInv, LineInv
<1>4. /\ window'[u] \in Seq(Nat)
      /\ Line(k, read[u] + 1, window'[u], outbox[u], chan[u], batch[u], stored[u])
      /\ With(OwnedOf(window'[u], outbox[u], chan[u], batch[u]),
              OwnedOf(window[u], outbox[u], chan[u], batch[u]), read[u] + 1)
  BY <1>2, <1>3, LineRead
<1>5. UploadTypes'
  BY <1>1, <1>2, <1>4 DEF UploadTypes, EncStates
<1>6. UInv(u)'
  <2>1. LineInv(u)'
    BY <1>1, <1>2, <1>4 DEF LineInv, UInv, UplInv
  <2>2. EncInv(u)'
    <3>1. ~drained[u]
      BY <1>2 DEF UInv, EncInv
    <3> QED
      BY <1>1, <1>2, <3>1 DEF UInv, EncInv
  <2>3. UplInv(u)'
    BY <1>1, <1>2 DEF UInv, UplInv
  <2> QED
    BY <2>1, <2>2, <2>3 DEF UInv
<1>7. Owned(u)' = Owned(u) \cup {read[u] + 1}
  BY <1>1, <1>4 DEF Owned, OwnedOf, With
<1>8. \A v \in Upload \ {u} : UState(v)' = UState(v)
  BY <1>1 DEF UState, UploadTypes
<1> QED
  BY <1>5, <1>6, <1>7, <1>8

\* The values of one upload have their types.
LEMMA ValueTypes ==
    ASSUME UploadTypes, NEW u \in Upload
    PROVE  /\ read[u] \in Nat /\ size[u] \in Nat /\ window[u] \in Seq(Nat) /\ outbox[u] \in Nat
           /\ chan[u] \in Seq(Nat) /\ batch[u] \in SUBSET Nat /\ stored[u] \in SUBSET Nat
           /\ enc[u] \in EncStates /\ upl[u] \in UplStates
BY DEF UploadTypes

\* The reader is at its end.
LEMMA DrainedStep ==
    ASSUME UploadTypes, NEW u \in Upload, UInv(u), ReadBlock(u), ~(read[u] + 1 <= size[u])
    PROVE  /\ UploadTypes' /\ UInv(u)' /\ Owned(u)' = Owned(u)
           /\ \A v \in Upload \ {u} : UState(v)' = UState(v)
<1>1. /\ drained' = [drained EXCEPT ![u] = TRUE]
      /\ enc' = [enc EXCEPT ![u] = "next"] /\ enc[u] \in {"wait", "fill"}
      /\ UNCHANGED <<size, read, upl, window, outbox, chan, thumbs, batch, stored>>
  BY DEF ReadBlock, Set
<1>2. drained' \in [Upload -> BOOLEAN]
  BY <1>1 DEF UploadTypes
<1>3. UploadTypes'
  BY <1>1, <1>2 DEF UploadTypes, EncStates
<1>4. drained'[u] /\ enc'[u] = "next"
  BY <1>1 DEF UploadTypes
<1>5. UInv(u)'
  <2>1. LineInv(u)'
    BY <1>1 DEF UInv, LineInv
  <2>2. EncInv(u)'
    <3>1. read[u] = size[u]
      BY ValueTypes DEF UInv, EncInv
    <3> QED
      BY <1>1, <1>4, <3>1 DEF UInv, EncInv
  <2>3. UplInv(u)'
    BY <1>1, <1>4 DEF UInv, UplInv
  <2> QED
    BY <2>1, <2>2, <2>3 DEF UInv
<1>6. Owned(u)' = Owned(u)
  BY <1>1 DEF Owned
<1>7. \A v \in Upload \ {u} : UState(v)' = UState(v)
  BY <1>1 DEF UState, UploadTypes
<1> QED
  BY <1>3, <1>5, <1>6, <1>7

\* The window is empty, or its oldest block goes to the outbox.
LEMMA NextStep ==
    ASSUME UploadTypes, NEW u \in Upload, UInv(u), NextEncrypted(u)
    PROVE  /\ UploadTypes' /\ UInv(u)' /\ Owned(u)' = Owned(u)
           /\ \A v \in Upload \ {u} : UState(v)' = UState(v)
<1>1. enc[u] = "next" /\ upl[u] # "failed" /\ outbox[u] = 0
  BY DEF NextEncrypted, UInv, UplInv, EncInv
<1>2. UNCHANGED <<size, upl, read, drained, chan, thumbs, batch, stored>>
  BY DEF NextEncrypted
<1>3. CASE window[u] = <<>>
  <2>1. enc' = [enc EXCEPT ![u] = "done"] /\ UNCHANGED <<window, outbox>>
    BY <1>3 DEF NextEncrypted, Set
  <2>2. enc'[u] = "done"
    BY <2>1 DEF UploadTypes
  <2>3. UploadTypes'
    BY <1>2, <2>1 DEF UploadTypes, EncStates
  <2>4. LineInv(u)'
    BY <1>2, <2>1 DEF UInv, LineInv
  <2>5. EncInv(u)' /\ UplInv(u)'
    BY <1>1, <1>2, <1>3, <2>1, <2>2 DEF UInv, EncInv, UplInv
  <2>6. Owned(u)' = Owned(u)
    BY <1>2, <2>1 DEF Owned
  <2>7. \A v \in Upload \ {u} : UState(v)' = UState(v)
    BY <1>2, <2>1 DEF UState, UploadTypes
  <2> QED
    BY <2>3, <2>4, <2>5, <2>6, <2>7 DEF UInv
<1>4. CASE window[u] # <<>>
  <2>1. /\ enc' = [enc EXCEPT ![u] = "send"]
        /\ window' = [window EXCEPT ![u] = Tail(window[u])]
        /\ outbox' = [outbox EXCEPT ![u] = Head(window[u])]
    BY <1>4 DEF NextEncrypted, Set
  <2>2. enc'[u] = "send" /\ window'[u] = Tail(window[u]) /\ outbox'[u] = Head(window[u])
    BY <2>1 DEF UploadTypes
  <2>3. PICK k \in Nat : Line(k, read[u], window[u], 0, chan[u], batch[u], stored[u])
    BY <1>1 DEF UInv, LineInv
  <2>4. /\ Line(k, read[u], window'[u], outbox'[u], chan[u], batch[u], stored[u])
        /\ outbox'[u] \in Nat \ {0} /\ window'[u] \in Seq(Nat)
        /\ Keeps(OwnedOf(window'[u], outbox'[u], chan[u], batch[u]),
                 OwnedOf(window[u], 0, chan[u], batch[u]))
    BY <1>4, <2>2, <2>3, ValueTypes, LineNext
  <2>5. UploadTypes'
    BY <1>2, <2>1, <2>2, <2>4 DEF UploadTypes, EncStates
  <2>6. LineInv(u)'
    BY <1>1, <1>2, <2>4 DEF LineInv
  <2>7. EncInv(u)' /\ UplInv(u)'
    BY <1>1, <1>2, <1>4, <2>2, <2>4 DEF UInv, EncInv, UplInv
  <2>8. Owned(u)' = Owned(u)
    BY <1>1, <1>2, <2>4 DEF Owned, OwnedOf, Keeps
  <2>9. \A v \in Upload \ {u} : UState(v)' = UState(v)
    BY <1>2, <2>1 DEF UState, UploadTypes
  <2> QED
    BY <2>5, <2>6, <2>7, <2>8, <2>9 DEF UInv
<1> QED
  BY <1>3, <1>4

\* The block in the outbox enters the channel.
LEMMA SendStep ==
    ASSUME UploadTypes, NEW u \in Upload, UInv(u), SendBlock(u)
    PROVE  /\ UploadTypes' /\ UInv(u)' /\ Owned(u)' = Owned(u)
           /\ \A v \in Upload \ {u} : UState(v)' = UState(v)
<1>1. enc[u] = "send" /\ upl[u] # "failed" /\ outbox[u] # 0
  BY DEF SendBlock, UInv, UplInv, EncInv
<1>2. /\ enc' = [enc EXCEPT ![u] = "fill"] /\ outbox' = [outbox EXCEPT ![u] = 0]
      /\ chan' = [chan EXCEPT ![u] = Append(chan[u], outbox[u])]
      /\ UNCHANGED <<size, upl, read, drained, window, thumbs, batch, stored>>
  BY DEF SendBlock, Set
<1>3. enc'[u] = "fill" /\ outbox'[u] = 0 /\ chan'[u] = Append(chan[u], outbox[u])
  BY <1>2 DEF UploadTypes
<1>4. PICK k \in Nat : Line(k, read[u], window[u], outbox[u], chan[u], batch[u], stored[u])
  BY <1>1 DEF UInv, LineInv
<1>5. /\ Line(k, read[u], window[u], 0, chan'[u], batch[u], stored[u]) /\ chan'[u] \in Seq(Nat)
      /\ Keeps(OwnedOf(window[u], 0, chan'[u], batch[u]),
               OwnedOf(window[u], outbox[u], chan[u], batch[u]))
  BY <1>1, <1>3, <1>4, ValueTypes, LineSend
<1>6. UploadTypes'
  BY <1>2, <1>3, <1>5 DEF UploadTypes, EncStates
<1>7. LineInv(u)'
  BY <1>1, <1>2, <1>3, <1>5 DEF LineInv
<1>8. EncInv(u)' /\ UplInv(u)'
  BY <1>1, <1>2, <1>3 DEF UInv, EncInv, UplInv
<1>9. Owned(u)' = Owned(u)
  BY <1>2, <1>3, <1>5 DEF Owned, OwnedOf, Keeps
<1>10. \A v \in Upload \ {u} : UState(v)' = UState(v)
  BY <1>2 DEF UState, UploadTypes
<1> QED
  BY <1>6, <1>7, <1>8, <1>9, <1>10 DEF UInv

\* What has arrived becomes the batch, or there is nothing more to come.
LEMMA ReceiveStep ==
    ASSUME UploadTypes, NEW u \in Upload, UInv(u), Receive(u) \/ ChannelClosed(u)
    PROVE  /\ UploadTypes' /\ UInv(u)' /\ Owned(u)' = Owned(u)
           /\ \A v \in Upload \ {u} : UState(v)' = UState(v)
<1>1. upl[u] = "recv" /\ batch[u] = {} /\ enc[u] # "ended"
  BY DEF Receive, ChannelClosed, UInv, UplInv
<1>2. PICK z \in SUBSET {0} : z = IF thumbs[u] THEN {0} ELSE {}
  BY DEF UploadTypes
<1>3. PICK n \in 0 .. Len(chan[u]) :
        /\ batch' = [batch EXCEPT ![u] = Elems(SubSeq(chan[u], 1, n)) \cup z]
        /\ chan' = [chan EXCEPT ![u] = SubSeq(chan[u], n + 1, Len(chan[u]))]
        /\ thumbs' = [thumbs EXCEPT ![u] = FALSE]
        /\ \/ upl' = [upl EXCEPT ![u] = "prepare"]
           \/ /\ upl' = [upl EXCEPT ![u] = "done"]
              /\ enc[u] = "done" /\ z = {} /\ chan[u] = <<>> /\ n = 0
  <2>1. CASE Receive(u)
    <3>1. PICK n \in Nat : n = AtMost(Len(chan[u]), MaxBuffered + 1)
      BY ValueTypes, WidthAssumption DEF AtMost
    <3>2. n \in 0 .. Len(chan[u])
      BY <3>1, ValueTypes, WidthAssumption DEF AtMost
    <3> QED
      BY <1>2, <2>1, <3>1, <3>2 DEF Receive, Set
  <2>2. CASE ChannelClosed(u)
    <3>1. chan[u] = <<>> /\ Len(chan[u]) = 0
      BY <2>2 DEF ChannelClosed
    <3>2. SubSeq(chan[u], 1, 0) = <<>> /\ SubSeq(chan[u], 0 + 1, Len(chan[u])) = <<>>
      BY <3>1
    <3>3. Elems(<<>>) = {}
      BY DEF Elems
    <3>4. /\ batch' = [batch EXCEPT ![u] = Elems(SubSeq(chan[u], 1, 0)) \cup z]
          /\ chan' = [chan EXCEPT ![u] = SubSeq(chan[u], 0 + 1, Len(chan[u]))]
      BY <1>2, <2>2, <3>1, <3>2, <3>3 DEF ChannelClosed, Set, UploadTypes
    <3>5. thumbs' = [thumbs EXCEPT ![u] = FALSE] /\ enc[u] = "done"
      BY <2>2 DEF ChannelClosed, Set
    <3>6. upl' = [upl EXCEPT ![u] = IF thumbs[u] THEN "prepare" ELSE "done"]
      BY <2>2 DEF ChannelClosed, Set
    <3>7. thumbs[u] \/ (~thumbs[u] /\ z = {})
      BY <1>2
    <3>8. \/ upl' = [upl EXCEPT ![u] = "prepare"]
          \/ upl' = [upl EXCEPT ![u] = "done"] /\ z = {}
      BY <3>6, <3>7
    <3>9. 0 \in 0 .. Len(chan[u])
      BY <3>1
    <3> QED
      BY <3>1, <3>4, <3>5, <3>8, <3>9
  <2> QED
    BY <2>1, <2>2
<1>4. UNCHANGED <<size, enc, read, drained, window, outbox, stored>>
  BY DEF Receive, ChannelClosed
<1>5. /\ batch'[u] = Elems(SubSeq(chan[u], 1, n)) \cup z
      /\ chan'[u] = SubSeq(chan[u], n + 1, Len(chan[u]))
  BY <1>3 DEF UploadTypes
<1>6. PICK k \in Nat : Line(k, read[u], window[u], outbox[u], chan[u], batch[u], stored[u])
  BY <1>1 DEF UInv, LineInv
<1>7. /\ Line(k + n, read[u], window[u], outbox[u], chan'[u], batch'[u], stored[u])
      /\ chan'[u] \in Seq(Nat) /\ batch'[u] \in SUBSET Nat
      /\ Keeps(OwnedOf(window[u], outbox[u], chan'[u], batch'[u]),
               OwnedOf(window[u], outbox[u], chan[u], batch[u]))
  <2>1. Split(chan[u], n, batch'[u], chan'[u]) /\ n \in Nat /\ Empty(batch[u])
    <3>1. n \in Nat /\ n <= Len(chan[u]) /\ Empty(batch[u])
      BY <1>1, ValueTypes DEF Empty
    <3> QED
      BY <1>5, <3>1 DEF Split
  <2>2. PICK k2 : k2 = k + n
    OBVIOUS
  <2>3. /\ Line(k2, read[u], window[u], outbox[u], chan'[u], batch'[u], stored[u])
        /\ chan'[u] \in Seq(Nat) /\ batch'[u] \in SUBSET Nat
        /\ Keeps(OwnedOf(window[u], outbox[u], chan'[u], batch'[u]),
                 OwnedOf(window[u], outbox[u], chan[u], batch[u]))
    <3>0. PICK r \in Nat, w \in Seq(Nat), o \in Nat, c \in Seq(Nat),
               b \in SUBSET Nat, t \in SUBSET Nat :
            /\ r = read[u] /\ w = window[u] /\ o = outbox[u] /\ c = chan[u] /\ b = batch[u]
            /\ t = stored[u]
      BY ValueTypes, Zenon
    <3>1. PICK b2, c2 :
            /\ r = read[u] /\ w = window[u] /\ o = outbox[u] /\ c = chan[u] /\ b = batch[u]
            /\ t = stored[u] /\ b2 = batch'[u] /\ c2 = chan'[u]
      BY <3>0, Zenon
    <3>2. Line(k, r, w, o, c, b, t) /\ Empty(b) /\ Split(c, n, b2, c2) /\ k2 = k + n /\ n \in Nat
      BY <1>6, <2>1, <2>2, <3>1
    <3>3. Line(k2, r, w, o, c2, b2, t)
      BY <3>2, LineReceive
    <3>4. SplitTypes(b2, c2)
      BY <3>2, SplitTyped
    <3>5. Keeps(OwnedOf(w, o, c2, b2), OwnedOf(w, o, c, b))
      BY <3>2, LineReceive
    <3> QED
      BY <3>1, <3>3, <3>4, <3>5 DEF SplitTypes
  <2> QED
    BY <2>2, <2>3
<1>8. k + n \in Nat
  BY ValueTypes
<1>9. UploadTypes'
  <2>1. thumbs' \in [Upload -> BOOLEAN]
    BY <1>3 DEF UploadTypes
  <2>2. batch' \in [Upload -> SUBSET Nat] /\ chan' \in [Upload -> Seq(Nat)]
    BY <1>3, <1>5, <1>7 DEF UploadTypes
  <2>3. upl' \in [Upload -> UplStates]
    BY <1>3 DEF UploadTypes, UplStates
  <2> QED
    BY <1>4, <2>1, <2>2, <2>3 DEF UploadTypes
<1>10. LineInv(u)'
  <2>1. upl'[u] # "failed"
    BY <1>3 DEF UploadTypes
  <2> QED
    BY <1>4, <1>7, <1>8, <2>1 DEF LineInv
<1>11. EncInv(u)'
  BY <1>4 DEF UInv, EncInv
<1>12. UplInv(u)'
  <2>1. thumbs'[u] = FALSE
    BY <1>3 DEF UploadTypes
  <2>2. CASE upl' = [upl EXCEPT ![u] = "prepare"]
    BY <1>1, <1>4, <2>2 DEF UInv, UplInv, UploadTypes
  <2>3. CASE /\ upl' = [upl EXCEPT ![u] = "done"]
             /\ enc[u] = "done" /\ z = {} /\ chan[u] = <<>> /\ n = 0
    <3>1. upl'[u] = "done"
      BY <2>3 DEF UploadTypes
    <3>2. chan'[u] = <<>> /\ batch'[u] = {}
      BY <1>5, <2>3 DEF Elems
    <3> QED
      BY <1>4, <2>1, <2>3, <3>1, <3>2 DEF UplInv
  <2> QED
    BY <1>3, <2>2, <2>3
<1>13. Owned(u)' = Owned(u)
  BY <1>1, <1>4, <1>7 DEF Owned, OwnedOf, Keeps
<1>14. \A v \in Upload \ {u} : UState(v)' = UState(v)
  BY <1>3, <1>4 DEF UState, UploadTypes
<1> QED
  BY <1>9, <1>10, <1>11, <1>12, <1>13, <1>14 DEF UInv

\* A job is stored.
LEMMA StoreStep ==
    ASSUME UploadTypes, NEW u \in Upload, UInv(u), NEW i, StoreJob(u, i)
    PROVE  /\ UploadTypes' /\ UInv(u)' /\ Owned(u)' = Owned(u) \ {i}
           /\ i \in Nat
           /\ \A v \in Upload \ {u} : UState(v)' = UState(v)
<1>1. /\ upl[u] = "store" /\ i \in batch[u] /\ i \in Nat
      /\ stored' = [stored EXCEPT ![u] = stored[u] \cup {i}]
      /\ batch' = [batch EXCEPT ![u] = batch[u] \ {i}]
      /\ upl' = [upl EXCEPT ![u] = IF batch[u] = {i} THEN "recv" ELSE "store"]
      /\ UNCHANGED <<size, enc, read, drained, window, outbox, chan, thumbs>>
  BY ValueTypes DEF StoreJob, Set
<1>2. batch'[u] = batch[u] \ {i} /\ stored'[u] = stored[u] \cup {i}
  BY <1>1 DEF UploadTypes
<1>3. PICK k \in Nat : Line(k, read[u], window[u], outbox[u], chan[u], batch[u], stored[u])
  BY <1>1 DEF UInv, LineInv
<1>4. /\ Line(k, read[u], window[u], outbox[u], chan[u], batch'[u], stored'[u])
      /\ batch'[u] \in SUBSET Nat /\ stored'[u] \in SUBSET Nat
      /\ Without(OwnedOf(window[u], outbox[u], chan[u], batch'[u]),
               OwnedOf(window[u], outbox[u], chan[u], batch[u]), i)
  <2>1. Without(batch'[u], batch[u], i) /\ With(stored'[u], stored[u], i)
    BY <1>2 DEF With, Without
  <2>0. PICK r \in Nat, w \in Seq(Nat), o \in Nat, c \in Seq(Nat),
             b \in SUBSET Nat, t \in SUBSET Nat :
          /\ r = read[u] /\ w = window[u] /\ o = outbox[u] /\ c = chan[u] /\ b = batch[u]
          /\ t = stored[u]
    BY ValueTypes, Zenon
  <2>2. PICK b2, t2 :
          /\ r = read[u] /\ w = window[u] /\ o = outbox[u] /\ c = chan[u] /\ b = batch[u]
          /\ t = stored[u] /\ b2 = batch'[u] /\ t2 = stored'[u]
    BY <2>0, Zenon
  <2>3. Line(k, r, w, o, c, b, t) /\ i \in b /\ Without(b2, b, i) /\ With(t2, t, i)
    BY <1>1, <1>3, <2>1, <2>2
  <2>4. /\ Line(k, r, w, o, c, b2, t2) /\ b2 \in SUBSET Nat /\ t2 \in SUBSET Nat
        /\ Without(OwnedOf(w, o, c, b2), OwnedOf(w, o, c, b), i)
    BY <2>3, LineStore
  <2> QED
    BY <2>2, <2>4
<1>5. upl'[u] \in {"recv", "store"} /\ (upl'[u] = "recv" => batch'[u] = {})
  <2>1. CASE batch[u] = {i}
    BY <1>1, <1>2, <2>1 DEF UploadTypes
  <2>2. CASE batch[u] # {i}
    BY <1>1, <2>2 DEF UploadTypes
  <2> QED
    BY <2>1, <2>2
<1>6. UploadTypes'
  <2>1. upl' \in [Upload -> UplStates]
    BY <1>1 DEF UploadTypes, UplStates
  <2>2. batch' \in [Upload -> SUBSET Nat] /\ stored' \in [Upload -> SUBSET Nat]
    BY <1>1, <1>2, <1>4 DEF UploadTypes
  <2> QED
    BY <1>1, <2>1, <2>2 DEF UploadTypes
<1>7. LineInv(u)'
  BY <1>1, <1>4, <1>5 DEF LineInv
<1>8. EncInv(u)'
  BY <1>1 DEF UInv, EncInv
<1>9. UplInv(u)'
  BY <1>1, <1>5 DEF UInv, UplInv
<1>10. Owned(u)' = Owned(u) \ {i}
  BY <1>1, <1>4 DEF Owned, OwnedOf, Without
<1>11. \A v \in Upload \ {u} : UState(v)' = UState(v)
  BY <1>1 DEF UState, UploadTypes
<1> QED
  BY <1>1, <1>6, <1>7, <1>8, <1>9, <1>10, <1>11 DEF UInv

\* Both halves are done: all blocks are stored, so the counts agree.
LEMMA JoinStep ==
    ASSUME UploadTypes, NEW u \in Upload, UInv(u), Join(u)
    PROVE  /\ UploadTypes' /\ UInv(u)' /\ Owned(u)' = Owned(u)
           /\ \A v \in Upload \ {u} : UState(v)' = UState(v)
<1>1. /\ enc[u] = "done" /\ upl[u] = "done"
      /\ enc' = [enc EXCEPT ![u] = "ended"]
      /\ upl' = [upl EXCEPT ![u] = IF Cardinality(stored[u] \ {0}) = read[u] THEN "ok"
                                                                             ELSE "mismatch"]
      /\ UNCHANGED <<size, read, drained, window, outbox, chan, thumbs, batch, stored>>
  BY DEF Join, Set
<1>2. /\ window[u] = <<>> /\ outbox[u] = 0 /\ chan[u] = <<>> /\ batch[u] = {}
      /\ drained[u] /\ ~thumbs[u]
  BY <1>1 DEF UInv, EncInv, UplInv
<1>3. PICK k \in Nat : Line(k, read[u], window[u], outbox[u], chan[u], batch[u], stored[u])
  BY <1>1 DEF UInv, LineInv
<1>4. stored[u] \ {0} = 1 .. read[u]
  <2>1. Len(window[u]) = 0 /\ Len(chan[u]) = 0 /\ Out(outbox[u]) = 0
    BY <1>2 DEF Out
  <2>2. k = read[u] /\ (batch[u] \cup stored[u]) \ {0} = 1 .. k
    BY <1>3, <2>1 DEF Line
  <2> QED
    BY <1>2, <2>2
<1>5. Cardinality(stored[u] \ {0}) = read[u]
  <2>1. PICK r \in Nat : r = read[u]
    BY ValueTypes
  <2>2. Cardinality(1 .. r) = r
    BY FS_Interval
  <2> QED
    BY <1>4, <2>1, <2>2
<1>6. upl' = [upl EXCEPT ![u] = "ok"]
  BY <1>1, <1>5
<1>7. enc'[u] = "ended" /\ upl'[u] = "ok"
  BY <1>1, <1>6 DEF UploadTypes
<1>8. UploadTypes'
  BY <1>1, <1>6 DEF UploadTypes, EncStates, UplStates
<1>9. LineInv(u)'
  BY <1>1, <1>3, <1>7 DEF LineInv
<1>10. EncInv(u)' /\ UplInv(u)'
  BY <1>1, <1>2, <1>7 DEF UInv, EncInv, UplInv
<1>11. Owned(u)' = Owned(u)
  BY <1>1 DEF Owned
<1>12. \A v \in Upload \ {u} : UState(v)' = UState(v)
  BY <1>1, <1>6 DEF UState, UploadTypes
<1> QED
  BY <1>8, <1>9, <1>10, <1>11, <1>12 DEF UInv

\* An upload fails or is dropped, with everything it owns.
LEMMA AbandonStep ==
    ASSUME UploadTypes, NEW u \in Upload, UInv(u), Abandon(u)
    PROVE  /\ UploadTypes' /\ UInv(u)' /\ Owned(u)' = {}
           /\ \A v \in Upload \ {u} : UState(v)' = UState(v)
<1>1. /\ enc' = [enc EXCEPT ![u] = "ended"] /\ upl' = [upl EXCEPT ![u] = "failed"]
      /\ window' = [window EXCEPT ![u] = <<>>] /\ outbox' = [outbox EXCEPT ![u] = 0]
      /\ chan' = [chan EXCEPT ![u] = <<>>] /\ batch' = [batch EXCEPT ![u] = {}]
      /\ UNCHANGED <<size, read, drained, thumbs, stored>>
  BY DEF Abandon, Set
<1>2. /\ enc'[u] = "ended" /\ upl'[u] = "failed" /\ window'[u] = <<>> /\ outbox'[u] = 0
      /\ chan'[u] = <<>> /\ batch'[u] = {}
  BY <1>1 DEF UploadTypes
<1>3. UploadTypes'
  BY <1>1 DEF UploadTypes, EncStates, UplStates
<1>4. LineInv(u)'
  BY <1>2 DEF LineInv
<1>5. EncInv(u)' /\ UplInv(u)'
  BY <1>1, <1>2 DEF UInv, EncInv, UplInv
<1>6. Owned(u)' = {}
  BY <1>2 DEF Owned, Elems
<1>7. \A v \in Upload \ {u} : UState(v)' = UState(v)
  BY <1>1 DEF UState, UploadTypes
<1> QED
  BY <1>3, <1>4, <1>5, <1>6, <1>7 DEF UInv

-----------------------------------------------------------------------------
(* The downloads.                                                          *)

FetchStates == {"none", "wait", "fetch", "decrypt", "ready", "gone"}
InWindow == {"wait", "fetch", "decrypt", "ready"}

DownloadTypes ==
    /\ count \in [Download -> Nat] /\ started \in [Download -> Nat]
    /\ written \in [Download -> Seq(Nat)]
    /\ fetch \in [Download -> [Target -> FetchStates]]

\* The fetches under way are those between what is written and what is started, and
\* these are never further apart than the window is wide.
DInv(d) ==
    /\ count[d] <= MaxTargets /\ started[d] <= count[d]
    /\ Len(written[d]) <= started[d] /\ started[d] - Len(written[d]) <= MaxDownloads
    /\ \A x \in 1 .. Len(written[d]) : written[d][x] = x
    /\ \A i \in Target : fetch[d][i] \in InWindow => Len(written[d]) < i /\ i <= started[d]

DState(d) == <<count[d], started[d], written[d], fetch[d]>>

LEMMA DStateKept ==
    ASSUME NEW d \in Download, DInv(d), DState(d)' = DState(d)
    PROVE  DInv(d)' /\ Resident(d)' = Resident(d)
BY DEF DState, DInv, Resident

\* What FetchTo does.
LEMMA GotoOne ==
    ASSUME DownloadTypes, NEW d \in Download, NEW i \in Target, NEW label \in FetchStates,
           FetchTo(d, i, label)
    PROVE  /\ fetch' \in [Download -> [Target -> FetchStates]]
           /\ \A e \in Download \ {d} : fetch'[e] = fetch[e]
           /\ \A j \in Target : fetch'[d][j] = IF j = i THEN label ELSE fetch[d][j]
<1>1. PICK row \in [Target -> FetchStates] : row = fetch[d]
  BY DEF DownloadTypes
<1>2. PICK new : new = [row EXCEPT ![i] = label]
  OBVIOUS
<1>3. new \in [Target -> FetchStates] /\ \A j \in Target : new[j] = IF j = i THEN label ELSE row[j]
  BY <1>2
<1>4. fetch' = [fetch EXCEPT ![d] = new]
  BY <1>1, <1>2 DEF FetchTo
<1> QED
  BY <1>1, <1>3, <1>4 DEF DownloadTypes

LEMMA DTypes ==
    ASSUME DownloadTypes, NEW d \in Download
    PROVE  /\ count[d] \in Nat /\ started[d] \in Nat /\ written[d] \in Seq(Nat)
           /\ Len(written[d]) \in Nat
BY DEF DownloadTypes

\* The next fetch is started.
LEMMA StartStep ==
    ASSUME DownloadTypes, NEW d \in Download, DInv(d), StartFetch(d)
    PROVE  /\ DownloadTypes' /\ DInv(d)' /\ Resident(d)' = Resident(d)
           /\ \A e \in Download \ {d} : DState(e)' = DState(e)
<1>1. PICK i : i = started[d] + 1
  OBVIOUS
<1>2. /\ started[d] < count[d] /\ started[d] - Len(written[d]) < MaxDownloads
      /\ FetchTo(d, i, "wait") /\ started' = [started EXCEPT ![d] = @ + 1]
      /\ UNCHANGED <<count, written>>
  BY <1>1 DEF StartFetch
<1>3. i \in Target
  BY <1>1, <1>2, DTypes, DownloadsAssumption DEF DInv, Target
<1>4. /\ fetch' \in [Download -> [Target -> FetchStates]]
      /\ \A e \in Download \ {d} : fetch'[e] = fetch[e]
      /\ \A j \in Target : fetch'[d][j] = IF j = i THEN "wait" ELSE fetch[d][j]
  BY <1>2, <1>3, GotoOne DEF FetchStates
<1>5. started'[d] = i /\ started' \in [Download -> Nat]
  BY <1>1, <1>2 DEF DownloadTypes
<1>6. fetch[d][i] \notin InWindow
  BY <1>1, <1>3, DTypes DEF DInv
<1>7. DInv(d)'
  <2>1. started'[d] <= count[d] /\ Len(written[d]) <= started'[d]
        /\ started'[d] - Len(written[d]) <= MaxDownloads
    BY <1>1, <1>2, <1>5, DTypes, DownloadsAssumption DEF DInv
  <2>2. ASSUME NEW j \in Target, fetch'[d][j] \in InWindow
        PROVE  Len(written[d]) < j /\ j <= started'[d]
    <3>1. j \in Int /\ started[d] \in Nat /\ Len(written[d]) \in Nat
      BY DTypes DEF Target
    <3>2. CASE j = i
      BY <1>1, <1>5, <3>1, <3>2, DTypes DEF DInv
    <3>3. CASE j # i
      <4>1. Len(written[d]) < j /\ j <= started[d]
        BY <1>4, <2>2, <3>3 DEF DInv
      <4> QED
        BY <1>1, <1>5, <3>1, <4>1
    <3> QED
      BY <3>2, <3>3
  <2> QED
    BY <1>2, <2>1, <2>2 DEF DInv
<1>8. Resident(d)' = Resident(d)
  BY <1>4, <1>6 DEF Resident, InWindow
<1>9. DownloadTypes'
  BY <1>2, <1>4, <1>5 DEF DownloadTypes
<1>10. \A e \in Download \ {d} : DState(e)' = DState(e)
  BY <1>2, <1>4 DEF DState, DownloadTypes
<1> QED
  BY <1>7, <1>8, <1>9, <1>10

\* A fetch advances, with a permit from the first step on.
LEMMA AdvanceStep ==
    ASSUME DownloadTypes, NEW d \in Download, NEW i \in Target, DInv(d), FetchStep(d, i)
    PROVE  /\ DownloadTypes' /\ DInv(d)'
           /\ Permitted(d, i) => Resident(d)' = Resident(d) \cup {i}
           /\ Fetched(d, i) => Resident(d)' = Resident(d)
           /\ \A e \in Download \ {d} : DState(e)' = DState(e)
<1>1. PICK label \in {"fetch", "decrypt", "ready"} :
        /\ FetchTo(d, i, label)
        /\ fetch[d][i] \in InWindow
        /\ Permitted(d, i) => fetch[d][i] = "wait"
        /\ Fetched(d, i) => fetch[d][i] \in {"fetch", "decrypt"}
  <2>1. CASE Permitted(d, i)
    BY <2>1 DEF Permitted, Fetched, InWindow
  <2>2. CASE Fetched(d, i)
    BY <2>2 DEF Permitted, Fetched, InWindow
  <2> QED
    BY <2>1, <2>2 DEF FetchStep
<1>2. UNCHANGED <<count, started, written>>
  BY DEF FetchStep, Permitted, Fetched
<1>3. /\ fetch' \in [Download -> [Target -> FetchStates]]
      /\ \A e \in Download \ {d} : fetch'[e] = fetch[e]
      /\ \A j \in Target : fetch'[d][j] = IF j = i THEN label ELSE fetch[d][j]
  <2>1. label \in FetchStates
    BY DEF FetchStates
  <2> QED
    BY <1>1, <2>1, GotoOne
<1>4. DownloadTypes'
  BY <1>2, <1>3 DEF DownloadTypes
<1>5. DInv(d)'
  <2>1. \A j \in Target : fetch'[d][j] \in InWindow => fetch[d][j] \in InWindow
    BY <1>1, <1>3
  <2> QED
    BY <1>2, <2>1 DEF DInv
<1>6. Permitted(d, i) => Resident(d)' = Resident(d) \cup {i}
  BY <1>1, <1>3 DEF Resident
<1>7. Fetched(d, i) => Resident(d)' = Resident(d)
  BY <1>1, <1>3 DEF Resident
<1>8. \A e \in Download \ {d} : DState(e)' = DState(e)
  BY <1>2, <1>3 DEF DState, DownloadTypes
<1> QED
  BY <1>4, <1>5, <1>6, <1>7, <1>8

\* The oldest block is written.
LEMMA WriteStep ==
    ASSUME DownloadTypes, NEW d \in Download, DInv(d), Write(d)
    PROVE  /\ DownloadTypes' /\ DInv(d)'
           /\ Resident(d)' = Resident(d) \ {Len(written[d]) + 1}
           /\ \A e \in Download \ {d} : DState(e)' = DState(e)
<1>1. PICK n \in Nat : n = Len(written[d])
  BY DTypes
<1>2. PICK i \in Nat \ {0} : i = n + 1
  BY <1>1
<1>3. /\ i <= count[d] /\ fetch[d][i] = "ready"
      /\ written' = [written EXCEPT ![d] = Append(@, i)]
      /\ FetchTo(d, i, "gone") /\ UNCHANGED <<count, started>>
  BY <1>1, <1>2 DEF Write
<1>4. i \in Target
  BY <1>2, <1>3, DTypes, DownloadsAssumption DEF DInv, Target
<1>5. /\ fetch' \in [Download -> [Target -> FetchStates]]
      /\ \A e \in Download \ {d} : fetch'[e] = fetch[e]
      /\ \A j \in Target : fetch'[d][j] = IF j = i THEN "gone" ELSE fetch[d][j]
  BY <1>3, <1>4, GotoOne DEF FetchStates
<1>6. PICK w \in Seq(Nat) : w = written[d]
  BY DTypes
<1>7. written'[d] = Append(w, i)
  BY <1>3, <1>6 DEF DownloadTypes
<1>8. /\ Append(w, i) \in Seq(Nat) /\ Len(Append(w, i)) = i
      /\ \A x \in 1 .. n : Append(w, i)[x] = w[x]
      /\ Append(w, i)[n + 1] = i
  BY <1>1, <1>2, <1>6
<1>9. DownloadTypes'
  BY <1>3, <1>5, <1>7, <1>8 DEF DownloadTypes
<1>10. DInv(d)'
  <2>1. i <= started[d]
    BY <1>3, <1>4 DEF DInv, InWindow
  <2>2. started[d] - i <= MaxDownloads
    BY <1>1, <1>2, <2>1, DTypes, DownloadsAssumption DEF DInv
  <2>3. \A x \in 1 .. i : Append(w, i)[x] = x
    <3>1. \A x \in 1 .. n : w[x] = x
      BY <1>1, <1>6 DEF DInv
    <3>2. ASSUME NEW x \in 1 .. i PROVE x \in 1 .. n \/ x = n + 1
      BY <1>2
    <3> QED
      BY <1>2, <1>8, <3>1, <3>2
  <2>4. ASSUME NEW j \in Target, fetch'[d][j] \in InWindow PROVE i < j /\ j <= started[d]
    <3>1. j # i /\ fetch[d][j] \in InWindow /\ j \in Int
      BY <1>4, <1>5, <2>4 DEF InWindow, Target
    <3>2. n < j /\ j <= started[d]
      BY <1>1, <3>1 DEF DInv
    <3> QED
      BY <1>2, <3>1, <3>2
  <2>5. count[d] <= MaxTargets /\ started[d] <= count[d]
    BY DEF DInv
  <2> QED
    BY <1>3, <1>7, <1>8, <2>1, <2>2, <2>3, <2>4, <2>5 DEF DInv
<1>11. Resident(d)' = Resident(d) \ {i}
  BY <1>4, <1>5 DEF Resident
<1>12. \A e \in Download \ {d} : DState(e)' = DState(e)
  BY <1>3, <1>5 DEF DState, DownloadTypes
<1> QED
  BY <1>1, <1>2, <1>9, <1>10, <1>11, <1>12

\* A download is given up: nothing is under way any more.
LEMMA QuitStep ==
    ASSUME DownloadTypes, NEW d \in Download, DInv(d), Quit(d)
    PROVE  /\ DownloadTypes' /\ DInv(d)' /\ Resident(d)' = {}
           /\ \A e \in Download \ {d} : DState(e)' = DState(e)
<1>1. /\ fetch' = [fetch EXCEPT ![d] = [i \in Target |-> "gone"]]
      /\ UNCHANGED <<count, started, written>>
  BY DEF Quit
<1>2. fetch'[d] = [i \in Target |-> "gone"]
  BY <1>1 DEF DownloadTypes
<1>3. DownloadTypes'
  <2>1. [i \in Target |-> "gone"] \in [Target -> FetchStates]
    BY DEF FetchStates
  <2> QED
    BY <1>1, <2>1 DEF DownloadTypes
<1>4. \A i \in Target : fetch'[d][i] = "gone"
  BY <1>2
<1>5. DInv(d)'
  BY <1>1, <1>4 DEF DInv, InWindow
<1>6. Resident(d)' = {}
  BY <1>4 DEF Resident
<1>7. \A e \in Download \ {d} : DState(e)' = DState(e)
  BY <1>1 DEF DState, DownloadTypes
<1> QED
  BY <1>3, <1>5, <1>6, <1>7

-----------------------------------------------------------------------------
(* The pool: a permit is out for a block exactly as long as a transfer     *)
(* owns it.                                                                *)

Transfer == Upload \cup Download
HeldBy(t) == IF t \in Upload THEN Owned(t) ELSE Resident(t)

HeldInv ==
    /\ held \subseteq Transfer \X Nat
    /\ \A t \in Transfer, i \in Nat : <<t, i>> \in held <=> i \in HeldBy(t)

PoolInv == pool \in Nat /\ IsFiniteSet(held) /\ Cardinality(held) <= pool

\* The ways a step of transfer t may move its permits: not at all, one more while
\* one is free, or some given back.
Still(t) == held' = held /\ pool' = pool /\ HeldBy(t)' = HeldBy(t)
Takes(t, i) ==
    /\ Free /\ held' = held \cup {<<t, i>>} /\ pool' = pool
    /\ HeldBy(t)' = HeldBy(t) \cup {i}
Gives(t, s) ==
    /\ held' = held \ ({t} \X s) /\ pool' = pool
    /\ HeldBy(t)' = HeldBy(t) \ s
Moves(t) ==
    /\ Still(t) \/ (\E i \in Nat : Takes(t, i)) \/ (\E s \in SUBSET Nat : Gives(t, s))
    /\ \A x \in Transfer \ {t} : HeldBy(x)' = HeldBy(x)

LEMMA HeldKept ==
    ASSUME HeldInv, NEW t \in Transfer, Moves(t)
    PROVE  HeldInv'
<1>1. ASSUME held' \subseteq Transfer \X Nat,
             \A i \in Nat : <<t, i>> \in held' <=> i \in HeldBy(t)',
             \A x \in Transfer \ {t}, i \in Nat : <<x, i>> \in held' <=> <<x, i>> \in held
      PROVE  HeldInv'
  BY <1>1 DEF HeldInv, Moves
<1>2. CASE Still(t)
  BY <1>1, <1>2 DEF Still, HeldInv
<1>3. ASSUME NEW i \in Nat, Takes(t, i) PROVE HeldInv'
  <2>1. held' \subseteq Transfer \X Nat
    BY <1>3 DEF Takes, HeldInv
  <2>2. \A j \in Nat : <<t, j>> \in held' <=> j \in HeldBy(t)'
    BY <1>3 DEF Takes, HeldInv
  <2>3. \A x \in Transfer \ {t}, j \in Nat : <<x, j>> \in held' <=> <<x, j>> \in held
    BY <1>3 DEF Takes
  <2> QED
    BY <1>1, <2>1, <2>2, <2>3
<1>4. ASSUME NEW s \in SUBSET Nat, Gives(t, s) PROVE HeldInv'
  <2>1. held' \subseteq Transfer \X Nat
    BY <1>4 DEF Gives, HeldInv
  <2>2. \A j \in Nat : <<t, j>> \in held' <=> j \in HeldBy(t)'
    BY <1>4 DEF Gives, HeldInv
  <2>3. \A x \in Transfer \ {t}, j \in Nat : <<x, j>> \in held' <=> <<x, j>> \in held
    BY <1>4 DEF Gives
  <2> QED
    BY <1>1, <2>1, <2>2, <2>3
<1> QED
  BY <1>2, <1>3, <1>4 DEF Moves

LEMMA PoolKept ==
    ASSUME PoolInv, NEW t, Moves(t)
    PROVE  PoolInv'
<1>1. CASE Still(t)
  BY <1>1 DEF Still, PoolInv
<1>2. ASSUME NEW i \in Nat, Takes(t, i) PROVE PoolInv'
  <2>1. PICK n \in Nat : n = Cardinality(held)
    BY FS_CardinalityType DEF PoolInv
  <2>2. /\ IsFiniteSet(held \cup {<<t, i>>})
        /\ Cardinality(held \cup {<<t, i>>}) = n \/ Cardinality(held \cup {<<t, i>>}) = n + 1
    BY <2>1, FS_AddElement DEF PoolInv
  <2>3. n < pool
    BY <1>2, <2>1 DEF Takes, Free
  <2> QED
    BY <1>2, <2>2, <2>3 DEF Takes, PoolInv
<1>3. ASSUME NEW s, Gives(t, s) PROVE PoolInv'
  <2>1. PICK n \in Nat : n = Cardinality(held)
    BY FS_CardinalityType DEF PoolInv
  <2>2. PICK rest : rest = held \ ({t} \X s)
    OBVIOUS
  <2>3. rest \in SUBSET held
    BY <2>2
  <2>4. IsFiniteSet(rest) /\ Cardinality(rest) <= n
    BY <2>1, <2>3, FS_Subset DEF PoolInv
  <2>5. Cardinality(rest) \in Nat
    BY <2>4, FS_CardinalityType
  <2> QED
    BY <1>3, <2>1, <2>2, <2>4, <2>5 DEF Gives, PoolInv
<1> QED
  BY <1>1, <1>2, <1>3 DEF Moves

TransferInv ==
    /\ UploadTypes /\ DownloadTypes
    /\ \A u \in Upload : UInv(u)
    /\ \A d \in Download : DInv(d)
    /\ HeldInv /\ PoolInv

\* What a step of one upload and of one download has to do.
UploadMoves(u) ==
    /\ UploadTypes' /\ UInv(u)'
    /\ \A v \in Upload \ {u} : UState(v)' = UState(v)
    /\ Still(u) \/ (\E i \in Nat : Takes(u, i)) \/ (\E s \in SUBSET Nat : Gives(u, s))
DownloadMoves(d) ==
    /\ DownloadTypes' /\ DInv(d)'
    /\ \A e \in Download \ {d} : DState(e)' = DState(e)
    /\ Still(d) \/ (\E i \in Nat : Takes(d, i)) \/ (\E s \in SUBSET Nat : Gives(d, s))

LEMMA UploadMovesKeep ==
    ASSUME TransferInv, NEW u \in Upload, UploadMoves(u), UNCHANGED downloadVars
    PROVE  TransferInv'
<1>1. \A v \in Upload \ {u} : UInv(v)' /\ Owned(v)' = Owned(v)
  BY UStateKept DEF TransferInv, UploadMoves
<1>2. \A d \in Download : DInv(d)' /\ Resident(d)' = Resident(d)
  <2>1. \A d \in Download : DState(d)' = DState(d)
    BY DEF DState, downloadVars
  <2> QED
    BY <2>1, DStateKept DEF TransferInv
<1>3. DownloadTypes'
  BY DEF TransferInv, DownloadTypes, downloadVars
<1>4. \A x \in Transfer \ {u} : HeldBy(x)' = HeldBy(x)
  BY <1>1, <1>2 DEF Transfer, HeldBy
<1>5. Moves(u) /\ u \in Transfer
  BY <1>4 DEF Moves, UploadMoves, Transfer
<1>6. HeldInv' /\ PoolInv'
  BY <1>5, HeldKept, PoolKept DEF TransferInv
<1> QED
  BY <1>1, <1>2, <1>3, <1>6 DEF TransferInv, UploadMoves

LEMMA DownloadMovesKeep ==
    ASSUME TransferInv, NEW d \in Download, DownloadMoves(d), UNCHANGED uploadVars
    PROVE  TransferInv'
<1>1. \A e \in Download \ {d} : DInv(e)' /\ Resident(e)' = Resident(e)
  BY DStateKept DEF TransferInv, DownloadMoves
<1>2. \A u \in Upload : UInv(u)' /\ Owned(u)' = Owned(u)
  <2>1. \A u \in Upload : UState(u)' = UState(u)
    BY DEF UState, uploadVars
  <2> QED
    BY <2>1, UStateKept DEF TransferInv
<1>3. UploadTypes'
  BY DEF TransferInv, UploadTypes, uploadVars
<1>4. \A x \in Transfer \ {d} : HeldBy(x)' = HeldBy(x)
  BY <1>1, <1>2 DEF Transfer, HeldBy
<1>5. Moves(d) /\ d \in Transfer
  BY <1>4 DEF Moves, DownloadMoves, Transfer
<1>6. HeldInv' /\ PoolInv'
  BY <1>5, HeldKept, PoolKept DEF TransferInv
<1> QED
  BY <1>1, <1>2, <1>3, <1>6 DEF TransferInv, DownloadMoves

\* An upload owns blocks that it has read.
LEMMA OwnedWasRead ==
    ASSUME UploadTypes, NEW u \in Upload, UInv(u)
    PROVE  Owned(u) \subseteq 1 .. read[u]
<1>1. CASE upl[u] = "failed"
  BY <1>1 DEF UInv, LineInv, Owned, Elems
<1>2. CASE upl[u] # "failed"
  <2>1. PICK k \in Nat : Line(k, read[u], window[u], outbox[u], chan[u], batch[u], stored[u])
    BY <1>2 DEF UInv, LineInv
  <2>2. Accounted(k, read[u], window[u], outbox[u], chan[u], batch[u], stored[u])
    BY <2>1, ValueTypes, LineOwned
  <2> QED
    BY <2>2, OwnedIsOwnedOf DEF Accounted
<1> QED
  BY <1>1, <1>2

LEMMA UploadStepMoves ==
    ASSUME TransferInv, NEW u \in Upload, EncryptorStep(u) \/ UploaderStep(u) \/ Abandon(u)
    PROVE  UploadMoves(u)
<1> USE DEF HeldBy
<1>0. UploadTypes /\ UInv(u) /\ read[u] \in Nat /\ Owned(u) \subseteq 1 .. read[u]
  BY ValueTypes, OwnedWasRead DEF TransferInv
<1>1. CASE AwaitPermit(u) \/ StopFilling(u) \/ Prepared(u)
  <2>1. held' = held /\ pool' = pool
    BY <1>1 DEF AwaitPermit, StopFilling, Prepared, AskPermit, slots
  <2> QED
    BY <1>0, <1>1, <2>1, IdleSteps DEF UploadMoves, Still
<1>2. CASE ReadBlock(u) /\ read[u] + 1 <= size[u]
  <2>1. PICK i \in Nat : i = read[u] + 1
    BY <1>0
  <2>2. Free /\ held' = held \cup {<<u, i>>} /\ pool' = pool
    BY <1>2, <2>1 DEF ReadBlock, Grant, TryAcquire, Grantable, Tryable
  <2>3. UploadTypes' /\ UInv(u)' /\ Owned(u)' = Owned(u) \cup {i}
        /\ \A v \in Upload \ {u} : UState(v)' = UState(v)
    BY <1>0, <1>2, <2>1, ReadStep
  <2>4. Takes(u, i)
    BY <2>2, <2>3 DEF Takes
  <2> QED
    BY <2>3, <2>4 DEF UploadMoves
<1>3. CASE ReadBlock(u) /\ ~(read[u] + 1 <= size[u])
  <2>1. PICK i \in Nat : i = read[u] + 1
    BY <1>0
  <2>2. held' = held \ {<<u, i>>} /\ pool' = pool
    BY <1>3, <2>1 DEF ReadBlock, Release
  <2>3. UploadTypes' /\ UInv(u)' /\ Owned(u)' = Owned(u)
        /\ \A v \in Upload \ {u} : UState(v)' = UState(v)
    BY <1>0, <1>3, DrainedStep
  <2>4. i \notin 1 .. read[u]
    BY <1>0, <2>1
  <2>5. Gives(u, {i}) /\ {i} \in SUBSET Nat
    BY <1>0, <2>2, <2>3, <2>4 DEF Gives
  <2> QED
    BY <2>3, <2>5 DEF UploadMoves
<1>4. CASE NextEncrypted(u) \/ SendBlock(u) \/ Receive(u) \/ ChannelClosed(u) \/ Join(u)
  <2>1. held' = held /\ pool' = pool
    BY <1>4 DEF NextEncrypted, SendBlock, Receive, ChannelClosed, Join, slots
  <2>2. UploadTypes' /\ UInv(u)' /\ Owned(u)' = Owned(u)
        /\ \A v \in Upload \ {u} : UState(v)' = UState(v)
    BY <1>0, <1>4, NextStep, SendStep, ReceiveStep, JoinStep
  <2> QED
    BY <2>1, <2>2 DEF UploadMoves, Still
<1>5. ASSUME NEW i \in 0 .. MaxBlocks, StoreJob(u, i) PROVE UploadMoves(u)
  <2>1. held' = held \ {<<u, i>>} /\ pool' = pool
    BY <1>5 DEF StoreJob, Release
  <2>2. UploadTypes' /\ UInv(u)' /\ Owned(u)' = Owned(u) \ {i} /\ i \in Nat
        /\ \A v \in Upload \ {u} : UState(v)' = UState(v)
    BY <1>0, <1>5, StoreStep
  <2>3. Gives(u, {i}) /\ {i} \in SUBSET Nat
    BY <2>1, <2>2 DEF Gives
  <2> QED
    BY <2>2, <2>3 DEF UploadMoves
<1>6. CASE Abandon(u)
  <2>1. PICK s : s = Owned(u) \cup {read[u] + 1}
    OBVIOUS
  <2>2. s \in SUBSET Nat
    BY <1>0, <2>1
  <2>3. held' = held \ ({u} \X s) /\ pool' = pool
    BY <1>6, <2>1 DEF Abandon, Release, Named
  <2>4. UploadTypes' /\ UInv(u)' /\ Owned(u)' = {}
        /\ \A v \in Upload \ {u} : UState(v)' = UState(v)
    BY <1>0, <1>6, AbandonStep
  <2>5. Gives(u, s)
    BY <2>1, <2>3, <2>4 DEF Gives
  <2> QED
    BY <2>2, <2>4, <2>5 DEF UploadMoves
<1> QED
  BY <1>1, <1>2, <1>3, <1>4, <1>5, <1>6 DEF EncryptorStep, UploaderStep

LEMMA DownloadStepMoves ==
    ASSUME TransferInv, NEW d \in Download,
           \/ StartFetch(d) \/ Write(d) \/ Quit(d)
           \/ \E i \in Target : FetchStep(d, i)
    PROVE  DownloadMoves(d)
<1>0. DownloadTypes /\ DInv(d) /\ HeldBy(d) = Resident(d) /\ HeldBy(d)' = Resident(d)'
  BY TransferAssumption DEF TransferInv, HeldBy
<1>1. CASE StartFetch(d)
  <2>1. held' = held /\ pool' = pool
    BY <1>1 DEF StartFetch, AskPermit
  <2> QED
    BY <1>0, <1>1, <2>1, StartStep DEF DownloadMoves, Still
<1>2. CASE Write(d)
  <2>1. PICK i \in Nat : i = Len(written[d]) + 1
    BY <1>0, DTypes
  <2>2. held' = held \ {<<d, i>>} /\ pool' = pool
    BY <1>2, <2>1 DEF Write, Release
  <2>3. DownloadTypes' /\ DInv(d)' /\ Resident(d)' = Resident(d) \ {i}
        /\ \A e \in Download \ {d} : DState(e)' = DState(e)
    BY <1>0, <1>2, <2>1, WriteStep
  <2>4. Gives(d, {i}) /\ {i} \in SUBSET Nat
    BY <1>0, <2>2, <2>3 DEF Gives
  <2> QED
    BY <2>3, <2>4 DEF DownloadMoves
<1>3. CASE Quit(d)
  <2>1. held' = held \ ({d} \X Target) /\ pool' = pool
    BY <1>3 DEF Quit, Release
  <2>2. DownloadTypes' /\ DInv(d)' /\ Resident(d)' = {}
        /\ \A e \in Download \ {d} : DState(e)' = DState(e)
    BY <1>0, <1>3, QuitStep
  <2>3. Target \in SUBSET Nat /\ Resident(d) \subseteq Target
    BY DEF Target, Resident
  <2>4. Gives(d, Target)
    BY <1>0, <2>1, <2>2, <2>3 DEF Gives
  <2> QED
    BY <2>2, <2>3, <2>4 DEF DownloadMoves
<1>4. ASSUME NEW i \in Target, FetchStep(d, i) PROVE DownloadMoves(d)
  <2>0. i \in Nat
    BY DEF Target
  <2>1. /\ DownloadTypes' /\ DInv(d)'
        /\ Permitted(d, i) => Resident(d)' = Resident(d) \cup {i}
        /\ Fetched(d, i) => Resident(d)' = Resident(d)
        /\ \A e \in Download \ {d} : DState(e)' = DState(e)
    BY <1>0, <1>4, AdvanceStep
  <2>2. CASE Permitted(d, i)
    <3>1. Free /\ held' = held \cup {<<d, i>>} /\ pool' = pool
      BY <2>2 DEF Permitted, Grant, Grantable
    <3>2. Takes(d, i)
      BY <1>0, <2>1, <2>2, <3>1 DEF Takes
    <3> QED
      BY <2>0, <2>1, <3>2 DEF DownloadMoves
  <2>3. CASE Fetched(d, i)
    <3>1. held' = held /\ pool' = pool
      BY <2>3 DEF Fetched, slots
    <3>2. Still(d)
      BY <1>0, <2>1, <2>3, <3>1 DEF Still
    <3> QED
      BY <2>1, <3>2 DEF DownloadMoves
  <2> QED
    BY <1>4, <2>2, <2>3 DEF FetchStep
<1> QED
  BY <1>1, <1>2, <1>3, <1>4

\* Encrypt and decrypt tasks end, a download ends well: nothing the invariant reads moves.
LEMMA NothingMoves ==
    ASSUME TransferInv, UNCHANGED <<pool, held>>,
           UNCHANGED <<size, enc, upl, read, drained, window, outbox, chan, thumbs, batch, stored>>,
           UNCHANGED <<count, started, written, fetch>>
    PROVE  TransferInv'
<1>1. \A u \in Upload : UInv(u)' /\ Owned(u)' = Owned(u)
  <2>1. \A u \in Upload : UState(u)' = UState(u)
    BY DEF UState
  <2> QED
    BY <2>1, UStateKept DEF TransferInv
<1>2. \A d \in Download : DInv(d)' /\ Resident(d)' = Resident(d)
  <2>1. \A d \in Download : DState(d)' = DState(d)
    BY DEF DState
  <2> QED
    BY <2>1, DStateKept DEF TransferInv
<1>3. UploadTypes' /\ DownloadTypes'
  BY DEF TransferInv, UploadTypes, DownloadTypes
<1>4. \A x \in Transfer : HeldBy(x)' = HeldBy(x)
  BY <1>1, <1>2 DEF Transfer, HeldBy
<1>5. HeldInv' /\ PoolInv'
  BY <1>4 DEF TransferInv, HeldInv, PoolInv
<1> QED
  BY <1>1, <1>2, <1>3, <1>5 DEF TransferInv

LEMMA TransferInit == TransfersInit => TransferInv
<1> SUFFICES ASSUME TransfersInit PROVE TransferInv
  OBVIOUS
<1> USE DEF TransfersInit, SlotsInit, UploadInit, DownloadInit
<1>1. drained \in [Upload -> BOOLEAN] /\ thumbs \in [Upload -> BOOLEAN]
  OBVIOUS
<1>2. UploadTypes
  BY <1>1, WidthAssumption DEF UploadTypes, EncStates, UplStates
<1>3. DownloadTypes
  BY DownloadsAssumption DEF DownloadTypes, FetchStates
<1>4. ASSUME NEW u \in Upload PROVE UInv(u) /\ Owned(u) = {}
  <2>1. /\ enc[u] = "fill" /\ upl[u] = "recv" /\ read[u] = 0 /\ outbox[u] = 0
        /\ window[u] = <<>> /\ chan[u] = <<>> /\ batch[u] = {} /\ stored[u] = {}
    OBVIOUS
  <2>2. ~drained[u]
    OBVIOUS
  <2>3. Line(0, 0, <<>>, 0, <<>>, {}, {})
    BY DEF Line, Out, Consecutive
  <2>4. LineInv(u)
    BY <2>1, <2>3 DEF LineInv
  <2>5. EncInv(u) /\ UplInv(u)
    BY <1>2, <2>1, <2>2, ValueTypes DEF EncInv, UplInv
  <2>6. Owned(u) = {}
    BY <2>1 DEF Owned, Elems
  <2> QED
    BY <2>4, <2>5, <2>6 DEF UInv
<1>5. ASSUME NEW d \in Download PROVE DInv(d) /\ Resident(d) = {}
  <2>1. /\ started[d] = 0 /\ written[d] = <<>> /\ count[d] \in Nat /\ count[d] <= MaxTargets
        /\ \A i \in Target : fetch[d][i] = "none"
    BY DownloadsAssumption
  <2> QED
    BY <2>1, DownloadsAssumption DEF DInv, Resident, InWindow
<1>6. HeldInv
  BY <1>4, <1>5 DEF HeldInv, HeldBy, Transfer
<1>7. PoolInv
  <2>1. IsFiniteSet({}) /\ Cardinality({}) = 0
    BY FS_EmptySet
  <2> QED
    BY <2>1, PoolAssumption DEF PoolInv
<1> QED
  BY <1>2, <1>3, <1>4, <1>5, <1>6, <1>7 DEF TransferInv

LEMMA TransferStep == TransferInv /\ [TransfersNext]_transferVars => TransferInv'
<1> SUFFICES ASSUME TransferInv, [TransfersNext]_transferVars PROVE TransferInv'
  OBVIOUS
<1>1. CASE UploadNext /\ UNCHANGED downloadVars
  <2>1. CASE \E u \in Upload : EncryptorStep(u) \/ UploaderStep(u) \/ Abandon(u)
    BY <1>1, <2>1, UploadStepMoves, UploadMovesKeep
  <2>2. CASE \E u \in Upload, i \in 1 .. MaxBlocks : Encrypted(u, i)
    BY <1>1, <2>2, NothingMoves DEF Encrypted, slots, downloadVars
  <2>3. CASE \E b \in loose : LooseEnds(b)
    BY <1>1, <2>3, NothingMoves DEF LooseEnds, slots, pipe, downloadVars
  <2> QED
    BY <1>1, <2>1, <2>2, <2>3 DEF UploadNext
<1>2. CASE DownloadNext /\ UNCHANGED uploadVars
  <2>1. ASSUME NEW d \in Download, StartFetch(d) \/ Write(d) \/ Quit(d) PROVE TransferInv'
    BY <1>2, <2>1, DownloadStepMoves, DownloadMovesKeep
  <2>2. ASSUME NEW d \in Download, NEW i \in Target, FetchStep(d, i) PROVE TransferInv'
    BY <1>2, <2>2, DownloadStepMoves, DownloadMovesKeep
  <2>3. ASSUME NEW d \in Download, Finish(d) PROVE TransferInv'
    BY <1>2, <2>3, NothingMoves DEF Finish, slots, uploadVars
  <2>4. ASSUME NEW b, DetachedEnds(b) PROVE TransferInv'
    BY <1>2, <2>4, NothingMoves DEF DetachedEnds, slots, uploadVars
  <2> QED
    BY <1>2, <2>1, <2>2, <2>3, <2>4 DEF DownloadNext, DownloadStep
<1>3. CASE UNCHANGED transferVars
  BY <1>3, NothingMoves DEF transferVars, slots, uploadVars, downloadVars
<1> QED
  BY <1>1, <1>2, <1>3 DEF TransfersNext

LEMMA TransferInvariant == TransfersSpec => []TransferInv
BY TransferInit, TransferStep, PTL DEF TransfersSpec

LEMMA InvAccounts == TransferInv => BlocksAccounted
<1> SUFFICES ASSUME TransferInv PROVE BlocksAccounted
  OBVIOUS
<1>1. PermitsMatchBlocks
  <2>1. ASSUME NEW p PROVE p \in held <=> \/ \E u \in Upload : p \in Named(u, Owned(u))
                                          \/ \E d \in Download : p \in {d} \X Resident(d)
    <3>1. ASSUME NEW u \in Upload, NEW i
          PROVE  <<u, i>> \in held <=> i \in Owned(u)
      <4>1. \A j \in Owned(u) : j \in Nat
        BY OwnedWasRead, ValueTypes DEF TransferInv
      <4> QED
        BY <4>1 DEF TransferInv, HeldInv, HeldBy, Transfer
    <3>2. ASSUME NEW d \in Download, NEW i
          PROVE  <<d, i>> \in held <=> i \in Resident(d)
      <4>1. \A j \in Resident(d) : j \in Nat
        BY DEF Resident, Target
      <4>2. d \notin Upload
        BY TransferAssumption
      <4> QED
        BY <4>1, <4>2 DEF TransferInv, HeldInv, HeldBy, Transfer
    <3>3. p \in held => \E t \in Transfer, i \in Nat : p = <<t, i>>
      BY DEF TransferInv, HeldInv
    <3> QED
      BY <3>1, <3>2, <3>3 DEF Named, Transfer
  <2>2. held = UNION ({Named(u, Owned(u)) : u \in Upload}
                      \cup {{d} \X Resident(d) : d \in Download})
    BY <2>1, Zenon
  <2> QED
    BY <2>2 DEF PermitsMatchBlocks, TransferInv, PoolInv
<1>2. NothingLost
  <2> SUFFICES ASSUME NEW u \in Upload
               PROVE  /\ upl[u] # "failed" =>
                            /\ Owned(u) \cup (stored[u] \ {0}) = 1 .. read[u]
                            /\ Owned(u) \cap stored[u] = {}
                      /\ upl[u] = "ok" => read[u] = size[u] /\ ~thumbs[u]
                      /\ upl[u] # "mismatch"
    BY DEF NothingLost
  <2>0. UploadTypes /\ UInv(u)
    BY DEF TransferInv
  <2>1. ASSUME upl[u] # "failed"
        PROVE  Owned(u) \cup (stored[u] \ {0}) = 1 .. read[u] /\ Owned(u) \cap stored[u] = {}
    <3>1. PICK k \in Nat : Line(k, read[u], window[u], outbox[u], chan[u], batch[u], stored[u])
      BY <2>0, <2>1 DEF UInv, LineInv
    <3>2. Accounted(k, read[u], window[u], outbox[u], chan[u], batch[u], stored[u])
      BY <2>0, <3>1, ValueTypes, LineOwned
    <3> QED
      BY <3>2, OwnedIsOwnedOf DEF Accounted
  <2>2. upl[u] = "ok" => read[u] = size[u] /\ ~thumbs[u]
    BY <2>0 DEF UInv, UplInv, EncInv
  <2>3. upl[u] # "mismatch"
    BY <2>0, ValueTypes DEF UplStates
  <2> QED
    BY <2>1, <2>2, <2>3
<1> QED
  BY <1>1, <1>2 DEF BlocksAccounted

LEMMA InvInOrder == TransferInv => WrittenInOrder
<1> SUFFICES ASSUME TransferInv, NEW d \in Download
             PROVE  /\ \A x \in DOMAIN written[d] : written[d][x] = x
                    /\ Cardinality(Resident(d)) <= MaxDownloads
  BY DEF WrittenInOrder
<1>1. DInv(d) /\ DownloadTypes
  BY DEF TransferInv
<1>2. PICK w \in Seq(Nat) : w = written[d]
  BY <1>1, DTypes
<1>3. PICK n \in Nat, m \in Nat : n = Len(w) /\ m = started[d]
  BY <1>1, <1>2, DTypes
<1>4. \A x \in DOMAIN w : w[x] = x
  BY <1>1, <1>2 DEF DInv
<1>5. Resident(d) \subseteq (n + 1) .. m
  BY <1>1, <1>2, <1>3 DEF Resident, DInv, InWindow, Target
<1>6. n <= m /\ m - n <= MaxDownloads
  BY <1>1, <1>2, <1>3 DEF DInv
<1>7. IsFiniteSet((n + 1) .. m) /\ Cardinality((n + 1) .. m) = m - n
  <2>1. PICK a \in Int : a = n + 1
    OBVIOUS
  <2>2. IsFiniteSet(a .. m) /\ Cardinality(a .. m) = IF a > m THEN 0 ELSE m - a + 1
    BY FS_Interval
  <2> QED
    BY <1>6, <2>1, <2>2
<1>8. IsFiniteSet(Resident(d)) /\ Cardinality(Resident(d)) <= Cardinality((n + 1) .. m)
  BY <1>5, <1>7, FS_Subset
<1>9. Cardinality(Resident(d)) \in Nat
  BY <1>8, FS_CardinalityType
<1> QED
  BY <1>2, <1>4, <1>6, <1>7, <1>8, <1>9, DownloadsAssumption

\* write_blocks and the permits of block_slots: whatever the uploads and downloads of a
\* client do, and however they end, a permit is out for a block exactly as long as a
\* transfer owns the block, never more than the pool has; and no block that an upload
\* read is lost or handled twice, so that the counts an upload compares at its end
\* always agree.
THEOREM BlocksAlwaysAccounted == TransfersSpec => []BlocksAccounted
BY TransferInvariant, InvAccounts, PTL

\* write_content_blocks: blocks are written in the order of their indexes, and never
\* more are resident than the window is wide.
THEOREM BlocksWrittenInOrder == TransfersSpec => []WrittenInOrder
BY TransferInvariant, InvInOrder, PTL
=============================================================================
