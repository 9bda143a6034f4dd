----------------------------- MODULE Selections -----------------------------
(***************************************************************************)
(* Taking sequences apart: what the code does with sorts, filters and      *)
(* iterators, said by what comes out.                                      *)
(***************************************************************************)
EXTENDS Integers, Sequences, FiniteSets

\* Some numbers in ascending order.
Ascending(ids) ==
    LET k == Cardinality(ids) IN
    CHOOSE s \in [1 .. k -> ids] :
        /\ \A a, b \in 1 .. k : a < b => s[a] < s[b]
        /\ \A id \in ids : \E a \in 1 .. k : s[a] = id

\* The members of s at the positions ids, in the order they have in s.
Picked(s, ids) ==
    LET order == Ascending(ids) IN [a \in 1 .. Cardinality(ids) |-> s[order[a]]]

\* The sequences that list a set, each member once.
Orderings(S) ==
    {s \in [1 .. Cardinality(S) -> S] :
        /\ \A a, b \in DOMAIN s : s[a] = s[b] => a = b
        /\ \A x \in S : \E a \in DOMAIN s : s[a] = x}

LastOf(s) == s[Len(s)]
Members(s) == {s[i] : i \in 1 .. Len(s)}
Repeats(s) == \E i, j \in 1 .. Len(s) : i # j /\ s[i] = s[j]
CountOf(s, p) == Cardinality({i \in 1 .. Len(s) : s[i] = p})
=============================================================================
