------------------------- MODULE PairwiseCombinations -------------------------
(***************************************************************************)
(* pairwise_combinations: the pairs of positions of a call, as the         *)
(* permutations of a bitset in which two positions are true. A bitset of n *)
(* positions is the set of those that are true, out of 0 .. (n - 1).       *)
(***************************************************************************)
EXTENDS Integers

Largest(S) == CHOOSE x \in S : \A y \in S : y <= x
Smallest(S) == CHOOSE x \in S : \A y \in S : x <= y

\* The positions of bitset S that are true with the next one false.
Descents(S, n) == {k \in S : k + 1 < n /\ k + 1 \notin S}

\* prev_permutation returns true: S is not the last permutation.
HasPrevious(S, n) == Descents(S, n) # {}

\* std::prev_permutation: exchange the last descent with the last false
\* position after it, and reverse what follows the descent.
prev_permutation(S, n) ==
    LET k == Largest(Descents(S, n))
        l == Largest({x \in (k + 1) .. (n - 1) : x \notin S})
        T == (S \ {k}) \cup {l}
    IN  {x \in T : x <= k} \cup {n + k - x : x \in {y \in T : k < y}}

FirstBits == {0, 1}

\* The pair of positions read off a bitset, lowest first.
PairOf(S) == <<Smallest(S), Largest(S)>>

-----------------------------------------------------------------------------
(* The order of the pairs, and of reports about them *)

Before(p, q) == p[1] < q[1] \/ (p[1] = q[1] /\ p[2] < q[2])
Args(r) == <<r.arg1, r.arg2>>

InOrder(rs) ==
    \A k, l \in DOMAIN rs : k < l => Before(Args(rs[k]), Args(rs[l]))
=============================================================================
