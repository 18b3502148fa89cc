------------------------- MODULE CheckerClientProofs -------------------------
(***************************************************************************)
(* What every client of the checker relies on: the pairs of positions and  *)
(* their order, and the vector of reports as a function of the call.       *)
(***************************************************************************)
EXTENDS CheckerClient, FiniteSetTheorems, FunctionTheorems, TLAPS

\* A set of natural numbers has a smallest member.
LEMMA SmallestExists ==
    ASSUME NEW S \in SUBSET Nat, S # {}
    PROVE  /\ Smallest(S) \in S
           /\ \A y \in S : Smallest(S) <= y
<1> DEFINE below == {1 .. n : n \in S}
<1>1. below \subseteq FiniteSubsetsOf(Nat)
  BY FS_Interval DEF FiniteSubsetsOf
<1>2. below # {}
  OBVIOUS
<1>3. PICK b \in below : \A c \in below : <<c, b>> \notin StrictSubsetOrdering(Nat)
  <2> HIDE DEF below
  <2> QED
    BY <1>1, <1>2, WFMin, FS_StrictSubsetOrderingWellFounded, Zenon
<1>4. PICK x \in S : b = 1 .. x
  OBVIOUS
<1>5. ASSUME NEW y \in S, y < x PROVE FALSE
  <2>1. 1 .. y \in below
    OBVIOUS
  <2>2. 1 .. y \subseteq 1 .. x /\ x \in 1 .. x /\ x \notin 1 .. y
    BY <1>5
  <2>3. 1 .. x \subseteq Nat /\ 1 .. y \subseteq Nat
    OBVIOUS
  <2>4. <<1 .. y, 1 .. x>> \in StrictSubsetOrdering(Nat)
    BY <2>2, <2>3, Zenon DEF StrictSubsetOrdering
  <2> QED
    BY <1>3, <1>4, <2>1, <2>4, Zenon
<1>6. \A y \in S : x <= y
  BY <1>5
<1> QED
  BY <1>6 DEF Smallest

-----------------------------------------------------------------------------
(* The pairs: permuting the bitset downwards goes through the pairs of     *)
(* positions in lexicographic order, and ends at the last of them.         *)

\* An upper bound that is a member is the largest member.
LEMMA LargestIs ==
    ASSUME NEW S \in SUBSET Int, NEW x \in S, \A y \in S : y <= x
    PROVE  Largest(S) = x
<1>1. \E z \in S : \A y \in S : y <= z
  OBVIOUS
<1>2. Largest(S) \in S /\ \A y \in S : y <= Largest(S)
  BY <1>1 DEF Largest
<1>3. x <= Largest(S) /\ Largest(S) <= x
  BY <1>2
<1>4. x \in Int /\ Largest(S) \in Int
  BY <1>2
<1> QED
  BY <1>3, <1>4

\* A lower bound that is a member is the smallest member.
LEMMA SmallestIs ==
    ASSUME NEW S \in SUBSET Int, NEW x \in S, \A y \in S : x <= y
    PROVE  Smallest(S) = x
<1>1. \E z \in S : \A y \in S : z <= y
  OBVIOUS
<1>2. Smallest(S) \in S /\ \A y \in S : Smallest(S) <= y
  BY <1>1 DEF Smallest
<1>3. Smallest(S) <= x /\ x <= Smallest(S)
  BY <1>2
<1>4. x \in Int /\ Smallest(S) \in Int
  BY <1>2
<1> QED
  BY <1>3, <1>4

\* A bitset of two positions is read off lowest first.
LEMMA PairOfTwo ==
    ASSUME NEW a \in Int, NEW b \in Int, a < b
    PROVE  PairOf({a, b}) = <<a, b>>
<1>1. Smallest({a, b}) = a
  BY SmallestIs
<1>2. Largest({a, b}) = b
  BY LargestIs
<1> QED
  BY <1>1, <1>2 DEF PairOf

\* The bitset of the pair (a, b) is the last one exactly when both positions
\* are at the end.
LEMMA LastPermutation ==
    ASSUME NEW n \in Int, NEW a \in Int, NEW b \in Int, a < b, b < n
    PROVE  HasPrevious({a, b}, n) <=> (b + 1 < n \/ a + 1 < b)
<1>1. b + 1 < n => b \in Descents({a, b}, n)
  BY DEF Descents
<1>2. a + 1 < b => a \in Descents({a, b}, n)
  BY DEF Descents
<1>3. b + 1 >= n /\ a + 1 >= b => Descents({a, b}, n) = {}
  BY DEF Descents
<1> QED
  BY <1>1, <1>2, <1>3 DEF HasPrevious

\* The second position goes up while it can; then the first does, with the
\* second next to it.
THEOREM NextPermutation ==
    ASSUME NEW n \in Int, NEW a \in Int, NEW b \in Int, a < b, b < n,
           HasPrevious({a, b}, n)
    PROVE  PairOf(prev_permutation({a, b}, n)) =
               IF b + 1 < n THEN <<a, b + 1>> ELSE <<a + 1, a + 2>>
<1> DEFINE S == {a, b}
           k == Largest(Descents(S, n))
           F == {x \in (k + 1) .. (n - 1) : x \notin S}
           l == Largest(F)
           T == (S \ {k}) \cup {l}
           after == {y \in T : k < y}
<1>1. prev_permutation(S, n) = {x \in T : x <= k} \cup {n + k - x : x \in after}
  BY DEF prev_permutation
<1>2. CASE b + 1 < n
  <2>1. k = b
    <3>1. /\ Descents(S, n) \in SUBSET Int /\ b \in Descents(S, n)
          /\ \A y \in Descents(S, n) : y <= b
      BY <1>2 DEF Descents
    <3> QED
      BY <3>1, LargestIs
  <2>2. l = n - 1
    <3>1. F \in SUBSET Int /\ n - 1 \in F /\ \A y \in F : y <= n - 1
      BY <1>2, <2>1
    <3> HIDE DEF F
    <3> QED
      BY <3>1, LargestIs
  <2>3. T = {a, n - 1}
    <3> HIDE DEF k, l
    <3> QED
      BY <2>1, <2>2
  <2>4. {x \in T : x <= k} = {a} /\ after = {n - 1}
    <3> HIDE DEF k, T
    <3> QED
      BY <1>2, <2>1, <2>3
  <2>5. {n + k - x : x \in after} = {b + 1}
    <3> HIDE DEF k, after
    <3> QED
      BY <2>1, <2>4
  <2>6. prev_permutation(S, n) = {a, b + 1}
    <3> HIDE DEF k, T, after
    <3> QED
      BY <1>1, <2>4, <2>5
  <2>7. PairOf({a, b + 1}) = <<a, b + 1>>
    BY PairOfTwo
  <2> QED
    BY <1>2, <2>6, <2>7
<1>3. CASE ~(b + 1 < n)
  <2>1. b = n - 1 /\ a + 1 < b
    BY <1>3, LastPermutation
  <2>2. k = a
    <3>1. /\ Descents(S, n) \in SUBSET Int /\ a \in Descents(S, n)
          /\ \A y \in Descents(S, n) : y <= a
      BY <2>1 DEF Descents
    <3> QED
      BY <3>1, LargestIs
  <2>3. l = n - 2
    <3>1. F \in SUBSET Int /\ n - 2 \in F /\ \A y \in F : y <= n - 2
      BY <2>1, <2>2
    <3> HIDE DEF F
    <3> QED
      BY <3>1, LargestIs
  <2>4. T = {n - 2, n - 1}
    <3> HIDE DEF k, l
    <3> QED
      BY <2>1, <2>2, <2>3
  <2>5. {x \in T : x <= k} = {} /\ after = {n - 2, n - 1}
    <3> HIDE DEF k, T
    <3> QED
      BY <2>1, <2>2, <2>4
  <2>6. {n + k - x : x \in after} = {a + 1, a + 2}
    <3>1. n + a - (n - 2) = a + 2 /\ n + a - (n - 1) = a + 1
      OBVIOUS
    <3> HIDE DEF k, after
    <3>2. {n + k - x : x \in after} = {n + a - (n - 2), n + a - (n - 1)}
      BY <2>2, <2>5, Zenon
    <3> QED
      BY <3>1, <3>2
  <2>7. prev_permutation(S, n) = {a + 1, a + 2}
    <3> HIDE DEF k, T, after
    <3> QED
      BY <1>1, <2>5, <2>6
  <2>8. PairOf({a + 1, a + 2}) = <<a + 1, a + 2>>
    BY PairOfTwo
  <2> QED
    BY <1>3, <2>7, <2>8
<1> QED
  BY <1>2, <1>3

-----------------------------------------------------------------------------
(* The vector of a set of reports *)

\* Reports about pairs of numbers, no two about the same pair.
ReportSet(D) ==
    /\ IsFiniteSet(D)
    /\ \A r \in D : r.arg1 \in Int /\ r.arg2 \in Int
    /\ \A r, s \in D : Args(r) = Args(s) => r = s

Rank(D, r) == Cardinality(Earlier(D, r))

\* The order of the pairs is strict and total on them.
LEMMA ReportOrder ==
    ASSUME NEW D, ReportSet(D)
    PROVE  /\ \A r \in D : ~Before(Args(r), Args(r))
           /\ \A r, s \in D : r = s \/ Before(Args(r), Args(s)) \/ Before(Args(s), Args(r))
           /\ \A r, s, t \in D :
                 Before(Args(r), Args(s)) /\ Before(Args(s), Args(t)) => Before(Args(r), Args(t))
<1>1. ASSUME NEW r \in D, NEW s \in D
      PROVE  r = s \/ r.arg1 # s.arg1 \/ r.arg2 # s.arg2
  BY DEF ReportSet, Args
<1>2. \A r \in D : r.arg1 \in Int /\ r.arg2 \in Int
  BY DEF ReportSet
<1>3. \A r, s : Before(Args(r), Args(s))
                  <=> (r.arg1 < s.arg1 \/ (r.arg1 = s.arg1 /\ r.arg2 < s.arg2))
  BY DEF Before, Args
<1> QED
  BY <1>1, <1>2, <1>3

\* Each report has a rank of its own, and every number less than theirs is one.
LEMMA Ranks ==
    ASSUME NEW D, ReportSet(D)
    PROVE  /\ Cardinality(D) \in Nat
           /\ \A r \in D : Rank(D, r) \in 0 .. (Cardinality(D) - 1)
           /\ \A r, s \in D : Before(Args(r), Args(s)) => Rank(D, r) < Rank(D, s)
           /\ \A r, s \in D : Rank(D, r) = Rank(D, s) => r = s
           /\ \A k \in 1 .. Cardinality(D) : \E r \in D : Rank(D, r) = k - 1
<1> DEFINE n == Cardinality(D)
           rank == [r \in D |-> Rank(D, r)]
<1>1. IsFiniteSet(D) /\ n \in Nat
  BY FS_CardinalityType DEF ReportSet
<1>2. ASSUME NEW r \in D
      PROVE  /\ Earlier(D, r) \subseteq D /\ IsFiniteSet(Earlier(D, r))
             /\ r \notin Earlier(D, r)
             /\ Rank(D, r) \in Nat
             /\ IsFiniteSet(Earlier(D, r) \cup {r})
             /\ Cardinality(Earlier(D, r) \cup {r}) = Rank(D, r) + 1
  <2>1. Earlier(D, r) \subseteq D
    BY DEF Earlier
  <2>2. IsFiniteSet(Earlier(D, r))
    BY <1>1, <2>1, FS_Subset
  <2>3. r \notin Earlier(D, r)
    BY ReportOrder DEF Earlier
  <2> QED
    BY <2>1, <2>2, <2>3, FS_AddElement, FS_CardinalityType DEF Rank
<1>3. ASSUME NEW r \in D PROVE Rank(D, r) \in 0 .. (n - 1)
  <2>1. Earlier(D, r) \cup {r} \subseteq D
    BY <1>2
  <2>2. Cardinality(Earlier(D, r) \cup {r}) <= n
    BY <1>1, <2>1, FS_Subset
  <2> QED
    BY <1>1, <1>2, <2>2
<1>4. ASSUME NEW r \in D, NEW s \in D, Before(Args(r), Args(s))
      PROVE  Rank(D, r) < Rank(D, s)
  <2>1. Earlier(D, r) \cup {r} \subseteq Earlier(D, s)
    BY <1>4, ReportOrder DEF Earlier
  <2>2. Cardinality(Earlier(D, r) \cup {r}) <= Rank(D, s)
    BY <1>2, <2>1, FS_Subset DEF Rank
  <2>3. Rank(D, r) \in Nat /\ Rank(D, s) \in Nat /\ Rank(D, r) + 1 <= Rank(D, s)
    BY <1>2, <2>2
  <2> QED
    BY <2>3
<1>5. ASSUME NEW r \in D, NEW s \in D, Rank(D, r) = Rank(D, s)
      PROVE  r = s
  <2>1. Rank(D, r) \in Nat
    BY <1>2
  <2>2. ~Before(Args(r), Args(s)) /\ ~Before(Args(s), Args(r))
    BY <1>4, <1>5, <2>1
  <2> QED
    BY <2>2, ReportOrder
<1>6. ASSUME NEW k \in 1 .. n PROVE \E r \in D : Rank(D, r) = k - 1
  <2>1. rank \in [D -> 0 .. (n - 1)]
    BY <1>3
  <2>2. rank \in Injection(D, 0 .. (n - 1))
    BY <2>1, <1>5, Fun_IsInj
  <2>3. IsFiniteSet(0 .. (n - 1)) /\ Cardinality(0 .. (n - 1)) = n
    <3> HIDE DEF n
    <3>1. Cardinality(0 .. (n - 1)) = IF 0 > n - 1 THEN 0 ELSE n - 1 - 0 + 1
      BY <1>1, FS_Interval
    <3> QED
      BY <1>1, <3>1, FS_Interval
  <2>4. rank \in Surjection(D, 0 .. (n - 1))
    BY <2>2, <2>3, FS_Injection
  <2>5. k - 1 \in 0 .. (n - 1)
    BY <1>1
  <2>6. \E r \in D : rank[r] = k - 1
    <3> HIDE DEF rank, n
    <3>1. \A t \in 0 .. (n - 1) : \E r \in D : rank[r] = t
      BY <2>4, Fun_SurjectionProperties, Zenon
    <3> QED
      BY <2>5, <3>1
  <2> QED
    BY <2>6
<1> QED
  BY <1>1, <1>3, <1>4, <1>5, <1>6

\* The vector has every report once, and in order.
LEMMA OrderedIs ==
    ASSUME NEW D, ReportSet(D)
    PROVE  /\ Cardinality(D) \in Nat
           /\ DOMAIN Ordered(D) = 1 .. Cardinality(D)
           /\ \A k \in DOMAIN Ordered(D) : Ordered(D)[k] \in D
           /\ {Ordered(D)[k] : k \in DOMAIN Ordered(D)} = D
           /\ InOrder(Ordered(D))
<1> DEFINE V == Ordered(D)
<1>1. Cardinality(D) \in Nat
  BY Ranks
<1>2. DOMAIN V = 1 .. Cardinality(D)
  BY DEF Ordered
<1>3. ASSUME NEW k \in DOMAIN V PROVE V[k] \in D /\ Rank(D, V[k]) = k - 1
  <2>1. \E r \in D : Rank(D, r) = k - 1
    BY <1>2, Ranks
  <2>2. V[k] = CHOOSE r \in D : Rank(D, r) = k - 1
    BY <1>2 DEF Ordered, Rank
  <2> QED
    BY <2>1, <2>2
<1>4. ASSUME NEW r \in D PROVE \E k \in DOMAIN V : V[k] = r
  <2>1. Rank(D, r) \in 0 .. (Cardinality(D) - 1)
    BY Ranks
  <2>2. Rank(D, r) + 1 \in DOMAIN V
    BY <1>1, <1>2, <2>1
  <2>3. Rank(D, V[Rank(D, r) + 1]) = Rank(D, r)
    BY <1>3, <2>1, <2>2
  <2>4. V[Rank(D, r) + 1] = r
    BY <1>3, <2>2, <2>3, Ranks
  <2> QED
    BY <2>2, <2>4
<1>5. InOrder(V)
  <2> SUFFICES ASSUME NEW k \in DOMAIN V, NEW l \in DOMAIN V, k < l
               PROVE  Before(Args(V[k]), Args(V[l]))
    BY DEF InOrder
  <2>1. k \in Nat /\ l \in Nat
    BY <1>1, <1>2
  <2>2. Rank(D, V[k]) < Rank(D, V[l])
    BY <1>3, <2>1
  <2>3. V[k] \in D /\ V[l] \in D
    BY <1>3
  <2>4. V[k] # V[l] /\ ~Before(Args(V[l]), Args(V[k]))
    BY <2>1, <2>2, <2>3, <1>3, Ranks
  <2> QED
    BY <2>3, <2>4, ReportOrder
<1> QED
  BY <1>1, <1>2, <1>3, <1>4, <1>5

\* There is no other: a vector with those reports in that order is this one.
LEMMA OrderedIsUnique ==
    ASSUME NEW D, ReportSet(D), NEW n \in Nat, NEW rs, rs \in [1 .. n -> D],
           {rs[k] : k \in DOMAIN rs} = D, InOrder(rs)
    PROVE  rs = Ordered(D)
<1>1. DOMAIN rs = 1 .. n
  OBVIOUS
<1>2. ASSUME NEW k \in 1 .. n, NEW l \in 1 .. n, rs[k] = rs[l]
      PROVE  k = l
  <2>1. rs[k] \in D /\ ~Before(Args(rs[k]), Args(rs[l])) /\ ~Before(Args(rs[l]), Args(rs[k]))
    BY <1>2, ReportOrder
  <2>2. ~(k < l) /\ ~(l < k)
    BY <1>1, <2>1 DEF InOrder
  <2> QED
    BY <2>2
<1>3. Cardinality(D) = n
  <2>1. rs \in Bijection(1 .. n, D)
    BY <1>1, <1>2, Fun_IsBij
  <2>2. ExistsBijection(1 .. n, D)
    BY <2>1 DEF ExistsBijection
  <2> QED
    BY <2>2, FS_CountingElements
<1>4. ASSUME NEW k \in 1 .. n PROVE Rank(D, rs[k]) = k - 1
  <2> DEFINE f == [l \in 1 .. (k - 1) |-> rs[l]]
  <2>1. ASSUME NEW l \in 1 .. n
        PROVE  Before(Args(rs[l]), Args(rs[k])) <=> l < k
    <3>1. l < k => Before(Args(rs[l]), Args(rs[k]))
      BY <1>1 DEF InOrder
    <3>2. k < l => Before(Args(rs[k]), Args(rs[l]))
      BY <1>1 DEF InOrder
    <3>3. k = l \/ k < l \/ l < k
      OBVIOUS
    <3>4. rs[k] \in D /\ rs[l] \in D
      OBVIOUS
    <3> QED
      BY <3>1, <3>2, <3>3, <3>4, ReportOrder
  <2>2. Earlier(D, rs[k]) = {rs[l] : l \in 1 .. (k - 1)}
    <3>1. 1 .. (k - 1) = {l \in 1 .. n : l < k}
      OBVIOUS
    <3>2. Earlier(D, rs[k]) = {rs[l] : l \in {m \in 1 .. n : m < k}}
      BY <1>1, <2>1 DEF Earlier
    <3> QED
      BY <3>1, <3>2
  <2>3. f \in [1 .. (k - 1) -> Earlier(D, rs[k])]
    BY <2>2
  <2>4. \A a, b \in 1 .. (k - 1) : f[a] = f[b] => a = b
    BY <1>2
  <2>5. \A t \in Earlier(D, rs[k]) : \E l \in 1 .. (k - 1) : f[l] = t
    BY <2>2
  <2>6. f \in Bijection(1 .. (k - 1), Earlier(D, rs[k]))
    <3> HIDE DEF f
    <3> QED
      BY <2>3, <2>4, <2>5, Fun_IsBij
  <2>7. ExistsBijection(1 .. (k - 1), Earlier(D, rs[k])) /\ k - 1 \in Nat
    BY <2>6 DEF ExistsBijection
  <2> QED
    BY <2>7, FS_CountingElements DEF Rank
<1>5. ASSUME NEW k \in 1 .. n PROVE Ordered(D)[k] = rs[k]
  <2>1. Ordered(D)[k] = CHOOSE r \in D : Rank(D, r) = k - 1
    BY <1>3 DEF Ordered, Rank
  <2>2. rs[k] \in D /\ \A r \in D : Rank(D, r) = k - 1 => r = rs[k]
    BY <1>4, Ranks
  <2> QED
    BY <2>1, <2>2, <1>4
<1>6. Ordered(D) = [k \in 1 .. n |-> Ordered(D)[k]]
  BY <1>3 DEF Ordered
<1>7. rs = [k \in 1 .. n |-> rs[k]]
  OBVIOUS
<1> QED
  BY <1>5, <1>6, <1>7

-----------------------------------------------------------------------------
(* The reports a call deserves *)

\* They are finitely many, and each is about a pair of its own that has a
\* verdict.
LEMMA DeservedReports ==
    ASSUME NEW s, Len(s.args) \in Nat, NEW w, NEW st
    PROVE  /\ ReportSet(Deserved(s, w, st))
           /\ \A r \in Deserved(s, w, st) : \E p \in PairsOf(s) :
                 /\ Verdict(s, w, st, p[1], p[2]) # "none"
                 /\ r = ReportOn(s, Verdict(s, w, st, p[1], p[2]), p)
<1> DEFINE n == Len(s.args)
           verdict(p) == Verdict(s, w, st, p[1], p[2])
           accused == {q \in PairsOf(s) : verdict(q) # "none"}
           on == [p \in accused |-> ReportOn(s, verdict(p), p)]
           D == Deserved(s, w, st)
<1>1. D = {ReportOn(s, verdict(p), p) : p \in accused}
  BY DEF Deserved
<1>2. IsFiniteSet(accused)
  <2>1. IsFiniteSet(0 .. (n - 1))
    BY FS_Interval
  <2>2. IsFiniteSet((0 .. (n - 1)) \X (0 .. (n - 1)))
    BY <2>1, FS_Product
  <2>3. accused \subseteq (0 .. (n - 1)) \X (0 .. (n - 1))
    BY DEF PairsOf
  <2> QED
    BY <2>2, <2>3, FS_Subset
<1>3. IsFiniteSet(D)
  <2>1. on \in [accused -> D] /\ \A r \in D : \E p \in accused : on[p] = r
    BY <1>1
  <2>2. on \in Surjection(accused, D)
    <3> HIDE DEF on, accused, D
    <3> QED
      BY <2>1, Fun_IsSurj
  <2> QED
    BY <1>2, <2>2, FS_Surjection
<1>4. ASSUME NEW r \in D
      PROVE  \E p \in accused :
                /\ r = ReportOn(s, verdict(p), p)
                /\ r.arg1 = p[1] + 1 /\ r.arg2 = p[2] + 1
                /\ p[1] \in Int /\ p[2] \in Int /\ p = <<p[1], p[2]>>
  <2>1. PICK p \in accused : r = ReportOn(s, verdict(p), p)
    BY <1>1
  <2>2. r.arg1 = p[1] + 1 /\ r.arg2 = p[2] + 1
    BY <2>1 DEF ReportOn
  <2>3. p \in (0 .. (n - 1)) \X (0 .. (n - 1))
    BY DEF PairsOf
  <2>4. p[1] \in Int /\ p[2] \in Int /\ p = <<p[1], p[2]>>
    BY <2>3
  <2> QED
    BY <2>1, <2>2, <2>4
<1>5. \A r \in D : r.arg1 \in Int /\ r.arg2 \in Int
  BY <1>4
<1>6. ASSUME NEW r \in D, NEW t \in D, Args(r) = Args(t) PROVE r = t
  <2>1. PICK p \in accused : /\ r = ReportOn(s, verdict(p), p)
                             /\ r.arg1 = p[1] + 1 /\ r.arg2 = p[2] + 1
                             /\ p[1] \in Int /\ p[2] \in Int /\ p = <<p[1], p[2]>>
    BY <1>4
  <2>2. PICK q \in accused : /\ t = ReportOn(s, verdict(q), q)
                             /\ t.arg1 = q[1] + 1 /\ t.arg2 = q[2] + 1
                             /\ q[1] \in Int /\ q[2] \in Int /\ q = <<q[1], q[2]>>
    BY <1>4
  <2>3. p[1] + 1 = q[1] + 1 /\ p[2] + 1 = q[2] + 1
    BY <1>6, <2>1, <2>2 DEF Args
  <2>4. p[1] = q[1] /\ p[2] = q[2]
    BY <2>1, <2>2, <2>3
  <2>5. p = q
    BY <2>1, <2>2, <2>4
  <2> QED
    BY <2>1, <2>2, <2>5
<1> QED
  BY <1>3, <1>4, <1>5, <1>6 DEF ReportSet

\* What a client gets: a vector whose members are the reports of the pairs with
\* a verdict, empty only if there is none.
LEMMA CheckSiteIs ==
    ASSUME NEW s, Len(s.args) \in Nat, NEW st
    PROVE  /\ CheckSite(s, st) \in Seq(Deserved(s, "All", st))
           /\ {CheckSite(s, st)[k] : k \in DOMAIN CheckSite(s, st)} = Deserved(s, "All", st)
           /\ InOrder(CheckSite(s, st))
           /\ CheckSite(s, st) = <<>> <=> Deserved(s, "All", st) = {}
<1> DEFINE D == Deserved(s, "All", st)
           V == Ordered(D)
<1>1. ReportSet(D)
  BY DeservedReports
<1>2. /\ Cardinality(D) \in Nat
      /\ DOMAIN V = 1 .. Cardinality(D)
      /\ \A k \in DOMAIN V : V[k] \in D
      /\ {V[k] : k \in DOMAIN V} = D
      /\ InOrder(V)
  <2> HIDE DEF D, V
  <2>1. V = Ordered(D)
    BY DEF V
  <2> QED
    BY <1>1, <2>1, OrderedIs
<1>3. V \in Seq(D)
  <2>1. V = [k \in 1 .. Cardinality(D) |-> V[k]]
    BY DEF Ordered
  <2> QED
    BY <1>2, <2>1
<1>4. V = <<>> <=> D = {}
  BY <1>2, <1>3
<1> QED
  BY <1>2, <1>3, <1>4 DEF CheckSite
=============================================================================
