----------------------- MODULE SwappedArgCheckerProofs -----------------------
(***************************************************************************)
(* Theorems about CheckSite, for every set of call sites and databases and *)
(* for every choice of thresholds that ThresholdsAssumption allows.        *)
(***************************************************************************)
EXTENDS SwappedArgChecker, CheckerClientProofs

-----------------------------------------------------------------------------
(* The operators of the heuristics *)

\* The morphemes of a name are morphemes, and finitely many.
LEMMA ParamMorphemesType ==
    ASSUME NEW s \in CallSite, NEW p \in Nat
    PROVE  /\ getParamName(s, p) \in Name
           /\ ParamMorphemes(s, p) \subseteq Morpheme
           /\ IsFiniteSet(ParamMorphemes(s, p))
<1>1. getParamName(s, p) \in Name
  <2>1. s.params \in Seq(Name)
    BY DEF CallSite
  <2>2. CASE p < Len(s.params)
    <3>1. p + 1 \in 1 .. Len(s.params)
      BY <2>1, <2>2
    <3> QED
      BY <2>1, <2>2, <3>1 DEF getParamName
  <2>3. CASE ~(p < Len(s.params))
    BY <2>3, NamesAssumption DEF getParamName
  <2> QED
    BY <2>2, <2>3
<1> QED
  BY <1>1, NamesAssumption DEF ParamMorphemes

\* And so are the morphemes of all the names of an argument.
LEMMA ArgMorphemesType ==
    ASSUME NEW s \in CallSite, NEW p \in Nat, p < Len(s.args)
    PROVE  ArgMorphemes(s, p) \subseteq Morpheme
<1>1. s.args \in Seq(Seq(Name)) /\ p + 1 \in 1 .. Len(s.args)
  BY DEF CallSite
<1>2. s.args[p + 1] \in Seq(Name)
  BY <1>1
<1>3. \A k \in DOMAIN s.args[p + 1] : s.args[p + 1][k] \in Name
  BY <1>2
<1> QED
  BY <1>3, NamesAssumption DEF ArgMorphemes

\* A match is exact or none, and the bias says of how many of the parameter's
\* morphemes it speaks: of some when optimistic, of all when pessimistic.
LEMMA MatchValue ==
    ASSUME NEW arg, NEW param, param # {}
    PROVE  /\ morphemesMatch(arg, param, "Optimistic")
                 = IF param \cap arg # {} THEN Unit ELSE 0
           /\ morphemesMatch(arg, param, "Pessimistic")
                 = IF param \subseteq arg THEN Unit ELSE 0
<1> DEFINE vals == {anyAreSynonyms(m, arg) : m \in param}
           best(v) == \A w \in vals : w <= v
           worst(v) == \A w \in vals : v <= w
<1>1. Unit \in Nat /\ Unit > 0
  BY ThresholdsAssumption
<1>2. \A v \in vals : v \in {0, Unit}
  BY DEF anyAreSynonyms
<1>3. (Unit \in vals <=> param \cap arg # {}) /\ (0 \in vals <=> ~(param \subseteq arg))
  BY <1>1 DEF anyAreSynonyms
<1>4. vals # {}
  OBVIOUS
<1>5. morphemesMatch(arg, param, "Optimistic") = CHOOSE v \in vals : best(v)
  BY DEF morphemesMatch
<1>6. morphemesMatch(arg, param, "Pessimistic") = CHOOSE v \in vals : worst(v)
  BY DEF morphemesMatch
<1> HIDE DEF vals
<1>7. (CHOOSE v \in vals : best(v)) = IF Unit \in vals THEN Unit ELSE 0
  <2>1. \E v \in vals : best(v)
    BY <1>1, <1>2, <1>4
  <2> DEFINE b == CHOOSE v \in vals : best(v)
  <2>2. b \in vals /\ best(b)
    BY <2>1
  <2> QED
    BY <1>1, <1>2, <2>2
<1>8. (CHOOSE v \in vals : worst(v)) = IF 0 \in vals THEN 0 ELSE Unit
  <2>1. \E v \in vals : worst(v)
    BY <1>1, <1>2, <1>4
  <2> DEFINE b == CHOOSE v \in vals : worst(v)
  <2>2. b \in vals /\ worst(b)
    BY <2>1
  <2> QED
    BY <1>1, <1>2, <2>2
<1> QED
  BY <1>3, <1>5, <1>6, <1>7, <1>8

\* Names look swapped exactly when, apart from what the two arguments and the
\* two parameters share, each argument has all of the other's parameter. That
\* nothing matches in place follows, as the arguments' own morphemes differ.
LEMMA NamesSwappedIff ==
    ASSUME NEW s, NEW a, NEW b
    PROVE  NamesSwapped(s, a, b) <=>
              /\ SameSizes(s, a, b)
              /\ UniqueParam(s, a, b) # {} /\ UniqueParam(s, b, a) # {}
              /\ UniqueParam(s, b, a) \subseteq UniqueArg(s, a, b)
              /\ UniqueParam(s, a, b) \subseteq UniqueArg(s, b, a)
<1> DEFINE ua == UniqueArg(s, a, b)
           ub == UniqueArg(s, b, a)
           pa == UniqueParam(s, a, b)
           pb == UniqueParam(s, b, a)
<1>1. ua \cap ub = {}
  BY DEF UniqueArg
<1>2. ASSUME pa # {}, pb # {}
      PROVE  /\ InPlace(s, a, b) = IF pa \cap ua # {} THEN Unit ELSE 0
             /\ InPlace(s, b, a) = IF pb \cap ub # {} THEN Unit ELSE 0
             /\ Exchanged(s, a, b) = IF pb \subseteq ua THEN Unit ELSE 0
             /\ Exchanged(s, b, a) = IF pa \subseteq ub THEN Unit ELSE 0
  BY <1>2, MatchValue DEF InPlace, Exchanged
<1>3. /\ Unit \in Nat
      /\ ExistingMorphemeMatchMax \in Nat /\ ExistingMorphemeMatchMax < Unit
      /\ SwappedMorphemeMatchMin \in Nat
      /\ 0 < SwappedMorphemeMatchMin /\ SwappedMorphemeMatchMin <= Unit
  BY ThresholdsAssumption
<1> HIDE DEF ua, ub, pa, pb
<1>4. NamesSwapped(s, a, b) <=>
          /\ SameSizes(s, a, b)
          /\ pa # {} /\ pb # {} /\ ua # {} /\ ub # {}
          /\ pa \cap ua = {} /\ pb \cap ub = {}
          /\ pb \subseteq ua /\ pa \subseteq ub
  BY <1>2, <1>3 DEF NamesSwapped, ua, ub, pa, pb
<1> QED
  BY <1>1, <1>4 DEF ua, ub, pa, pb

\* The score of a cover-based report is a quotient of integers.
LEMMA WorstPsiType ==
    ASSUME NEW s, NEW a, NEW b, NamesSwapped(s, a, b)
    PROVE  WorstPsi(s, a, b) \in Quotient
<1>1. UniqueParam(s, a, b) # {} /\ UniqueParam(s, b, a) # {} /\ Unit \in Nat
  BY NamesSwappedIff, ThresholdsAssumption
<1>2. /\ Exchanged(s, a, b) \in Int /\ Exchanged(s, b, a) \in Int
      /\ InPlace(s, a, b) \in Int /\ InPlace(s, b, a) \in Int
  BY <1>1, MatchValue DEF Exchanged, InPlace
<1> QED
  BY <1>1, <1>2 DEF WorstPsi, Over, Quotient, Minimum

\* Confidences are quotients of weights.
LEMMA ConfidenceType ==
    ASSUME NEW w1 \in Weight, NEW w2 \in Weight,
           Confidence(w1, w2) # NoValue
    PROVE  IsScore(Confidence(w1, w2))
BY ThresholdsAssumption DEF Weight, NoRow, Confidence, Over, Units, IsScore

-----------------------------------------------------------------------------
(* Type correctness *)

\* The pair in hand has two positions of the call, within the bound on them.
LEMMA PairInRange ==
    ASSUME TypeOK, pc \in {"pair", "vet", "stats"}
    PROVE  /\ site \in CallSite /\ ArgCount \in Nat
           /\ i \in Nat /\ j \in Nat /\ i < j /\ j < ArgCount
           /\ i \in Position /\ j \in Position
           /\ UniqueArg(site, i, j) \subseteq Morpheme
           /\ UniqueArg(site, j, i) \subseteq Morpheme
<1>1. /\ site \in CallSite /\ site.args \in Seq(Seq(Name))
      /\ ArgCount \in Nat /\ ArgCount <= MaxArgs /\ MaxArgs \in Nat
  BY InputsAssumption DEF TypeOK, CallSite, ArgCount
<1>2. i \in Nat /\ j \in Nat /\ i < j /\ j < ArgCount
  BY DEF TypeOK, i, j
<1>3. i \in Position /\ j \in Position
  BY <1>1, <1>2 DEF Position
<1>4. i < Len(site.args) /\ j < Len(site.args)
  BY <1>1, <1>2 DEF ArgCount
<1>5. ArgMorphemes(site, i) \subseteq Morpheme
  BY <1>1, <1>2, <1>4, ArgMorphemesType
<1>6. ArgMorphemes(site, j) \subseteq Morpheme
  BY <1>1, <1>2, <1>4, ArgMorphemesType
<1> QED
  BY <1>1, <1>2, <1>3, <1>5, <1>6 DEF UniqueArg

\* The bitset after the one of the pair in hand.
LEMMA NextPairIs ==
    ASSUME TypeOK, pc \in {"pair", "vet", "stats"}
    PROVE  /\ HasNextPair(pair, ArgCount) <=> (j + 1 < ArgCount \/ i + 1 < j)
           /\ HasNextPair(pair, ArgCount) =>
                NextPair(pair, ArgCount) =
                    IF j + 1 < ArgCount THEN <<i, j + 1>> ELSE <<i + 1, i + 2>>
<1>1. i \in Int /\ j \in Int /\ i < j /\ j < ArgCount /\ ArgCount \in Int
  BY PairInRange
<1>2. /\ HasNextPair(pair, ArgCount) = HasPrevious({i, j}, ArgCount)
      /\ NextPair(pair, ArgCount) = PairOf(prev_permutation({i, j}, ArgCount))
  BY DEF HasNextPair, NextPair, i, j
<1>3. HasPrevious({i, j}, ArgCount) <=> (j + 1 < ArgCount \/ i + 1 < j)
  BY <1>1, LastPermutation
<1>4. HasPrevious({i, j}, ArgCount) =>
        PairOf(prev_permutation({i, j}, ArgCount)) =
            IF j + 1 < ArgCount THEN <<i, j + 1>> ELSE <<i + 1, i + 2>>
  BY <1>1, NextPermutation
<1> QED
  BY <1>2, <1>3, <1>4

\* Moving on to the next pair, or to the end, keeps the pair in range.
LEMMA ContinueType ==
    ASSUME TypeOK, pc \in {"pair", "vet", "stats"}, Continue
    PROVE  /\ pc' \in {"pair", "done"} /\ todo' = {} /\ statsScore' = NoValue
           /\ pair' \in Nat \X Nat
           /\ pc' = "pair" => pair'[1] < pair'[2] /\ pair'[2] < ArgCount
<1>1. /\ i \in Nat /\ j \in Nat /\ i < j /\ j < ArgCount /\ ArgCount \in Nat
      /\ pair \in Nat \X Nat
  BY PairInRange DEF TypeOK
<1>2. CASE ~HasNextPair(pair, ArgCount)
  BY <1>1, <1>2 DEF Continue
<1>3. CASE HasNextPair(pair, ArgCount)
  <2>1. /\ pair' = IF j + 1 < ArgCount THEN <<i, j + 1>> ELSE <<i + 1, i + 2>>
        /\ j + 1 < ArgCount \/ i + 1 < j
    BY <1>3, NextPairIs DEF Continue
  <2>2. pc' = "pair" /\ todo' = {} /\ statsScore' = NoValue
    BY <1>3 DEF Continue
  <2> QED
    BY <1>1, <2>1, <2>2
<1> QED
  BY <1>2, <1>3

\* What a report is made of.
ReportType ==
    [kind : {"cover", "stats"}, arg1 : Nat, arg2 : Nat,
     morphemes1 : SUBSET Morpheme, morphemes2 : SUBSET Morpheme, score : Quotient]

\* The reports are such records.
LEMMA ReportedType ==
    ASSUME TypeOK, NEW r \in Reported
    PROVE  r \in ReportType
<1>1. results \in Seq(ReportType)
  BY DEF TypeOK, ReportType
<1> HIDE DEF ReportType
<1> QED
  BY <1>1 DEF Reported

\* A report adds one such record.
LEMMA ReportKeepsType ==
    ASSUME TypeOK, pc \in {"pair", "vet", "stats"},
           NEW kind \in {"cover", "stats"}, NEW score \in Quotient, Report(kind, score)
    PROVE  results' \in Seq(ReportType)
<1>1. i + 1 \in Nat /\ j + 1 \in Nat
  BY PairInRange
<1>2. [kind |-> kind, arg1 |-> i + 1, arg2 |-> j + 1,
       morphemes1 |-> UniqueArg(site, i, j), morphemes2 |-> UniqueArg(site, j, i),
       score |-> score] \in ReportType
  BY <1>1, PairInRange DEF ReportType
<1>3. results \in Seq(ReportType)
  BY DEF TypeOK, ReportType
<1> HIDE DEF ReportType
<1> QED
  BY <1>2, <1>3 DEF Report

\* The inputs of a check are read only.
LEMMA InputsKept ==
    ASSUME [Next]_vars
    PROVE  UNCHANGED inputs
BY DEF Next, vars, inputs, TooFewArguments, FirstPair, SkipPair, NamesFit, NamesDoNotFit,
       VetMorpheme, ReportCover, VetAway, ReportStats, PassOver, NoStatsReport

\* What the confidences and fits of a query may come to, at positions that the
\* database has.
LEMMA AnswersType ==
    ASSUME TypeOK, stats # NoStats, NEW m \in Morpheme, NEW a \in Position, NEW b \in Position
    PROVE  /\ \A val \in Confidences(m, a, b) : val = NoValue \/ IsScore(val)
           /\ \A f \in Fits(m, a) : f \in Nat
<1>1. stats[a][m] \in Weight /\ stats[b][m] \in Weight
  BY DEF TypeOK
<1>2. /\ \A w \in Answers(stats[a][m]) : w \in Weight
      /\ \A w \in Answers(stats[b][m]) : w \in Weight
  BY <1>1 DEF Answers, Weight
<1>3. \A val \in Confidences(m, a, b) : val = NoValue \/ IsScore(val)
  BY <1>2, ConfidenceType DEF Confidences
<1>4. \A f \in Fits(m, a) : f \in Nat
  BY <1>2 DEF Fits, Fit, Weight, NoRow
<1> QED
  BY <1>3, <1>4

\* The greater of two scores is a score.
LEMMA MaximumType ==
    ASSUME NEW q, NEW r, IsScore(q), IsScore(r)
    PROVE  IsScore(Maximum(q, r))
BY DEF Maximum

\* The reports of the statistics-based check are scored with a weight.
LEMMA StatsScoreType ==
    ASSUME NEW f1 \in Nat, NEW f2 \in Nat
    PROVE  Units(IF f1 < f2 THEN f2 ELSE f1) \in Quotient
BY ThresholdsAssumption DEF Units, Over, Quotient

-----------------------------------------------------------------------------
(* The invariant holds at first *)

\* Before the first pair nothing is in hand and nothing reported.
LEMMA CheckInit ==
    ASSUME Init
    PROVE  CheckInv
<1>1. site \in CallSite /\ ArgCount <= MaxArgs
  BY InputsAssumption DEF Init, ArgCount
<1>2. /\ whichCheck \in {"All", "CoverBased", "StatsBased"}
      /\ stats = NoStats \/ stats \in [Position -> [Morpheme -> Weight]]
  BY InputsAssumption DEF Init
<1>3. pair = <<0, 1>> /\ pair \in Nat \X Nat
  BY PairOfTwo DEF Init, FirstBits
<1>4. results = <<>> /\ pc = "start" /\ todo = {} /\ statsScore = NoValue /\ pair = <<0, 1>>
  BY <1>3 DEF Init
<1>5. Reported = {} /\ DOMAIN results = {}
  BY <1>4 DEF Reported
<1>6. TypeOK
  BY <1>1, <1>2, <1>3, <1>4 DEF TypeOK
<1>7. PairInHand
  BY <1>4 DEF PairInHand
<1>8. ReportsGrounded /\ WalkInOrder
  BY <1>4, <1>5 DEF ReportsGrounded, WalkInOrder, InOrder
<1>9. VettingInv
  BY <1>4 DEF VettingInv
<1> QED
  BY <1>6, <1>7, <1>8, <1>9 DEF CheckInv

-----------------------------------------------------------------------------
(* Each step keeps it: types *)

\* Every step keeps the pair in hand within the call.
LEMMA TypeStep ==
    ASSUME CheckInv, Next
    PROVE  TypeOK'
<1> USE DEF CheckInv
<1>1. UNCHANGED <<site, whichCheck, stats>>
  BY InputsKept DEF inputs
<1>2. /\ site' \in CallSite /\ ArgCount' = ArgCount /\ ArgCount <= MaxArgs
      /\ whichCheck' \in {"All", "CoverBased", "StatsBased"}
      /\ stats' = NoStats \/ stats' \in [Position -> [Morpheme -> Weight]]
  BY <1>1 DEF TypeOK, ArgCount
<1>3. ASSUME /\ pc' \in {"start", "pair", "vet", "stats", "done"}
             /\ pair' \in Nat \X Nat
             /\ pc' \in {"pair", "vet", "stats"} => pair'[1] < pair'[2] /\ pair'[2] < ArgCount
             /\ pc' = "vet" => todo' \subseteq VettingQueries(site, pair'[1], pair'[2])
             /\ pc' = "stats" => todo' \subseteq SwapQueries(site, pair'[1], pair'[2])
             /\ pc' \notin {"vet", "stats"} => todo' = {}
             /\ statsScore' = NoValue \/ IsScore(statsScore')
             /\ results' \in Seq(ReportType)
      PROVE  TypeOK'
  <2>1. /\ VettingQueries(site, i, j)' = VettingQueries(site, pair'[1], pair'[2])
        /\ SwapQueries(site, i, j)' = SwapQueries(site, pair'[1], pair'[2])
    BY <1>1 DEF VettingQueries, SwapQueries, UniqueArg, ArgMorphemes, i, j
  <2>2. /\ pc' = "vet" => todo' \subseteq VettingQueries(site, i, j)'
        /\ pc' = "stats" => todo' \subseteq SwapQueries(site, i, j)'
    BY <1>3, <2>1
  <2>3. pc' \in {"pair", "vet", "stats"} => i' < j' /\ j' < ArgCount'
    BY <1>2, <1>3 DEF i, j
  <2>4. IsScore(statsScore') => IsScore(statsScore)'
    BY DEF IsScore
  <2> QED
    BY <1>2, <1>3, <2>2, <2>3, <2>4 DEF TypeOK, ReportType
<1>4. results \in Seq(ReportType)
  BY DEF TypeOK, ReportType
<1> HIDE DEF ReportType
<1>5. CASE TooFewArguments
  BY <1>3, <1>4, <1>5 DEF TooFewArguments, TypeOK
<1>6. CASE FirstPair
  <2>1. pair = <<0, 1>> /\ 1 < ArgCount /\ todo = {}
    BY <1>6, <1>2 DEF FirstPair, PairInHand, TypeOK, CallSite, ArgCount
  <2> QED
    BY <1>3, <1>4, <1>6, <2>1 DEF FirstPair, TypeOK
<1>7. CASE SkipPair
  <2>1. pc = "pair" /\ Continue /\ results' = results
    BY <1>7 DEF SkipPair
  <2> QED
    BY <1>3, <1>4, <2>1, ContinueType
<1>8. ASSUME StartStatsCheck, UNCHANGED pair, results' = results, pc \in {"pair", "vet"}
      PROVE  TypeOK'
  BY <1>3, <1>4, <1>8 DEF StartStatsCheck, TypeOK, i, j
<1>9. CASE NamesFit
  BY <1>8, <1>9 DEF NamesFit
<1>10. CASE NamesDoNotFit
  BY <1>3, <1>4, <1>10 DEF NamesDoNotFit, TypeOK, i, j
<1>11. CASE VetMorpheme
  <2>1. PICK q \in todo : \E val \in Confidences(q[1], q[2][1], q[2][2]) :
          /\ statsScore' =
                IF val = NoValue THEN statsScore
                ELSE Maximum(IF statsScore = NoValue THEN Units(0) ELSE statsScore, val)
          /\ todo' = todo \ {q}
    BY <1>11 DEF VetMorpheme
  <2>2. pc = "vet" /\ UNCHANGED <<pc, pair, results>> /\ stats # NoStats
    BY <1>11 DEF VetMorpheme, PairInHand
  <2>3. q[1] \in Morpheme /\ q[2][1] \in Position /\ q[2][2] \in Position
    <3>1. /\ i \in Position /\ j \in Position
          /\ UniqueArg(site, i, j) \subseteq Morpheme
          /\ UniqueArg(site, j, i) \subseteq Morpheme
      BY <2>2, PairInRange
    <3>2. q \in VettingQueries(site, i, j)
      BY <2>2 DEF TypeOK
    <3> QED
      BY <3>1, <3>2 DEF VettingQueries
  <2>4. \A val \in Confidences(q[1], q[2][1], q[2][2]) : val = NoValue \/ IsScore(val)
    BY <2>2, <2>3, AnswersType
  <2>5. IsScore(Units(0))
    BY ThresholdsAssumption DEF IsScore, Units, Over
  <2>6. statsScore' = NoValue \/ IsScore(statsScore')
    BY <2>1, <2>4, <2>5, MaximumType DEF TypeOK
  <2> QED
    <3>1. i < j /\ j < ArgCount /\ pair \in Nat \X Nat
      BY <2>2 DEF TypeOK
    <3>2. todo' \subseteq VettingQueries(site, pair'[1], pair'[2])
      BY <2>1, <2>2 DEF TypeOK, i, j
    <3> QED
      BY <1>3, <1>4, <2>2, <2>6, <3>1, <3>2 DEF i, j
<1>12. CASE ReportCover
  <2>1. pc = "vet" /\ Report("cover", WorstPsi(site, i, j)) /\ Continue
    BY <1>12 DEF ReportCover
  <2>2. WorstPsi(site, i, j) \in Quotient
    BY <2>1, WorstPsiType DEF PairInHand, CoverCandidate
  <2> QED
    BY <1>3, <2>1, <2>2, ContinueType, ReportKeepsType
<1>13. CASE VetAway
  BY <1>8, <1>13 DEF VetAway
<1>14. CASE ReportStats
  <2>1. PICK q \in todo : \E fit1 \in Fits(q[1], j), fit2 \in Fits(q[2], i) :
          Report("stats", Units(IF fit1 < fit2 THEN fit2 ELSE fit1))
    BY <1>14 DEF ReportStats
  <2>2. pc = "stats" /\ Continue /\ stats # NoStats
    BY <1>14 DEF ReportStats, PairInHand
  <2>3. q[1] \in Morpheme /\ q[2] \in Morpheme /\ i \in Position /\ j \in Position
    BY <2>2, PairInRange DEF TypeOK, SwapQueries
  <2>4. PICK fit1 \in Nat, fit2 \in Nat :
          Report("stats", Units(IF fit1 < fit2 THEN fit2 ELSE fit1))
    BY <2>1, <2>2, <2>3, AnswersType
  <2>5. results' \in Seq(ReportType)
    BY <2>2, <2>4, StatsScoreType, ReportKeepsType
  <2> QED
    BY <1>3, <2>2, <2>5, ContinueType
<1>15. CASE PassOver
  BY <1>3, <1>4, <1>15 DEF PassOver, TypeOK, i, j
<1>16. CASE NoStatsReport
  <2>1. pc = "stats" /\ Continue /\ results' = results
    BY <1>16 DEF NoStatsReport
  <2> QED
    BY <1>3, <1>4, <2>1, ContinueType
<1> QED
  BY <1>5, <1>6, <1>7, <1>9, <1>10, <1>11, <1>12, <1>13, <1>14, <1>15, <1>16 DEF Next

-----------------------------------------------------------------------------
(* Each step keeps it: the pair in hand *)

\* Every step keeps what the tests before a check have established of its
\* pair.
LEMMA HandStep ==
    ASSUME CheckInv, Next
    PROVE  PairInHand'
<1> USE DEF CheckInv
<1>1. UNCHANGED <<site, whichCheck, stats>>
  BY InputsKept DEF inputs
<1>2. pc \in {"pair", "vet", "stats"} /\ Continue => pc' \in {"pair", "done"} /\ todo' = {}
  BY ContinueType
<1>3. ASSUME pc' \in {"pair", "done"}, todo' = {}
      PROVE  PairInHand'
  BY <1>3 DEF PairInHand
<1>4. ASSUME StartStatsCheck, UNCHANGED pair, Usable(site, i, j)
      PROVE  PairInHand'
  <2>1. pc' = "stats" /\ Usable(site, i, j)'
    BY <1>1, <1>4 DEF StartStatsCheck, Usable, i, j, ArgMorphemes, BothNamed,
       ParamMorphemes, getParamName
  <2>2. todo' # {} => stats # NoStats /\ whichCheck \in {"All", "StatsBased"}
    BY <1>4 DEF StartStatsCheck
  <2> QED
    BY <1>1, <2>1, <2>2 DEF PairInHand
<1>5. CASE TooFewArguments
  BY <1>3, <1>5 DEF TooFewArguments, TypeOK
<1>6. CASE FirstPair
  BY <1>3, <1>6 DEF FirstPair, TypeOK
<1>7. CASE SkipPair
  BY <1>2, <1>3, <1>7 DEF SkipPair
<1>8. CASE NamesFit
  BY <1>4, <1>8 DEF NamesFit
<1>9. CASE NamesDoNotFit
  <2>1. pc' = "vet" /\ UNCHANGED <<i, j>>
    BY <1>9 DEF NamesDoNotFit, i, j
  <2>2. Usable(site, i, j)' /\ RunsCoverCheck' /\ CoverCandidate(site, i, j)'
    BY <1>1, <1>9, <2>1 DEF NamesDoNotFit, RunsCoverCheck
  <2>3. todo' # {} => stats # NoStats
    BY <1>9 DEF NamesDoNotFit
  <2> QED
    BY <1>1, <2>1, <2>2, <2>3 DEF PairInHand
<1>10. CASE VetMorpheme
  <2>1. pc = "vet" /\ pc' = "vet" /\ UNCHANGED <<i, j, results>> /\ todo # {}
    BY <1>10 DEF VetMorpheme, i, j
  <2>2. Usable(site, i, j)' /\ RunsCoverCheck' /\ CoverCandidate(site, i, j)'
    BY <1>1, <2>1 DEF PairInHand, RunsCoverCheck
  <2> QED
    BY <1>1, <2>1, <2>2 DEF PairInHand
<1>11. CASE ReportCover
  BY <1>2, <1>3, <1>11 DEF ReportCover
<1>12. CASE VetAway
  BY <1>4, <1>12 DEF VetAway, PairInHand
<1>13. CASE ReportStats
  BY <1>2, <1>3, <1>13 DEF ReportStats
<1>14. CASE PassOver
  <2>1. pc = "stats" /\ pc' = "stats" /\ UNCHANGED <<i, j, results>> /\ todo # {}
    BY <1>14 DEF PassOver, i, j
  <2>2. Usable(site, i, j)'
    BY <1>1, <2>1 DEF PairInHand
  <2> QED
    BY <1>1, <2>1, <2>2 DEF PairInHand
<1>15. CASE NoStatsReport
  BY <1>2, <1>3, <1>15 DEF NoStatsReport
<1> QED
  BY <1>5, <1>6, <1>7, <1>8, <1>9, <1>10, <1>11, <1>12, <1>13, <1>14, <1>15 DEF Next

-----------------------------------------------------------------------------
(* Each step keeps it: the vetting *)

\* Comparing products with a common factor compares the other factors.
LEMMA CancelFactor ==
    ASSUME NEW x \in Int, NEW y \in Int, NEW k \in Nat, x * k < y * k
    PROVE  x < y
<1> SUFFICES ASSUME y <= x PROVE y * k <= x * k
  OBVIOUS
<1>1. PICK d \in Nat : x = y + d
  <2>1. x - y \in Nat /\ x = y + (x - y)
    OBVIOUS
  <2> QED
    BY <2>1
<1>2. x * k = y * k + d * k /\ d * k >= 0
  BY <1>1
<1> QED
  BY <1>2

\* The greater of two scores exceeds the threshold if and only if one of them
\* does, for infinite scores and for a second one that is not a number.
LEMMA MaximumTooConfident ==
    ASSUME NEW s, NEW v, IsScore(s), IsScore(v), ~IsNaN(s)
    PROVE  /\ TooConfident(Maximum(s, v)) <=> TooConfident(s) \/ TooConfident(v)
           /\ ~IsNaN(Maximum(s, v))
<1> DEFINE a == s.num
           b == s.den
           c == v.num
           d == v.den
           t == CoverSwappedStatsVettingThreshold
           u == Unit
<1>1. a \in Nat /\ b \in Nat /\ c \in Nat /\ d \in Nat /\ ~(a = 0 /\ b = 0)
  BY DEF IsScore, IsNaN
<1>2. t \in Nat /\ u \in Nat /\ 0 < u /\ 0 < t
  BY ThresholdsAssumption
<1>3. s # NoValue /\ v # NoValue
  BY DEF IsScore, NoValue
<1>4. (TooConfident(s) <=> t * b < a * u) /\ (TooConfident(v) <=> t * d < c * u)
  BY <1>3 DEF TooConfident, Less, Units, Over
<1>5. Maximum(s, v) = IF a * d < c * b THEN v ELSE s
  BY DEF Maximum, Less
<1> HIDE DEF a, b, c, d, t, u
<1>6. CASE a * d < c * b
  <2>1. a * d >= 0 /\ b > 0
    BY <1>1, <1>6
  <2>2. ASSUME t * b < a * u PROVE t * d < c * u
    <3>1. (t * b) * d <= (a * u) * d
      BY <1>1, <1>2, <2>2
    <3>2. (a * d) * u < (c * b) * u
      BY <1>1, <1>2, <1>6
    <3>3. (t * d) * b < (c * u) * b
      <4>1. (t * d) * b = (t * b) * d /\ (a * u) * d = (a * d) * u /\ (c * b) * u = (c * u) * b
        BY <1>1, <1>2
      <4> QED
        BY <1>1, <1>2, <3>1, <3>2, <4>1
    <3> QED
      BY <1>1, <1>2, <3>3, CancelFactor
  <2>3. ~IsNaN(v)
    BY <1>1, <1>6 DEF IsNaN, c, d
  <2> QED
    BY <1>4, <1>5, <1>6, <2>2, <2>3
<1>7. CASE ~(a * d < c * b)
  <2>1. c * b <= a * d
    BY <1>1, <1>7
  <2>2. ASSUME t * d < c * u PROVE t * b < a * u
    <3>1. CASE b = 0
      <4>1. t * b = 0 /\ 0 < a * u
        BY <1>1, <1>2, <3>1
      <4> QED
        BY <4>1
    <3>2. CASE b # 0
      <4>1. (t * d) * b < (c * u) * b
        BY <1>1, <1>2, <2>2, <3>2
      <4>2. (c * b) * u <= (a * d) * u
        BY <1>1, <1>2, <2>1
      <4>3. (t * b) * d < (a * u) * d
        <5>1. (t * d) * b = (t * b) * d /\ (a * u) * d = (a * d) * u /\ (c * b) * u = (c * u) * b
          BY <1>1, <1>2
        <5> QED
          BY <1>1, <1>2, <4>1, <4>2, <5>1
      <4> QED
        BY <1>1, <1>2, <4>3, CancelFactor
    <3> QED
      BY <3>1, <3>2
  <2> QED
    BY <1>4, <1>5, <1>7, <2>2
<1> QED
  BY <1>6, <1>7

\* When no query is left the vetting has come to what VettedAway says.
LEMMA VettingDone ==
    ASSUME VettingInv, ~Faults, pc = "vet", todo = {}
    PROVE  TooConfident(statsScore) <=> VettedAway(site, stats, i, j)
<1>1. CASE stats = NoStats
  BY <1>1 DEF VettingInv, VettedAway, TooConfident
<1>2. CASE stats # NoStats
  BY <1>2 DEF VettingInv, VettedAway, RowsConfidence
<1> QED
  BY <1>1, <1>2

\* Every step keeps the running maximum that of the confidences looked up.
LEMMA VettingStep ==
    ASSUME CheckInv, Next
    PROVE  VettingInv'
<1> USE DEF CheckInv
<1>1. UNCHANGED <<site, whichCheck, stats>>
  BY InputsKept DEF inputs
<1>2. ASSUME pc' \in {"pair", "done"}, statsScore' = NoValue
      PROVE  VettingInv'
  BY <1>2 DEF VettingInv
<1>3. pc \in {"pair", "vet", "stats"} /\ Continue => VettingInv'
  BY <1>2, ContinueType
<1>4. ASSUME StartStatsCheck, UNCHANGED pair,
             ~Faults /\ RunsCoverCheck /\ CoverCandidate(site, i, j) =>
                 VettedAway(site, stats, i, j)
      PROVE  VettingInv'
  <2>1. pc' = "stats" /\ statsScore' = NoValue /\ UNCHANGED <<i, j>>
    BY <1>4 DEF StartStatsCheck, i, j
  <2> QED
    BY <1>1, <1>4, <2>1 DEF VettingInv, RunsCoverCheck
<1>5. CASE TooFewArguments \/ FirstPair
  <2>1. pc = "start" /\ pc' \in {"pair", "done"} /\ UNCHANGED statsScore
    BY <1>5 DEF TooFewArguments, FirstPair
  <2> QED
    BY <1>2, <2>1 DEF VettingInv
<1>6. CASE SkipPair
  BY <1>3, <1>6 DEF SkipPair
<1>7. CASE NamesFit
  BY <1>4, <1>7 DEF NamesFit
<1>8. CASE NamesDoNotFit
  <2>1. /\ pc' = "vet" /\ statsScore' = NoValue /\ UNCHANGED <<i, j>>
        /\ stats # NoStats => todo' = VettingQueries(site, i, j)
    BY <1>8 DEF NamesDoNotFit, VettingInv, i, j
  <2>2. ~TooConfident(statsScore')
    BY <2>1 DEF TooConfident
  <2> QED
    BY <1>1, <2>1, <2>2 DEF VettingInv
<1>9. CASE VetMorpheme
  <2>1. PICK q \in todo : \E val \in Confidences(q[1], q[2][1], q[2][2]) :
          /\ statsScore' =
                IF val = NoValue THEN statsScore
                ELSE Maximum(IF statsScore = NoValue THEN Units(0) ELSE statsScore, val)
          /\ todo' = todo \ {q}
    BY <1>9 DEF VetMorpheme
  <2>2. PICK val \in Confidences(q[1], q[2][1], q[2][2]) :
          /\ statsScore' =
                IF val = NoValue THEN statsScore
                ELSE Maximum(IF statsScore = NoValue THEN Units(0) ELSE statsScore, val)
          /\ todo' = todo \ {q}
    BY <2>1
  <2>3. pc = "vet" /\ pc' = "vet" /\ UNCHANGED <<i, j>> /\ stats # NoStats
    BY <1>9 DEF VetMorpheme, PairInHand, i, j
  <2>4. todo \subseteq VettingQueries(site, i, j)
    BY <2>3 DEF TypeOK
  <2>5. q[1] \in Morpheme /\ q[2][1] \in Position /\ q[2][2] \in Position
    BY <2>3, <2>4, PairInRange DEF VettingQueries
  <2>6. val = NoValue \/ IsScore(val)
    BY <2>2, <2>3, <2>5, AnswersType
  <2> DEFINE s == IF statsScore = NoValue THEN Units(0) ELSE statsScore
  <2>7. IsScore(s) /\ ~IsNaN(s) /\ (TooConfident(s) <=> TooConfident(statsScore))
    <3>1. IsScore(Units(0)) /\ ~IsNaN(Units(0)) /\ ~TooConfident(Units(0))
      BY ThresholdsAssumption DEF IsScore, IsNaN, TooConfident, Units, Over, Less
    <3>2. ~TooConfident(NoValue)
      BY DEF TooConfident
    <3>3. (statsScore = NoValue \/ IsScore(statsScore)) /\ (statsScore = NoValue \/ ~IsNaN(statsScore))
      BY DEF TypeOK, VettingInv
    <3> QED
      BY <3>1, <3>2, <3>3
  <2> HIDE DEF s
  <2>8. /\ TooConfident(statsScore') <=> TooConfident(statsScore) \/ TooConfident(val)
        /\ statsScore' = NoValue \/ ~IsNaN(statsScore')
    <3>1. CASE val = NoValue
      <4>1. ~TooConfident(val) /\ statsScore' = statsScore
        BY <2>2, <3>1 DEF TooConfident
      <4> QED
        BY <4>1 DEF VettingInv
    <3>2. CASE val # NoValue
      <4>1. IsScore(val) /\ statsScore' = Maximum(s, val)
        BY <2>2, <2>6, <3>2 DEF s
      <4> QED
        BY <2>7, <4>1, MaximumTooConfident
    <3> QED
      BY <3>1, <3>2
  <2>9. ~Faults => val = RowsConfidence(q)
    BY <2>2 DEF Confidences, Answers, RowsConfidence
  <2>10. ~Faults => (TooConfident(statsScore') <=>
            \E p \in VettingQueries(site, i, j) \ todo' : TooConfident(RowsConfidence(p)))
    <3>1. VettingQueries(site, i, j) \ todo' = (VettingQueries(site, i, j) \ todo) \cup {q}
      BY <2>1, <2>4
    <3>2. ~Faults => (TooConfident(statsScore) <=>
            \E p \in VettingQueries(site, i, j) \ todo : TooConfident(RowsConfidence(p)))
      BY <2>3 DEF VettingInv
    <3> QED
      BY <2>8, <2>9, <3>1, <3>2
  <2>11. \A p : RowsConfidence(p)' = RowsConfidence(p)
    BY <1>1 DEF RowsConfidence
  <2> QED
    BY <1>1, <2>3, <2>8, <2>10, <2>11 DEF VettingInv
<1>10. CASE ReportCover
  BY <1>3, <1>10 DEF ReportCover
<1>11. CASE VetAway
  <2>1. pc = "vet" /\ todo = {} /\ TooConfident(statsScore) /\ StartStatsCheck /\ UNCHANGED pair
    BY <1>11 DEF VetAway
  <2>2. ~Faults => VettedAway(site, stats, i, j)
    BY <2>1, VettingDone
  <2> QED
    BY <1>4, <2>1, <2>2
<1>12. CASE ReportStats
  BY <1>3, <1>12 DEF ReportStats
<1>13. CASE PassOver
  <2>1. pc = "stats" /\ UNCHANGED <<pc, i, j, statsScore>>
    BY <1>13 DEF PassOver, i, j
  <2> QED
    BY <1>1, <2>1 DEF VettingInv, RunsCoverCheck
<1>14. CASE NoStatsReport
  BY <1>3, <1>14 DEF NoStatsReport
<1> QED
  BY <1>5, <1>6, <1>7, <1>8, <1>9, <1>10, <1>11, <1>12, <1>13, <1>14 DEF Next

-----------------------------------------------------------------------------
(* Each step keeps it: the grounds of the reports *)

\* The grounds of a report are facts about the inputs.
LEMMA GroundsKept ==
    ASSUME UNCHANGED inputs, NEW r
    PROVE  Grounded(r) <=> Grounded(r)'
BY DEF inputs, Grounded, ArgCount, CoverGrounds, RunsCoverCheck, StatsGrounds,
       Confidences, Fits, Answers, LooksSwapped

\* A report of the pair in hand on the grounds of its heuristic.
LEMMA NewReport ==
    ASSUME CheckInv, UNCHANGED inputs, pc \in {"pair", "vet", "stats"},
           NEW kind \in {"cover", "stats"}, NEW score, Report(kind, score),
           kind = "cover" => CoverGrounds(i, j),
           kind = "stats" => StatsGrounds(i, j),
           ~Faults /\ kind = "cover" => ~VettedAway(site, stats, i, j),
           ~Faults /\ kind = "stats" /\ RunsCoverCheck /\ CoverCandidate(site, i, j) =>
               VettedAway(site, stats, i, j)
    PROVE  ReportsGrounded'
<1> DEFINE new == [kind |-> kind, arg1 |-> i + 1, arg2 |-> j + 1,
                   morphemes1 |-> UniqueArg(site, i, j),
                   morphemes2 |-> UniqueArg(site, j, i), score |-> score]
<1>1. i \in Nat /\ j \in Nat /\ i < j /\ j < ArgCount /\ ArgCount \in Nat
  BY PairInRange DEF CheckInv
<1>2. (i + 1) - 1 = i /\ (j + 1) - 1 = j
  BY <1>1
<1>3. Grounded(new)
  <2>1. new.arg1 - 1 = i /\ new.arg2 - 1 = j /\ new.kind = kind
    BY <1>2
  <2>2. new.morphemes1 = UniqueArg(site, i, j) /\ new.morphemes2 = UniqueArg(site, j, i)
    OBVIOUS
  <2> HIDE DEF new
  <2> QED
    BY <1>1, <2>1, <2>2 DEF Grounded
<1>4. results' = Append(results, new)
  BY DEF Report
<1> HIDE DEF new
<1>5. Reported' = Reported \cup {new}
  <2>1. results \in Seq(ReportType)
    BY DEF CheckInv, TypeOK, ReportType
  <2> HIDE DEF ReportType
  <2>2. /\ DOMAIN results' = 1 .. (Len(results) + 1) /\ DOMAIN results = 1 .. Len(results)
        /\ Len(results) \in Nat
        /\ \A k \in 1 .. Len(results) : results'[k] = results[k]
        /\ results'[Len(results) + 1] = new
    BY <1>4, <2>1
  <2> QED
    BY <2>2 DEF Reported
<1> QED
  BY <1>3, <1>5, GroundsKept DEF CheckInv, ReportsGrounded

\* A report is made on its heuristic's grounds, and no step undoes them.
LEMMA GroundsStep ==
    ASSUME CheckInv, Next
    PROVE  ReportsGrounded'
<1>1. UNCHANGED inputs
  BY InputsKept
<1>2. CASE results' = results
  BY <1>1, <1>2, GroundsKept DEF CheckInv, ReportsGrounded, Reported
<1>3. CASE ReportCover
  <2>1. pc = "vet" /\ Report("cover", WorstPsi(site, i, j))
    BY <1>3 DEF ReportCover
  <2>2. CoverGrounds(i, j)
    BY <2>1 DEF CheckInv, PairInHand, CoverGrounds
  <2>3. ~Faults => ~VettedAway(site, stats, i, j)
    <3>1. todo = {} /\ ~TooConfident(statsScore)
      BY <1>3 DEF ReportCover
    <3> QED
      BY <2>1, <3>1, VettingDone DEF CheckInv
  <2> QED
    BY <1>1, <2>1, <2>2, <2>3, NewReport
<1>4. CASE ReportStats
  <2>1. PICK q \in todo :
          \E psi1 \in Confidences(q[1], j, i), psi2 \in Confidences(q[2], i, j),
             fit1 \in Fits(q[1], j), fit2 \in Fits(q[2], i) :
              /\ LooksSwapped(i, j, q[1], q[2], psi1, psi2, fit1, fit2)
              /\ Report("stats", Units(IF fit1 < fit2 THEN fit2 ELSE fit1))
    BY <1>4 DEF ReportStats
  <2>2. pc = "stats" /\ todo # {} /\ todo \subseteq SwapQueries(site, i, j)
    BY <1>4 DEF ReportStats, CheckInv, TypeOK
  <2>3. StatsGrounds(i, j)
    BY <2>1, <2>2 DEF CheckInv, PairInHand, StatsGrounds
  <2>4. PICK score : Report("stats", score)
    BY <2>1
  <2>5. ~Faults /\ RunsCoverCheck /\ CoverCandidate(site, i, j) => VettedAway(site, stats, i, j)
    BY <2>2 DEF CheckInv, VettingInv
  <2> QED
    BY <1>1, <2>2, <2>3, <2>4, <2>5, NewReport
<1> QED
  BY <1>2, <1>3, <1>4 DEF Next, TooFewArguments, FirstPair, SkipPair, NamesFit,
     NamesDoNotFit, VetMorpheme, VetAway, PassOver, NoStatsReport

-----------------------------------------------------------------------------
(* Each step keeps it: the order of the reports *)

\* The pair taken up next comes after the one that is done.
LEMMA ContinueGoesOn ==
    ASSUME TypeOK, pc \in {"pair", "vet", "stats"}, Continue, pc' = "pair"
    PROVE  Before(<<i + 1, j + 1>>, <<i' + 1, j' + 1>>)
<1>1. i \in Nat /\ j \in Nat /\ ArgCount \in Nat
  BY PairInRange
<1>2. HasNextPair(pair, ArgCount) /\ pair' = NextPair(pair, ArgCount)
  BY DEF Continue
<1>3. pair' = IF j + 1 < ArgCount THEN <<i, j + 1>> ELSE <<i + 1, i + 2>>
  BY <1>2, NextPairIs
<1>4. (i' = i /\ j' = j + 1) \/ i' = i + 1
  BY <1>1, <1>3 DEF i, j
<1> QED
  BY <1>1, <1>4 DEF Before

\* The order of the pairs is transitive.
LEMMA BeforeTransitive ==
    ASSUME NEW p \in Nat \X Nat, NEW q \in Nat \X Nat, NEW r \in Nat \X Nat,
           Before(p, q), Before(q, r)
    PROVE  Before(p, r)
BY DEF Before

\* A report joins the results behind those of all earlier pairs.
LEMMA OrderStep ==
    ASSUME CheckInv, Next
    PROVE  WalkInOrder'
<1> DEFINE upTo(rs, p) == \A k \in DOMAIN rs : Before(Args(rs[k]), p)
<1>1. TypeOK /\ PairInHand /\ WalkInOrder /\ TypeOK'
  BY TypeStep DEF CheckInv
<1>2. results \in Seq(ReportType) /\ results' \in Seq(ReportType)
  BY <1>1 DEF TypeOK, ReportType
<1>3. \A k \in DOMAIN results : Args(results[k]) \in Nat \X Nat
  <2>1. \A r \in ReportType : Args(r) \in Nat \X Nat
    BY DEF ReportType, Args
  <2> HIDE DEF ReportType
  <2> QED
    BY <1>2, <2>1
<1> HIDE DEF ReportType
<1>4. ASSUME InOrder(results'),
             pc' \in {"pair", "vet", "stats"} => upTo(results', <<i' + 1, j' + 1>>)
      PROVE  WalkInOrder'
  BY <1>4 DEF WalkInOrder, InOrder, Before, Args, Reported
<1>5. /\ InOrder(results)
      /\ pc \in {"pair", "vet", "stats"} => upTo(results, <<i + 1, j + 1>>)
  BY <1>1 DEF WalkInOrder, Reported
<1>6. ASSUME pc \in {"pair", "vet", "stats"}, UNCHANGED <<pair, results>>
      PROVE  WalkInOrder'
  BY <1>4, <1>5, <1>6 DEF i, j
<1>7. ASSUME pc \in {"pair", "vet", "stats"}, Continue, pc' = "pair"
      PROVE  /\ upTo(results, <<i' + 1, j' + 1>>)
             /\ Before(<<i + 1, j + 1>>, <<i' + 1, j' + 1>>)
  <2>1. Before(<<i + 1, j + 1>>, <<i' + 1, j' + 1>>)
    BY <1>1, <1>7, ContinueGoesOn
  <2>2. pair \in Nat \X Nat /\ pair' \in Nat \X Nat
    BY <1>1 DEF TypeOK
  <2>3. <<i + 1, j + 1>> \in Nat \X Nat /\ <<i' + 1, j' + 1>> \in Nat \X Nat
    BY <2>2 DEF i, j
  <2>4. upTo(results, <<i' + 1, j' + 1>>)
    BY <1>3, <1>5, <1>7, <2>1, <2>3, BeforeTransitive
  <2> QED
    BY <2>1, <2>4
<1>8. ASSUME pc \in {"pair", "vet", "stats"}, Continue
      PROVE  pc' \in {"pair", "done"}
  BY <1>1, <1>8, ContinueType
<1>9. ASSUME pc \in {"pair", "vet", "stats"}, Continue, results' = results
      PROVE  WalkInOrder'
  BY <1>4, <1>5, <1>7, <1>8, <1>9
<1>10. ASSUME pc \in {"pair", "vet", "stats"}, Continue,
              NEW kind, NEW score, Report(kind, score)
       PROVE  WalkInOrder'
  <2>1. /\ DOMAIN results' = 1 .. (Len(results) + 1) /\ DOMAIN results = 1 .. Len(results)
        /\ Len(results) \in Nat
        /\ \A k \in DOMAIN results : results'[k] = results[k]
        /\ Args(results'[Len(results) + 1]) = <<i + 1, j + 1>>
    BY <1>2, <1>10 DEF Report, Args
  <2>2. InOrder(results')
    <3> SUFFICES ASSUME NEW k \in DOMAIN results', NEW l \in DOMAIN results', k < l
                 PROVE  Before(Args(results'[k]), Args(results'[l]))
      BY DEF InOrder
    <3>1. CASE l \in DOMAIN results
      BY <1>5, <2>1, <3>1 DEF InOrder
    <3>2. CASE l = Len(results) + 1
      BY <1>5, <1>10, <2>1, <3>2
    <3> QED
      BY <2>1, <3>1, <3>2
  <2>3. pc' = "pair" => upTo(results', <<i' + 1, j' + 1>>)
    BY <1>7, <1>10, <2>1
  <2> QED
    BY <1>4, <1>8, <1>10, <2>2, <2>3
<1>11. CASE TooFewArguments
  BY <1>4, <1>5, <1>11 DEF TooFewArguments
<1>12. CASE FirstPair
  BY <1>1, <1>4, <1>5, <1>12 DEF FirstPair, PairInHand
<1>13. CASE SkipPair
  BY <1>9, <1>13 DEF SkipPair
<1>14. CASE NamesFit \/ NamesDoNotFit \/ VetMorpheme \/ VetAway \/ PassOver
  BY <1>6, <1>14 DEF NamesFit, NamesDoNotFit, VetMorpheme, VetAway, PassOver
<1>15. CASE ReportCover
  BY <1>10, <1>15 DEF ReportCover
<1>16. CASE ReportStats
  <2>1. \E score : Report("stats", score)
    BY <1>16 DEF ReportStats
  <2> QED
    BY <1>10, <1>16, <2>1 DEF ReportStats
<1>17. CASE NoStatsReport
  BY <1>9, <1>17 DEF NoStatsReport
<1> QED
  BY <1>11, <1>12, <1>13, <1>14, <1>15, <1>16, <1>17 DEF Next

-----------------------------------------------------------------------------
(* Theorems *)

\* Every step of CheckSite keeps the invariant.
LEMMA CheckStep ==
    ASSUME CheckInv, [Next]_vars
    PROVE  CheckInv'
<1>1. CASE Next
  BY <1>1, TypeStep, HandStep, VettingStep, GroundsStep, OrderStep DEF CheckInv
<1>2. CASE UNCHANGED vars
  <2>1. UNCHANGED <<site, whichCheck, stats, pc, pair, todo, statsScore, results>>
    BY <1>2 DEF vars, inputs
  <2>2. TypeOK' /\ PairInHand' /\ WalkInOrder'
    BY <2>1 DEF CheckInv, TypeOK, PairInHand, WalkInOrder, i, j, ArgCount, RunsCoverCheck,
       InOrder, Before, Args, Reported, IsScore
  <2>3. ReportsGrounded'
    BY <2>1, GroundsKept DEF CheckInv, ReportsGrounded, Reported, inputs
  <2>4. VettingInv'
    BY <2>1 DEF CheckInv, VettingInv, RowsConfidence, RunsCoverCheck, i, j
  <2> QED
    BY <2>2, <2>3, <2>4 DEF CheckInv
<1> QED
  BY <1>1, <1>2

\* Throughout a check every report rests on its heuristic's grounds, says which
\* arguments and morphemes it is about, and is about an earlier pair than the
\* one in hand.
THEOREM CheckCorrect == Spec => []CheckInv
<1>1. Init => CheckInv
  BY CheckInit
<1>2. CheckInv /\ [Next]_vars => CheckInv'
  BY CheckStep
<1> QED
  BY <1>1, <1>2, PTL DEF Spec

\* The state of CheckSite is of its type: the pair in hand has two positions of
\* the call however many arguments it has.
THEOREM TypeCorrect == Spec => []TypeOK
<1>1. CheckInv => TypeOK
  BY DEF CheckInv
<1> QED
  BY <1>1, CheckCorrect, PTL

\* Reports name existing arguments and come in the order of the pairs, at most
\* one for each pair.
THEOREM ReportsInOrder == Spec => []ResultsInOrder
<1>1. CheckInv => ResultsInOrder
  <2> SUFFICES ASSUME CheckInv
               PROVE  ResultsInOrder
    OBVIOUS
  <2>1. ASSUME NEW r \in Reported
        PROVE  1 <= r.arg1 /\ r.arg1 < r.arg2 /\ r.arg2 <= ArgCount
    <3>1. Grounded(r) /\ ArgCount \in Nat
      BY DEF CheckInv, ReportsGrounded, TypeOK, CallSite, ArgCount
    <3>2. r.arg1 \in Nat /\ r.arg2 \in Nat
      BY ReportedType DEF CheckInv, ReportType
    <3> QED
      BY <3>1, <3>2 DEF Grounded
  <2> QED
    BY <2>1 DEF CheckInv, WalkInOrder, ResultsInOrder
<1> QED
  BY <1>1, CheckCorrect, PTL

\* A statistics-based report is about arguments with one morpheme each that the
\* other has not: what they have beyond those is compared for equality, and the
\* two sets have nothing in common.
THEOREM SingletonsOnly == Spec => []StatsReportsSingletons
<1>1. CheckInv => StatsReportsSingletons
  <2> SUFFICES ASSUME CheckInv, NEW r \in Reported, r.kind = "stats"
               PROVE  \E m1, m2 \in Morpheme : r.morphemes1 = {m1} /\ r.morphemes2 = {m2}
    BY DEF StatsReportsSingletons
  <2> DEFINE a == r.arg1 - 1
             b == r.arg2 - 1
  <2>1. /\ r.morphemes1 = UniqueArg(site, a, b) /\ r.morphemes2 = UniqueArg(site, b, a)
        /\ StatsGrounds(a, b)
    BY DEF CheckInv, ReportsGrounded, Grounded
  <2>2. r.morphemes1 \subseteq Morpheme /\ r.morphemes2 \subseteq Morpheme
    BY ReportedType DEF CheckInv, ReportType
  <2> HIDE DEF a, b
  <2>3. PICK q \in SwapQueries(site, a, b) : SameRemainder(site, a, b, q[1], q[2])
    BY <2>1 DEF StatsGrounds, LooksSwapped
  <2>4. q[1] \in UniqueArg(site, a, b) /\ q[2] \in UniqueArg(site, b, a)
    BY <2>3 DEF SwapQueries
  <2>5. UniqueArg(site, a, b) \cap UniqueArg(site, b, a) = {}
    BY DEF UniqueArg
  <2>6. UniqueArg(site, a, b) = {q[1]} /\ UniqueArg(site, b, a) = {q[2]}
    BY <2>3, <2>4, <2>5 DEF SameRemainder
  <2> QED
    BY <2>1, <2>2, <2>4, <2>6
<1> QED
  BY <1>1, CheckCorrect, PTL

\* A weight that a query may answer is the row's, or none.
LEMMA AnswerIs ==
    ASSUME NEW w, NEW answer \in Answers(w)
    PROVE  answer = w \/ answer = NoRow
BY DEF Answers

\* A morpheme that fits at one position leaves so little of it to any other
\* morpheme that a confidence against what is left is enough for a swap.
LEMMA FitsLeaveLittle ==
    ASSUME NEW fit \in Nat, NEW rest \in Nat, NEW own \in Nat,
           fit > StatsSwappedFitnessThreshold, own + rest <= Unit,
           own > StatsSwappedFitnessThreshold
    PROVE  ~LessOrEqual(Over(fit, rest), Units(StatsSwappedMorphemeThreshold))
<1> DEFINE T == StatsSwappedMorphemeThreshold
           F == StatsSwappedFitnessThreshold
           U == Unit
<1>1. U \in Nat /\ T \in Nat /\ F \in Nat /\ 0 < U /\ T <= U /\ U <= 2 * F /\ F < fit /\ F < own
  BY ThresholdsAssumption
<1> HIDE DEF T, F, U
<1>2. own + rest <= U
  BY DEF U
<1>3. rest < fit
  BY <1>1, <1>2
<1>4. T * rest <= U * rest
  BY <1>1
<1>5. U * rest < U * fit
  BY <1>1, <1>3
<1>6. T * rest < fit * U
  BY <1>1, <1>4, <1>5
<1> QED
  BY <1>6 DEF LessOrEqual, Less, Over, Units, T, U

\* A confidence in a swap that came of answers w1 and w2, one of which may be a
\* failure, would also have come of the rows.
LEMMA SwapSurvives ==
    ASSUME NEW fit \in Nat, NEW own \in Nat, NEW rest \in Weight,
           fit > StatsSwappedFitnessThreshold, own > StatsSwappedFitnessThreshold,
           own + Fit(rest) <= Unit,
           NEW w1 \in Answers(fit), NEW w2 \in Answers(rest),
           Confidence(w1, w2) # NoValue,
           ~LessOrEqual(Confidence(w1, w2), Units(StatsSwappedMorphemeThreshold))
    PROVE  /\ Confidence(fit, rest) # NoValue
           /\ ~LessOrEqual(Confidence(fit, rest), Units(StatsSwappedMorphemeThreshold))
<1>1. CASE rest = NoRow
  <2>1. w2 = NoRow
    BY <1>1, AnswerIs
  <2>2. w1 = fit
    BY <2>1, AnswerIs DEF Confidence
  <2> QED
    BY <1>1, <2>1, <2>2
<1>2. CASE rest # NoRow
  <2>1. rest \in Nat /\ Fit(rest) = rest /\ fit # NoRow
    BY <1>2 DEF Fit, Weight, NoRow
  <2>2. Confidence(fit, rest) = Over(fit, rest)
    BY <1>2, <2>1 DEF Confidence
  <2>3. ~LessOrEqual(Over(fit, rest), Units(StatsSwappedMorphemeThreshold))
    BY <2>1, FitsLeaveLittle
  <2> QED
    BY <2>2, <2>3 DEF Over, NoValue
<1> QED
  BY <1>1, <1>2

\* A query that fails is read as a morpheme never seen at a position, which
\* raises the confidence in a swap, but makes up no report: both morphemes have
\* to fit where the swap would put them, and a row that fits cannot have failed.
THEOREM NoFalseAccusation == Spec => []FaultsNeverAccuse
<1>1. CheckInv => FaultsNeverAccuse
  <2> SUFFICES ASSUME CheckInv, SharesOfOne, NEW r \in Reported, r.kind = "stats"
               PROVE  StatsVerdict(site, whichCheck, stats, r.arg1 - 1, r.arg2 - 1)
    BY DEF FaultsNeverAccuse
  <2> DEFINE a == r.arg1 - 1
             b == r.arg2 - 1
  <2>1. 0 <= a /\ a < b /\ b < ArgCount /\ StatsGrounds(a, b)
    BY DEF CheckInv, ReportsGrounded, Grounded
  <2>2. a \in Position /\ b \in Position
    <3>1. r.arg1 \in Nat /\ r.arg2 \in Nat
      BY ReportedType DEF CheckInv, ReportType
    <3>2. ArgCount \in Nat /\ ArgCount <= MaxArgs /\ MaxArgs \in Nat
      BY InputsAssumption DEF CheckInv, TypeOK, CallSite, ArgCount
    <3> QED
      BY <2>1, <3>1, <3>2 DEF Position
  <2>3. UniqueArg(site, a, b) \subseteq Morpheme /\ UniqueArg(site, b, a) \subseteq Morpheme
    BY ReportedType DEF CheckInv, ReportsGrounded, Grounded, ReportType
  <2> HIDE DEF a, b
  <2>4. whichCheck \in {"All", "StatsBased"} /\ stats # NoStats /\ Usable(site, a, b)
    BY <2>1 DEF StatsGrounds
  <2>5. PICK q \in SwapQueries(site, a, b) :
          \E psi1 \in Confidences(q[1], b, a), psi2 \in Confidences(q[2], a, b),
             fit1 \in Fits(q[1], b), fit2 \in Fits(q[2], a) :
              LooksSwapped(a, b, q[1], q[2], psi1, psi2, fit1, fit2)
    BY <2>1 DEF StatsGrounds
  <2> DEFINE m1 == q[1]
             m2 == q[2]
  <2>6. PICK psi1 \in Confidences(m1, b, a), psi2 \in Confidences(m2, a, b),
             fit1 \in Fits(m1, b), fit2 \in Fits(m2, a) :
                LooksSwapped(a, b, m1, m2, psi1, psi2, fit1, fit2)
    BY <2>5
  <2>7. m1 \in Morpheme /\ m2 \in Morpheme /\ m1 # m2
    BY <2>3 DEF SwapQueries, UniqueArg
  <2> HIDE DEF m1, m2
  <2>8. stats \in [Position -> [Morpheme -> Weight]]
    BY <2>4 DEF CheckInv, TypeOK
  <2> DEFINE b1 == stats[b][m1]
             a1 == stats[a][m1]
             a2 == stats[a][m2]
             b2 == stats[b][m2]
  <2>9. b1 \in Weight /\ a1 \in Weight /\ a2 \in Weight /\ b2 \in Weight
    BY <2>2, <2>7, <2>8
  <2>10. fit1 = Fit(b1) /\ fit2 = Fit(a2)
         /\ fit1 > StatsSwappedFitnessThreshold /\ fit2 > StatsSwappedFitnessThreshold
    <3>1. fit1 > StatsSwappedFitnessThreshold /\ fit2 > StatsSwappedFitnessThreshold
      BY <2>6 DEF LooksSwapped, FitEnough
    <3>2. StatsSwappedFitnessThreshold \in Nat
      BY ThresholdsAssumption
    <3>3. (fit1 = Fit(b1) \/ fit1 = 0) /\ (fit2 = Fit(a2) \/ fit2 = 0)
      BY AnswerIs DEF Fits, Fit
    <3> QED
      BY <3>1, <3>2, <3>3
  <2>11. /\ b1 \in Nat /\ b1 = Fit(b1) /\ b1 > StatsSwappedFitnessThreshold
         /\ a2 \in Nat /\ a2 = Fit(a2) /\ a2 > StatsSwappedFitnessThreshold
    BY <2>9, <2>10, ThresholdsAssumption DEF Fit, Weight, NoRow
  <2>12. b1 + Fit(b2) <= Unit /\ a2 + Fit(a1) <= Unit
    BY <2>2, <2>4, <2>7, <2>11 DEF SharesOfOne
  <2>13. Confidence(b1, a1) # NoValue
           /\ ~LessOrEqual(Confidence(b1, a1), Units(StatsSwappedMorphemeThreshold))
    <3>1. PICK w1 \in Answers(b1), w2 \in Answers(a1) : psi1 = Confidence(w1, w2)
      BY <2>6 DEF Confidences
    <3> QED
      BY <2>6, <2>9, <2>11, <2>12, <3>1, SwapSurvives DEF LooksSwapped, CommonlySwapped
  <2>14. Confidence(a2, b2) # NoValue
           /\ ~LessOrEqual(Confidence(a2, b2), Units(StatsSwappedMorphemeThreshold))
    <3>1. PICK w1 \in Answers(a2), w2 \in Answers(b2) : psi2 = Confidence(w1, w2)
      BY <2>6 DEF Confidences
    <3> QED
      BY <2>6, <2>9, <2>11, <2>12, <3>1, SwapSurvives DEF LooksSwapped, CommonlySwapped
  <2>15. StatsSwap(site, stats, a, b, m1, m2)
    BY <2>6, <2>10, <2>13, <2>14 DEF StatsSwap, CommonlySwapped, LooksSwapped, FitEnough
  <2>16. StatsVerdict(site, whichCheck, stats, a, b)
    BY <2>4, <2>15 DEF StatsVerdict, m1, m2
  <2> QED
    BY <2>16 DEF a, b
<1> QED
  BY <1>1, CheckCorrect, PTL

\* An argument has finitely many morphemes: it has finitely many names.
LEMMA ArgMorphemesFinite ==
    ASSUME NEW s \in CallSite, NEW p \in Nat, p < Len(s.args)
    PROVE  IsFiniteSet(ArgMorphemes(s, p))
<1> DEFINE names == s.args[p + 1]
           sets == {Split[names[k]] : k \in DOMAIN names}
           f == [k \in DOMAIN names |-> Split[names[k]]]
<1>1. s.args \in Seq(Seq(Name)) /\ p + 1 \in 1 .. Len(s.args)
  BY DEF CallSite
<1>2. names \in Seq(Name)
  BY <1>1
<1>3. DOMAIN names = 1 .. Len(names) /\ Len(names) \in Nat
  BY <1>2
<1>4. IsFiniteSet(DOMAIN names)
  <2>1. IsFiniteSet(1 .. Len(names))
    <3> HIDE DEF names
    <3> QED
      BY <1>3, FS_Interval
  <2> QED
    BY <1>3, <2>1
<1>5. f \in Surjection(DOMAIN names, sets)
  BY DEF Surjection
<1>6. IsFiniteSet(sets)
  BY <1>4, <1>5, FS_Surjection
<1>7. \A k \in DOMAIN names : IsFiniteSet(Split[names[k]])
  BY <1>2, NamesAssumption
<1>8. \A S \in sets : IsFiniteSet(S)
  BY <1>7
<1>9. IsFiniteSet(UNION sets)
  <2> HIDE DEF sets
  <2> QED
    BY <1>6, <1>8, FS_UNION
<1> QED
  BY <1>9 DEF ArgMorphemes

\* Where no two parameters have a morpheme in common, two arguments whose names
\* look swapped have exactly the morphemes of each other's parameters.
LEMMA SwappedNamesMatch ==
    ASSUME NEW s \in CallSite, NEW a \in Nat, NEW b \in Nat,
           a < Len(s.args), b < Len(s.args),
           ParamMorphemes(s, a) \cap ParamMorphemes(s, b) = {},
           NamesSwapped(s, a, b)
    PROVE  /\ ArgMorphemes(s, a) = ParamMorphemes(s, b) /\ ParamMorphemes(s, b) # {}
           /\ ArgMorphemes(s, b) = ParamMorphemes(s, a) /\ ParamMorphemes(s, a) # {}
<1>1. UniqueParam(s, a, b) = ParamMorphemes(s, a) /\ UniqueParam(s, b, a) = ParamMorphemes(s, b)
  BY DEF UniqueParam
<1>2. /\ ParamMorphemes(s, b) \subseteq UniqueArg(s, a, b) /\ ParamMorphemes(s, b) # {}
      /\ ParamMorphemes(s, a) \subseteq UniqueArg(s, b, a) /\ ParamMorphemes(s, a) # {}
      /\ SameSizes(s, a, b)
  BY <1>1, NamesSwappedIff
<1>3. /\ ParamMorphemes(s, b) \in SUBSET ArgMorphemes(s, a)
      /\ ParamMorphemes(s, a) \in SUBSET ArgMorphemes(s, b)
  BY <1>2 DEF UniqueArg
<1>4. IsFiniteSet(ArgMorphemes(s, a)) /\ IsFiniteSet(ArgMorphemes(s, b))
  BY ArgMorphemesFinite
<1>5. /\ Cardinality(ArgMorphemes(s, a)) = Cardinality(ParamMorphemes(s, b))
      /\ Cardinality(ArgMorphemes(s, b)) = Cardinality(ParamMorphemes(s, a))
  BY <1>2 DEF SameSizes
<1>6. ArgMorphemes(s, a) = ParamMorphemes(s, b)
  BY <1>3, <1>4, <1>5, FS_Subset
<1>7. ArgMorphemes(s, b) = ParamMorphemes(s, a)
  BY <1>3, <1>4, <1>5, FS_Subset
<1> QED
  BY <1>2, <1>6, <1>7

\* With parameters that have no morpheme in common no argument is in two
\* cover-based reports: its morphemes are those of one parameter, the one of its
\* partner in each report.
THEOREM OneAccusation == Spec => []AccusedOnce
<1>1. CheckInv => AccusedOnce
  <2> SUFFICES ASSUME CheckInv,
                      \A p, q \in 0 .. (ArgCount - 1) :
                          p # q => ParamMorphemes(site, p) \cap ParamMorphemes(site, q) = {},
                      NEW r1 \in Reported, NEW r2 \in Reported,
                      r1.kind = "cover", r2.kind = "cover", r1 # r2,
                      {r1.arg1, r1.arg2} \cap {r2.arg1, r2.arg2} # {}
               PROVE  FALSE
    BY DEF AccusedOnce
  <2>1. ArgCount \in Nat /\ ArgCount = Len(site.args) /\ site \in CallSite
    BY DEF CheckInv, TypeOK, CallSite, ArgCount
  <2>2. \A r \in {r1, r2} :
           /\ r.arg1 - 1 \in 0 .. (ArgCount - 1) /\ r.arg2 - 1 \in 0 .. (ArgCount - 1)
           /\ r.arg1 \in Nat /\ r.arg2 \in Nat /\ r.arg1 < r.arg2
           /\ NamesSwapped(site, r.arg1 - 1, r.arg2 - 1)
    <3> SUFFICES ASSUME NEW r \in {r1, r2}
                 PROVE  /\ r.arg1 - 1 \in 0 .. (ArgCount - 1)
                        /\ r.arg2 - 1 \in 0 .. (ArgCount - 1)
                        /\ r.arg1 \in Nat /\ r.arg2 \in Nat /\ r.arg1 < r.arg2
                        /\ NamesSwapped(site, r.arg1 - 1, r.arg2 - 1)
      OBVIOUS
    <3>1. r.arg1 \in Nat /\ r.arg2 \in Nat
      BY ReportedType DEF CheckInv, ReportType
    <3>2. Grounded(r) /\ r.kind = "cover"
      BY DEF CheckInv, ReportsGrounded
    <3>3. /\ 0 <= r.arg1 - 1 /\ r.arg1 - 1 < r.arg2 - 1 /\ r.arg2 - 1 < ArgCount
          /\ NamesSwapped(site, r.arg1 - 1, r.arg2 - 1)
      BY <3>2 DEF Grounded, CoverGrounds, CoverCandidate
    <3> QED
      BY <2>1, <3>1, <3>3
  <2> DEFINE a(p) == ArgMorphemes(site, p - 1)
             m(p) == ParamMorphemes(site, p - 1)
  <2>3. \A r \in {r1, r2} :
           /\ a(r.arg1) = m(r.arg2) /\ m(r.arg1) # {}
           /\ a(r.arg2) = m(r.arg1) /\ m(r.arg2) # {}
    <3> SUFFICES ASSUME NEW r \in {r1, r2}
                 PROVE  /\ a(r.arg1) = m(r.arg2) /\ m(r.arg1) # {}
                        /\ a(r.arg2) = m(r.arg1) /\ m(r.arg2) # {}
      OBVIOUS
    <3>1. /\ r.arg1 - 1 \in Nat /\ r.arg2 - 1 \in Nat
          /\ r.arg1 - 1 < Len(site.args) /\ r.arg2 - 1 < Len(site.args)
      BY <2>1, <2>2
    <3>2. m(r.arg1) \cap m(r.arg2) = {}
      BY <2>2
    <3> QED
      BY <2>1, <2>2, <3>1, <3>2, SwappedNamesMatch
  <2>4. \A p, q \in Nat :
           /\ p - 1 \in 0 .. (ArgCount - 1) /\ q - 1 \in 0 .. (ArgCount - 1)
           /\ m(p) = m(q) /\ m(p) # {}
           => p = q
    OBVIOUS
  <2> HIDE DEF a, m
  <2>5. r1.arg1 = r2.arg1 /\ r1.arg2 = r2.arg2
    <3>1. CASE r1.arg1 = r2.arg1
      BY <2>2, <2>3, <2>4, <3>1
    <3>2. CASE r1.arg2 = r2.arg2
      BY <2>2, <2>3, <2>4, <3>2
    <3>3. CASE r1.arg1 = r2.arg2
      <4>1. r1.arg2 = r2.arg1
        BY <2>2, <2>3, <2>4, <3>3
      <4> QED
        BY <2>2, <3>3, <4>1
    <3>4. CASE r1.arg2 = r2.arg1
      <4>1. r1.arg1 = r2.arg2
        BY <2>2, <2>3, <2>4, <3>4
      <4> QED
        BY <2>2, <3>4, <4>1
    <3> QED
      BY <3>1, <3>2, <3>3, <3>4
  <2>6. PICK k, l \in DOMAIN results : r1 = results[k] /\ r2 = results[l] /\ k # l
    BY DEF Reported
  <2>7. Before(Args(r1), Args(r2)) \/ Before(Args(r2), Args(r1))
    <3>1. DOMAIN results \subseteq Nat
      BY DEF CheckInv, TypeOK
    <3>2. k < l \/ l < k
      BY <2>6, <3>1
    <3> QED
      BY <2>6, <3>2 DEF CheckInv, WalkInOrder, InOrder
  <2> QED
    BY <2>2, <2>5, <2>7 DEF Before, Args
<1> QED
  BY <1>1, CheckCorrect, PTL

\* What the rows of two swapped morphemes are like: each fits where the other
\* is, and its confidence there would have stopped a report by names.
LEMMA StatsSwapRows ==
    ASSUME NEW s, NEW rows \in [Position -> [Morpheme -> Weight]],
           NEW a \in Position, NEW b \in Position,
           NEW m1 \in Morpheme, NEW m2 \in Morpheme,
           StatsSwap(s, rows, a, b, m1, m2)
    PROVE  /\ rows[b][m1] \in Nat /\ rows[b][m1] > StatsSwappedFitnessThreshold
           /\ rows[a][m2] \in Nat /\ rows[a][m2] > StatsSwappedFitnessThreshold
           /\ TooConfident(Confidence(rows[b][m1], rows[a][m1]))
           /\ TooConfident(Confidence(rows[a][m2], rows[b][m2]))
<1> DEFINE T == StatsSwappedMorphemeThreshold
           F == StatsSwappedFitnessThreshold
           V == CoverSwappedStatsVettingThreshold
<1>1. /\ Unit \in Nat /\ 0 < Unit
      /\ T \in Nat /\ F \in Nat /\ V \in Nat /\ 0 < F /\ V <= T
  BY ThresholdsAssumption
<1>2. /\ rows[b][m1] \in Weight /\ rows[a][m1] \in Weight
      /\ rows[a][m2] \in Weight /\ rows[b][m2] \in Weight
  OBVIOUS
<1>3. \A w \in Weight : Fit(w) > F => w \in Nat /\ w > F
  BY <1>1 DEF Fit, Weight, NoRow
<1>4. ASSUME NEW w1 \in Nat, w1 > F, NEW w2 \in Weight,
             Confidence(w1, w2) # NoValue,
             ~LessOrEqual(Confidence(w1, w2), Units(T))
      PROVE  TooConfident(Confidence(w1, w2))
  <2> DEFINE n == Confidence(w1, w2).num
             d == Confidence(w1, w2).den
  <2>1. n \in Nat /\ d \in Nat /\ 0 < n
    BY <1>1, <1>4 DEF Confidence, Over, Units, Weight, NoRow
  <2>2. ~IsNaN(Confidence(w1, w2))
    BY <2>1 DEF IsNaN
  <2>3. ~IsNaN(Units(T))
    BY <1>1 DEF IsNaN, Units, Over
  <2>4. Less(Units(T), Confidence(w1, w2))
    BY <1>4, <2>2, <2>3 DEF LessOrEqual
  <2>5. T * d < n * Unit
    BY <2>4 DEF Less, Units, Over
  <2> HIDE DEF n, d, T, V
  <2>6. V * d <= T * d
    BY <1>1, <2>1
  <2>7. V * d < n * Unit
    BY <1>1, <2>1, <2>5, <2>6
  <2> QED
    BY <1>4, <2>7 DEF TooConfident, Less, Units, Over, n, d, V
<1>5. /\ rows[b][m1] \in Nat /\ rows[b][m1] > F
      /\ rows[a][m2] \in Nat /\ rows[a][m2] > F
  BY <1>2, <1>3 DEF StatsSwap, FitEnough
<1> QED
  BY <1>2, <1>4, <1>5 DEF StatsSwap, CommonlySwapped

\* A morpheme that fits elsewhere is not vetted where it is, as the one that
\* fits there leaves too little of that position to it.
LEMMA NotVettedHere ==
    ASSUME NEW fit \in Nat, NEW own \in Nat, NEW rest \in Weight,
           fit > StatsSwappedFitnessThreshold, own > StatsSwappedFitnessThreshold,
           own + Fit(rest) <= Unit
    PROVE  ~TooConfident(Confidence(rest, fit))
<1> DEFINE F == StatsSwappedFitnessThreshold
           V == CoverSwappedStatsVettingThreshold
           U == Unit
<1>1. U \in Nat /\ F \in Nat /\ V \in Nat /\ 0 < U /\ (U - F) * U <= V * F
  BY ThresholdsAssumption
<1>2. fit # NoRow
  BY DEF NoRow
<1>3. CASE rest = NoRow
  BY <1>1, <1>2, <1>3 DEF Confidence, TooConfident, Less, Units, Over
<1>4. CASE rest # NoRow
  <2>1. rest \in Nat /\ Fit(rest) = rest
    BY <1>4 DEF Fit, Weight, NoRow
  <2>2. Confidence(rest, fit) = Over(rest, fit)
    BY <1>2, <1>4 DEF Confidence
  <2>3. rest <= U - F /\ F <= fit
    BY <1>1, <2>1
  <2> HIDE DEF F, V, U
  <2>4. rest * U <= (U - F) * U
    BY <1>1, <2>1, <2>3
  <2>5. V * F <= V * fit
    BY <1>1, <2>3
  <2>6. rest * U <= V * fit
    BY <1>1, <2>1, <2>4, <2>5
  <2>7. ~(V * fit < rest * U)
    BY <1>1, <2>1, <2>6
  <2>8. Less(Units(V), Over(rest, fit)) <=> V * fit < rest * U
    BY DEF Less, Units, Over, U
  <2> QED
    BY <2>2, <2>7, <2>8 DEF TooConfident, V
<1> QED
  BY <1>3, <1>4

\* What is known of a statistics-based report when every query was answered.
LEMMA StatsReportRows ==
    ASSUME CheckInv, ~Faults, SharesOfOne, NEW r \in Reported, r.kind = "stats",
           NEW a, NEW b, a = r.arg1 - 1, b = r.arg2 - 1
    PROVE  /\ a \in Position /\ b \in Position
           /\ stats # NoStats /\ stats \in [Position -> [Morpheme -> Weight]]
           /\ \E m1, m2 \in Morpheme :
                 /\ m1 # m2
                 /\ UniqueArg(site, a, b) = {m1} /\ UniqueArg(site, b, a) = {m2}
                 /\ StatsSwap(site, stats, a, b, m1, m2)
<1>1. 0 <= a /\ a < b /\ b < ArgCount /\ StatsGrounds(a, b)
  BY DEF CheckInv, ReportsGrounded, Grounded
<1>2. a \in Position /\ b \in Position
  <2>1. r.arg1 \in Nat /\ r.arg2 \in Nat
    BY ReportedType DEF CheckInv, ReportType
  <2>2. ArgCount \in Nat /\ ArgCount <= MaxArgs /\ MaxArgs \in Nat
    BY InputsAssumption DEF CheckInv, TypeOK, CallSite, ArgCount
  <2> QED
    BY <1>1, <2>1, <2>2 DEF Position
<1>3. UniqueArg(site, a, b) \subseteq Morpheme /\ UniqueArg(site, b, a) \subseteq Morpheme
  BY ReportedType DEF CheckInv, ReportsGrounded, Grounded, ReportType
<1>4. stats # NoStats /\ stats \in [Position -> [Morpheme -> Weight]]
  BY <1>1 DEF StatsGrounds, CheckInv, TypeOK
<1>5. PICK q \in SwapQueries(site, a, b) : StatsSwap(site, stats, a, b, q[1], q[2])
  <2>1. PICK q \in SwapQueries(site, a, b) :
          \E psi1 \in Confidences(q[1], b, a), psi2 \in Confidences(q[2], a, b),
             fit1 \in Fits(q[1], b), fit2 \in Fits(q[2], a) :
              LooksSwapped(a, b, q[1], q[2], psi1, psi2, fit1, fit2)
    BY <1>1 DEF StatsGrounds
  <2>2. \A m, p, p2 : Confidences(m, p, p2) = {Confidence(stats[p][m], stats[p2][m])}
    BY DEF Confidences, Answers
  <2>3. \A m, p : Fits(m, p) = {Fit(stats[p][m])}
    BY DEF Fits, Answers
  <2> QED
    BY <2>1, <2>2, <2>3 DEF LooksSwapped, StatsSwap
<1>6. q[1] \in UniqueArg(site, a, b) /\ q[2] \in UniqueArg(site, b, a)
  BY <1>5 DEF SwapQueries
<1>7. UniqueArg(site, a, b) \cap UniqueArg(site, b, a) = {}
  BY DEF UniqueArg
<1>8. UniqueArg(site, a, b) = {q[1]} /\ UniqueArg(site, b, a) = {q[2]}
  BY <1>5, <1>6, <1>7 DEF StatsSwap, SameRemainder
<1>9. q[1] \in Morpheme /\ q[2] \in Morpheme /\ q[1] # q[2]
  BY <1>3, <1>6, <1>7
<1> QED
  BY <1>2, <1>4, <1>5, <1>8, <1>9

\* What the vetting withdraws, the statistics-based check does not report: a
\* vetted morpheme is common where it is, and a swapped one is not.
THEOREM HeuristicsAgree == Spec => []NoMixedSignals
<1>1. CheckInv => NoMixedSignals
  <2> SUFFICES ASSUME CheckInv, ~Faults, SharesOfOne, NEW r \in Reported,
                      r.kind = "stats", whichCheck = "All",
                      CoverCandidate(site, r.arg1 - 1, r.arg2 - 1)
               PROVE  FALSE
    BY DEF NoMixedSignals
  <2> DEFINE a == r.arg1 - 1
             b == r.arg2 - 1
  <2>1. VettedAway(site, stats, a, b)
    BY DEF CheckInv, ReportsGrounded, Grounded, RunsCoverCheck
  <2>2. /\ a \in Position /\ b \in Position
        /\ stats # NoStats /\ stats \in [Position -> [Morpheme -> Weight]]
        /\ \E m1, m2 \in Morpheme :
              /\ m1 # m2
              /\ UniqueArg(site, a, b) = {m1} /\ UniqueArg(site, b, a) = {m2}
              /\ StatsSwap(site, stats, a, b, m1, m2)
    BY StatsReportRows
  <2> HIDE DEF a, b
  <2>3. PICK m1 \in Morpheme, m2 \in Morpheme :
              /\ m1 # m2
              /\ UniqueArg(site, a, b) = {m1} /\ UniqueArg(site, b, a) = {m2}
              /\ StatsSwap(site, stats, a, b, m1, m2)
    BY <2>2
  <2>4. /\ stats[b][m1] \in Nat /\ stats[b][m1] > StatsSwappedFitnessThreshold
        /\ stats[a][m2] \in Nat /\ stats[a][m2] > StatsSwappedFitnessThreshold
    BY <2>2, <2>3, StatsSwapRows
  <2>5. stats[b][m1] + Fit(stats[b][m2]) <= Unit /\ stats[a][m2] + Fit(stats[a][m1]) <= Unit
    BY <2>2, <2>3, <2>4 DEF SharesOfOne, Fit, NoRow
  <2>6. stats[a][m1] \in Weight /\ stats[b][m2] \in Weight
    BY <2>2
  <2>7. /\ ~TooConfident(Confidence(stats[a][m1], stats[b][m1]))
        /\ ~TooConfident(Confidence(stats[b][m2], stats[a][m2]))
    BY <2>4, <2>5, <2>6, NotVettedHere
  <2>8. PICK q \in VettingQueries(site, a, b) :
           TooConfident(Confidence(stats[q[2][1]][q[1]], stats[q[2][2]][q[1]]))
    BY <2>1 DEF VettedAway
  <2>9. q = <<m1, <<a, b>>>> \/ q = <<m2, <<b, a>>>>
    BY <2>3, <2>8 DEF VettingQueries
  <2> QED
    BY <2>7, <2>8, <2>9
<1> QED
  BY <1>1, CheckCorrect, PTL

\* Exchanging the two arguments of a report exchanges what sets them apart.
LEMMA FixExchanges ==
    ASSUME CheckInv, NEW r \in Reported, NEW a, NEW b, a = r.arg1 - 1, b = r.arg2 - 1
    PROVE  /\ UniqueArg(SwapFixed(r), a, b) = UniqueArg(site, b, a)
           /\ UniqueArg(SwapFixed(r), b, a) = UniqueArg(site, a, b)
           /\ UniqueParam(SwapFixed(r), a, b) = UniqueParam(site, a, b)
           /\ UniqueParam(SwapFixed(r), b, a) = UniqueParam(site, b, a)
<1> DEFINE f == SwapFixed(r)
<1>1. r.arg1 \in Nat /\ r.arg2 \in Nat
  BY ReportedType DEF CheckInv, ReportType
<1>2. a + 1 = r.arg1 /\ b + 1 = r.arg2
  BY <1>1
<1>3. 0 <= a /\ a < b /\ b < ArgCount
  BY DEF CheckInv, ReportsGrounded, Grounded
<1>4. site.args \in Seq(Seq(Name)) /\ site \in CallSite
  BY DEF CheckInv, TypeOK, CallSite
<1>5. r.arg1 \in DOMAIN site.args /\ r.arg2 \in DOMAIN site.args /\ r.arg1 # r.arg2
  <2>1. DOMAIN site.args = 1 .. ArgCount /\ ArgCount \in Nat
    BY <1>4 DEF ArgCount
  <2> QED
    BY <1>1, <1>2, <1>3, <2>1
<1>6. f.params = site.params
  BY <1>4 DEF SwapFixed, CallSite
<1>7. f.args = [site.args EXCEPT ![r.arg1] = site.args[r.arg2], ![r.arg2] = site.args[r.arg1]]
  BY <1>4 DEF SwapFixed, CallSite
<1>8. f.args[r.arg1] = site.args[r.arg2] /\ f.args[r.arg2] = site.args[r.arg1]
  BY <1>4, <1>5, <1>7
<1> HIDE DEF f
<1>9. ArgMorphemes(f, a) = ArgMorphemes(site, b) /\ ArgMorphemes(f, b) = ArgMorphemes(site, a)
  BY <1>2, <1>8 DEF ArgMorphemes
<1>10. \A p : ParamMorphemes(f, p) = ParamMorphemes(site, p)
  BY <1>6 DEF ParamMorphemes, getParamName
<1> QED
  BY <1>9, <1>10 DEF UniqueArg, UniqueParam, f

\* Following a report silences both heuristics about the pair. After a report by
\* names the parameters' own morphemes are where they belong, and the vetting has
\* found none of the morphemes common where it was, which is what a swap the
\* other way would need. After one by statistics the rows vet the new order.
THEOREM AdviceSilences == Spec => []FixSilences
<1>1. CheckInv => FixSilences
  <2> SUFFICES ASSUME CheckInv, ~Faults, SharesOfOne, NEW r \in Reported
               PROVE  Verdict(SwapFixed(r), whichCheck, stats, r.arg1 - 1, r.arg2 - 1) = "none"
    BY DEF FixSilences
  <2> DEFINE a == r.arg1 - 1
             b == r.arg2 - 1
             f == SwapFixed(r)
  <2>1. /\ UniqueArg(f, a, b) = UniqueArg(site, b, a)
        /\ UniqueArg(f, b, a) = UniqueArg(site, a, b)
        /\ UniqueParam(f, a, b) = UniqueParam(site, a, b)
        /\ UniqueParam(f, b, a) = UniqueParam(site, b, a)
    BY FixExchanges
  <2>2. r.kind \in {"cover", "stats"}
    BY ReportedType DEF CheckInv, ReportType
  <2>3. UniqueArg(site, a, b) \cap UniqueArg(site, b, a) = {}
    BY DEF UniqueArg
  <2>4. a \in Position /\ b \in Position
    <3>1. r.arg1 \in Nat /\ r.arg2 \in Nat
      BY ReportedType DEF CheckInv, ReportType
    <3>2. ArgCount \in Nat /\ ArgCount <= MaxArgs /\ MaxArgs \in Nat
      BY InputsAssumption DEF CheckInv, TypeOK, CallSite, ArgCount
    <3>3. 0 <= a /\ a < b /\ b < ArgCount
      BY DEF CheckInv, ReportsGrounded, Grounded
    <3> QED
      BY <3>1, <3>2, <3>3 DEF Position
  <2>5. UniqueArg(site, a, b) \subseteq Morpheme /\ UniqueArg(site, b, a) \subseteq Morpheme
    BY ReportedType DEF CheckInv, ReportsGrounded, Grounded, ReportType
  <2>6. CASE r.kind = "cover"
    <3>1. NamesSwapped(site, a, b) /\ ~VettedAway(site, stats, a, b)
      BY <2>6 DEF CheckInv, ReportsGrounded, Grounded, CoverGrounds, CoverCandidate
    <3> HIDE DEF a, b, f
    <3>2. ~CoverVerdict(f, whichCheck, stats, a, b)
      <4>1. UniqueParam(site, b, a) # {} /\ UniqueParam(site, b, a) \subseteq UniqueArg(site, a, b)
        BY <3>1, NamesSwappedIff
      <4>2. NamesSwapped(f, a, b) => UniqueParam(f, b, a) \subseteq UniqueArg(f, a, b)
        BY NamesSwappedIff
      <4> QED
        BY <2>1, <2>3, <4>1, <4>2 DEF CoverVerdict, CoverCandidate
    <3>3. ~StatsVerdict(f, whichCheck, stats, a, b)
      <4> SUFFICES ASSUME stats # NoStats, NEW q \in SwapQueries(f, a, b),
                          StatsSwap(f, stats, a, b, q[1], q[2])
                   PROVE  FALSE
        BY DEF StatsVerdict
      <4>1. stats \in [Position -> [Morpheme -> Weight]]
        BY DEF CheckInv, TypeOK
      <4>2. q[1] \in UniqueArg(site, b, a) /\ q[2] \in UniqueArg(site, a, b)
        BY <2>1 DEF SwapQueries
      <4>3. TooConfident(Confidence(stats[b][q[1]], stats[a][q[1]]))
        BY <2>4, <2>5, <4>1, <4>2, StatsSwapRows
      <4>4. <<q[1], <<b, a>>>> \in VettingQueries(site, a, b)
        BY <4>2 DEF VettingQueries
      <4> QED
        BY <3>1, <4>3, <4>4 DEF VettedAway
    <3> QED
      BY <3>2, <3>3 DEF Verdict, a, b, f
  <2>7. CASE r.kind = "stats"
    <3>1. /\ stats # NoStats /\ stats \in [Position -> [Morpheme -> Weight]]
          /\ \E m1, m2 \in Morpheme :
                /\ m1 # m2
                /\ UniqueArg(site, a, b) = {m1} /\ UniqueArg(site, b, a) = {m2}
                /\ StatsSwap(site, stats, a, b, m1, m2)
      BY <2>7, StatsReportRows
    <3> HIDE DEF a, b, f
    <3>2. PICK m1 \in Morpheme, m2 \in Morpheme :
                /\ m1 # m2
                /\ UniqueArg(site, a, b) = {m1} /\ UniqueArg(site, b, a) = {m2}
                /\ StatsSwap(site, stats, a, b, m1, m2)
      BY <3>1
    <3>3. /\ stats[b][m1] \in Nat /\ stats[b][m1] > StatsSwappedFitnessThreshold
          /\ TooConfident(Confidence(stats[a][m2], stats[b][m2]))
      BY <2>4, <3>1, <3>2, StatsSwapRows
    <3>4. ~CoverVerdict(f, whichCheck, stats, a, b)
      <4>1. <<m2, <<a, b>>>> \in VettingQueries(f, a, b)
        BY <2>1, <3>2 DEF VettingQueries
      <4>2. VettedAway(f, stats, a, b)
        BY <3>1, <3>3, <4>1 DEF VettedAway
      <4> QED
        BY <4>2 DEF CoverVerdict
    <3>5. ~StatsVerdict(f, whichCheck, stats, a, b)
      <4> SUFFICES ASSUME NEW q \in SwapQueries(f, a, b),
                          StatsSwap(f, stats, a, b, q[1], q[2])
                   PROVE  FALSE
        BY DEF StatsVerdict
      <4>1. q[1] = m2 /\ q[2] = m1
        BY <2>1, <3>2 DEF SwapQueries
      <4>2. stats[b][m2] \in Nat /\ stats[b][m2] > StatsSwappedFitnessThreshold
        BY <2>4, <3>1, <4>1, StatsSwapRows
      <4>3. stats[b][m1] + stats[b][m2] <= Unit
        BY <2>4, <3>1, <3>2, <3>3, <4>2 DEF SharesOfOne, Fit, NoRow
      <4>4. /\ Unit \in Nat /\ StatsSwappedFitnessThreshold \in Nat
            /\ 2 * StatsSwappedFitnessThreshold >= Unit
        BY ThresholdsAssumption
      <4> QED
        BY <3>3, <4>2, <4>3, <4>4
    <3> QED
      BY <3>4, <3>5 DEF Verdict, a, b, f
  <2> QED
    BY <2>2, <2>6, <2>7
<1> QED
  BY <1>1, CheckCorrect, PTL
=============================================================================
