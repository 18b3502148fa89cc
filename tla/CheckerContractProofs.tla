------------------------ MODULE CheckerContractProofs ------------------------
(***************************************************************************)
(* CheckSite keeps its contract: with every query answered it returns the  *)
(* reports the call deserves, all of them and in order, which is what its  *)
(* clients are modelled with; and the scores are in their range.           *)
(***************************************************************************)
EXTENDS SwappedArgCheckerProofs

-----------------------------------------------------------------------------
(* What a report says of the verdict *)

\* Without faults there is one answer to each query, so the tests on the
\* answers are the test on the rows.
LEMMA LooksSwappedIsSwap ==
    ASSUME ~Faults, NEW a, NEW b, NEW m1, NEW m2,
           NEW psi1 \in Confidences(m1, b, a), NEW psi2 \in Confidences(m2, a, b),
           NEW fit1 \in Fits(m1, b), NEW fit2 \in Fits(m2, a)
    PROVE  LooksSwapped(a, b, m1, m2, psi1, psi2, fit1, fit2) <=>
               StatsSwap(site, stats, a, b, m1, m2)
<1>1. /\ psi1 = Confidence(stats[b][m1], stats[a][m1])
      /\ psi2 = Confidence(stats[a][m2], stats[b][m2])
      /\ fit1 = Fit(stats[b][m1]) /\ fit2 = Fit(stats[a][m2])
  BY DEF Confidences, Fits, Answers
<1> QED
  BY <1>1 DEF LooksSwapped, StatsSwap

\* The three verdicts.
LEMMA VerdictIs ==
    ASSUME NEW p
    PROVE  LET verdict == Verdict(site, whichCheck, stats, p[1], p[2])
               cover == CoverVerdict(site, whichCheck, stats, p[1], p[2])
               swap == StatsVerdict(site, whichCheck, stats, p[1], p[2])
           IN  /\ cover => verdict = "cover"
               /\ ~cover /\ swap => verdict = "stats"
               /\ ~cover /\ ~swap => verdict = "none"
BY DEF Verdict

\* A report of the pair (a, b) on its heuristic's grounds is the verdict on it.
LEMMA GroundedVerdict ==
    ASSUME CheckInv, ~Faults, NEW r \in Reported
    PROVE  /\ <<r.arg1 - 1, r.arg2 - 1>> \in PairsOf(site)
           /\ r.kind # "none"
           /\ Verdict(site, whichCheck, stats, r.arg1 - 1, r.arg2 - 1) = r.kind
           /\ r.arg1 \in Nat /\ r.arg2 \in Nat
           /\ r.morphemes1 = UniqueArg(site, r.arg1 - 1, r.arg2 - 1)
           /\ r.morphemes2 = UniqueArg(site, r.arg2 - 1, r.arg1 - 1)
<1> DEFINE a == r.arg1 - 1
           b == r.arg2 - 1
<1>1. r.arg1 \in Nat /\ r.arg2 \in Nat /\ r.kind \in {"cover", "stats"}
  BY ReportedType DEF CheckInv, ReportType
<1>2. Grounded(r) /\ ArgCount \in Nat /\ ArgCount = Len(site.args)
  BY DEF CheckInv, ReportsGrounded, TypeOK, CallSite, ArgCount
<1>3. /\ 0 <= a /\ a < b /\ b < ArgCount /\ a \in Int /\ b \in Int
      /\ r.morphemes1 = UniqueArg(site, a, b) /\ r.morphemes2 = UniqueArg(site, b, a)
      /\ r.kind = "cover" => CoverGrounds(a, b) /\ ~VettedAway(site, stats, a, b)
      /\ r.kind = "stats" => StatsGrounds(a, b)
      /\ r.kind = "stats" /\ RunsCoverCheck /\ CoverCandidate(site, a, b) =>
            VettedAway(site, stats, a, b)
  BY <1>1, <1>2 DEF Grounded
<1> HIDE DEF a, b
<1>4. <<a, b>> \in PairsOf(site)
  BY <1>2, <1>3 DEF PairsOf
<1>5. CASE r.kind = "cover"
  <2>1. CoverVerdict(site, whichCheck, stats, a, b)
    BY <1>3, <1>5 DEF CoverVerdict, CoverGrounds, RunsCoverCheck
  <2>2. Verdict(site, whichCheck, stats, a, b) = "cover"
    BY <2>1, VerdictIs DEF Verdict
  <2> QED
    BY <1>1, <1>3, <1>4, <1>5, <2>2 DEF a, b
<1>6. CASE r.kind = "stats"
  <2>1. ~CoverVerdict(site, whichCheck, stats, a, b)
    BY <1>3, <1>6 DEF CoverVerdict, RunsCoverCheck
  <2>2. StatsVerdict(site, whichCheck, stats, a, b)
    <3>1. StatsGrounds(a, b)
      BY <1>3, <1>6
    <3>2. PICK q \in SwapQueries(site, a, b) :
            \E psi1 \in Confidences(q[1], b, a), psi2 \in Confidences(q[2], a, b),
               fit1 \in Fits(q[1], b), fit2 \in Fits(q[2], a) :
                LooksSwapped(a, b, q[1], q[2], psi1, psi2, fit1, fit2)
      BY <3>1 DEF StatsGrounds
    <3>3. StatsSwap(site, stats, a, b, q[1], q[2])
      BY <3>2, LooksSwappedIsSwap
    <3> QED
      BY <3>1, <3>3 DEF StatsGrounds, StatsVerdict
  <2>3. Verdict(site, whichCheck, stats, a, b) = "stats"
    BY <2>1, <2>2 DEF Verdict
  <2> QED
    BY <1>1, <1>3, <1>4, <1>6, <2>3 DEF a, b
<1> QED
  BY <1>1, <1>5, <1>6

-----------------------------------------------------------------------------
(* Nothing is missed *)

\* The walk goes from a pair to the next one and leaves none out between them.
LEMMA PassedOn ==
    ASSUME TypeOK, pc \in {"pair", "vet", "stats"}, Continue,
           NEW p \in PairsOf(site), Passed(p)'
    PROVE  Passed(p) \/ p = pair
<1>1. /\ i \in Nat /\ j \in Nat /\ i < j /\ j < ArgCount /\ ArgCount \in Nat
      /\ pair = <<i, j>>
  BY PairInRange DEF TypeOK, i, j
<1>2. PICK a \in Int, b \in Int : p = <<a, b>> /\ 0 <= a /\ a < b /\ b < ArgCount
  BY <1>1 DEF PairsOf, ArgCount
<1>3. Before(p, pair) => Passed(p)
  BY DEF Passed
<1>4. CASE ~HasNextPair(pair, ArgCount)
  <2>1. j + 1 = ArgCount /\ i + 1 = j
    BY <1>1, <1>4, NextPairIs
  <2>2. Before(<<a, b>>, <<i, j>>) \/ <<a, b>> = <<i, j>>
    BY <1>1, <1>2, <2>1 DEF Before
  <2> QED
    BY <1>1, <1>2, <1>3, <2>2
<1>5. CASE HasNextPair(pair, ArgCount)
  <2>1. /\ pair' = IF j + 1 < ArgCount THEN <<i, j + 1>> ELSE <<i + 1, i + 2>>
        /\ pc' = "pair"
    BY <1>5, NextPairIs DEF Continue
  <2>2. Before(p, pair')
    BY <2>1 DEF Passed, Before
  <2>3. Before(<<a, b>>, <<i, j>>) \/ <<a, b>> = <<i, j>>
    <3>1. CASE j + 1 < ArgCount
      <4>1. Before(<<a, b>>, <<i, j + 1>>)
        BY <1>2, <2>1, <2>2, <3>1
      <4> QED
        BY <1>1, <1>2, <4>1 DEF Before
    <3>2. CASE ~(j + 1 < ArgCount)
      <4>1. Before(<<a, b>>, <<i + 1, i + 2>>)
        BY <1>2, <2>1, <2>2, <3>2
      <4> QED
        BY <1>1, <1>2, <3>2, <4>1 DEF Before
    <3> QED
      BY <3>1, <3>2
  <2> QED
    BY <1>1, <1>2, <1>3, <2>3
<1> QED
  BY <1>4, <1>5

\* A step adds to the reports and takes none away; what Report adds is about
\* the pair in hand.
LEMMA ReportedGrows ==
    ASSUME TypeOK, Next
    PROVE  Reported \subseteq Reported'
<1>1. results \in Seq(ReportType)
  BY DEF TypeOK, ReportType
<1> HIDE DEF ReportType
<1>2. ASSUME NEW kind, NEW score, Report(kind, score)
      PROVE  Reported \subseteq Reported'
  BY <1>1, <1>2 DEF Report, Reported
<1>3. CASE results' = results
  BY <1>3 DEF Reported
<1>4. CASE ReportCover \/ ReportStats
  BY <1>2, <1>4 DEF ReportCover, ReportStats
<1> QED
  BY <1>3, <1>4 DEF Next, TooFewArguments, FirstPair, SkipPair, NamesFit,
     NamesDoNotFit, VetMorpheme, VetAway, PassOver, NoStatsReport

\* What Report adds is about the pair in hand.
LEMMA ReportAdds ==
    ASSUME TypeOK, NEW kind, NEW score, Report(kind, score)
    PROVE  \E r \in Reported' : Args(r) = <<i + 1, j + 1>>
<1>1. results \in Seq(ReportType)
  BY DEF TypeOK, ReportType
<1> HIDE DEF ReportType
<1>2. /\ Len(results) + 1 \in DOMAIN results'
      /\ Args(results'[Len(results) + 1]) = <<i + 1, j + 1>>
  BY <1>1 DEF Report, Args
<1> QED
  BY <1>2 DEF Reported

\* No pair of morphemes of a statistics-based check is dropped unless it fails
\* the tests.
LEMMA QueriesStep ==
    ASSUME ContractInv, Next, ~Faults, pc' = "stats",
           whichCheck \in {"All", "StatsBased"}, stats # NoStats,
           NEW q \in SwapQueries(site, i', j') \ todo'
    PROVE  ~StatsSwap(site, stats, i', j', q[1], q[2])
<1>1. TypeOK
  BY DEF ContractInv, CheckInv
<1>2. pc \in {"pair", "vet", "stats"} /\ Continue => pc' # "stats"
  BY <1>1, ContinueType
<1>3. CASE NamesFit \/ VetAway
  <2>1. todo' = SwapQueries(site, i, j) /\ UNCHANGED pair
    BY <1>3 DEF NamesFit, VetAway, StartStatsCheck
  <2> QED
    BY <2>1 DEF i, j
<1>4. CASE PassOver
  <2>1. UNCHANGED pair /\ pc = "stats"
    BY <1>4 DEF PassOver
  <2>2. q \in SwapQueries(site, i, j)
    BY <2>1 DEF i, j
  <2>3. PICK q0 \in todo :
          /\ \E psi1 \in Confidences(q0[1], j, i), psi2 \in Confidences(q0[2], i, j),
                fit1 \in Fits(q0[1], j), fit2 \in Fits(q0[2], i) :
                  ~LooksSwapped(i, j, q0[1], q0[2], psi1, psi2, fit1, fit2)
          /\ todo' = todo \ {q0}
    BY <1>4 DEF PassOver
  <2>4. ~StatsSwap(site, stats, i, j, q0[1], q0[2])
    BY <2>3, LooksSwappedIsSwap
  <2>5. ~StatsSwap(site, stats, i, j, q[1], q[2])
    <3>1. CASE q = q0
      BY <2>4, <3>1
    <3>2. CASE q # q0
      BY <2>1, <2>2, <2>3, <3>2 DEF ContractInv, NothingMissed
    <3> QED
      BY <3>1, <3>2
  <2> QED
    BY <2>1, <2>5 DEF i, j
<1> QED
  BY <1>2, <1>3, <1>4 DEF Next, TooFewArguments, FirstPair, SkipPair, NamesDoNotFit,
     VetMorpheme, ReportCover, ReportStats, NoStatsReport

\* A pair that is left without a report has no verdict against it.
LEMMA LeftUnreported ==
    ASSUME ContractInv, ~Faults, SkipPair \/ NoStatsReport
    PROVE  Verdict(site, whichCheck, stats, i, j) = "none"
<1>1. CheckInv /\ NothingMissed
  BY DEF ContractInv
<1>2. CASE SkipPair
  <2>1. ~Usable(site, i, j)
    BY <1>2 DEF SkipPair
  <2> QED
    BY <2>1 DEF Verdict, CoverVerdict, StatsVerdict
<1>3. CASE NoStatsReport
  <2>1. pc = "stats" /\ todo = {}
    BY <1>3 DEF NoStatsReport
  <2>2. ~CoverVerdict(site, whichCheck, stats, i, j)
    BY <1>1, <2>1 DEF CheckInv, VettingInv, CoverVerdict, RunsCoverCheck
  <2>3. ~StatsVerdict(site, whichCheck, stats, i, j)
    BY <1>1, <2>1 DEF NothingMissed, StatsVerdict
  <2> QED
    BY <2>2, <2>3 DEF Verdict
<1> QED
  BY <1>2, <1>3

\* A pair the walk gets past is reported if there is a verdict on it.
LEMMA PairsStep ==
    ASSUME ContractInv, Next, ~Faults, NEW p \in PairsOf(site), Passed(p)',
           Verdict(site, whichCheck, stats, p[1], p[2]) # "none"
    PROVE  \E r \in Reported' : Args(r) = <<p[1] + 1, p[2] + 1>>
<1>1. TypeOK /\ PairInHand /\ NothingMissed
  BY DEF ContractInv, CheckInv
<1>2. ASSUME Passed(p)
      PROVE  \E r \in Reported' : Args(r) = <<p[1] + 1, p[2] + 1>>
  BY <1>1, <1>2, ReportedGrows DEF NothingMissed
<1>3. CASE TooFewArguments
  <2>1. Len(site.args) < 2
    BY <1>3 DEF TooFewArguments, ArgCount
  <2>2. Len(site.args) \in Nat
    BY <1>1 DEF TypeOK, CallSite
  <2>3. PairsOf(site) = {}
    BY <2>1, <2>2 DEF PairsOf
  <2> QED
    BY <2>3
<1>4. CASE FirstPair
  <2>1. pair' = <<0, 1>> /\ pc' = "pair"
    BY <1>1, <1>4 DEF FirstPair, PairInHand
  <2>2. Before(p, <<0, 1>>)
    BY <2>1 DEF Passed, Before
  <2>3. Len(site.args) \in Nat
    BY <1>1 DEF TypeOK, CallSite
  <2>4. ~Before(p, <<0, 1>>)
    BY <2>3 DEF Before, PairsOf
  <2> QED
    BY <2>2, <2>4
<1>5. CASE NamesFit \/ NamesDoNotFit \/ VetMorpheme \/ VetAway \/ PassOver
  <2>1. UNCHANGED pair /\ pc \in {"pair", "vet", "stats"} /\ pc' \in {"pair", "vet", "stats"}
    BY <1>5 DEF NamesFit, NamesDoNotFit, VetMorpheme, VetAway, PassOver, StartStatsCheck
  <2>2. Passed(p)
    BY <2>1 DEF Passed, Before
  <2> QED
    BY <1>2, <2>2
<1>6. ASSUME pc \in {"pair", "vet", "stats"}, Continue
      PROVE  Passed(p) \/ (p[1] = i /\ p[2] = j)
  BY <1>1, <1>6, PassedOn DEF i, j
<1>7. CASE SkipPair \/ NoStatsReport
  <2>1. pc \in {"pair", "vet", "stats"} /\ Continue
    BY <1>7 DEF SkipPair, NoStatsReport
  <2>2. Verdict(site, whichCheck, stats, i, j) = "none"
    BY <1>7, LeftUnreported
  <2> QED
    BY <1>2, <1>6, <2>1, <2>2
<1>8. CASE ReportCover \/ ReportStats
  <2>1. pc \in {"pair", "vet", "stats"} /\ Continue
    BY <1>8 DEF ReportCover, ReportStats
  <2>2. \E kind, score : Report(kind, score)
    BY <1>8 DEF ReportCover, ReportStats
  <2>3. \E r \in Reported' : Args(r) = <<i + 1, j + 1>>
    BY <1>1, <2>2, ReportAdds
  <2> QED
    BY <1>2, <1>6, <2>1, <2>3
<1> QED
  BY <1>3, <1>4, <1>5, <1>7, <1>8 DEF Next

\* Every step keeps the invariant of the contract.
LEMMA ContractStep ==
    ASSUME ContractInv, [Next]_vars
    PROVE  ContractInv'
<1>1. CheckInv'
  BY CheckStep DEF ContractInv
<1>2. CASE Next
  <2>1. site' = site /\ whichCheck' = whichCheck /\ stats' = stats
    BY InputsKept DEF inputs
  <2> SUFFICES ASSUME ~Faults
               PROVE  NothingMissed'
    BY <1>1 DEF ContractInv, NothingMissed
  <2>2. ASSUME pc' = "stats", whichCheck \in {"All", "StatsBased"}, stats # NoStats
        PROVE  \A q \in SwapQueries(site, i', j') \ todo' :
                   ~StatsSwap(site, stats, i', j', q[1], q[2])
    BY <1>2, <2>2, QueriesStep
  <2>3. ASSUME NEW p \in PairsOf(site), Passed(p)',
               Verdict(site, whichCheck, stats, p[1], p[2]) # "none"
        PROVE  \E r \in Reported' : Args(r) = <<p[1] + 1, p[2] + 1>>
    BY <1>2, <2>3, PairsStep
  <2> QED
    BY <2>1, <2>2, <2>3 DEF NothingMissed
<1>3. CASE UNCHANGED vars
  <2>1. UNCHANGED <<site, whichCheck, stats, pc, pair, todo, statsScore, results>>
    BY <1>3 DEF vars, inputs
  <2> QED
    BY <1>1, <2>1 DEF ContractInv, NothingMissed, Passed, Before, Reported, i, j
<1> QED
  BY <1>2, <1>3

\* Throughout a check, what is reported is deserved and what is deserved has
\* been reported, as far as the walk has come.
THEOREM ContractInvariant == Spec => []ContractInv
<1>1. Init => ContractInv
  <2> SUFFICES ASSUME Init PROVE ContractInv
    OBVIOUS
  <2>1. pc = "start"
    BY DEF Init
  <2> QED
    BY <2>1, CheckInit DEF ContractInv, NothingMissed, Passed
<1>2. ContractInv /\ [Next]_vars => ContractInv'
  BY ContractStep
<1> QED
  BY <1>1, <1>2, PTL DEF Spec

-----------------------------------------------------------------------------
(* The contract *)

\* At the return the reports are those of the pairs with a verdict.
LEMMA ReturnedIsDeserved ==
    ASSUME ContractInv, ~Faults, pc = "done"
    PROVE  /\ {Returned[k] : k \in DOMAIN Returned} = Deserved(site, whichCheck, stats)
           /\ InOrder(Returned)
<1> DEFINE strip(r) == [kind |-> r.kind, arg1 |-> r.arg1, arg2 |-> r.arg2,
                        morphemes1 |-> r.morphemes1, morphemes2 |-> r.morphemes2]
           at(r) == <<r.arg1 - 1, r.arg2 - 1>>
           verdict(p) == Verdict(site, whichCheck, stats, p[1], p[2])
           accused == {q \in PairsOf(site) : verdict(q) # "none"}
<1>1. CheckInv /\ NothingMissed
  BY DEF ContractInv
<1>2. Returned = [k \in DOMAIN results |-> strip(results[k])]
  BY DEF Returned
<1>3. {Returned[k] : k \in DOMAIN Returned} = {strip(r) : r \in Reported}
  BY <1>2 DEF Reported
<1>4. Deserved(site, whichCheck, stats) = {ReportOn(site, verdict(p), p) : p \in accused}
  BY DEF Deserved
<1>5. ASSUME NEW r \in Reported
      PROVE  /\ at(r) \in accused
             /\ strip(r) = ReportOn(site, verdict(at(r)), at(r))
  <2>1. /\ at(r) \in PairsOf(site) /\ r.kind # "none" /\ verdict(at(r)) = r.kind
        /\ r.arg1 \in Nat /\ r.arg2 \in Nat
        /\ r.morphemes1 = UniqueArg(site, r.arg1 - 1, r.arg2 - 1)
        /\ r.morphemes2 = UniqueArg(site, r.arg2 - 1, r.arg1 - 1)
    BY <1>1, GroundedVerdict
  <2>2. r.arg1 - 1 + 1 = r.arg1 /\ r.arg2 - 1 + 1 = r.arg2
    BY <2>1
  <2>3. ReportOn(site, r.kind, at(r)) = strip(r)
    BY <2>1, <2>2 DEF ReportOn
  <2> QED
    BY <2>1, <2>3
<1>6. ASSUME NEW p \in accused
      PROVE  \E r \in Reported : at(r) = p
  <2>1. PICK r \in Reported : Args(r) = <<p[1] + 1, p[2] + 1>>
    BY <1>1, <1>6 DEF NothingMissed, Passed
  <2>2. r.arg1 = p[1] + 1 /\ r.arg2 = p[2] + 1
    BY <2>1 DEF Args
  <2>3. PICK a \in Int, b \in Int : p = <<a, b>>
    BY <1>6, <1>1 DEF PairsOf, CheckInv, TypeOK, CallSite
  <2>4. at(r) = p
    BY <2>2, <2>3
  <2> QED
    BY <2>4
<1>7. {strip(r) : r \in Reported} = {ReportOn(site, verdict(p), p) : p \in accused}
  <2> HIDE DEF strip, at, verdict, accused
  <2> QED
    BY <1>5, <1>6
<1>8. InOrder(Returned)
  <2>1. InOrder(results)
    BY <1>1 DEF CheckInv, WalkInOrder
  <2>2. DOMAIN Returned = DOMAIN results
    BY <1>2
  <2>3. \A k \in DOMAIN results : Args(Returned[k]) = Args(results[k])
    BY <1>2 DEF Args
  <2> QED
    BY <2>1, <2>2, <2>3 DEF InOrder
<1> QED
  BY <1>3, <1>4, <1>7, <1>8

\* What has been returned is what is deserved.
Answered ==
    pc = "done" =>
        /\ {Returned[k] : k \in DOMAIN Returned} = Deserved(site, whichCheck, stats)
        /\ InOrder(Returned)

\* With every query answered, CheckSite implements its contract: its steps are
\* stutters until the return, which hands over exactly the reports of the pairs
\* with a verdict, in order.
THEOREM KeepsContract ==
    ASSUME ~Faults
    PROVE  Spec => ImplementsContract
<1>1. Init => Contract!Init
  BY DEF Init, Contract!Init, Returned
<1>2. ASSUME Answered', Next PROVE [Contract!CheckSite]_(Contract!vars)
  <2>1. site' = site /\ whichCheck' = whichCheck /\ stats' = stats
    BY <1>2, InputsKept DEF inputs
  <2>2. pc # "done"
    BY <1>2 DEF Next, TooFewArguments, FirstPair, SkipPair, NamesFit, NamesDoNotFit,
       VetMorpheme, ReportCover, VetAway, ReportStats, PassOver, NoStatsReport
  <2>3. CASE pc' # "done"
    <3>1. Returned = <<>> /\ Returned' = <<>>
      BY <2>2, <2>3 DEF Returned
    <3> QED
      BY <2>1, <2>2, <2>3, <3>1 DEF Contract!vars
  <2>4. CASE pc' = "done"
    <3>1. /\ {Returned'[k] : k \in DOMAIN Returned'} = Deserved(site, whichCheck, stats)'
          /\ InOrder(Returned')
      BY <1>2, <2>4 DEF Answered, InOrder, Before, Args
    <3>2. Deserved(site, whichCheck, stats)' = Deserved(site, whichCheck, stats)
      BY <2>1
    <3> QED
      BY <2>2, <2>4, <3>1, <3>2 DEF Contract!CheckSite, Contract!InOrder, InOrder,
         Contract!Before, Before, Contract!Args, Args
  <2> QED
    BY <2>3, <2>4
<1>3. ASSUME UNCHANGED vars PROVE UNCHANGED Contract!vars
  BY <1>3 DEF vars, inputs, Contract!vars, Returned
<1>4. Answered' /\ [Next]_vars => [Contract!CheckSite]_(Contract!vars)
  BY <1>2, <1>3
<1>5. ContractInv => Answered
  BY ReturnedIsDeserved DEF Answered
<1> QED
  BY <1>1, <1>4, <1>5, ContractInvariant, PTL DEF Spec, ImplementsContract, Contract!Spec

\* With every query answered, and both heuristics asked for, what CheckSite
\* returns is the vector that the models of its clients work with.
ReturnsCheckSite ==
    pc = "done" /\ whichCheck = "All" => Returned = CheckSite(site, stats)

THEOREM ClientsGetTheReports ==
    ASSUME ~Faults
    PROVE  Spec => []ReturnsCheckSite
<1>1. ContractInv => ReturnsCheckSite
  <2> SUFFICES ASSUME ContractInv, pc = "done", whichCheck = "All"
               PROVE  Returned = CheckSite(site, stats)
    BY DEF ReturnsCheckSite
  <2> DEFINE D == Deserved(site, "All", stats)
             n == Len(results)
  <2>1. /\ {Returned[k] : k \in DOMAIN Returned} = D
        /\ InOrder(Returned)
    BY ReturnedIsDeserved
  <2>2. n \in Nat /\ DOMAIN results = 1 .. n /\ Len(site.args) \in Nat
    BY DEF ContractInv, CheckInv, TypeOK, CallSite
  <2>3. ReportSet(D)
    BY <2>2, DeservedReports
  <2>4. Returned = [k \in 1 .. n |-> Returned[k]]
    BY <2>2 DEF Returned
  <2>5. Returned \in [1 .. n -> D]
    BY <2>1, <2>4
  <2>6. Returned = Ordered(D)
    <3> HIDE DEF D, n
    <3> QED
      BY <2>1, <2>2, <2>3, <2>5, OrderedIsUnique
  <2> QED
    BY <2>6 DEF CheckSite
<1> QED
  BY <1>1, ContractInvariant, PTL

-----------------------------------------------------------------------------
(* The scores of the reports *)

InRange(score) == ~Less(score, Units(0)) /\ ~Less(Over(100, 1), score)

\* A pair that the cover-based check reports matches exactly when exchanged and
\* not at all in place, so its score is the best there is.
LEMMA CoverScore ==
    ASSUME NEW s, NEW a, NEW b, NamesSwapped(s, a, b)
    PROVE  InRange(WorstPsi(s, a, b))
<1>1. Unit \in Nat /\ 0 < Unit
  BY ThresholdsAssumption
<1>2. /\ UniqueParam(s, a, b) # {} /\ UniqueParam(s, b, a) # {}
      /\ UniqueParam(s, b, a) \subseteq UniqueArg(s, a, b)
      /\ UniqueParam(s, a, b) \subseteq UniqueArg(s, b, a)
  BY NamesSwappedIff
<1>3. /\ UniqueParam(s, a, b) \cap UniqueArg(s, a, b) = {}
      /\ UniqueParam(s, b, a) \cap UniqueArg(s, b, a) = {}
  BY <1>2 DEF UniqueArg
<1>4. /\ InPlace(s, a, b) = 0 /\ InPlace(s, b, a) = 0
      /\ Exchanged(s, a, b) = Unit /\ Exchanged(s, b, a) = Unit
  BY <1>2, <1>3, MatchValue DEF InPlace, Exchanged
<1>5. WorstPsi(s, a, b) = [num |-> 100 * Unit, den |-> Unit]
  BY <1>1, <1>4 DEF WorstPsi, Over, Minimum
<1>6. 0 <= (100 * Unit) * Unit
  BY <1>1
<1> QED
  BY <1>1, <1>5, <1>6 DEF InRange, Less, Units, Over

\* With the rows of a position shares of one, neither of two morphemes fits by
\* more than one.
LEMMA FitAtMostOne ==
    ASSUME TypeOK, SharesOfOne, stats # NoStats, NEW p \in Position,
           NEW m \in Morpheme, NEW other \in Morpheme, m # other, NEW fit \in Fits(m, p)
    PROVE  fit \in 0 .. Unit
<1>1. Unit \in Nat
  BY ThresholdsAssumption
<1>2. stats[p][m] \in Weight /\ stats[p][other] \in Weight
  BY DEF TypeOK
<1>3. Fit(stats[p][m]) \in Nat /\ Fit(stats[p][other]) \in Nat
  BY <1>2 DEF Fit, Weight, NoRow
<1>4. Fit(stats[p][m]) + Fit(stats[p][other]) <= Unit
  BY DEF SharesOfOne
<1>5. fit = Fit(stats[p][m]) \/ fit = 0
  BY AnswerIs DEF Fits, Fit
<1> QED
  BY <1>1, <1>3, <1>4, <1>5

LEMMA StatsScore ==
    ASSUME NEW fit \in 0 .. Unit
    PROVE  InRange(Units(fit))
<1>1. Unit \in Nat /\ 0 < Unit
  BY ThresholdsAssumption
<1>2. 0 <= fit * Unit
  BY <1>1
<1> QED
  BY <1>1, <1>2 DEF InRange, Less, Units, Over

\* A report with a score in range keeps all of them in range.
LEMMA ReportInRange ==
    ASSUME TypeOK, \A r \in Reported : InRange(r.score),
           NEW kind, NEW score, Report(kind, score), InRange(score)
    PROVE  \A r \in Reported' : InRange(r.score)
<1> DEFINE new == [kind |-> kind, arg1 |-> i + 1, arg2 |-> j + 1,
                   morphemes1 |-> UniqueArg(site, i, j),
                   morphemes2 |-> UniqueArg(site, j, i), score |-> score]
<1>1. new.score = score /\ results' = Append(results, new)
  BY DEF Report
<1> HIDE DEF new
<1>2. results \in Seq(ReportType)
  BY DEF TypeOK, ReportType
<1> HIDE DEF ReportType
<1>3. /\ DOMAIN results' = 1 .. (Len(results) + 1) /\ DOMAIN results = 1 .. Len(results)
      /\ Len(results) \in Nat
      /\ \A k \in 1 .. Len(results) : results'[k] = results[k]
      /\ results'[Len(results) + 1] = new
  BY <1>1, <1>2
<1>4. Reported' = Reported \cup {new}
  BY <1>3 DEF Reported
<1> QED
  BY <1>1, <1>4

LEMMA ScoreStep ==
    ASSUME CheckInv, SharesOfOne, \A r \in Reported : InRange(r.score), Next
    PROVE  \A r \in Reported' : InRange(r.score)
<1>1. TypeOK /\ PairInHand
  BY DEF CheckInv
<1>2. CASE results' = results
  BY <1>2 DEF Reported
<1>3. CASE ReportCover
  <2>1. pc = "vet" /\ Report("cover", WorstPsi(site, i, j))
    BY <1>3 DEF ReportCover
  <2>2. InRange(WorstPsi(site, i, j))
    BY <1>1, <2>1, CoverScore DEF PairInHand, CoverCandidate
  <2> QED
    BY <1>1, <2>1, <2>2, ReportInRange
<1>4. CASE ReportStats
  <2>1. PICK q \in todo : \E fit1 \in Fits(q[1], j), fit2 \in Fits(q[2], i) :
          Report("stats", Units(IF fit1 < fit2 THEN fit2 ELSE fit1))
    BY <1>4 DEF ReportStats
  <2>2. pc = "stats" /\ stats # NoStats /\ q \in SwapQueries(site, i, j)
    BY <1>1, <1>4, <2>1 DEF ReportStats, PairInHand, TypeOK
  <2>3. /\ i \in Position /\ j \in Position
        /\ q[1] \in Morpheme /\ q[2] \in Morpheme /\ q[1] # q[2]
    BY <1>1, <2>2, PairInRange DEF SwapQueries, UniqueArg
  <2>4. PICK fit1 \in Fits(q[1], j), fit2 \in Fits(q[2], i) :
          Report("stats", Units(IF fit1 < fit2 THEN fit2 ELSE fit1))
    BY <2>1
  <2>5. fit1 \in 0 .. Unit
    BY <1>1, <2>2, <2>3, FitAtMostOne
  <2>6. fit2 \in 0 .. Unit
    BY <1>1, <2>2, <2>3, FitAtMostOne
  <2>7. InRange(Units(IF fit1 < fit2 THEN fit2 ELSE fit1))
    BY <2>5, <2>6, StatsScore
  <2> QED
    BY <1>1, <2>4, <2>7, ReportInRange
<1> QED
  BY <1>2, <1>3, <1>4 DEF Next, TooFewArguments, FirstPair, SkipPair, NamesFit,
     NamesDoNotFit, VetMorpheme, VetAway, PassOver, NoStatsReport

\* Every report has a score from 0 to 100, whichever heuristic made it and
\* whichever queries failed, when the rows of a position add up to no more than
\* one for any two morphemes.
THEOREM ScoresInRange == Spec => []ScoreInRange
<1> DEFINE SInv == CheckInv /\ ScoreInRange
<1>1. Init => SInv
  <2> SUFFICES ASSUME Init PROVE SInv
    OBVIOUS
  <2>1. CheckInv /\ results = <<>>
    BY CheckInit DEF Init
  <2> QED
    BY <2>1 DEF ScoreInRange, Reported
<1>2. SInv /\ [Next]_vars => SInv'
  <2> SUFFICES ASSUME SInv, [Next]_vars
               PROVE  SInv'
    OBVIOUS
  <2>1. CheckInv'
    BY CheckStep
  <2>2. SharesOfOne <=> SharesOfOne'
    BY InputsKept DEF SharesOfOne, inputs
  <2>3. CASE Next
    <3>1. SharesOfOne => \A r \in Reported' : InRange(r.score)
      BY <2>3, ScoreStep DEF ScoreInRange, InRange
    <3> QED
      BY <2>1, <2>2, <3>1 DEF ScoreInRange, InRange
  <2>4. CASE UNCHANGED vars
    <3>1. results' = results
      BY <2>4 DEF vars
    <3> QED
      BY <2>1, <2>2, <3>1 DEF ScoreInRange, Reported
  <2> QED
    BY <2>3, <2>4
<1>3. Spec => []SInv
  BY <1>1, <1>2, PTL DEF Spec
<1> QED
  BY <1>3, PTL
=============================================================================
