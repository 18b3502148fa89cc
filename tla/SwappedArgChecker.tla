-------------------------- MODULE SwappedArgChecker --------------------------
(***************************************************************************)
(* Checker::CheckSite: the walk over the pairs of arguments of a call      *)
(* site, with the statistics queries of both heuristics as steps of their  *)
(* own. A query may fail (a busy or damaged database, no memory), and the  *)
(* code takes a failure for the absence of a row.                          *)
(***************************************************************************)
EXTENDS SwapHeuristics, PairwiseCombinations

CONSTANTS
    MaxArgs,       \* bound on the arguments of a call
    Sites,         \* the call sites checked
    Checks,        \* the values of whichCheck they are checked with
    Databases,     \* the rows the database may have for the callee, or NoStats
    Faults         \* whether a query may fail

Position == 0 .. (MaxArgs - 1)

ASSUME InputsAssumption ==
    /\ MaxArgs \in Nat
    /\ Sites \subseteq {s \in CallSite : Len(s.args) <= MaxArgs}
    /\ Checks \subseteq {"All", "CoverBased", "StatsBased"}
    /\ Databases \subseteq [Position -> [Morpheme -> Weight]] \cup {NoStats}
    /\ Faults \in BOOLEAN

VARIABLES
    site, whichCheck,    \* the arguments of CheckSite
    stats,               \* the callee's rows in the database behind Stats
    pc,                  \* "start", "pair", "vet", "stats" or "done"
    pair,                \* pairwiseArgs
    todo,                \* the queries left in the current check of the pair
    statsScore,          \* stats_score of the vetting
    results

inputs == <<site, whichCheck, stats>>
vars == <<inputs, pc, pair, todo, statsScore, results>>

i == pair[1]
j == pair[2]
ArgCount == Len(site.args)

\* What weightForMorphemeAtPos may answer for weight w.
Answers(w) == IF Faults THEN {w, NoRow} ELSE {w}

\* What the confidence and the fit of a morpheme may come to.
Confidences(m, pos, comparedToPos) ==
    {Confidence(w1, w2) :
        w1 \in Answers(stats[pos][m]), w2 \in Answers(stats[comparedToPos][m])}
Fits(m, pos) == {Fit(w) : w \in Answers(stats[pos][m])}

Init ==
    /\ site \in Sites
    /\ whichCheck \in Checks
    /\ stats \in Databases
    /\ pc = "start"
    /\ pair = PairOf(FirstBits)
    /\ todo = {}
    /\ statsScore = NoValue
    /\ results = <<>>

TooFewArguments ==
    /\ pc = "start"
    /\ ArgCount < 2
    /\ pc' = "done"
    /\ UNCHANGED <<inputs, pair, todo, statsScore, results>>

FirstPair ==
    /\ pc = "start"
    /\ ArgCount >= 2
    /\ pc' = "pair"
    /\ UNCHANGED <<inputs, pair, todo, statsScore, results>>

\* A mistake: the second position runs one past the end.
PastTheEnd(p, n) == IF p[2] < n THEN <<p[1], p[2] + 1>> ELSE <<p[1] + 1, p[1] + 2>>

\* The pair after p, and whether there is one.
NextPair(p, n) == PairOf(prev_permutation({p[1], p[2]}, n))
HasNextPair(p, n) == HasPrevious({p[1], p[2]}, n)

\* The end of an iteration of the loop over the pairs.
Continue ==
    /\ IF HasNextPair(pair, ArgCount)
       THEN pc' = "pair" /\ pair' = NextPair(pair, ArgCount)
       ELSE pc' = "done" /\ UNCHANGED pair
    /\ todo' = {}
    /\ statsScore' = NoValue

\* A mistake: whichCheck is not consulted.
AlwaysStats ==
    /\ pc' = "stats"
    /\ todo' = IF stats # NoStats THEN SwapQueries(site, i, j) ELSE {}
    /\ statsScore' = NoValue

\* Go on to the statistics-based check of the pair, if it is to be run.
StartStatsCheck ==
    /\ pc' = "stats"
    /\ todo' = IF whichCheck \in {"All", "StatsBased"} /\ stats # NoStats
               THEN SwapQueries(site, i, j)
               ELSE {}
    /\ statsScore' = NoValue

\* A mistake: positions are reported as they are kept, from zero.
ReportFromZero(kind, score) ==
    results' = Append(results,
        [kind       |-> kind,
         arg1       |-> i,
         arg2       |-> j,
         morphemes1 |-> UniqueArg(site, i, j),
         morphemes2 |-> UniqueArg(site, j, i),
         score      |-> score])

Report(kind, score) ==
    results' = Append(results,
        [kind       |-> kind,
         arg1       |-> i + 1,
         arg2       |-> j + 1,
         morphemes1 |-> UniqueArg(site, i, j),
         morphemes2 |-> UniqueArg(site, j, i),
         score      |-> score])

\* A mistake: the walk ends at a pair it cannot use.
StopAtUnusable ==
    /\ pc = "pair"
    /\ ~Usable(site, i, j)
    /\ pc' = "done"
    /\ UNCHANGED <<inputs, pair, todo, statsScore, results>>

\* A pair without usable morphemes gets neither check.
SkipPair ==
    /\ pc = "pair"
    /\ ~Usable(site, i, j)
    /\ Continue
    /\ UNCHANGED <<inputs, results>>

RunsCoverCheck == whichCheck \in {"All", "CoverBased"}

\* The names alone give no cover-based report.
NamesFit ==
    /\ pc = "pair"
    /\ Usable(site, i, j)
    /\ ~(RunsCoverCheck /\ CoverCandidate(site, i, j))
    /\ StartStatsCheck
    /\ UNCHANGED <<inputs, pair, results>>

\* They do, and the report is vetted if there are statistics.
NamesDoNotFit ==
    /\ pc = "pair"
    /\ Usable(site, i, j)
    /\ RunsCoverCheck /\ CoverCandidate(site, i, j)
    /\ pc' = "vet"
    /\ todo' = IF stats # NoStats THEN VettingQueries(site, i, j) ELSE {}
    /\ UNCHANGED <<inputs, pair, statsScore, results>>

\* One morpheme's confidence is folded into stats_score.
VetMorpheme ==
    /\ pc = "vet"
    /\ \E q \in todo : \E val \in Confidences(q[1], q[2][1], q[2][2]) :
        /\ statsScore' =
              IF val = NoValue THEN statsScore
              ELSE Maximum(IF statsScore = NoValue THEN Units(0) ELSE statsScore, val)
        /\ todo' = todo \ {q}
    /\ UNCHANGED <<inputs, pc, pair, results>>

ReportCover ==
    /\ pc = "vet" /\ todo = {}
    /\ ~TooConfident(statsScore)
    /\ Report("cover", WorstPsi(site, i, j))
    /\ Continue
    /\ UNCHANGED inputs

\* The statistics say the arguments are where they belong; the pair still gets
\* the statistics-based check.
VetAway ==
    /\ pc = "vet" /\ todo = {}
    /\ TooConfident(statsScore)
    /\ StartStatsCheck
    /\ UNCHANGED <<inputs, pair, results>>

\* The tests of checkForStatisticsBasedSwap on one pair of morphemes.
LooksSwapped(a, b, m1, m2, psi1, psi2, fit1, fit2) ==
    /\ CommonlySwapped(psi1, psi2)
    /\ SameRemainder(site, a, b, m1, m2)
    /\ FitEnough(fit1, fit2)

\* The first pair of morphemes to pass gives the report and ends the check.
ReportStats ==
    /\ pc = "stats"
    /\ \E q \in todo :
        \E psi1 \in Confidences(q[1], j, i), psi2 \in Confidences(q[2], i, j),
           fit1 \in Fits(q[1], j), fit2 \in Fits(q[2], i) :
            /\ LooksSwapped(i, j, q[1], q[2], psi1, psi2, fit1, fit2)
            /\ Report("stats", Units(IF fit1 < fit2 THEN fit2 ELSE fit1))
    /\ Continue
    /\ UNCHANGED inputs

\* A mistake: the loop does not go on to the next pair of morphemes.
TryAgain ==
    /\ pc = "stats"
    /\ \E q \in todo :
        \E psi1 \in Confidences(q[1], j, i), psi2 \in Confidences(q[2], i, j),
           fit1 \in Fits(q[1], j), fit2 \in Fits(q[2], i) :
                ~LooksSwapped(i, j, q[1], q[2], psi1, psi2, fit1, fit2)
    /\ UNCHANGED vars

PassOver ==
    /\ pc = "stats"
    /\ \E q \in todo :
        /\ \E psi1 \in Confidences(q[1], j, i), psi2 \in Confidences(q[2], i, j),
              fit1 \in Fits(q[1], j), fit2 \in Fits(q[2], i) :
                ~LooksSwapped(i, j, q[1], q[2], psi1, psi2, fit1, fit2)
        /\ todo' = todo \ {q}
    /\ UNCHANGED <<inputs, pc, pair, statsScore, results>>

NoStatsReport ==
    /\ pc = "stats" /\ todo = {}
    /\ Continue
    /\ UNCHANGED <<inputs, results>>

Next ==
    \/ TooFewArguments \/ FirstPair \/ SkipPair
    \/ NamesFit \/ NamesDoNotFit \/ VetMorpheme \/ ReportCover \/ VetAway
    \/ ReportStats \/ PassOver \/ NoStatsReport

Spec == Init /\ [][Next]_vars

\* CheckSite is called and runs on to its return.
FairSpec == Spec /\ WF_vars(Next)

-----------------------------------------------------------------------------
(* Properties *)

Reported == {results[k] : k \in DOMAIN results}

\* Quotients the check computes with.
IsScore(q) == q \in [num : Nat, den : Nat]

TypeOK ==
    /\ site \in CallSite /\ ArgCount <= MaxArgs
    /\ whichCheck \in {"All", "CoverBased", "StatsBased"}
    /\ stats = NoStats \/ stats \in [Position -> [Morpheme -> Weight]]
    /\ pc \in {"start", "pair", "vet", "stats", "done"}
    /\ pair \in Nat \X Nat
    /\ pc \in {"pair", "vet", "stats"} => i < j /\ j < ArgCount
    /\ pc = "vet" => todo \subseteq VettingQueries(site, i, j)
    /\ pc = "stats" => todo \subseteq SwapQueries(site, i, j)
    /\ pc \notin {"vet", "stats"} => todo = {}
    /\ statsScore = NoValue \/ IsScore(statsScore)
    /\ results \in Seq([kind : {"cover", "stats"}, arg1 : Nat, arg2 : Nat,
                        morphemes1 : SUBSET Morpheme, morphemes2 : SUBSET Morpheme,
                        score : Quotient])

\* What is known of the pair in hand, and of the queries left for it.
PairInHand ==
    /\ pc = "start" => pair = <<0, 1>> /\ results = <<>>
    /\ pc \in {"vet", "stats"} => Usable(site, i, j)
    /\ pc = "vet" => RunsCoverCheck /\ CoverCandidate(site, i, j)
    /\ todo # {} => stats # NoStats
    /\ pc = "stats" /\ todo # {} => whichCheck \in {"All", "StatsBased"}

\* What a report of the pair (a, b) rests on.
CoverGrounds(a, b) ==
    RunsCoverCheck /\ Usable(site, a, b) /\ CoverCandidate(site, a, b)

StatsGrounds(a, b) ==
    /\ whichCheck \in {"All", "StatsBased"} /\ stats # NoStats /\ Usable(site, a, b)
    /\ \E q \in SwapQueries(site, a, b) :
        \E psi1 \in Confidences(q[1], b, a), psi2 \in Confidences(q[2], a, b),
           fit1 \in Fits(q[1], b), fit2 \in Fits(q[2], a) :
            LooksSwapped(a, b, q[1], q[2], psi1, psi2, fit1, fit2)

Grounded(r) ==
    LET a == r.arg1 - 1
        b == r.arg2 - 1
    IN  /\ 0 <= a /\ a < b /\ b < ArgCount
        /\ r.morphemes1 = UniqueArg(site, a, b) /\ r.morphemes2 = UniqueArg(site, b, a)
        /\ r.kind = "cover" => CoverGrounds(a, b)
        /\ r.kind = "stats" => StatsGrounds(a, b)
        /\ ~Faults =>
              /\ r.kind = "cover" => ~VettedAway(site, stats, a, b)
              /\ r.kind = "stats" /\ RunsCoverCheck /\ CoverCandidate(site, a, b) =>
                    VettedAway(site, stats, a, b)

ReportsGrounded == \A r \in Reported : Grounded(r)

\* The reports name existing arguments, counted from one with the smaller
\* first, and come in the order of the pairs, at most one for each pair
\* although two checks look at it.
ResultsInOrder ==
    /\ \A r \in Reported : 1 <= r.arg1 /\ r.arg1 < r.arg2 /\ r.arg2 <= ArgCount
    /\ InOrder(results)

\* The reports are about earlier pairs than the one in hand.
WalkInOrder ==
    /\ InOrder(results)
    /\ pc \in {"pair", "vet", "stats"} =>
          \A r \in Reported : Before(Args(r), <<i + 1, j + 1>>)

RowsConfidence(q) == Confidence(stats[q[2][1]][q[1]], stats[q[2][2]][q[1]])

\* The score of the vetting is too high exactly when that of some morpheme
\* vetted so far is, and a pair is passed on only if its vetting said so.
VettingInv ==
    /\ pc = "vet" \/ statsScore = NoValue
    /\ statsScore = NoValue \/ ~IsNaN(statsScore)
    /\ pc = "vet" /\ stats = NoStats => statsScore = NoValue
    /\ ~Faults =>
          /\ pc = "vet" /\ stats # NoStats =>
                (TooConfident(statsScore) <=>
                    \E q \in VettingQueries(site, i, j) \ todo : TooConfident(RowsConfidence(q)))
          /\ pc = "stats" /\ RunsCoverCheck /\ CoverCandidate(site, i, j) =>
                VettedAway(site, stats, i, j)

\* Every report was made on the grounds its heuristic asks for and says truly
\* which arguments and morphemes it is about, and the walk has not passed over
\* or back to the pair of a report. An inductive invariant.
CheckInv == TypeOK /\ PairInHand /\ VettingInv /\ ReportsGrounded /\ WalkInOrder

\* The site with the two arguments a report is about exchanged.
SwapFixed(r) ==
    [site EXCEPT !.args[r.arg1] = site.args[r.arg2],
                 !.args[r.arg2] = site.args[r.arg1]]

\* The rows of two morphemes at one position are shares of the same total, as
\* the comment on morphemesAndWeightsAtPos says of the database.
SharesOfOne ==
    stats # NoStats =>
        \A p \in Position : \A m1, m2 \in Morpheme :
            m1 # m2 => Fit(stats[p][m1]) + Fit(stats[p][m2]) <= Unit

\* Taking the checker's advice silences it: with the two arguments of a report
\* exchanged, no check reports the pair again, whichever heuristic accused it
\* and whichever is asked afterwards. (A cover-based report has to have been
\* vetted for this, which is why a failed query voids it.)
FixSilences ==
    ~Faults /\ SharesOfOne =>
        \A r \in Reported :
            Verdict(SwapFixed(r), whichCheck, stats, r.arg1 - 1, r.arg2 - 1) = "none"

\* The two heuristics do not contradict each other: a pair whose names look
\* swapped but which the statistics vetted is not then reported by the
\* statistics-based check that the vetted pair still goes through.
NoMixedSignals ==
    ~Faults /\ SharesOfOne =>
        \A r \in Reported :
            r.kind = "stats" /\ whichCheck = "All" =>
                ~CoverCandidate(site, r.arg1 - 1, r.arg2 - 1)

\* A statistics-based report is about arguments that differ in one morpheme
\* each: the remainders it compares are what each argument has and the other
\* has not, so they are equal only when both are empty.
StatsReportsSingletons ==
    \A r \in Reported : r.kind = "stats" =>
        \E m1, m2 \in Morpheme : r.morphemes1 = {m1} /\ r.morphemes2 = {m2}

\* A failed query, which the code reads as a morpheme never seen there and so
\* as full confidence, cannot make up a statistics-based report: every one is
\* also the verdict on the rows themselves.
FaultsNeverAccuse ==
    SharesOfOne =>
        \A r \in Reported : r.kind = "stats" =>
            StatsVerdict(site, whichCheck, stats, r.arg1 - 1, r.arg2 - 1)

\* With parameters that have no morpheme in common, no argument is named by two
\* cover-based reports: it has the morphemes of the one parameter it belongs to.
AccusedOnce ==
    (\A p, q \in 0 .. (ArgCount - 1) :
        p # q => ParamMorphemes(site, p) \cap ParamMorphemes(site, q) = {})
    => \A r1, r2 \in Reported :
           r1.kind = "cover" /\ r2.kind = "cover" /\ r1 # r2 =>
               {r1.arg1, r1.arg2} \cap {r2.arg1, r2.arg2} = {}

\* The walk is past the pair p.
Passed(p) == pc = "done" \/ (pc # "start" /\ Before(p, pair))

\* With every query answered, what has been gone through and not reported did
\* not deserve a report: the pairs of morphemes of the statistics-based check
\* in hand, and the pairs of arguments the walk is past.
NothingMissed ==
    ~Faults =>
        /\ pc = "stats" /\ whichCheck \in {"All", "StatsBased"} /\ stats # NoStats =>
              \A q \in SwapQueries(site, i, j) \ todo :
                  ~StatsSwap(site, stats, i, j, q[1], q[2])
        /\ \A p \in PairsOf(site) :
              Passed(p) /\ Verdict(site, whichCheck, stats, p[1], p[2]) # "none" =>
                  \E r \in Reported : Args(r) = <<p[1] + 1, p[2] + 1>>

\* The invariant that the contract rests on: what is reported is deserved, and
\* what is deserved is reported.
ContractInv == CheckInv /\ NothingMissed

\* The reports without their scores, once CheckSite has returned.
Returned ==
    IF pc = "done"
    THEN [k \in DOMAIN results |->
            [kind |-> results[k].kind, arg1 |-> results[k].arg1, arg2 |-> results[k].arg2,
             morphemes1 |-> results[k].morphemes1, morphemes2 |-> results[k].morphemes2]]
    ELSE <<>>

Contract == INSTANCE CallChecker WITH
    deserved <- Deserved(site, whichCheck, stats),
    returned <- (pc = "done"),
    reports  <- Returned

\* CheckSite keeps the contract its clients rely on: it returns one report for
\* each pair the heuristics accuse on the rows themselves, in the order of the
\* pairs, and nothing else. No pair is skipped by an early continue, none is
\* judged by what another pair's check left behind.
ImplementsContract == Contract!Spec

\* A score is within the documented 0 to 100.
ScoreInRange ==
    SharesOfOne =>
        \A r \in Reported : ~Less(r.score, Units(0)) /\ ~Less(Over(100, 1), r.score)

\* "Filter those out": the filter for numeric suffixes drops a pair only when
\* both parameters or both arguments end in a digit. (The code tests the first
\* name's suffix twice.)
NumericFilterIsNumeric ==
    pc = "stats" /\ RunsCoverCheck /\ BothNamed(site, i, j) /\ NamesSwapped(site, i, j)
        /\ stats = NoStats
    => \/ {getParamName(site, i), getParamName(site, j)} \subseteq DigitSuffix
       \/ {getLastArgName(site, i), getLastArgName(site, j)} \subseteq DigitSuffix

\* "Returns values in the range 0.0f to 1.0": the largest confidence of the
\* vetting is one.
ConfidenceInRange == statsScore = NoValue \/ ~Less(Units(Unit), statsScore)

\* CheckSite returns, whatever the queries answer.
Returns == <>(pc = "done")
=============================================================================
