--------------------------- MODULE SwapHeuristics ---------------------------
(***************************************************************************)
(* The two heuristics of swapped_arg::Checker, as operators on a call site *)
(* and on the rows of the statistics database for its callee.              *)
(*                                                                         *)
(* A name is known by what the checker observes of it: its morphemes       *)
(* (IdentifierSplitter::split), whether its last character is a digit, and *)
(* what is left without that character. Weights and thresholds are whole   *)
(* multiples of 1/Unit. A float quotient is a pair num/den that is never   *)
(* divided out, so x/0 and 0/0 behave as in IEEE arithmetic.               *)
(***************************************************************************)
EXTENDS Integers, Sequences, FiniteSets

CONSTANTS
    Name, EmptyName,
    Morpheme,
    Split,         \* the morphemes of a name
    Stem,          \* a name without its last character, if it has one
    DigitSuffix,   \* the names whose last character is a digit
    Unit,          \* the integer that stands for 1.0f
    \* CheckerConfiguration
    ExistingMorphemeMatchMax,
    SwappedMorphemeMatchMin,
    StatsSwappedMorphemeThreshold,
    StatsSwappedFitnessThreshold,
    CoverSwappedStatsVettingThreshold

ASSUME NamesAssumption ==
    /\ EmptyName \in Name
    /\ Split \in [Name -> SUBSET Morpheme]
    /\ \A n \in Name : IsFiniteSet(Split[n])
    /\ Split[EmptyName] = {}
    /\ DOMAIN Stem = Name
    /\ DigitSuffix \subseteq Name \ {EmptyName}

\* The defaults of CheckerConfiguration, which no client changes, satisfy it:
\* an exact match counts as one and a mismatch as none, a fit is more than
\* half, vetting is no laxer than the statistics check, and a morpheme that
\* may have at most what a fit leaves over is not more common there.
ASSUME ThresholdsAssumption ==
    /\ Unit \in Nat \ {0}
    /\ ExistingMorphemeMatchMax \in 0 .. (Unit - 1)
    /\ SwappedMorphemeMatchMin \in 1 .. Unit
    /\ StatsSwappedMorphemeThreshold \in 1 .. Unit
    /\ StatsSwappedFitnessThreshold \in 1 .. Unit
    /\ CoverSwappedStatsVettingThreshold \in 1 .. StatsSwappedMorphemeThreshold
    /\ 2 * StatsSwappedFitnessThreshold >= Unit
    /\ (Unit - StatsSwappedFitnessThreshold) * Unit
          <= CoverSwappedStatsVettingThreshold * StatsSwappedFitnessThreshold

-----------------------------------------------------------------------------
(* Call sites: the names of each positional argument, and the names of the *)
(* parameters (<<>> when paramNames is not engaged). Positions are 0-based. *)

CallSite == [args : Seq(Seq(Name)), params : Seq(Name)]

\* CheckSite treats a missing parameter name and an empty one alike.
getParamName(site, pos) ==
    IF pos < Len(site.params) THEN site.params[pos + 1] ELSE EmptyName

getLastArgName(site, pos) ==
    LET names == site.args[pos + 1] IN names[Len(names)]

ParamMorphemes(site, pos) == Split[getParamName(site, pos)]

ArgMorphemes(site, pos) ==
    UNION {Split[site.args[pos + 1][k]] : k \in DOMAIN site.args[pos + 1]}

\* The morphemes of the argument at i that the one at j does not have.
UniqueArg(site, i, j) == ArgMorphemes(site, i) \ ArgMorphemes(site, j)
UniqueParam(site, i, j) == ParamMorphemes(site, i) \ ParamMorphemes(site, j)

BothNamed(site, i, j) ==
    getParamName(site, i) # EmptyName /\ getParamName(site, j) # EmptyName

\* The pair is worth checking: both arguments have morphemes, and so have both
\* parameters when both are named.
Usable(site, i, j) ==
    /\ ArgMorphemes(site, i) # {}
    /\ ArgMorphemes(site, j) # {}
    /\ BothNamed(site, i, j) =>
          ParamMorphemes(site, i) # {} /\ ParamMorphemes(site, j) # {}

-----------------------------------------------------------------------------
(* Quotients *)

Quotient == [num : Int, den : Int]
NoValue == [num |-> -1, den |-> 1]             \* std::nullopt
Over(n, d) == [num |-> n, den |-> d]
Units(n) == Over(n, Unit)

IsNaN(q) == q.num = 0 /\ q.den = 0
Less(q, r) == q.num * r.den < r.num * q.den    \* q < r; false if one is NaN
LessOrEqual(q, r) == ~IsNaN(q) /\ ~IsNaN(r) /\ ~Less(r, q)
Maximum(q, r) == IF Less(q, r) THEN r ELSE q   \* std::max(q, r)
Minimum(q, r) == IF Less(r, q) THEN r ELSE q   \* std::min(q, r)

-----------------------------------------------------------------------------
(* The cover-based check: would the names match if they were exchanged? *)

anyAreSynonyms(m, potentialSynonyms) == IF m \in potentialSynonyms THEN Unit ELSE 0

\* A mistake: the biases are confused.
WrongBias(arg, param, bias) ==
    LET vals == {anyAreSynonyms(m, arg) : m \in param}
    IN  CHOOSE v \in vals :
            \A w \in vals : IF bias = "Optimistic" THEN v <= w ELSE w <= v

\* The extreme over the parameter's morphemes: the best match when the bias
\* is optimistic, the worst when it is pessimistic.
morphemesMatch(arg, param, bias) ==
    LET vals == {anyAreSynonyms(m, arg) : m \in param}
    IN  CHOOSE v \in vals :
            \A w \in vals : IF bias = "Optimistic" THEN w <= v ELSE v <= w

\* A mistake: only the arguments are compared with each other.
ArgSizesOnly(site, i, j) ==
    Cardinality(ArgMorphemes(site, i)) = Cardinality(ArgMorphemes(site, j))

SameSizes(site, i, j) ==
    LET size == Cardinality(ArgMorphemes(site, i))
    IN  /\ size = Cardinality(ArgMorphemes(site, j))
        /\ size = Cardinality(ParamMorphemes(site, i))
        /\ size = Cardinality(ParamMorphemes(site, j))

\* How well the argument at i matches the parameter at i (at best) and the
\* parameter at j (at worst), going by the morphemes that set i and j apart.
InPlace(site, i, j) ==
    morphemesMatch(UniqueArg(site, i, j), UniqueParam(site, i, j), "Optimistic")
Exchanged(site, i, j) ==
    morphemesMatch(UniqueArg(site, i, j), UniqueParam(site, j, i), "Pessimistic")

NamesSwapped(site, i, j) ==
    /\ SameSizes(site, i, j)
    /\ UniqueParam(site, i, j) # {} /\ UniqueParam(site, j, i) # {}
    /\ UniqueArg(site, i, j) # {} /\ UniqueArg(site, j, i) # {}
    /\ InPlace(site, i, j) <= ExistingMorphemeMatchMax
    /\ InPlace(site, j, i) <= ExistingMorphemeMatchMax
    /\ Exchanged(site, i, j) >= SwappedMorphemeMatchMin
    /\ Exchanged(site, j, i) >= SwappedMorphemeMatchMin

\* Both suffixes the lambda tests are taken from its first argument.
suffixCheck(one, two) == one \in DigitSuffix /\ Stem[one] = Stem[two]

NumericSuffixes(site, i, j) ==
    \/ suffixCheck(getParamName(site, i), getParamName(site, j))
    \/ suffixCheck(getLastArgName(site, i), getLastArgName(site, j))

\* What checkForCoverBasedSwap would report without statistics.
CoverCandidate(site, i, j) ==
    /\ BothNamed(site, i, j)
    /\ NamesSwapped(site, i, j)
    /\ ~NumericSuffixes(site, i, j)

\* A mistake: nothing keeps the divisor away from zero.
UnguardedPsi(site, i, j) ==
    LET psi(a, b) == Over(Exchanged(site, a, b), InPlace(site, b, a))
    IN  Minimum(psi(i, j), psi(j, i))

\* The score of its report.
WorstPsi(site, i, j) ==
    LET psi(a, b) == Over(100 * Exchanged(site, a, b), 100 * InPlace(site, b, a) + Unit)
    IN  Minimum(psi(i, j), psi(j, i))

-----------------------------------------------------------------------------
(* Statistics: the weight of each morpheme at each position of the callee, *)
(* NoRow where the database has none.                                      *)

NoRow == -1
Weight == Nat \cup {NoRow}
NoStats == <<>>                  \* no database: Stats is a null pointer

\* morphemeConfidenceAtPosition, given what its two queries answered.
Confidence(pos1, pos2) ==
    CASE pos1 # NoRow /\ pos2 # NoRow -> Over(pos1, pos2)
      [] pos1 # NoRow /\ pos2 = NoRow -> Units(Unit)
      [] pos1 = NoRow /\ pos2 # NoRow -> Units(0)
      [] OTHER -> NoValue

\* fit, given what its query answered for the morpheme: similarity() is
\* equality, so the sum has the morpheme's own weight and nothing else. (The table
\* has one row at most for a function, position and morpheme.)
Fit(weight) == IF weight = NoRow THEN 0 ELSE weight

\* A mistake: the positions are those of the statistics-based check.
PositionsExchanged(site, i, j) ==
    (UniqueArg(site, i, j) \X {<<j, i>>}) \cup (UniqueArg(site, j, i) \X {<<i, j>>})

\* What vetting looks up: is each argument's own morpheme more common at the
\* position it is in than at the other one?
VettingQueries(site, i, j) ==
    (UniqueArg(site, i, j) \X {<<i, j>>}) \cup (UniqueArg(site, j, i) \X {<<j, i>>})

\* The pairs of morphemes checkForStatisticsBasedSwap goes through.
SwapQueries(site, i, j) == UniqueArg(site, i, j) \X UniqueArg(site, j, i)

TooConfident(score) ==
    score # NoValue /\ Less(Units(CoverSwappedStatsVettingThreshold), score)

\* Both morphemes are more common at the other's position.
CommonlySwapped(psi1, psi2) ==
    /\ psi1 # NoValue /\ psi2 # NoValue
    /\ ~LessOrEqual(psi1, Units(StatsSwappedMorphemeThreshold))
    /\ ~LessOrEqual(psi2, Units(StatsSwappedMorphemeThreshold))

\* A mistake: the remainders are not compared.
AnyRemainder(site, i, j, m1, m2) == TRUE

SameRemainder(site, i, j, m1, m2) ==
    UniqueArg(site, i, j) \ {m1} = UniqueArg(site, j, i) \ {m2}

\* Mistakes: one good fit is enough; the fit is not tested.
EitherFits(fit1, fit2) ==
    fit1 > StatsSwappedFitnessThreshold \/ fit2 > StatsSwappedFitnessThreshold
AnyFit(fit1, fit2) == TRUE

FitEnough(fit1, fit2) ==
    fit1 > StatsSwappedFitnessThreshold /\ fit2 > StatsSwappedFitnessThreshold

-----------------------------------------------------------------------------
(* The verdict on one pair when every query is answered *)

VettedAway(site, stats, i, j) ==
    /\ stats # NoStats
    /\ \E q \in VettingQueries(site, i, j) :
          TooConfident(Confidence(stats[q[2][1]][q[1]], stats[q[2][2]][q[1]]))

\* m1 (of the argument at i) and m2 (of the one at j) are swapped.
StatsSwap(site, stats, i, j, m1, m2) ==
    /\ CommonlySwapped(Confidence(stats[j][m1], stats[i][m1]),
                       Confidence(stats[i][m2], stats[j][m2]))
    /\ SameRemainder(site, i, j, m1, m2)
    /\ FitEnough(Fit(stats[j][m1]), Fit(stats[i][m2]))

CoverVerdict(site, whichCheck, stats, i, j) ==
    /\ whichCheck \in {"All", "CoverBased"}
    /\ Usable(site, i, j)
    /\ CoverCandidate(site, i, j)
    /\ ~VettedAway(site, stats, i, j)

StatsVerdict(site, whichCheck, stats, i, j) ==
    /\ whichCheck \in {"All", "StatsBased"}
    /\ stats # NoStats
    /\ Usable(site, i, j)
    /\ \E q \in SwapQueries(site, i, j) : StatsSwap(site, stats, i, j, q[1], q[2])

Verdict(site, whichCheck, stats, i, j) ==
    CASE CoverVerdict(site, whichCheck, stats, i, j) -> "cover"
      [] ~CoverVerdict(site, whichCheck, stats, i, j)
           /\ StatsVerdict(site, whichCheck, stats, i, j) -> "stats"
      [] OTHER -> "none"

-----------------------------------------------------------------------------
(* The reports on a call when every query is answered *)

PairsOf(site) ==
    {p \in (0 .. (Len(site.args) - 1)) \X (0 .. (Len(site.args) - 1)) : p[1] < p[2]}

\* A Result, without its score: positions count from one.
ReportOn(site, kind, p) ==
    [kind       |-> kind,
     arg1       |-> p[1] + 1,
     arg2       |-> p[2] + 1,
     morphemes1 |-> UniqueArg(site, p[1], p[2]),
     morphemes2 |-> UniqueArg(site, p[2], p[1])]

\* One for each pair with a verdict.
Deserved(site, whichCheck, stats) ==
    LET verdict(p) == Verdict(site, whichCheck, stats, p[1], p[2])
    IN  {ReportOn(site, verdict(p), p) : p \in {q \in PairsOf(site) : verdict(q) # "none"}}
=============================================================================
