# A TLA+ model of swap-detector

swap-detector looks at one call at a time and reports pairs of arguments that
seem to have been exchanged, going by the names at the call, the names of the
parameters, and a database of the names used in other calls of the same
function. The library is the class `swapped_arg::Checker`; a Clang plugin, a
Python extension and a test driver are its clients.

In this file `Checker.cpp` is `src/SwappedArgChecker.cpp`, `Checker.hpp` is
`include/SwappedArgChecker.hpp` and `Splitting.cpp` is
`src/IdentifierSplitting.cpp`.

## The system

| component | state it keeps | operations | what makes it correct |
|---|---|---|---|
| `IdentifierSplitter` (`Splitting.cpp`) | during a call: start of the current word, case of the previous character, words so far | `split`, `lower` | exactly the words of the name, lower-cased; never an empty one |
| Cover-based check (`Checker.cpp:222-356`) | during a call: the vetting's running maximum | `checkForCoverBasedSwap` | a report would not survive following it; one accusation per argument |
| Statistics-based check (`Checker.cpp:452-516`) | none | `checkForStatisticsBasedSwap`, `morphemeConfidenceAtPosition`, `fit` | no report the rows do not support; no report against what vetting excused |
| `CheckSite` (`Checker.cpp:539-637`) | during a call: the pair in hand, the results | the walk over pairs | every pair judged once, in order, independently |
| `pairwise_combinations` (`Checker.cpp:197-219`) | a bitset | the next pair | all pairs, once each |
| `Statistics` (`Checker.cpp:28-156`) | a SQLite handle, two prepared statements | construct, `valid`, two queries, destroy | an answer is all of its own query's or none; nothing is left behind |
| Python extension (`python/`) | a `Checker` per object; during a call: the references it owns | import, `Checker()`, deallocation, `check_call` | no result lost, no reference lost or left over, on any error path |
| Clang plugin (`clang_plugin/`) | one lazily made `BugType` for each checker | `checkPreCall`, `exprName`, `reportRuleViolation`; `evalCall`, `reportBug` | arguments named as written; reports at the right arguments |
| Integration driver (`test/integration/`) | options read so far | `main` | checks the call it was told to check |
| SQLite (`src/sqlite3.c`) | vendored | | taken as it is |

How they interact: a client builds a `CallSite` (an argument is a list of
names, the parameter names may be missing) and calls `CheckSite`, which splits
the names into morphemes, walks over the pairs of arguments and gives each pair
to the two checks. Both checks call `Statistics`, whose answers are taken at
face value: a query that fails is "no row". `Checker`'s constructor opens the
database and forgets it when it is not usable; the destructor closes it. The
library starts no threads, keeps nothing between calls but the `Statistics`
object, and writes nothing.

What is hard here is therefore not concurrency. It is the failure of a query
between two others, of one step of opening the database, or of one of the many
calls of the Python API that make a result; two heuristics that see
the same pair one after the other; quotients whose divisor may be zero; the
boundary cases of names (bare underscores, a capital after a boundary, one
name where another was meant); names that come out of macro expansions; and a
loop over a command line that skips by the wrong count. `PROJECT.json` lists
each at its line.

## Modules

| module | models | kind |
|---|---|---|
| `IdentifierWords` | `lower`, and the definition, by position, of the words of a name that `split` is checked against | operators |
| `IdentifierSplitting` | the loop of `split`, one character per step | state machine |
| `SwapHeuristics` | the tests and scores of both heuristics | operators |
| `PairwiseCombinations` | the bitset of `pairwise_combinations` and its permutations | operators |
| `CallChecker` | what `CheckSite` promises its clients | abstract state machine |
| `SwappedArgChecker` | `CheckSite` with the heuristics' queries as steps | state machine, implements `CallChecker` |
| `WeightStore` | what the checker needs of `Statistics` | abstract state machine |
| `Statistics` | `Statistics`, and the part of SQLite's statement life cycle it depends on | state machine, implements `WeightStore` |
| `CheckerClient` | the contract as a function, for the clients | operators |
| `PyObjects` | CPython's objects, references and counts (external) | part of a state machine |
| `PythonExt` | the Python extension | state machine, uses `PyObjects` and `CheckerClient` |
| `ClangAST` | Clang's expressions and source locations (external) | operators |
| `ExprNames` | `exprName`, one decision per step | part of a state machine |
| `ClangPlugin` | both checkers of the plugin | state machine, uses `ExprNames` and `CheckerClient` |
| `IntegrationDriver` | `main` of the integration driver | state machine, uses `CheckerClient` |
| `IdentifierSplittingProofs`, `CheckerClientProofs`, `SwappedArgCheckerProofs`, `CheckerContractProofs`, `StatisticsProofs`, `IntegrationDriverProofs`, `ClangPluginProofs`, `PythonExtProofs` | | theorems |
| `MC...` | | values for TLC |

### IdentifierSplitting

`wordStart`, `curLoc`, `prevCharWasLower` and `ret` are the variables of
`split`; positions count from one. `HardBoundary`, `CamelBoundary` and
`WithinWord` are the three ways through the loop body, `Return` the code after
the loop. Characters are lower-case letters, capitals (`ToLower` gives the
letter), the underscore, and others, which is what `islower`, `isupper` and
`tolower` make of them in any one locale.

### SwapHeuristics

A name is known by what the checker observes of it: `Split` (its morphemes),
`DigitSuffix` (whether its last character is a digit) and `Stem` (the name
without its last character). `NamesSwapped` is the sequence of early returns
of `checkForCoverBasedSwap` down to the suffix filter, `CoverCandidate` includes
the filter, and `WorstPsi` is the score. `Confidence`, `CommonlySwapped`,
`SameRemainder` and `FitEnough` are the tests of the statistics-based check.

Weights and thresholds are multiples of `1/Unit`, so their sums and comparisons
are exact; a quotient is a numerator and a denominator, and `Less` compares
without dividing. With a zero denominator that gives what IEEE arithmetic
gives: `x/0` is above everything and `0/0` compares false with everything. The
rounding of `float` is not modelled. `similarity()` is equality, so a fit is the
morpheme's own weight. That takes the table to have one row at most for a function,
position and morpheme, as `createStatsDB` writes it; its schema
(`Checker.cpp:170-175`) does not enforce it. With several rows `fit` would add
them up, where `weightForMorphemeAtPos` takes the first.

### SwappedArgChecker

`pc` says where `CheckSite` is: before the first pair, at the top of the loop,
in the vetting of a cover-based report, in the statistics-based check, or at
the return. `todo` holds the queries the current check has not made yet. The
code makes them in the order of a sorted set; the model takes them in any
order, so that what it shows does not depend on how morphemes sort.
`statsScore` is `stats_score`, and `results` the vector of that name.
The pair in hand is the one read off the bitset of `pairwise_combinations`
(`PairOf`), and the next one comes of `std::prev_permutation` on that bitset
(`NextPair`). A bitset is the set of its true positions; `prev_permutation`
finds the last descent, exchanges it and reverses the rest, as the library
function is specified to. The code computes all pairs before it walks
over them, which makes no difference to a walk that changes none of them.

With `Faults` the two queries behind a confidence, and the one behind a fit,
may each come back as `NoRow` although there is a row, as
`weightForMorphemeAtPos` does for every return code but `SQLITE_ROW`. The
definitions at the end of `SwapHeuristics` (`Verdict` and those it uses) say in
one expression what one pair deserves when every query is answered, and
`Deserved` collects the reports of a call.

`CallChecker` is the checker as its clients see it: one step from a call to the
reports it deserves, in the order of the pairs. `SwappedArgChecker` implements
it (`ImplementsContract`, with `Deserved` of its inputs for `deserved`), and the
models of the clients use it in place of the walk (`CheckSite` of
`CheckerClient`): a client's run is then the composition of the client with the
checker, by the refinement that is proved for the checker.

### Statistics

`pc` follows the object from the constructor (`open`, `prepare`, `check`)
through the queries (`idle`, `bind`, `step`, `unbind`) to the destructor
(`delete`, `close`). A prepared statement has a status (ready, running,
halted), its parameters, and its place in the table (`next`); rows are known by
their places in a scan of it, and an answer is a set of them. Any of open, prepare,
bind and step may fail; a refused bind leaves the old parameters, a failed one
NULL. From `sqlite3.c` come: binding a statement that has been stepped and not
reset is refused (`vdbeUnbind`), a step after the last row starts over
(`sqlite3Step`), a reset keeps the bindings and clearing them keeps the row, and
`sqlite3_close` refuses while a statement is alive.

`WeightStore` is the contract the checker's model relies on: a question is
answered with the rows that the table has for it, or with nothing.
`SwappedArgChecker` reads the rows directly (`Answers`) rather than
through an instance of `WeightStore`; `Reply` and `Answers` allow the same
outcomes.

### PythonExt

One step is one call of the Python API, and any of them may fail. `PyObjects`
keeps two things side by side: `heap`, the live objects with the counts that the
interpreter keeps, and `refs`, the references that there are, each by a holder
(a container, or a running function), under a key, to an object. A function that
returns moves the references of its `PyOwnedObject`s to `dropped`
(`ReturnFromFrame`, `Unwind`), which is what their destructors do. `DECREF` takes
them from there one by one, and an object whose count reaches zero is freed and
drops what it holds. These steps come before any other, as the code's do: the
chain of deallocations is over before `Py_DECREF` returns. Their order is
left open. Copies and moves of a `PyOwnedObject` on `return` cancel out and are
not steps.

The import (`CreateModule`, `AddType`), `Checker_New` and `Checker_Dealloc`
come before and after `check_call`. That reads its two iterables
(`GetIter`, `NextItem`, `RejectItem`, `CollectItem`, `EndOfIteration`; the code
for arguments and that for parameters is the same and `source` says which
runs), and makes the list (`NewList`). For each report, `nth` of `results`,
`ResultToPy` makes a dict and four entries (`NewDict`, `NewNumber`, `SetItem`,
`ReturnDict`; `field` is the entry in hand) and `MorphemeSetToPy` a set (`NewSet`,
`NewStr`, `AddMorpheme`, `ReturnSet`; `todo` are the morphemes not yet in it,
taken in any order). `ConversionFails` breaks off in either function and at
any of their calls. A result that could not be converted is handed to
`PyList_Append` as a null pointer (`NullAppended`), which refuses it with a
`SystemError`; the exception that said why is replaced, the failure is not lost.
What an iterable gives is written out: names, an item that is no `str` or
has no UTF-8 form, and its end or the exception it raises.

### ExprNames and ClangPlugin

`exprName` goes down an expression: `Strip` is the loop of
`ignoreParenCastsButNotTemplateParms`, `Peel` that over macro expansions, and
`Descend` the recursion into the base of a subscript, an operand or a callee.
The node classes that have a name of their own are one kind, `"own"`: the code
returns the name for each of them and asks for nothing else.

`ClangAST` is external. A call is given as it is written. An expression is the
sequence of its layers from the outside in, each with a form (a parenthesis, a
cast, a subscript, an operator, a call, a use of a macro, and innermost a name or
an expression without one) and a name; `NotWritten` is an argument without an expression. `Parse` gives the
expression that Clang would: the layers below the macros, each token with its
place, the text spelled there, the outermost macro whose body it comes from, if
any, and how many macros pass it on. That is all that
`getSpellingLoc` and `getExpansionLoc` need: a token in a macro's body is spelled
there and expanded where the outermost macro is used; a token passed to a macro
is spelled where it is written. A call
can be direct, passed on by one or two macros, made in the body of a macro, or
an operator, which begins where its first operand does. Some calls have an
argument without an expression, and some are not calls of a function.
`CallsAssumption` says which calls there are.

`ClangPlugin` adds the two checkers around it. `checkPreCall` and `evalCall`
begin a call, `CheckNames` and `InspectName` end its naming, and
`reportRuleViolation` and `reportBug` make a report if the analyzer has a node
for it. `generateNonFatalErrorNode` returns null when it likes: the code
says no more than that it may. `pending` is what the analyzer still holds:
the `BugType` of each report not yet flushed. Messages are left out, and so is
`evalCall`'s answer to the analyzer.

### IntegrationDriver

`i`, `argv` and `opts` are the loop of `main`, one token or option a step.
Tokens are names, numbers and those that begin with `--`. A line that is no
number makes `std::stoull` throw (`"aborted"`). `exit` is the exit status, the
same for the usage as for a swap (`main.cpp:139` and `:144`), and `usage` is whether
the usage has been printed. The run includes the command
lines as `integration_test_runner.py` writes them, the same options in every
other order, and incomplete ones.

## Runs

| run | asks | instance |
|---|---|---|
| `splitting` | is the set returned the set of words, for every name? | every string of up to 6 characters over a letter, its capital, `_` and a digit |
| `cover` | is every pair judged by its names, in order, and does a report go away when it is followed? | no database; 0 to 4 arguments: names with shared morphemes, missing names, bare underscores, arguments of several names, numbered names |
| `stats` | do the heuristics agree with each other and with the rows, and does one pair's check leave anything behind for the next? | 2 arguments, 12 rows for each of 2 positions or no database, all checks; 3 arguments, so 3 pairs, 5 rows for each of 3 positions |
| `faults` | can a failed query make up a report? | 9 rows each that are shares of one, 4 calls, every failure of every query |
| `statistics` | is the database session the store the checker relies on? | 2 callees, 2 positions, 2 morphemes, 4 rows, every failure |
| `python` | does every error path of the extension raise, and keep every count? | 11 argument and 10 parameter iterables: none to two swaps, and every way to fail before, between and after items; every call of the API failing; any sequence of calls |
| `plugin` | is every argument named, and every report made, as the call is written? | 12 ways to write a name and 2 without one, 6 ways to write the call, up to 4 arguments, with and without a database; any sequence of calls, any report refused |
| `driver` | is every option read as it is given, unless it is stepped over, and what does the exit status say? | six lists of names each for arguments and parameters, in all orders of four options, and incomplete command lines |
| `driver_params` | finding, below | the command lines of the test runner |
| `macro_names` | finding, below | a function and an operator called with a macro for the first argument |
| `numeric_suffix` | finding, below | |
| `confidence_range` | finding, below | |

The bounds. Six characters hold two boundaries of any two kinds with words
before, between and after them, and the scan looks at one character and one
flag. A pair is judged from two arguments and two parameters alone, so two
positions show every verdict; three arguments are needed for the walk and for
an argument in two pairs, four for a gap between the pairs of one first
position. Weights are quarters and `Unit` is 4, thresholds 2 (existing match)
and 3 (all others): the only facts about thresholds that matter are
named in `ThresholdsAssumption`, which the defaults of `CheckerConfiguration`
satisfy, and quarters fall on either side of and at each threshold. Rows that do
not add up to one are among those of `stats`; properties that need shares of one
say so (`SharesOfOne`; `Checker.cpp:112-115` says it of the database).
A result of the Python extension is converted on its own, so two of them show
what one leaves for the next. Two macros that pass an argument on are the first
number at which following them once is not enough.
`MaxArgs` bounds the calls of the checker and nothing else is bounded. A run's `CHECK_DEADLOCK
FALSE` is there because the machine stops when the function has returned or the
object is gone.

### Properties

- `SplitIsMorphemes`, `NoEmptyMorpheme`, `MorphemesAreAtomic`,
  `OnlyUnderscoresVanish`: what the rest of the library takes for granted about
  morphemes. `ScanInv` is the invariant their proofs rest on.
- `ImplementsContract`: `CheckSite` returns one report for each pair that
  deserves it by itself, in the pairs' order, and no other. `ResultsInOrder`: at
  most one per pair, even when queries fail. `CheckInv` and `ContractInv`: the
  invariants behind the theorems, as `SessionInv` is of the database session.
- `FixSilences`: with the two arguments of a report exchanged, neither
  heuristic reports that pair. This is where vetting and statistics have to look
  at the right positions.
- `NoMixedSignals`: what vetting excuses, the statistics-based check does
  not report.
- `StatsReportsSingletons`: the comparison of remainders lets only arguments
  that differ in one morpheme through, so statistics never find a swap of
  `barking_dogs` and `hissing_cats`.
- `FaultsNeverAccuse`: the code reads a failed query as the highest confidence.
  No statistics-based report comes of it all the same. (A cover-based one can:
  a failed vetting query cannot excuse.)
- `AccusedOnce`, `ScoreInRange`, `Returns`.
- `IsWeightStore`, `IdleHoldsNothing`, `OnlyValidIsQueried`, `NothingLeaks`,
  `ReleasedInTheEnd` of the database session.
- `RaisesOrReturns`: null comes with an exception and an object without.
  `CountsAreReferences`: at every step, counts are the references there are, and
  nothing refers to a freed object. `LeavesNothingBehind`: between calls only
  what Python holds is alive. `ListIsVerdicts`: a list that is returned is that
  of the whole call that was passed.
- `NamesAsWritten`: an argument has the name it has in the source, or, where the
  call hides its macro, the name of what the macro stands for.
  `ReportsAsWritten`: the reports are those the call as written deserves, and
  mark the arguments they are about, when nothing is hidden (`NothingHidden`).
  `BugTypeOutlivesReports`, `HandlerReturns`.
- `OptionsReadAsGiven`: every option of a well-formed command line is read as it is
  given, but for those that `--params` makes the loop step over (`SteppedOver`),
  which are not read at all. `ExitTellsSwap`: on such a command line the usage is
  the answer exactly if the function or the file is missing, empty or stepped
  over, and the status is a success exactly if it is not and the call has no swap.
  A failure alone does not tell which of the two it was.

`Hidden` says in which calls a macro in an argument is hidden. The comment in
`exprName` has an expression from a macro expansion named after the macro. It is
not when the call begins in the expansion of that macro, as an operator does
whose first operand begins with a macro (unless the call is passed on by a macro as a
whole), or when the call and the argument stand in the body of a macro: the loop
then leaves the argument's own macro as well and what the macro stands for is named.
`NamesAsWritten` says that this happens exactly there; that it departs from the
comment is the finding `macro_names`.

### Fairness

`split` and `CheckSite` are functions that run to their return once called: weak
fairness of `Next`. For `Statistics` a call under way goes on (weak fairness
of the constructor's steps, of a query's and of the destructor's); nothing
makes a client ask, or destroy the object. A handler of the plugin runs to its
return (weak fairness of `Handle`); nothing makes the analyzer find a call.

### Findings

- `numeric_suffix` (`Checker.cpp:284`): the lambda takes both suffixes from its
  first argument, so a swap of `item1` and `item_` is dropped as numeric although
  one of each two names has no digit.
- `confidence_range` (`Checker.cpp:427`): a confidence is documented
  (`Checker.hpp:212-213`) to lie between 0 and 1; it is a quotient of two
  weights and has no upper bound. The run has weights 1 and 1/4, and so 4.
- `driver_params` (`test/integration/main.cpp:116`): after `--params` the loop
  skips as many tokens as there were names after `--args`. The runner puts
  `--call_site_file` after the parameters, so for a call with more arguments
  than parameters (a variadic function) the driver may skip the file and print
  its usage, with the exit status of a swap. With fewer arguments than parameters, the tokens it looks at again
  are names, and are passed over.
- `macro_names` (`clang_plugin/ExprNames.cpp:50`): the first operand of an operator
  is a macro, the call begins with it, and the operand is named after what the macro
  stands for, not after the macro as the comment at line 42 has it.

## Proofs

TLAPS checks the following for every value of the constants, under the named
assumptions `CharClasses`, `ToLowerAssumption`, `InputsAssumption`,
`NamesAssumption`, `ThresholdsAssumption`, `TableAssumption`, `NullAssumption`
(a null pointer is no statement and no status of the handle),
`DriverAssumption` (the options, the names and the numbers of a command line are
different tokens), `PluginAssumption` and `CallsAssumption` (what a call of the
plugin's runs looks like), and of the extension `IterablesAssumption` (an iterable
ends once) and its own `NullAssumption` (a null pointer is no object). Nothing is
assumed of how long names are, how many arguments a call has, how deep an
expression is, how many reports a call gets, or what is in the database.

`IdentifierSplittingProofs`: `SplitCorrect`, `NeverEmpty`, `UnderscoresVanish`,
`MorphemesAtomic`, `ScanCorrect` and `TypeCorrect`. The properties speak of the return value;
the invariant `ScanInv` says what the loop's variables mean half-way: the flag
is that of the previous character (`PrevCharInv`), the current word began at a
boundary and nothing in it is one (`CurrentWordInv`), the set holds the words
that end before it (`CollectedInv`), and is empty only if there has been
nothing but underscores (`SomethingKeptInv`). At the end of the name the last
word joins the set, and what the set then holds is the definition.

`SwappedArgCheckerProofs`: the invariant `CheckInv` has five parts. `TypeOK` puts
the pair in hand within the call (`TypeCorrect`), which needs the bitset to have
no further permutation when, and only when, the last pair is reached. `PairInHand` is what the tests before a check have
established. `VettingInv` says what the running maximum of the vetting is worth:
it is above the threshold exactly when the confidence of some morpheme vetted so
far is, so that its order, and the morphemes without a confidence, do not matter
(`MaximumTooConfident`). `ReportsGrounded` keeps the facts that led to each report; they are
facts about the inputs, so no later step can undo them. `WalkInOrder` puts
every report before the pair in hand. From it follow:

- `ReportsInOrder`, at once.
- `SingletonsOnly`: the sets whose remainders are equal are disjoint.
- `NoFalseAccusation`: both morphemes fit where the swap would put them, so
  those two queries did not fail and their rows exceed the threshold; shares of
  one leave the other morphemes less than that, so the confidences the rows
  themselves give are above one, and failures only replaced them by one.
- `OneAccusation`: when parameters have no morpheme in common, a swap by names
  means that each argument has exactly the other's parameter's morphemes
  (`SwappedNamesMatch`, by counting), so an argument's partner is determined.

- `HeuristicsAgree`: a vetted morpheme is common where it is; a swapped one would
  have to be rare there, as the other one of the pair fits there and the shares
  leave little.
- `AdviceSilences`: exchanging the arguments exchanges the sets that set them
  apart (`FixExchanges`). After a report by names the new order matches the
  parameters; a report by statistics against the new order would need
  confidences that the vetting of the old order would have found. After a report
  by statistics, the same rows vet the new order.

`NamesSwappedIff` is worth knowing by itself: the two tests that nothing matches
in place (`Checker.cpp:255-265`) never decide, as they follow from the two
that everything matches when exchanged.

`CheckerClientProofs` has what the checker's walk and its clients share:
`NextPermutation`, that the permutation of the
bitset of a pair is the bitset of the next pair, for any number of positions;
`LastPermutation`, when there is none; and that a finite set of reports has one
order, by its pairs, without gaps or repetitions (`OrderedIs`,
`OrderedIsUnique`, `CheckSiteIs`). The last is an induction over the number of
reports, done with the least number for which it would fail (`SmallestExists`).

`CheckerContractProofs`: `KeepsContract`, that the walk refines `CallChecker`
when every query is answered. `CheckInv` says that what is reported is
deserved. The other half is `NothingMissed`: every pair the walk has passed and
that has a verdict has its report, and every pair of morphemes the
statistics-based check has passed fails its tests. Together they are
`ContractInv` (`ContractInvariant`). A step passes over a pair only by
`Continue`, so each action that continues without a report has to show that
there is no verdict (`LeftUnreported`); at the return all pairs are passed, and
the set of reports is the set deserved (`ReturnedIsDeserved`).

`ClientsGetTheReports` joins this to the clients: what the walk returns is, in
content and in order, the sequence `CheckSite` of `CheckerClient` that the models
of the clients use.

`ScoresInRange`, in the same module: by names, a pair that is reported matches
exactly when exchanged and not at all in place, so every cover-based score is
100; a fit is at most one because another morpheme shares the position.

`StatisticsProofs`: the invariant `SessionInv`. `Opening` says which parts of
the session exist at which point; `Serving` that outside the query in hand
every statement is as prepared; `Reading` that the rows read are those of the
bound parameters before the statement's place, and that the parameters ask for
the query or, where a bind failed, for nothing. `NoQueryOnInvalid`,
`NothingHeld` and `NoLeak` follow at once. `ImplementsStore` is the safety part
of `IsWeightStore`: every step is one of the store's or a stutter, and the
answer given at `Unbind` is right because `Reading` says so.

`IntegrationDriverProofs`: the invariant `DriverInv`. `PassedAreRead` says that
each option that is given and that the loop has passed has been read, with the
names or the number that follow it, or else is one of those that `SteppedOver`
tells. The loop does not always skip what it has read: it may go on in the middle
of an option's names, where nothing looks like an option, or beyond the next
options. That an option which is read is not one of those stepped over needs
`ResumesAfter`: wherever the loop stands behind `--params`, it is past the tokens
skipped there. `ReadAsGiven` follows at the end of the loop, for the command
lines that have each option at most once and with its values (`WellFormed`).
`ExitIsVerdict` ties the usage and the exit status to what was read and to the
reports on the call that it describes, and `ExitIsTheVerdict` to what is given.

`ClangPluginProofs`: the invariant `PluginInv`. For naming it is `NamingInv`,
which says of the expression that `exprName` has gone down to that it is a suffix
of the argument's layers and that its name is the argument's
(`Looking`); that the layers passed were none a macro would have been named for
(`NotByMacro`); and, while the loop over macro expansions runs, how often a
location has been followed back (`FollowedBack`). It rests on lemmas about
`Parse`: what is within an expression (`WithinIs`, `Unfolds`) and what one round of the
loop does to its location (`PeelIs`). `NamesFromSource` is `NamesAsWritten` for
expressions of any depth, and `UnfoldsIsHidden` that the macros the loop leaves are
those that `Hidden` tells from the way the call is written. For reports, the reports made and those
still to be made are together those of the call as written (`Made`, `Rest`), which
gives `ReportsFromSource` (for calls in which no name is hidden); and a `BugType` once made is the one in use and is
the one every pending report has (`BugTypeStays`).

`PythonExtProofs`: the invariant `ExtInv`. That counts are references is not
inductive by itself. `HoldersInv` adds who may refer to what (`RefForm`: a local to
anything, the list to its dicts, a dict to its values, a set to its strs), that
a reference outside `dropped` has a holder that is alive, and that one in it has
lost its holder. `CountInv` is `CountsAreReferences` with the converse, that
every object but the static type has a reference. Both are kept by each of the
five ways in which the code changes references, and each has a lemma: a local
takes over a new object (`OwnKeeps`), a container takes a reference (`PutKeeps`), a
function returns an object (`ReturnKeeps`) or null (`UnwindKeeps`), and
`Py_DECREF` (`DecrefKeeps`: an object that is freed had only the reference that
is counted down, so nothing is left that refers to it, and what it held
is dropped). `LocalsInv` says which
`PyOwnedObject`s each running function has at each point, from which it follows
that an object about to be made is new (`Holder`, `OnlyLocal`, `FreshValue`).
`ListInv` says that the list has the dicts of the results before `nth`, each
complete, and that the dict and the set in hand are as far as the code is;
what a local holds outlives any chain of `Py_DECREF`s (`DecrefSpares`), so these
are kept while other objects are freed. `SiteInv` does the same for the two
iterations, and `ResultsInv` ties `results` to the call that was passed.
`ExceptionConvention` and `CountsNeverDrift` are parts of the invariant.
`NothingIsLeftBehind`: with no function running nothing holds a list, hence
nothing a dict, a value or a str. `ListsAreVerdicts` reads the list back
(`ReadBack`).

Only model-checked: the liveness properties (`Terminates`, `Returns`,
`ReleasedInTheEnd`, `HandlerReturns`, and that `IsWeightStore` replies), which
are out of the prover's reach.

## Not modelled

The writer of test databases (`createStatsDB`), whose rows are the tables of the
models; SQLite beyond the life of a statement; the build. Of `float`, the
rounding. C++ exceptions other than `std::stoull`'s (running out of memory in
the standard library ends any of these programs). What is printed. Morphemes of
low entropy and synonyms are placeholders in the code (`Checker.cpp:358-379`,
`520-523`) and are modelled as they are. Names in the runs are single or composed
as clients pass them; a nonempty name followed by an empty one, which the
assertion at `Checker.cpp:282` rules out, is not among them, and no client in
the repository can pass one: each gives one name per argument.

The map covers about 1200 of the 1800 lines of the project's own C++ (the rest
is includes, licences, declarations, the writer of test databases). Nearly all
other lines of the repository are the amalgamated `sqlite3.c`, of which the model
takes what it needs of statements.

## Plan

Done, in this order: the splitter; the heuristics and the walk; the database
session; the bitset of the pairs; the contract of `CheckSite` and its proof;
the clients on top of the contract; proofs of every invariant of every run. Left:
`SwappedArgChecker` could ask an instance of `WeightStore` instead of reading the
rows.
