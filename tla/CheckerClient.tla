---------------------------- MODULE CheckerClient ----------------------------
(***************************************************************************)
(* swapped_arg::Checker as its clients see it: the contract of CallChecker *)
(* as a function from a call to the vector of its reports.                 *)
(***************************************************************************)
EXTENDS SwapHeuristics, PairwiseCombinations, SequencesExt

\* The reports that come before r.
Earlier(reports, r) == {s \in reports : Before(Args(s), Args(r))}

\* The vector of the reports, in their order.
Ordered(reports) ==
    [k \in 1 .. Cardinality(reports) |->
        CHOOSE r \in reports : Cardinality(Earlier(reports, r)) = k - 1]

\* CheckSite with the default whichCheck.
CheckSite(site, stats) == Ordered(Deserved(site, "All", stats))

\* A call whose arguments have one name each.
SiteOf(args, params) == [args |-> [k \in DOMAIN args |-> <<args[k]>>], params |-> params]
=============================================================================
