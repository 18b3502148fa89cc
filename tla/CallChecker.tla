----------------------------- MODULE CallChecker -----------------------------
(***************************************************************************)
(* What swapped_arg::Checker promises its clients, with every query to its *)
(* database answered: CheckSite returns the reports the call deserves, in  *)
(* the order of the pairs they are about, and returns nothing before.      *)
(***************************************************************************)
EXTENDS PairwiseCombinations

VARIABLES
    deserved,    \* the reports of the pairs with a verdict
    returned,    \* whether CheckSite has returned
    reports      \* what it returned

vars == <<deserved, returned, reports>>

Init == returned = FALSE /\ reports = <<>>

CheckSite ==
    /\ ~returned
    /\ returned' = TRUE
    /\ {reports'[k] : k \in DOMAIN reports'} = deserved
    /\ InOrder(reports')
    /\ UNCHANGED deserved

Spec == Init /\ [][CheckSite]_vars
=============================================================================
