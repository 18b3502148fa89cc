---------------------------- MODULE MCCoverChecks ----------------------------
(***************************************************************************)
(* Call sites for the runs without statistics.                             *)
(***************************************************************************)
EXTENDS MCSwappedArgChecker

\* Three arguments and three named parameters over names that share morphemes.
ThreeArgs ==
    LET N == {"x", "y", "x_w", "y_w"}
    IN  {Site(Named(a), p) : a \in TupleOf(N, 3), p \in TupleOf(N, 3)}

\* Two arguments whose names are missing, bare underscores, composed of
\* several identifiers or numbered, against two, one or no parameters.
OddNames ==
    LET N == {"", "_", "x", "item", "item1", "item2", "7"}
        A == {<<n>> : n \in N} \cup {<<>>, <<"item1", "x">>, <<"x", "item2">>}
    IN  {Site(a, p) : a \in TupleOf(A, 2), p \in SeqOf(N, 2)}

\* Two arguments of two morphemes each, over four morphemes.
TwoMorphemes ==
    LET N == {"x_y", "z_w", "x_z", "y_w"}
    IN  {Site(Named(a), p) : a \in TupleOf(N, 2), p \in TupleOf(N, 2)}

\* Three parameters without a morpheme in common, and arguments that have
\* morphemes of two of them.
DisjointParams ==
    LET N == {"x", "y", "z", "x_y", "z_w"}
    IN  {Site(Named(a), <<"z", "x", "y">>) : a \in TupleOf(N, 3)}

\* A pair that cannot be used, before one that may be swapped.
Gaps ==
    LET N == {"_", "x", "y"}
    IN  {Site(Named(a), p) : a \in TupleOf(N, 3), p \in {<<"z", "x", "y">>, <<"x", "y", "z">>}}

\* Calls with too few arguments, and more arguments than named parameters.
OddLengths ==
    LET N == {"x", "y", "z"}
    IN  {Site(Named(a), p) : a \in SeqOf(N, 1) \cup TupleOf(N, 4),
                             p \in {<<>>, <<"x", "y">>, <<"z", "y", "x">>}}

CoverSites ==
    UNION {ThreeArgs, OddNames, TwoMorphemes, DisjointParams, Gaps, OddLengths}

\* A numbered name and the same name with another last character.
NumberedSites ==
    {Site(Named(a), <<"item1", "item_">>) : a \in TupleOf({"item1", "item_"}, 2)}

NoDatabase == {NoStats}
=============================================================================
