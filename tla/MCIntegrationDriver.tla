------------------------- MODULE MCIntegrationDriver -------------------------
(***************************************************************************)
(* Command lines for TLC.                                                  *)
(***************************************************************************)
EXTENDS IntegrationDriver

MCMorpheme == {"x", "y", "z", "driver", "f", "a.c", "b.h", "7"}
MCName == MCMorpheme \cup {""}
MCSplit == [n \in MCName |-> {n} \ {""}]
MCStem == [n \in MCName |-> ""]
MCDashed == Options \cup {"--verbose"}

\* A call without a swap, with one, without names, and of other lengths.
NameLists == {<<>>, <<"x">>, <<"x", "y">>, <<"y", "x">>, <<"", "x">>, <<"y", "x", "z">>}

ArgGroups == {<<"--args">> \o ns : ns \in NameLists}
ParamGroups == {<<"--params">> \o ns : ns \in NameLists}
Function == <<"--function", "f">>
SiteFile == <<"--call_site_file", "a.c">>
SiteLine == <<"--call_site_line", "7">>
DeclFile == <<"--call_decl_file", "b.h">>
DeclLine == <<"--call_decl_line", "7">>

CommandLine(groups) == <<"driver">> \o FlattenSeq(groups)

\* As integration_test_runner.py writes them.
RunnerArgvs ==
    {CommandLine(<<Function, a, p>> \o d \o <<SiteFile, SiteLine>>) :
        a \in ArgGroups, p \in ParamGroups \cup {<<>>}, d \in {<<>>, <<DeclFile, DeclLine>>}}

\* The options in any order.
ReorderedArgvs ==
    {CommandLine(<<gs[perm[1]], gs[perm[2]], gs[perm[3]], gs[perm[4]], SiteLine>>) :
        gs \in {<<Function, a, p, SiteFile>> : a \in ArgGroups, p \in ParamGroups},
        perm \in SetToSeqs(1 .. 4)}

\* Options left out, unknown, or without their values.
OddArgvs ==
    {CommandLine(gs) :
        gs \in {<<>>, <<Function>>, <<SiteFile, SiteLine>>, <<Function, <<"--call_site_file">>>>,
                <<Function, SiteFile, <<"--call_site_line">>>>,
                <<Function, <<"--call_site_line">>, SiteFile>>,
                <<Function, <<"--verbose", "x">>, SiteFile, <<"--args", "y", "x">>>>,
                <<<<"--function">>, SiteFile, <<"--args", "y", "x">>>>}}

MCArgvs == RunnerArgvs \cup ReorderedArgvs \cup OddArgvs
=============================================================================
