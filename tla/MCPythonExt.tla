----------------------------- MODULE MCPythonExt -----------------------------
(***************************************************************************)
(* Calls of check_call for TLC: those of the tests, calls with other       *)
(* numbers of names, and every way in which an iterable can go wrong.      *)
(***************************************************************************)
EXTENDS PythonExt

MCMorpheme == {"hi", "lo", "foo", "bar"}
MCSplit ==
    [n \in MCMorpheme \cup {"", "hi_bar", "lo_bar"} |->
        CASE n = "" -> {}
          [] n = "hi_bar" -> {"hi", "bar"}
          [] n = "lo_bar" -> {"lo", "bar"}
          [] OTHER -> {n}]
MCName == DOMAIN MCSplit
MCStem == [n \in MCName |-> ""]

\* Iterables that go wrong before, between or after their items.
Broken ==
    {NotIterable, <<Raises>>, <<"lo", Raises>>, <<"lo", "hi", Raises>>,
     <<NotStr, Exhausted>>, <<"lo", NotStr, Exhausted>>, <<"lo", Unencodable, Exhausted>>}

Whole(names) == Append(names, Exhausted)

\* No swap, one swap, two swaps.
Good ==
    {Whole(<<>>), Whole(<<"hi", "lo">>), Whole(<<"lo_bar", "hi_bar">>),
     Whole(<<"lo", "hi", "bar", "foo">>)}

MCCalls ==
    [arguments : Good \cup Broken,
     parameters : {NotGiven, Whole(<<"hi", "lo", "foo", "bar">>), Whole(<<"hi_bar", "lo_bar">>)}
                  \cup Broken]
=============================================================================
