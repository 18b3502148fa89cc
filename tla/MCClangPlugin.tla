---------------------------- MODULE MCClangPlugin ----------------------------
(***************************************************************************)
(* Calls for TLC: the tests' calls and names, written in many ways.        *)
(***************************************************************************)
EXTENDS ClangPlugin

MCMorpheme == {"cats", "dogs", "x", "y"}
MCName == MCMorpheme \cup {""}
MCSplit == [n \in MCName |-> {n} \ {""}]
MCStem == [n \in MCName |-> ""]

\* Ways to write an argument named n. What a macro expands to is never named n.
Ways(n) ==
    {Own(n), Paren(Cast(Own(n))), Unary(Own(n)), Cast(Paren(Subscript(Own(n)))),
     Call(n, Own("x")), Call("", Paren(Cast(Unary(Own(n))))),
     Macro(n, Own("x")), Paren(Macro(n, Paren(Binary(Own("x"))))), Unary(Macro(n, Own("x"))),
     Cast(Subscript(Macro(n, Own("x")))), Macro(n, Macro("y", Own("x"))),
     Call("", Macro(n, Call("", Own("x"))))}
NoNames == {Binary(Own("x")), Paren(Binary(Macro("y", Own("x"))))}

Hows == {<<"direct", 0>>, <<"direct", 1>>, <<"direct", 2>>, <<"body", 0>>,
         <<"operator", 0>>, <<"operator", 1>>}

Swapped(callee, params, args) == CallWritten(callee, params, args, "direct", 0)

MCCalls ==
    {CallWritten("f", <<"cats", "dogs">>, <<a, b>>, h[1], h[2]) :
        h \in Hows, a \in Ways("dogs") \cup NoNames, b \in Ways("cats")}
    \cup {Swapped("f", ps, <<Own("dogs"), Own("cats")>> \o more) :
            ps \in {<<>>, <<"", "">>, <<"dogs", "cats">>, <<"cats", "dogs", "x", "y">>},
            more \in {<<>>, <<Own("y")>>, <<Own("y"), Macro("x", Own("y"))>>}}
    \* a placement new, whose first argument is not written, and a destructor
    \cup {Swapped("new", <<"x", "cats", "dogs">>, <<NotWritten, a, b>>) :
            a \in Ways("dogs"), b \in Ways("cats")}
    \cup {CallWritten("destructor", <<>>, <<>>, "implicit", 0),
          Swapped("block", <<"cats", "dogs">>, <<Own("dogs"), Own("cats")>>)}
    \cup {CallWritten("clang_analyzer_exprName", <<"">>, <<a>>, h[1], h[2]) :
            h \in {<<"direct", 0>>, <<"direct", 1>>, <<"body", 0>>}, a \in Ways("dogs") \cup NoNames}

\* The first argument is a macro, of a function or of an operator.
MacroCalls ==
    {CallWritten("f", <<"cats", "dogs">>, <<Macro("dogs", Own("x")), Own("cats")>>, how, 0) :
        how \in {"direct", "operator"}}

\* stats.c: cats are usually first and dogs second.
MCModels ==
    {[k \in 0 .. 3 |-> [m \in MCMorpheme |->
        IF <<k, m>> \in {<<0, "cats">>, <<1, "dogs">>} THEN 4 ELSE NoRow]]}
=============================================================================
