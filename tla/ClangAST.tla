------------------------------- MODULE ClangAST -------------------------------
(***************************************************************************)
(* External: what the plugin sees of a translation unit. Clang parses the  *)
(* calls that were written; each expression knows where its first and its  *)
(* last token are, and the SourceManager knows how macros put them there.  *)
(***************************************************************************)
EXTENDS Naturals, Sequences, FiniteSetsExt

CONSTANT NoName    \* the empty string

-----------------------------------------------------------------------------
(* SourceManager. A token has a place in the file. It may come out of a    *)
(* macro (the outermost one counts, <<>> is none), and then be passed on   *)
(* to the macro that makes the call a number of times.                     *)

TokenAt(at, macro, passed) ==
    [at |-> at, text |-> NoName, macro |-> macro, passed |-> passed]

MacroAt(at, name) == [at |-> at, text |-> name, macro |-> <<>>, passed |-> 0]

CallMacro == MacroAt(<<0, 0, "macro">>, "CALL")

isMacroID(loc) == loc.passed > 0 \/ loc.macro # <<>>

getExpansionLoc(loc) ==
    IF loc.passed > 0 THEN CallMacro ELSE IF loc.macro # <<>> THEN loc.macro[1] ELSE loc

getImmediateSpellingLoc(loc) ==
    IF loc.passed > 0 THEN [loc EXCEPT !.passed = loc.passed - 1]
                      ELSE [loc EXCEPT !.macro = <<>>]

getSpelling(loc) == loc.text

-----------------------------------------------------------------------------
(* Expressions as they are written: layer by layer from the outside in,    *)
(* what each is and the name it has. A "macro" is a use of the macro of    *)
(* that name, and the layers below are what it expands to.                 *)

Layer(form, name) == <<[form |-> form, name |-> name]>>

Own(name) == Layer("own", name)               \* a variable, a literal, sizeof...
Paren(sub) == Layer("paren", NoName) \o sub
Cast(sub) == Layer("cast", NoName) \o sub     \* an implicit one
Subscript(sub) == Layer("subscript", NoName) \o sub
Unary(sub) == Layer("unary", NoName) \o sub
Binary(sub) == Layer("binary", NoName) \o sub
Call(decl, callee) == Layer("call", decl) \o callee
Macro(name, sub) == Layer("macro", name) \o sub
NotWritten == <<>>                            \* an argument without an expression

Forms == {"own", "paren", "cast", "subscript", "unary", "binary", "call", "macro"}

Expression(Names) == Seq([form : Forms, name : Names])

\* Every layer but the last is about the next one, and an operator between two
\* expressions has no name.
WellFormed(w) ==
    \A l \in DOMAIN w :
        /\ (w[l].form = "own") <=> (l = Len(w))
        /\ w[l].form = "binary" => w[l].name = NoName

\* The first layer of w, from layer l on, that has one of the forms.
First(w, l, forms) == Min({m \in l .. Len(w) : w[m].form \in forms})

-----------------------------------------------------------------------------
(* Expr: a layer of the k-th argument, and how the call came to be. It is  *)
(* macro if the call is in a macro's body, and passed on as the call is.   *)

Parse(w, k, macro, passed) ==
    [written |-> w, arg |-> k, layer |-> First(w, 1, Forms \ {"macro"}),
     macro |-> macro, passed |-> passed]

NoExpr == [written |-> NotWritten, arg |-> 0, layer |-> 0, macro |-> <<>>, passed |-> 0]

kind(e) == e.written[e.layer].form
name(e) == e.written[e.layer].name
getSubExpr(e) == [e EXCEPT !.layer = First(e.written, e.layer + 1, Forms \ {"macro"})]

\* The macro that the tokens of layer l come out of.
Outermost(e, l) ==
    LET m == First(e.written, 1, {"macro"})
    IN  IF e.macro # <<>> THEN e.macro
        ELSE IF \E k \in 1 .. (l - 1) : e.written[k].form = "macro"
             THEN <<MacroAt(<<e.arg, m, "macro">>, e.written[m].name)>>
             ELSE <<>>

TokenOf(e, l, which) == TokenAt(<<e.arg, l, which>>, Outermost(e, l), e.passed)

getBeginLoc(e) == TokenOf(e, First(e.written, e.layer, {"own", "paren", "unary"}), "first")

getEndLoc(e) ==
    LET l == First(e.written, e.layer, Forms \ {"cast", "unary", "macro"})
    IN  TokenOf(e, l, IF e.written[l].form = "own" THEN "first" ELSE "last")

-----------------------------------------------------------------------------
\* A call as it is written: what is called (a "block" is not a function), the names
\* of its parameters, its arguments, and how: "direct", as an "operator", in the
\* "body" of CallMacro, or "implicit", not at all; and the number of macros that
\* passed on its tokens.
CallWritten(callee, params, args, how, passed) ==
    [callee |-> callee, params |-> params, written |-> args, how |-> how, passed |-> passed]

\* The CallEvent: the expressions, and where the call begins, <<>> for nowhere.
Event(c) ==
    LET macro == IF c.how = "body" THEN <<CallMacro>> ELSE <<>>
        args == [k \in DOMAIN c.written |->
                    IF c.written[k] = NotWritten THEN NoExpr
                    ELSE Parse(c.written[k], k, macro, c.passed)]
    IN  [callee  |-> c.callee,
         params  |-> c.params,
         written |-> c.written,
         how     |-> c.how,
         args    |-> args,
         origin  |-> CASE c.how = "implicit" -> <<>>
                       [] c.how = "operator" -> <<getBeginLoc(args[1])>>
                       [] OTHER -> <<TokenAt(<<0, 0, "first">>, macro, c.passed)>>]

\* No call is handled.
NoCall == Event(CallWritten("none", <<>>, <<>>, "implicit", 0))
=============================================================================
