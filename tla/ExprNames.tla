------------------------------ MODULE ExprNames ------------------------------
(***************************************************************************)
(* exprName: the name of an argument expression, found by going down the   *)
(* expression and, where a macro is involved, back through its expansion.  *)
(***************************************************************************)
EXTENDS ClangAST

VARIABLES
    pc,
    call,           \* the call whose arguments are named
    names,          \* of the arguments named so far, the names of each
    expr,           \* baseExpr, the part of the argument looked at
    begin, end      \* expandedRange

NoLoc == TokenAt(<<0, 0, "none">>, <<>>, 0)

range == <<begin, end>>
naming == <<pc, call, names, expr, range>>

ExprNamesInit ==
    /\ pc = "idle" /\ call = NoCall /\ names = <<>>
    /\ expr = NoExpr /\ begin = NoLoc /\ end = NoLoc

StartNaming(e) == expr' = e /\ pc' = "strip"

Named(n) ==
    /\ names' = Append(names, <<n>>)
    /\ pc' = "argument"

\* ignoreParenCastsButNotTemplateParms.
Strip ==
    /\ pc = "strip" /\ kind(expr) \in {"paren", "cast"}
    /\ expr' = getSubExpr(expr)
    /\ UNCHANGED <<pc, call, names, range>>

Stripped ==
    /\ pc = "strip" /\ kind(expr) \notin {"paren", "cast"}
    /\ begin' = getBeginLoc(expr) /\ end' = getEndLoc(expr)
    /\ pc' = IF isMacroID(getBeginLoc(expr)) THEN "peel" ELSE "name"
    /\ UNCHANGED <<call, names, expr>>

\* The range is still in the expansion that the call begins in.
WithinCall ==
    /\ call.origin # <<>>
    /\ getExpansionLoc(begin) = getExpansionLoc(call.origin[1])

\* Mistakes: the beginning stays where it is; only what a macro passed on once
\* is followed back.
OnlyTheEnd(loc) == loc
PeelOnce == begin = getBeginLoc(expr) /\ WithinCall

Spelled(loc) == getImmediateSpellingLoc(loc)
Peeling == WithinCall

Peel ==
    /\ pc = "peel" /\ Peeling
    /\ begin' = Spelled(begin) /\ end' = getImmediateSpellingLoc(end)
    /\ UNCHANGED <<pc, call, names, expr>>

OneMacro == isMacroID(begin) /\ getExpansionLoc(begin) = getExpansionLoc(end)

MacroName ==
    /\ pc = "peel" /\ ~Peeling /\ OneMacro
    /\ Named(getSpelling(getExpansionLoc(begin)))
    /\ UNCHANGED <<call, expr, range>>

NotOneMacro ==
    /\ pc = "peel" /\ ~Peeling /\ ~OneMacro
    /\ pc' = "name"
    /\ UNCHANGED <<call, names, expr, range>>

\* An identifier, a literal, this, a member, sizeof and the like, or a template
\* parameter has a name; so has a call of a declared function.
HasName == kind(expr) = "own" \/ (kind(expr) = "call" /\ name(expr) # NoName)

OwnName ==
    /\ pc = "name" /\ HasName
    /\ Named(name(expr))
    /\ UNCHANGED <<call, expr, range>>

\* base[k] is named after base, an operator after its operand, any other call
\* after its callee.
Descend ==
    /\ pc = "name" /\ ~HasName /\ kind(expr) \in {"subscript", "unary", "call"}
    /\ StartNaming(getSubExpr(expr))
    /\ UNCHANGED <<call, names, range>>

Nameless ==
    /\ pc = "name" /\ ~HasName /\ kind(expr) \notin {"subscript", "unary", "call"}
    /\ Named(NoName)
    /\ UNCHANGED <<call, expr, range>>

exprName ==
    Strip \/ Stripped \/ Peel \/ MacroName \/ NotOneMacro \/ OwnName \/ Descend \/ Nameless

-----------------------------------------------------------------------------
(* Reference: the name of an expression as it is written *)

Names(layer) == layer.form \in {"own", "binary"} \/ (layer.form = "call" /\ layer.name # NoName)

NameWritten(w) == w[Min({l \in DOMAIN w : Names(w[l]) \/ w[l].form = "macro"})].name

\* The same with what macros stand for.
NameExpanded(w) == w[Min({l \in DOMAIN w : Names(w[l])})].name

\* The expression begins with the use of a macro.
BeginsWithMacro(w) == w[First(w, 1, {"own", "paren", "unary", "macro"})].form = "macro"

\* Macros in this argument are hidden by the call itself: the call is in a macro's
\* body, or begins with the argument and so with its macro.
Hidden(k) ==
    \/ call.how = "body"
    \/ call.how = "operator" /\ k = 1 /\ call.args[1].passed = 0 /\ BeginsWithMacro(call.written[1])

\* An argument has the name it has in the source, whatever parentheses, casts,
\* subscripts and operators are around it, however often macros passed it on to the
\* call, and whatever the macro it is expands to. An argument whose macros the call
\* hides has the name of what they stand for, and no other argument has.
NamesAsWritten ==
    \A k \in DOMAIN names :
        LET w == call.written[k]
        IN  names[k] = IF w = NotWritten THEN <<>>
                       ELSE IF Hidden(k) THEN <<NameExpanded(w)>> ELSE <<NameWritten(w)>>

\* The comment in exprName: an expression that is from a macro expansion has just
\* the macro's name.
MacrosGiveNames ==
    \A k \in DOMAIN names :
        LET w == call.written[k]
        IN  w # NotWritten /\ w[1].form = "macro" => names[k] = <<w[1].name>>
=============================================================================
