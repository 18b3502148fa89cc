-------------------------- MODULE ClangPluginProofs --------------------------
(***************************************************************************)
(* The Clang plugin for every program, however its calls are written: the  *)
(* names that exprName finds are those in the source, or, where the call   *)
(* hides a macro, those of what it stands for, and the reports made of a   *)
(* call that hides no name are the ones it deserves.                       *)
(***************************************************************************)
EXTENDS ClangPlugin, CheckerClientProofs

-----------------------------------------------------------------------------
(* Layers and tokens *)

\* The smallest of a set of numbers is one of them.
LEMMA MinIs ==
    ASSUME NEW S \in SUBSET Nat, S # {}
    PROVE  Min(S) \in S /\ \A y \in S : Min(S) <= y
BY SmallestExists DEF Min, Smallest

\* A member that is no larger than the others is the smallest.
LEMMA MinUnique ==
    ASSUME NEW S \in SUBSET Nat, NEW x \in S, \A y \in S : x <= y
    PROVE  Min(S) = x
<1>1. Min(S) \in S /\ \A y \in S : Min(S) <= y
  BY MinIs
<1>2. Min(S) \in Nat /\ x \in Nat /\ Min(S) <= x /\ x <= Min(S)
  BY <1>1
<1> QED
  BY <1>2

\* The macro that the tokens of the k-th argument of c come out of, if any.
ItsMacro(c, k) ==
    LET m == First(c.written[k], 1, {"macro"})
    IN  MacroAt(<<k, m, "macro">>, c.written[k][m].name)

WrittenArg(c, k) ==
    /\ c \in Calls /\ k \in DOMAIN c.written
    /\ c.written[k] # NotWritten

\* Layer l of the k-th argument of c.
LayerOf(c, k, l) == [Event(c).args[k] EXCEPT !.layer = l]

\* A macro is around layer l.
Inside(w, l) == \E m \in 1 .. (l - 1) : w[m].form = "macro"

\* The layers of an argument that is written.
LEMMA WrittenIs ==
    ASSUME NEW c, NEW k, WrittenArg(c, k)
    PROVE  LET w == c.written[k] IN
           /\ Len(w) \in Nat /\ Len(w) >= 1 /\ DOMAIN w = 1 .. Len(w)
           /\ \A l \in DOMAIN w :
                 /\ w[l].form \in Forms
                 /\ w[l].name \in Name
                 /\ (w[l].form = "own") <=> (l = Len(w))
                 /\ w[l].form = "binary" => w[l].name = NoName
<1>1. c.written \in Seq(Expression(Name))
  BY CallsAssumption DEF WrittenArg
<1>2. c.written[k] \in Expression(Name) /\ WellFormed(c.written[k])
  BY <1>1, CallsAssumption DEF WrittenArg
<1> DEFINE w == c.written[k]
<1> DEFINE T == [form : Forms, name : Name]
<1>3. w \in Seq(T) /\ w # <<>>
  BY <1>2 DEF Expression, WrittenArg, NotWritten
<1>6. \A l \in DOMAIN w :
         /\ (w[l].form = "own") <=> (l = Len(w))
         /\ w[l].form = "binary" => w[l].name = NoName
  BY <1>2 DEF WellFormed
<1> HIDE DEF w, T
<1>4. Len(w) \in Nat /\ Len(w) >= 1 /\ DOMAIN w = 1 .. Len(w)
  BY <1>3
<1>5. ASSUME NEW l \in DOMAIN w
      PROVE  w[l].form \in Forms /\ w[l].name \in Name
  <2>1. w[l] \in T
    BY <1>3, <1>4
  <2> QED
    BY <2>1 DEF T
<1>7. \A l \in DOMAIN w :
         /\ w[l].form \in Forms
         /\ w[l].name \in Name
         /\ (w[l].form = "own") <=> (l = Len(w))
         /\ w[l].form = "binary" => w[l].name = NoName
  BY <1>5, <1>6, Zenon
<1> QED
  BY <1>4, <1>7, Zenon DEF w

\* An expression always goes on to one that has a name of its own.
LEMMA FirstIs ==
    ASSUME NEW c, NEW k, WrittenArg(c, k), NEW l \in DOMAIN c.written[k],
           NEW forms, "own" \in forms
    PROVE  LET w == c.written[k]  f == First(w, l, forms) IN
           /\ f \in l .. Len(w) /\ f \in DOMAIN w /\ w[f].form \in forms
           /\ \A m \in l .. Len(w) : w[m].form \in forms => f <= m
           /\ w[l].form \in forms => f = l
<1> DEFINE w == c.written[k]
           S == {m \in l .. Len(w) : w[m].form \in forms}
<1>1. Len(w) \in Nat /\ DOMAIN w = 1 .. Len(w) /\ l \in 1 .. Len(w) /\ w[Len(w)].form = "own"
  BY WrittenIs
<1>2. S \in SUBSET Nat /\ Len(w) \in S
  BY <1>1
<1>3. Min(S) \in S /\ \A y \in S : Min(S) <= y
  BY <1>2, MinIs
<1>4. First(w, l, forms) = Min(S)
  BY DEF First
<1> QED
  BY <1>1, <1>3, <1>4

\* The outermost macro around a layer.
LEMMA FirstMacro ==
    ASSUME NEW c, NEW k, WrittenArg(c, k), NEW l \in DOMAIN c.written[k], Inside(c.written[k], l)
    PROVE  LET w == c.written[k]  f == First(w, 1, {"macro"}) IN
           /\ f \in 1 .. (l - 1) /\ f \in DOMAIN w /\ w[f].form = "macro"
           /\ \A m \in DOMAIN w : w[m].form = "macro" => f <= m
<1> DEFINE w == c.written[k]
           S == {m \in 1 .. Len(w) : w[m].form \in {"macro"}}
<1>1. Len(w) \in Nat /\ DOMAIN w = 1 .. Len(w) /\ l \in 1 .. Len(w)
  BY WrittenIs
<1>2. PICK m \in 1 .. (l - 1) : w[m].form = "macro"
  BY DEF Inside
<1>3. S \in SUBSET Nat /\ m \in S /\ m < l
  BY <1>1, <1>2
<1>4. Min(S) \in S /\ \A y \in S : Min(S) <= y
  BY <1>3, MinIs
<1>5. First(w, 1, {"macro"}) = Min(S)
  BY DEF First
<1> DEFINE f == First(w, 1, {"macro"})
<1>6. f \in S /\ \A y \in S : f <= y
  BY <1>4, <1>5
<1>7. f \in Nat /\ f >= 1 /\ f \in DOMAIN w /\ w[f].form = "macro" /\ f <= m
  BY <1>1, <1>3, <1>6
<1>8. \A y \in DOMAIN w : w[y].form = "macro" => f <= y
  BY <1>1, <1>6
<1>9. f \in 1 .. (l - 1)
  BY <1>1, <1>3, <1>7
<1> QED
  BY <1>7, <1>8, <1>9

\* The event of a call that is handled.
LEMMA EventIs ==
    ASSUME NEW c \in Calls
    PROVE  /\ Event(c).callee = c.callee /\ Event(c).params = c.params
           /\ Event(c).written = c.written /\ Event(c).how = c.how
           /\ Len(c.written) \in Nat /\ DOMAIN c.written = 1 .. Len(c.written)
           /\ DOMAIN Event(c).args = 1 .. Len(c.written) /\ Len(Event(c).args) = Len(c.written)
           /\ \A k \in DOMAIN c.written :
                 IF c.written[k] = NotWritten THEN Event(c).args[k] = NoExpr
                 ELSE /\ Event(c).args[k].written = c.written[k]
                      /\ Event(c).args[k].arg = k
                      /\ Event(c).args[k].passed = c.passed
                      /\ Event(c).args[k].macro = IF c.how = "body" THEN <<CallMacro>> ELSE <<>>
                      /\ Event(c).args[k] =
                            LayerOf(c, k, First(c.written[k], 1, Forms \ {"macro"}))
                      /\ Event(c).args[k] # NoExpr
<1>1. c.written \in Seq(Expression(Name))
  BY CallsAssumption
<1>2. Len(c.written) \in Nat /\ DOMAIN c.written = 1 .. Len(c.written)
  BY <1>1
<1>3. DOMAIN Event(c).args = DOMAIN c.written
  BY DEF Event
<1>4. Len(Event(c).args) = Len(c.written)
  BY <1>2, <1>3
<1>5. ASSUME NEW k \in DOMAIN c.written, c.written[k] # NotWritten
      PROVE  Event(c).args[k] = Parse(c.written[k], k, IF c.how = "body" THEN <<CallMacro>> ELSE <<>>, c.passed)
  BY <1>5 DEF Event
<1>6. ASSUME NEW k \in DOMAIN c.written, c.written[k] = NotWritten
      PROVE  Event(c).args[k] = NoExpr
  BY <1>6 DEF Event
<1>7. /\ Event(c).callee = c.callee /\ Event(c).params = c.params
      /\ Event(c).written = c.written /\ Event(c).how = c.how
  BY DEF Event
<1>8. ASSUME NEW k \in DOMAIN c.written, c.written[k] # NotWritten
      PROVE  /\ Event(c).args[k].written = c.written[k]
             /\ Event(c).args[k].arg = k
             /\ Event(c).args[k].passed = c.passed
             /\ Event(c).args[k].macro = IF c.how = "body" THEN <<CallMacro>> ELSE <<>>
             /\ Event(c).args[k] = LayerOf(c, k, First(c.written[k], 1, Forms \ {"macro"}))
             /\ Event(c).args[k] # NoExpr
  <2> DEFINE m == IF c.how = "body" THEN <<CallMacro>> ELSE <<>>
             f == First(c.written[k], 1, Forms \ {"macro"})
  <2>1. Event(c).args[k] = [written |-> c.written[k], arg |-> k, layer |-> f,
                            macro |-> m, passed |-> c.passed]
    BY <1>5, <1>8 DEF Parse
  <2> HIDE DEF m, f
  <2>2. LayerOf(c, k, f) = Event(c).args[k]
    BY <2>1 DEF LayerOf
  <2>3. Event(c).args[k] # NoExpr
    BY <2>1, <1>8 DEF NoExpr
  <2> QED
    BY <2>1, <2>2, <2>3 DEF m, f
<1> QED
  BY <1>2, <1>3, <1>4, <1>6, <1>7, <1>8

\* A layer of an argument knows the argument, its place in the call, and how the call
\* came to be.
LEMMA LayerIs ==
    ASSUME NEW c, NEW k, WrittenArg(c, k), NEW l
    PROVE  LET e == LayerOf(c, k, l) IN
           /\ e.written = c.written[k] /\ e.arg = k /\ e.layer = l /\ e.passed = c.passed
           /\ e.macro = IF c.how = "body" THEN <<CallMacro>> ELSE <<>>
           /\ \A m : [e EXCEPT !.layer = m] = LayerOf(c, k, m)
<1> DEFINE a == Event(c).args[k]
           f == First(c.written[k], 1, Forms \ {"macro"})
           m == IF c.how = "body" THEN <<CallMacro>> ELSE <<>>
<1>1. a = Parse(c.written[k], k, m, c.passed)
  BY DEF Event, WrittenArg
<1>2. a = [written |-> c.written[k], arg |-> k, layer |-> f, macro |-> m, passed |-> c.passed]
  BY <1>1 DEF Parse
<1> HIDE DEF f, m, a
<1>3. \A n : [a EXCEPT !.layer = n] =
        [written |-> c.written[k], arg |-> k, layer |-> n, macro |-> m, passed |-> c.passed]
  BY <1>2
<1>4. \A n : LayerOf(c, k, n) =
        [written |-> c.written[k], arg |-> k, layer |-> n, macro |-> m, passed |-> c.passed]
  BY <1>3 DEF LayerOf, a
<1> QED
  BY <1>4 DEF m

\* The macro around a token.
LEMMA OutermostIs ==
    ASSUME NEW c, NEW k, WrittenArg(c, k), NEW l, NEW m \in DOMAIN c.written[k]
    PROVE  Outermost(LayerOf(c, k, l), m) =
             IF c.how = "body" THEN <<CallMacro>>
             ELSE IF Inside(c.written[k], m) THEN <<ItsMacro(c, k)>> ELSE <<>>
<1> DEFINE e == LayerOf(c, k, l)
<1>1. /\ e.written = c.written[k] /\ e.arg = k
      /\ e.macro = IF c.how = "body" THEN <<CallMacro>> ELSE <<>>
  BY LayerIs
<1> HIDE DEF e
<1> QED
  BY <1>1 DEF Outermost, Inside, ItsMacro, e

\* The tokens of an expression come out of the call's macro or out of its own,
\* and the last one does only if the whole expression does.
LEMMA TokensAre ==
    ASSUME NEW c, NEW k, WrittenArg(c, k), NEW l \in DOMAIN c.written[k]
    PROVE  LET w == c.written[k]
               b == getBeginLoc(LayerOf(c, k, l))
               d == getEndLoc(LayerOf(c, k, l))
               its == IF c.how = "body" THEN <<CallMacro>> ELSE <<ItsMacro(c, k)>>
           IN  /\ \E n : b = TokenAt(<<k, n, "first">>, b.macro, c.passed)
               /\ \E n : \E t \in {"first", "last"} : d = TokenAt(<<k, n, t>>, d.macro, c.passed)
               /\ b.macro \in {<<>>, its} /\ d.macro \in {<<>>, its}
               /\ c.how = "body" \/ Inside(w, l) => b.macro = its /\ d.macro = its
               /\ c.how # "body" /\ w[l].form \notin {"paren", "cast", "macro"}
                  /\ b.macro # <<>> /\ d.macro # <<>> => Inside(w, l)
<1> DEFINE w == c.written[k]
           e == LayerOf(c, k, l)
           begins == {"own", "paren", "unary"}
           ends == Forms \ {"cast", "unary", "macro"}
           f == First(w, l, begins)
           g == First(w, l, ends)
           t == IF w[g].form = "own" THEN "first" ELSE "last"
           its == IF c.how = "body" THEN <<CallMacro>> ELSE <<ItsMacro(c, k)>>
           out(n) == IF c.how = "body" \/ Inside(w, n) THEN its ELSE <<>>
<1>1. e.written = w /\ e.arg = k /\ e.layer = l /\ e.passed = c.passed
  BY LayerIs
<1>2. Len(w) \in Nat /\ DOMAIN w = 1 .. Len(w) /\ l \in 1 .. Len(w) /\ w[l].form \in Forms
  BY WrittenIs
<1>3. f \in l .. Len(w) /\ f \in DOMAIN w /\ (w[l].form \in begins => f = l)
  BY FirstIs
<1>4. "own" \in ends
  BY DEF Forms
<1>5. g \in l .. Len(w) /\ g \in DOMAIN w /\ (w[l].form \in ends => g = l)
  BY FirstIs, <1>4
<1>6. \A n \in DOMAIN w : Outermost(e, n) = out(n)
  BY OutermostIs
<1>7. getBeginLoc(e) = TokenAt(<<k, f, "first">>, out(f), c.passed)
  BY <1>1, <1>3, <1>6 DEF getBeginLoc, TokenOf
<1>8. getEndLoc(e) = TokenAt(<<k, g, t>>, out(g), c.passed)
  BY <1>1, <1>5, <1>6 DEF getEndLoc, TokenOf
<1>9. \A at, macro, passed : TokenAt(at, macro, passed).macro = macro
  BY DEF TokenAt
<1>10. t \in {"first", "last"}
  OBVIOUS
<1>11. its # <<>>
  OBVIOUS
<1>12. \A n \in l .. Len(w) : Inside(w, l) => Inside(w, n)
  BY <1>2 DEF Inside
<1>13. w[l].form \notin {"paren", "cast", "macro"} => f = l \/ g = l
  BY <1>2, <1>3, <1>5 DEF Forms
<1> HIDE DEF e, f, g, t, its, ends, begins
<1>14. getBeginLoc(e).macro = out(f) /\ getEndLoc(e).macro = out(g)
  BY <1>7, <1>8, <1>9
<1>15. \E n : getBeginLoc(e) = TokenAt(<<k, n, "first">>, getBeginLoc(e).macro, c.passed)
  BY <1>7, <1>14
<1>16. \E n : \E u \in {"first", "last"} :
          getEndLoc(e) = TokenAt(<<k, n, u>>, getEndLoc(e).macro, c.passed)
  BY <1>8, <1>10, <1>14
<1>17. out(f) \in {<<>>, its} /\ out(g) \in {<<>>, its}
  OBVIOUS
<1>18. c.how = "body" \/ Inside(w, l) => out(f) = its /\ out(g) = its
  BY <1>3, <1>5, <1>12
<1>19. c.how # "body" /\ w[l].form \notin {"paren", "cast", "macro"}
          /\ out(f) # <<>> /\ out(g) # <<>> => Inside(w, l)
  BY <1>13
<1> HIDE DEF out
<1> QED
  BY <1>14, <1>15, <1>16, <1>17, <1>18, <1>19 DEF e, its

-----------------------------------------------------------------------------
(* Where the call begins *)

\* A location is in the expansion that the call begins in.
Within(c, loc) ==
    /\ Event(c).origin # <<>>
    /\ getExpansionLoc(loc) = getExpansionLoc(Event(c).origin[1])

\* The macro of the k-th argument is one with the call's: it is followed back like
\* what the call was passed, and the argument is named by what it expands to.
Unfolds(c, k) ==
    \/ c.how = "body"
    \/ /\ c.how = "operator" /\ k = 1 /\ c.passed = 0
       /\ Event(c).origin[1].macro # <<>>

\* A call begins nowhere, at its callee, or with its first argument.
LEMMA OriginIs ==
    ASSUME NEW c \in Calls
    PROVE  \/ c.how = "implicit" /\ Event(c).origin = <<>> /\ c.passed = 0
           \/ c.how \in {"direct", "body"}
              /\ Event(c).origin = <<TokenAt(<<0, 0, "first">>, IF c.how = "body" THEN <<CallMacro>> ELSE <<>>, c.passed)>>
           \/ /\ c.how = "operator" /\ WrittenArg(c, 1)
              /\ \E n : \E macro \in {<<>>, <<ItsMacro(c, 1)>>} :
                     Event(c).origin = <<TokenAt(<<1, n, "first">>, macro, c.passed)>>
<1>1. c.how \in {"direct", "operator", "body", "implicit"}
  BY CallsAssumption
<1>2. CASE c.how = "implicit"
  BY <1>2, CallsAssumption DEF Event
<1>3. CASE c.how \in {"direct", "body"}
  BY <1>3 DEF Event
<1>4. CASE c.how = "operator"
  <2>1. c.written \in Seq(Expression(Name)) /\ c.written # <<>> /\ c.written[1] # NotWritten
    BY <1>4, CallsAssumption
  <2>2. WrittenArg(c, 1)
    BY <2>1 DEF WrittenArg
  <2> DEFINE a == Event(c).args[1]
             l == First(c.written[1], 1, Forms \ {"macro"})
  <2>3. Event(c).origin = <<getBeginLoc(a)>>
    BY <1>4 DEF Event
  <2>4. a = LayerOf(c, 1, l)
    BY <2>2, EventIs DEF WrittenArg
  <2>5. l \in DOMAIN c.written[1]
    <3>1. 1 \in DOMAIN c.written[1]
      BY <2>2, WrittenIs
    <3>2. "own" \in Forms \ {"macro"}
      BY DEF Forms
    <3> QED
      BY <2>2, <3>1, <3>2, FirstIs
  <2> HIDE DEF a, l
  <2>6. /\ \E n : getBeginLoc(LayerOf(c, 1, l)) = TokenAt(<<1, n, "first">>, getBeginLoc(LayerOf(c, 1, l)).macro, c.passed)
        /\ getBeginLoc(LayerOf(c, 1, l)).macro \in {<<>>, <<ItsMacro(c, 1)>>}
    BY <2>2, <2>5, <1>4, TokensAre
  <2> QED
    BY <2>2, <2>3, <2>4, <2>6, <1>4
<1> QED
  BY <1>1, <1>2, <1>3, <1>4

\* Those are the macros that the call hides.
LEMMA UnfoldsIsHidden ==
    ASSUME NEW c, NEW k, call = Event(c), WrittenArg(c, k)
    PROVE  Unfolds(c, k) <=> Hidden(k)
<1> DEFINE w == c.written[1]
           begins == {"own", "paren", "unary"}
           e == Event(c).args[1]
           l == First(w, 1, Forms \ {"macro"})
           f == First(w, l, begins)
           g == First(w, 1, {"own", "paren", "unary", "macro"})
<1>1. c \in Calls /\ call.how = c.how /\ call.written = c.written
  BY EventIs DEF WrittenArg
<1>2. CASE ~(c.how = "operator" /\ k = 1)
  BY <1>1, <1>2 DEF Unfolds, Hidden
<1>3. CASE c.how = "operator" /\ k = 1
  <2>1. WrittenArg(c, 1) /\ 1 \in DOMAIN w
    BY <1>3, WrittenIs
  <2>2. e = LayerOf(c, 1, l) /\ e.passed = c.passed
    BY <2>1, EventIs DEF WrittenArg
  <2>3. "own" \in Forms \ {"macro"} /\ begins \subseteq Forms \ {"macro"}
    BY DEF Forms
  <2>4. /\ l \in 1 .. Len(w) /\ l \in DOMAIN w
        /\ \A m \in 1 .. Len(w) : w[m].form \in Forms \ {"macro"} => l <= m
    BY <2>1, <2>3, FirstIs
  <2> HIDE DEF l
  <2>5. /\ f \in l .. Len(w) /\ f \in DOMAIN w /\ w[f].form \in begins
        /\ \A m \in l .. Len(w) : w[m].form \in begins => f <= m
    <3>1. "own" \in begins
      OBVIOUS
    <3> HIDE DEF begins
    <3> QED
      BY <2>1, <2>4, <3>1, FirstIs
  <2>6. /\ g \in 1 .. Len(w) /\ w[g].form \in {"own", "paren", "unary", "macro"}
        /\ \A m \in 1 .. Len(w) : w[m].form \in {"own", "paren", "unary", "macro"} => g <= m
    BY <2>1, FirstIs
  <2> HIDE DEF f, g
  <2>7. Len(w) \in Nat /\ l \in Nat /\ f \in 1 .. Len(w)
    BY <2>1, <2>4, <2>5, WrittenIs
  <2>8. ASSUME w[g].form = "macro" PROVE Inside(w, f)
    <3>1. g <= f /\ g # f
      BY <2>5, <2>6, <2>7, <2>8
    <3>2. g \in 1 .. (f - 1)
      BY <2>6, <2>7, <3>1
    <3> QED
      BY <2>8, <3>2 DEF Inside
  <2>9. ASSUME w[g].form # "macro" PROVE ~Inside(w, f)
    <3>1. w[g].form \in begins
      BY <2>6, <2>9
    <3>2. l <= g
      BY <2>3, <2>4, <2>6, <3>1
    <3>3. f <= g
      BY <2>5, <2>6, <2>7, <3>1, <3>2
    <3>4. SUFFICES ASSUME NEW m \in 1 .. (f - 1), w[m].form = "macro" PROVE FALSE
      BY DEF Inside
    <3>5. m \in 1 .. Len(w) /\ ~(g <= m)
      BY <2>6, <2>7, <3>3
    <3> QED
      BY <2>6, <3>4, <3>5
  <2>10. Inside(w, f) <=> BeginsWithMacro(w)
    BY <2>8, <2>9 DEF BeginsWithMacro, g
  <2>11. e.written = w /\ e.layer = l
    BY <2>1, <2>2, LayerIs
  <2>12. getBeginLoc(e) = TokenAt(<<e.arg, f, "first">>, Outermost(e, f), e.passed)
    BY <2>11 DEF getBeginLoc, TokenOf, f
  <2>13. Event(c).origin = <<getBeginLoc(e)>>
    BY <1>3 DEF Event
  <2>14. Event(c).origin[1].macro = Outermost(e, f)
    BY <2>12, <2>13 DEF TokenAt
  <2>15. Outermost(e, f) = IF Inside(w, f) THEN <<ItsMacro(c, 1)>> ELSE <<>>
    BY <1>3, <2>1, <2>2, <2>5, OutermostIs
  <2>16. Event(c).origin[1].macro # <<>> <=> BeginsWithMacro(w)
    BY <2>10, <2>14, <2>15
  <2>17. call.args[1].passed = c.passed
    BY <2>2
  <2> QED
    BY <1>1, <1>3, <2>16, <2>17 DEF Unfolds, Hidden
<1> QED
  BY <1>2, <1>3

\* A token of an argument is in the call's expansion while it is being passed on,
\* and afterwards only in a macro that is one with the call's.
LEMMA WithinIs ==
    ASSUME NEW c, NEW k, WrittenArg(c, k), NEW n, NEW t, t # "macro", NEW p \in 0 .. c.passed,
           NEW macro, macro \in {<<>>, IF c.how = "body" THEN <<CallMacro>> ELSE <<ItsMacro(c, k)>>}
    PROVE  LET loc == TokenAt(<<k, n, t>>, macro, p) IN
           /\ p > 0 => Within(c, loc)
           /\ p = 0 /\ macro # <<>> => (Within(c, loc) <=> Unfolds(c, k))
           /\ p = 0 /\ macro = <<>> /\ c.passed > 0 => ~Within(c, loc)
<1> DEFINE loc == TokenAt(<<k, n, t>>, macro, p)
           o == Event(c).origin[1]
<1>1. c \in Calls /\ c.passed \in Nat /\ p \in Nat /\ p <= c.passed
  BY CallsAssumption DEF WrittenArg
<1>2. loc.passed = p /\ loc.macro = macro /\ loc.at = <<k, n, t>>
  BY DEF TokenAt
<1>3. /\ CallMacro.at = <<0, 0, "macro">> /\ CallMacro.at[3] = "macro"
      /\ ItsMacro(c, k).at[3] = "macro" /\ ItsMacro(c, k).at[1] = k
      /\ ItsMacro(c, 1).at[3] = "macro" /\ ItsMacro(c, 1).at[1] = 1
  BY DEF CallMacro, MacroAt, ItsMacro
<1>4. getExpansionLoc(loc) = IF p > 0 THEN CallMacro ELSE IF macro # <<>> THEN macro[1] ELSE loc
  BY <1>2 DEF getExpansionLoc
<1>5. k \in Nat /\ k >= 1
  <2>1. DOMAIN c.written = 1 .. Len(c.written)
    BY <1>1, EventIs
  <2> QED
    BY <2>1 DEF WrittenArg
<1>6. ItsMacro(c, k) # CallMacro
  BY <1>5 DEF CallMacro, MacroAt, ItsMacro
<1>7. loc.at[3] # "macro"
  BY <1>2
<1>8. CASE c.how = "implicit" /\ Event(c).origin = <<>> /\ c.passed = 0
  BY <1>8, <1>1 DEF Within, Unfolds
<1>9. CASE /\ c.how \in {"direct", "body"}
           /\ Event(c).origin = <<TokenAt(<<0, 0, "first">>, IF c.how = "body" THEN <<CallMacro>> ELSE <<>>, c.passed)>>
  <2>1. /\ Event(c).origin # <<>> /\ o.passed = c.passed /\ o.at[3] = "first" /\ o.at[1] = 0
        /\ o.macro = IF c.how = "body" THEN <<CallMacro>> ELSE <<>>
    BY <1>9 DEF TokenAt
  <2>2. getExpansionLoc(o) = IF c.passed > 0 \/ c.how = "body" THEN CallMacro ELSE o
    BY <2>1, <1>1 DEF getExpansionLoc
  <2> HIDE DEF loc, o
  <2>3. Within(c, loc) <=> (getExpansionLoc(loc) = getExpansionLoc(o))
    BY <2>1 DEF Within, o
  <2>4. Unfolds(c, k) <=> c.how = "body"
    BY <1>9 DEF Unfolds
  <2>5. p > 0 => Within(c, loc)
    BY <2>2, <2>3, <1>1, <1>4
  <2>6. p = 0 /\ macro # <<>> => (Within(c, loc) <=> Unfolds(c, k))
    BY <2>1, <2>2, <2>3, <2>4, <1>1, <1>3, <1>4, <1>6
  <2>7. p = 0 /\ macro = <<>> /\ c.passed > 0 => ~Within(c, loc)
    BY <2>2, <2>3, <1>1, <1>3, <1>4, <1>7
  <2> QED
    BY <2>5, <2>6, <2>7 DEF loc
<1>10. CASE /\ c.how = "operator" /\ WrittenArg(c, 1)
            /\ \E m : \E outer \in {<<>>, <<ItsMacro(c, 1)>>} :
                   Event(c).origin = <<TokenAt(<<1, m, "first">>, outer, c.passed)>>
  <2>0. PICK m : \E outer \in {<<>>, <<ItsMacro(c, 1)>>} :
            Event(c).origin = <<TokenAt(<<1, m, "first">>, outer, c.passed)>>
    BY <1>10
  <2>1. PICK outer \in {<<>>, <<ItsMacro(c, 1)>>} :
            Event(c).origin = <<TokenAt(<<1, m, "first">>, outer, c.passed)>>
    BY <2>0
  <2>2. /\ Event(c).origin # <<>> /\ o.passed = c.passed /\ o.at[3] = "first" /\ o.at[1] = 1
        /\ o.macro = outer
    BY <2>1 DEF TokenAt
  <2>3. getExpansionLoc(o) = IF c.passed > 0 THEN CallMacro
                             ELSE IF outer # <<>> THEN ItsMacro(c, 1) ELSE o
    BY <2>1, <2>2, <1>1 DEF getExpansionLoc
  <2>4. Unfolds(c, k) <=> (k = 1 /\ c.passed = 0 /\ outer # <<>>)
    BY <2>2, <1>10 DEF Unfolds
  <2> HIDE DEF loc, o
  <2>5. Within(c, loc) <=> (getExpansionLoc(loc) = getExpansionLoc(o))
    BY <2>2 DEF Within, o
  <2>6. p > 0 => Within(c, loc)
    BY <2>3, <2>5, <1>1, <1>4
  <2>7. p = 0 /\ macro # <<>> => (Within(c, loc) <=> Unfolds(c, k))
    <3>1. macro # <<>> => macro[1] = ItsMacro(c, k)
      BY <1>10
    <3> QED
      BY <3>1, <2>2, <2>3, <2>4, <2>5, <1>1, <1>3, <1>4, <1>6
  <2>8. p = 0 /\ macro = <<>> /\ c.passed > 0 => ~Within(c, loc)
    BY <2>3, <2>5, <1>1, <1>3, <1>4, <1>7
  <2> QED
    BY <2>6, <2>7, <2>8 DEF loc
<1> HIDE DEF loc
<1> QED
  BY <1>1, <1>8, <1>9, <1>10, OriginIs DEF loc

-----------------------------------------------------------------------------
(* The names *)

\* The reference names are names.
LEMMA NameTypes ==
    ASSUME NEW c, NEW k, WrittenArg(c, k)
    PROVE  NameWritten(c.written[k]) \in Name /\ NameExpanded(c.written[k]) \in Name
<1> DEFINE w == c.written[k]
           A == {l \in DOMAIN w : Names(w[l])}
           B == {l \in DOMAIN w : Names(w[l]) \/ w[l].form = "macro"}
<1>1. /\ Len(w) \in Nat /\ Len(w) >= 1 /\ DOMAIN w = 1 .. Len(w)
      /\ w[Len(w)].form = "own" /\ \A l \in DOMAIN w : w[l].name \in Name
  BY WrittenIs
<1>2. A \in SUBSET Nat /\ B \in SUBSET Nat /\ Len(w) \in A /\ Len(w) \in B
  BY <1>1 DEF Names
<1>3. Min(A) \in DOMAIN w /\ Min(B) \in DOMAIN w
  BY <1>2, MinIs
<1> QED
  BY <1>1, <1>3 DEF NameWritten, NameExpanded

\* The first layer with a name gives it to what is around it.
LEMMA NameAt ==
    ASSUME NEW c, NEW k, WrittenArg(c, k), NEW l \in DOMAIN c.written[k],
           Names(c.written[k][l]), \A m \in 1 .. (l - 1) : ~Names(c.written[k][m])
    PROVE  /\ NameExpanded(c.written[k]) = c.written[k][l].name
           /\ ~Inside(c.written[k], l) /\ c.written[k][l].form # "macro" =>
                 NameWritten(c.written[k]) = c.written[k][l].name
<1> DEFINE w == c.written[k]
           A == {m \in DOMAIN w : Names(w[m])}
           B == {m \in DOMAIN w : Names(w[m]) \/ w[m].form = "macro"}
<1>1. Len(w) \in Nat /\ DOMAIN w = 1 .. Len(w) /\ l \in 1 .. Len(w)
  BY WrittenIs
<1>2. A \in SUBSET Nat /\ B \in SUBSET Nat /\ l \in A /\ l \in B
  BY <1>1
<1>3. \A y \in A : l <= y
  BY <1>1
<1>4. Min(A) = l
  BY <1>2, <1>3, MinUnique
<1>5. ASSUME ~Inside(w, l) PROVE Min(B) = l
  <2>1. \A y \in B : l <= y
    BY <1>1, <1>5 DEF Inside
  <2> QED
    BY <1>2, <2>1, MinUnique
<1> QED
  BY <1>4, <1>5 DEF NameWritten, NameExpanded

\* So does a macro, when there is no name around it.
LEMMA NameOfMacro ==
    ASSUME NEW c, NEW k, WrittenArg(c, k), NEW l \in DOMAIN c.written[k],
           Inside(c.written[k], l), \A m \in 1 .. (l - 1) : ~Names(c.written[k][m])
    PROVE  NameWritten(c.written[k]) = ItsMacro(c, k).text
<1> DEFINE w == c.written[k]
           f == First(w, 1, {"macro"})
           B == {m \in DOMAIN w : Names(w[m]) \/ w[m].form = "macro"}
<1>1. Len(w) \in Nat /\ DOMAIN w = 1 .. Len(w) /\ l \in 1 .. Len(w)
  BY WrittenIs
<1>2. /\ f \in 1 .. (l - 1) /\ f \in DOMAIN w /\ w[f].form = "macro"
      /\ \A m \in DOMAIN w : w[m].form = "macro" => f <= m
  BY FirstMacro
<1> HIDE DEF f
<1>3. B \in SUBSET Nat /\ f \in B
  BY <1>1, <1>2
<1>4. \A y \in B : f <= y
  BY <1>1, <1>2
<1>5. Min(B) = f
  BY <1>3, <1>4, MinUnique
<1> QED
  BY <1>5 DEF NameWritten, ItsMacro, MacroAt, f

-----------------------------------------------------------------------------
(* exprName at work on an argument *)

Busy == {"strip", "peel", "name"}

\* exprName looks at an expression of the argument that has no name around it.
Looking(c, k) ==
    LET w == c.written[k]
    IN  /\ WrittenArg(c, k)
        /\ expr.layer \in DOMAIN w /\ expr = LayerOf(c, k, expr.layer)
        /\ w[expr.layer].form # "macro"
        /\ \A l \in 1 .. (expr.layer - 1) : ~Names(w[l])
        /\ pc # "strip" => w[expr.layer].form \notin {"paren", "cast"}

\* It goes by the expression itself only outside of macros, or in one that is one
\* with the call's.
NotByMacro(c, k) == pc = "name" /\ Inside(c.written[k], expr.layer) => Unfolds(c, k)

\* The range has been followed back through some of what passed it on, or, in a
\* macro that is one with the call's, to the file.
FollowedBack(c, k) ==
    LET b == getBeginLoc(expr)  d == getEndLoc(expr)
    IN  /\ isMacroID(b)
        /\ \E p \in 0 .. c.passed :
              \/ begin = TokenAt(b.at, b.macro, p) /\ end = TokenAt(d.at, d.macro, p)
              \/ /\ Unfolds(c, k) /\ p = 0
                 /\ begin = TokenAt(b.at, <<>>, 0) /\ end = TokenAt(d.at, <<>>, 0)

NamingInv(c, k) ==
    /\ pc \in Busy
    /\ Looking(c, k)
    /\ NotByMacro(c, k)
    /\ pc = "peel" => FollowedBack(c, k)

GoodName(c, k, n) ==
    /\ n \in Name
    /\ n = IF Unfolds(c, k) THEN NameExpanded(c.written[k]) ELSE NameWritten(c.written[k])

\* The layer below that is not a macro.
LEMMA LayerBelow ==
    ASSUME NEW c, NEW k, WrittenArg(c, k), NEW l \in DOMAIN c.written[k],
           c.written[k][l].form # "own", c.written[k][l].form # "macro",
           ~Names(c.written[k][l]), \A m \in 1 .. (l - 1) : ~Names(c.written[k][m])
    PROVE  LET w == c.written[k]  below == First(w, l + 1, Forms \ {"macro"}) IN
           /\ getSubExpr(LayerOf(c, k, l)) = LayerOf(c, k, below)
           /\ below \in DOMAIN w /\ w[below].form # "macro"
           /\ \A m \in 1 .. (below - 1) : ~Names(w[m])
<1> DEFINE w == c.written[k]
           below == First(w, l + 1, Forms \ {"macro"})
<1>1. Len(w) \in Nat /\ DOMAIN w = 1 .. Len(w) /\ l \in 1 .. Len(w) /\ l # Len(w)
  BY WrittenIs
<1>2. \A m \in DOMAIN w : w[m].form \in Forms
  BY WrittenIs
<1>3. l + 1 \in DOMAIN w
  BY <1>1
<1>4. "own" \in Forms \ {"macro"}
  BY DEF Forms
<1>5. /\ below \in (l + 1) .. Len(w) /\ below \in DOMAIN w /\ w[below].form \in Forms \ {"macro"}
      /\ \A m \in (l + 1) .. Len(w) : w[m].form \in Forms \ {"macro"} => below <= m
  BY <1>3, <1>4, FirstIs
<1>6. getSubExpr(LayerOf(c, k, l)) = LayerOf(c, k, below)
  BY LayerIs DEF getSubExpr
<1> HIDE DEF below
<1>7. ASSUME NEW m \in 1 .. (below - 1) PROVE ~Names(w[m])
  <2>1. CASE m < l
    BY <2>1, <1>1
  <2>2. CASE m = l
    BY <2>2
  <2>3. CASE m > l
    <3>0. m \in (l + 1) .. Len(w) /\ m \in DOMAIN w /\ ~(below <= m)
      BY <2>3, <1>1, <1>5
    <3>1. w[m].form = "macro"
      BY <3>0, <1>2, <1>5
    <3> QED
      BY <3>1 DEF Names
  <2> QED
    BY <2>1, <2>2, <2>3, <1>1, <1>5
<1> QED
  BY <1>5, <1>6, <1>7 DEF below

\* What is known of the tokens that exprName follows back.
LEMMA RangeIs ==
    ASSUME NEW c, NEW k, Looking(c, k)
    PROVE  LET w == c.written[k]  l == expr.layer
               b == getBeginLoc(expr)  d == getEndLoc(expr)
               its == IF c.how = "body" THEN <<CallMacro>> ELSE <<ItsMacro(c, k)>>
           IN  /\ c.passed \in Nat
               /\ b = TokenAt(b.at, b.macro, c.passed) /\ d = TokenAt(d.at, d.macro, c.passed)
               /\ \E n : b.at = <<k, n, "first">>
               /\ \E n : \E t \in {"first", "last"} : d.at = <<k, n, t>>
               /\ b.at[3] # "macro" /\ d.at[3] # "macro"
               /\ b.macro \in {<<>>, its} /\ d.macro \in {<<>>, its} /\ its # <<>>
               /\ Inside(w, l) => b.macro = its /\ d.macro = its
               /\ c.how # "body" /\ pc # "strip" /\ b.macro # <<>> /\ d.macro # <<>> => Inside(w, l)
<1> DEFINE w == c.written[k]
           l == expr.layer
           b == getBeginLoc(expr)
           d == getEndLoc(expr)
           its == IF c.how = "body" THEN <<CallMacro>> ELSE <<ItsMacro(c, k)>>
<1>1. /\ WrittenArg(c, k) /\ l \in DOMAIN w /\ expr = LayerOf(c, k, l)
      /\ pc # "strip" => w[l].form \notin {"paren", "cast", "macro"}
  BY DEF Looking
<1>2. c.passed \in Nat
  BY <1>1, CallsAssumption DEF WrittenArg
<1>3. /\ \E n : b = TokenAt(<<k, n, "first">>, b.macro, c.passed)
      /\ \E n : \E t \in {"first", "last"} : d = TokenAt(<<k, n, t>>, d.macro, c.passed)
      /\ b.macro \in {<<>>, its} /\ d.macro \in {<<>>, its}
      /\ c.how = "body" \/ Inside(w, l) => b.macro = its /\ d.macro = its
      /\ c.how # "body" /\ w[l].form \notin {"paren", "cast", "macro"}
         /\ b.macro # <<>> /\ d.macro # <<>> => Inside(w, l)
  <2> HIDE DEF l
  <2> DEFINE x == LayerOf(c, k, l)
  <2>1. b = getBeginLoc(x) /\ d = getEndLoc(x)
    BY <1>1
  <2>2. /\ \E n : getBeginLoc(x) = TokenAt(<<k, n, "first">>, getBeginLoc(x).macro, c.passed)
        /\ \E n : \E t \in {"first", "last"} : getEndLoc(x) = TokenAt(<<k, n, t>>, getEndLoc(x).macro, c.passed)
        /\ getBeginLoc(x).macro \in {<<>>, its} /\ getEndLoc(x).macro \in {<<>>, its}
        /\ c.how = "body" \/ Inside(w, l) => getBeginLoc(x).macro = its /\ getEndLoc(x).macro = its
        /\ c.how # "body" /\ w[l].form \notin {"paren", "cast", "macro"}
           /\ getBeginLoc(x).macro # <<>> /\ getEndLoc(x).macro # <<>> => Inside(w, l)
    BY <1>1, TokensAre
  <2> HIDE DEF x, b, d, its, w
  <2> QED
    BY <2>1, <2>2
<1>4. its # <<>>
  OBVIOUS
<1> HIDE DEF w, l, b, d, its
<1>5. /\ b = TokenAt(b.at, b.macro, c.passed) /\ b.at[3] # "macro"
      /\ \E n : b.at = <<k, n, "first">>
  <2>1. PICK n : b = TokenAt(<<k, n, "first">>, b.macro, c.passed)
    BY <1>3
  <2>2. b.at = <<k, n, "first">>
    BY <2>1 DEF TokenAt
  <2> QED
    BY <2>1, <2>2
<1>6. /\ d = TokenAt(d.at, d.macro, c.passed) /\ d.at[3] # "macro"
      /\ \E n : \E t \in {"first", "last"} : d.at = <<k, n, t>>
  <2>1. PICK n : \E t \in {"first", "last"} : d = TokenAt(<<k, n, t>>, d.macro, c.passed)
    BY <1>3
  <2>2. PICK t \in {"first", "last"} : d = TokenAt(<<k, n, t>>, d.macro, c.passed)
    BY <2>1
  <2>3. d.at = <<k, n, t>>
    BY <2>2 DEF TokenAt
  <2> QED
    BY <2>2, <2>3
<1>7. c.how # "body" /\ pc # "strip" /\ b.macro # <<>> /\ d.macro # <<>> => Inside(w, l)
  BY <1>1, <1>3
<1> QED
  BY <1>2, <1>3, <1>4, <1>5, <1>6, <1>7 DEF w, l, b, d, its

\* A range that the call's expansion does not hold, and how much of it is a macro.
LEMMA PeelIs ==
    ASSUME NEW c, NEW k, call = Event(c), Looking(c, k), pc = "peel", FollowedBack(c, k)
    PROVE  /\ WithinCall /\ begin.passed = 0 => Unfolds(c, k)
           /\ ~WithinCall /\ OneMacro =>
                 /\ Inside(c.written[k], expr.layer) /\ getExpansionLoc(begin) = ItsMacro(c, k)
                 /\ ~Unfolds(c, k)
           /\ ~WithinCall /\ ~OneMacro /\ Inside(c.written[k], expr.layer) => Unfolds(c, k)
<1> DEFINE w == c.written[k]
           l == expr.layer
           b == getBeginLoc(expr)
           d == getEndLoc(expr)
           its == IF c.how = "body" THEN <<CallMacro>> ELSE <<ItsMacro(c, k)>>
<1>1. /\ c.passed \in Nat
      /\ b = TokenAt(b.at, b.macro, c.passed) /\ d = TokenAt(d.at, d.macro, c.passed)
      /\ \E n : b.at = <<k, n, "first">>
      /\ b.at[3] # "macro" /\ d.at[3] # "macro"
      /\ b.macro \in {<<>>, its} /\ d.macro \in {<<>>, its} /\ its # <<>>
      /\ Inside(w, l) => b.macro = its /\ d.macro = its
      /\ c.how # "body" /\ b.macro # <<>> /\ d.macro # <<>> => Inside(w, l)
  BY RangeIs
<1>2. PICK p \in 0 .. c.passed :
          \/ begin = TokenAt(b.at, b.macro, p) /\ end = TokenAt(d.at, d.macro, p)
          \/ /\ Unfolds(c, k) /\ p = 0
             /\ begin = TokenAt(b.at, <<>>, 0) /\ end = TokenAt(d.at, <<>>, 0)
  BY DEF FollowedBack
<1>3. b.passed = c.passed /\ (c.passed > 0 \/ b.macro # <<>>)
  BY <1>1 DEF FollowedBack, isMacroID, TokenAt
<1>4. WrittenArg(c, k)
  BY DEF Looking
<1>5. WithinCall <=> Within(c, begin)
  BY DEF WithinCall, Within
<1>6. PICK n : b.at = <<k, n, "first">>
  BY <1>1
<1>7. \A macro \in {<<>>, its} : \A q \in 0 .. c.passed :
          LET loc == TokenAt(b.at, macro, q) IN
          /\ q > 0 => Within(c, loc)
          /\ q = 0 /\ macro # <<>> => (Within(c, loc) <=> Unfolds(c, k))
          /\ q = 0 /\ macro = <<>> /\ c.passed > 0 => ~Within(c, loc)
  BY <1>4, <1>6, WithinIs
<1>8. p \in Nat
  BY <1>1
<1> HIDE DEF w, l, b, d, its
<1>9. CASE begin = TokenAt(b.at, b.macro, p) /\ end = TokenAt(d.at, d.macro, p)
  <2>1. /\ p > 0 => Within(c, begin)
        /\ p = 0 /\ b.macro # <<>> => (Within(c, begin) <=> Unfolds(c, k))
        /\ p = 0 /\ b.macro = <<>> => ~Within(c, begin)
    BY <1>1, <1>3, <1>7, <1>9
  <2>2. /\ begin.passed = p /\ begin.macro = b.macro /\ begin.at = b.at
        /\ end.passed = p /\ end.macro = d.macro /\ end.at = d.at
    BY <1>9 DEF TokenAt
  <2>3. isMacroID(begin) <=> (p > 0 \/ b.macro # <<>>)
    BY <2>2 DEF isMacroID
  <2>5. WithinCall /\ begin.passed = 0 => Unfolds(c, k)
    BY <1>5, <2>1, <2>2
  <2>6. ASSUME ~WithinCall, OneMacro
        PROVE  Inside(w, l) /\ getExpansionLoc(begin) = ItsMacro(c, k) /\ ~Unfolds(c, k)
    <3>1. p = 0 /\ b.macro # <<>> /\ ~Unfolds(c, k)
      BY <1>5, <1>8, <2>1, <2>3, <2>6 DEF OneMacro
    <3>2. c.how # "body" /\ b.macro = <<ItsMacro(c, k)>>
      BY <1>1, <3>1 DEF Unfolds, its
    <3>3. getExpansionLoc(begin) = ItsMacro(c, k)
      BY <2>2, <3>1, <3>2 DEF getExpansionLoc
    <3>4. d.macro = <<>> => getExpansionLoc(end).at = d.at
      BY <2>2, <3>1 DEF getExpansionLoc
    <3>5. ItsMacro(c, k).at[3] = "macro"
      BY DEF ItsMacro, MacroAt
    <3>6. d.macro # <<>>
      BY <1>1, <2>6, <3>3, <3>4, <3>5 DEF OneMacro
    <3> QED
      BY <1>1, <3>1, <3>2, <3>3, <3>6
  <2>7. ASSUME ~WithinCall, ~OneMacro, Inside(w, l)
        PROVE  Unfolds(c, k)
    <3>1. b.macro = d.macro /\ b.macro # <<>>
      BY <1>1, <2>7
    <3>2. getExpansionLoc(begin) = getExpansionLoc(end)
      BY <2>2, <3>1 DEF getExpansionLoc
    <3> QED
      BY <3>1, <3>2, <2>3, <2>7 DEF OneMacro
  <2> QED
    BY <2>5, <2>6, <2>7 DEF w, l
<1>10. CASE /\ Unfolds(c, k) /\ p = 0
            /\ begin = TokenAt(b.at, <<>>, 0) /\ end = TokenAt(d.at, <<>>, 0)
  <2>1. begin.passed = 0 /\ begin.macro = <<>> /\ begin.at = b.at
    BY <1>10 DEF TokenAt
  <2>2. ~isMacroID(begin)
    BY <2>1 DEF isMacroID
  <2> QED
    BY <2>2, <1>10 DEF OneMacro
<1> QED
  BY <1>2, <1>9, <1>10

\* A step of exprName goes on with the argument, or ends with a name it may have.
LEMMA NamingStep ==
    ASSUME NEW c, NEW k, call = Event(c), NamingInv(c, k), exprName
    PROVE  /\ call' = call
           /\ \/ names' = names /\ NamingInv(c, k)'
              \/ pc' = "argument" /\ \E n : GoodName(c, k, n) /\ names' = Append(names, <<n>>)
<1> DEFINE w == c.written[k]
           l == expr.layer
<1>1. /\ WrittenArg(c, k) /\ l \in DOMAIN w /\ expr = LayerOf(c, k, l) /\ w[l].form # "macro"
      /\ \A m \in 1 .. (l - 1) : ~Names(w[m])
      /\ pc # "strip" => w[l].form \notin {"paren", "cast"}
  BY DEF NamingInv, Looking
<1>2. kind(expr) = w[l].form /\ name(expr) = w[l].name
  <2> HIDE DEF l
  <2>1. expr.written = w /\ expr.layer = l
    BY <1>1, LayerIs
  <2> QED
    BY <2>1 DEF kind, name
<1>3. Len(w) \in Nat /\ DOMAIN w = 1 .. Len(w) /\ w[l].form \in Forms
      /\ (w[l].form = "binary" => w[l].name = NoName) /\ w[l].name \in Name
  BY <1>1, WrittenIs
<1>4. NameWritten(w) \in Name /\ NameExpanded(w) \in Name
  BY <1>1, NameTypes
<1>5. Looking(c, k) /\ pc \in Busy
  BY DEF NamingInv
<1> HIDE DEF w, l
<1>6. ASSUME expr' = getSubExpr(expr), pc' = "strip", w[l].form \in {"paren", "cast", "subscript", "unary", "call"}, ~Names(w[l])
      PROVE  NamingInv(c, k)'
  <2> DEFINE below == First(w, l + 1, Forms \ {"macro"})
  <2>1. /\ getSubExpr(LayerOf(c, k, l)) = LayerOf(c, k, below)
        /\ below \in DOMAIN w /\ w[below].form # "macro"
        /\ \A m \in 1 .. (below - 1) : ~Names(w[m])
    BY <1>1, <1>6, LayerBelow DEF w
  <2> HIDE DEF below
  <2>2. expr' = LayerOf(c, k, below)
    BY <1>1, <1>6, <2>1
  <2>3. expr'.layer = below
    BY <2>2, <1>1, LayerIs
  <2>4. Looking(c, k)'
    BY <1>1, <1>6, <2>1, <2>2, <2>3 DEF Looking, w
  <2> QED
    BY <2>4, <1>6 DEF NamingInv, NotByMacro, Busy
<1>7. CASE Strip
  <2>1. ~Names(w[l])
    BY <1>2, <1>7 DEF Strip, Names
  <2> QED
    BY <1>2, <1>6, <1>7, <2>1 DEF Strip
<1>8. CASE Stripped
  <2>1. call' = call /\ names' = names /\ expr' = expr /\ pc' \in {"peel", "name"}
    BY <1>8 DEF Stripped
  <2>2. /\ begin' = getBeginLoc(expr) /\ end' = getEndLoc(expr)
        /\ pc' = IF isMacroID(getBeginLoc(expr)) THEN "peel" ELSE "name"
        /\ w[l].form \notin {"paren", "cast"}
    BY <1>2, <1>8 DEF Stripped
  <2>3. Looking(c, k)'
    BY <1>1, <2>1, <2>2 DEF Looking, w, l
  <2> DEFINE b == getBeginLoc(expr)
             d == getEndLoc(expr)
             its == IF c.how = "body" THEN <<CallMacro>> ELSE <<ItsMacro(c, k)>>
  <2>4. /\ c.passed \in Nat
        /\ b = TokenAt(b.at, b.macro, c.passed) /\ d = TokenAt(d.at, d.macro, c.passed)
        /\ its # <<>> /\ (Inside(w, l) => b.macro = its)
    BY <1>5, RangeIs DEF w, l
  <2> HIDE DEF its, b, d
  <2>5. b' = b /\ d' = d
    BY <2>1 DEF b, d
  <2>6. pc' = "peel" => FollowedBack(c, k)'
    <3>1. c.passed \in 0 .. c.passed
      BY <2>4
    <3>2. pc' = "peel" => isMacroID(b)
      BY <2>2 DEF b
    <3>3. begin' = b /\ end' = d
      BY <2>2 DEF b, d
    <3>4. pc' = "peel" =>
            /\ isMacroID(b')
            /\ \E p \in 0 .. c.passed : begin' = TokenAt((b').at, (b').macro, p) /\ end' = TokenAt((d').at, (d').macro, p)
      BY <3>1, <3>2, <3>3, <2>4, <2>5
    <3> QED
      BY <3>4 DEF FollowedBack, b, d
  <2>7. NotByMacro(c, k)'
    <3>1. pc' = "name" => ~Inside(w, l)
      BY <2>2, <2>4 DEF isMacroID, b
    <3>2. (expr.layer)' = l
      BY <2>1 DEF l
    <3> QED
      BY <3>1, <3>2 DEF NotByMacro, w
  <2> QED
    BY <2>1, <2>3, <2>6, <2>7 DEF NamingInv, Busy
<1>9. ASSUME pc = "peel" PROVE FollowedBack(c, k)
  BY <1>9 DEF NamingInv
<1>10. CASE Peel
  <2>1. /\ pc = "peel" /\ WithinCall /\ UNCHANGED <<pc, call, names, expr>>
        /\ begin' = getImmediateSpellingLoc(begin) /\ end' = getImmediateSpellingLoc(end)
    BY <1>10 DEF Peel, Peeling, Spelled
  <2>2. Looking(c, k)' /\ NotByMacro(c, k)'
    BY <1>5, <2>1 DEF Looking, NotByMacro
  <2>3. FollowedBack(c, k)'
    <3> DEFINE b == getBeginLoc(expr)
               d == getEndLoc(expr)
    <3>1. isMacroID(b) /\ \E p \in 0 .. c.passed :
              \/ begin = TokenAt(b.at, b.macro, p) /\ end = TokenAt(d.at, d.macro, p)
              \/ /\ Unfolds(c, k) /\ p = 0
                 /\ begin = TokenAt(b.at, <<>>, 0) /\ end = TokenAt(d.at, <<>>, 0)
      BY <1>9, <2>1 DEF FollowedBack
    <3>2. WithinCall /\ begin.passed = 0 => Unfolds(c, k)
      BY <1>5, <1>9, <2>1, PeelIs
    <3>3. c.passed \in Nat
      BY <1>5, RangeIs
    <3>4. b' = b /\ d' = d
      BY <2>1
    <3> HIDE DEF b, d
    <3>5. PICK p \in 0 .. c.passed :
              \/ begin = TokenAt(b.at, b.macro, p) /\ end = TokenAt(d.at, d.macro, p)
              \/ /\ Unfolds(c, k) /\ p = 0
                 /\ begin = TokenAt(b.at, <<>>, 0) /\ end = TokenAt(d.at, <<>>, 0)
      BY <3>1
    <3>6. \E q \in 0 .. c.passed :
              \/ begin' = TokenAt(b.at, b.macro, q) /\ end' = TokenAt(d.at, d.macro, q)
              \/ /\ Unfolds(c, k) /\ q = 0
                 /\ begin' = TokenAt(b.at, <<>>, 0) /\ end' = TokenAt(d.at, <<>>, 0)
      <4>1. CASE p > 0
        <5>1. begin' = TokenAt(b.at, b.macro, p - 1) /\ end' = TokenAt(d.at, d.macro, p - 1)
          BY <4>1, <3>3, <3>5, <2>1 DEF getImmediateSpellingLoc, TokenAt
        <5> QED
          BY <5>1, <4>1, <3>3
      <4>2. CASE p = 0
        <5>1. begin' = TokenAt(b.at, <<>>, 0) /\ end' = TokenAt(d.at, <<>>, 0) /\ begin.passed = 0
          BY <4>2, <3>5, <2>1 DEF getImmediateSpellingLoc, TokenAt
        <5> QED
          BY <5>1, <4>2, <3>2, <2>1
      <4> QED
        BY <4>1, <4>2, <3>3
    <3> QED
      BY <3>1, <3>4, <3>6 DEF FollowedBack, b, d
  <2> QED
    BY <1>5, <2>1, <2>2, <2>3 DEF NamingInv
<1>11. CASE MacroName
  <2>1. /\ pc = "peel" /\ ~WithinCall /\ OneMacro /\ pc' = "argument" /\ call' = call
        /\ names' = Append(names, <<getSpelling(getExpansionLoc(begin))>>)
    BY <1>11 DEF MacroName, Named, Peeling
  <2>2. Inside(w, l) /\ getExpansionLoc(begin) = ItsMacro(c, k) /\ ~Unfolds(c, k)
    BY <1>5, <1>9, <2>1, PeelIs DEF w, l
  <2>3. NameWritten(w) = getSpelling(getExpansionLoc(begin))
    BY <1>1, <2>2, NameOfMacro DEF getSpelling, w
  <2> QED
    BY <2>1, <2>2, <2>3, <1>4 DEF GoodName, w
<1>12. CASE NotOneMacro
  <2>1. /\ pc = "peel" /\ ~WithinCall /\ ~OneMacro /\ pc' = "name"
        /\ UNCHANGED <<call, names, expr>>
    BY <1>12 DEF NotOneMacro, Peeling
  <2>2. Inside(w, l) => Unfolds(c, k)
    BY <1>5, <1>9, <2>1, PeelIs DEF w, l
  <2>3. Looking(c, k)'
    BY <1>5, <2>1 DEF Looking
  <2>4. NotByMacro(c, k)'
    BY <2>1, <2>2 DEF NotByMacro, w, l
  <2> QED
    BY <2>1, <2>3, <2>4 DEF NamingInv, Busy
<1>13. ASSUME pc = "name", Inside(w, l) PROVE Unfolds(c, k)
  BY <1>13 DEF NamingInv, NotByMacro, w, l
<1>14. ASSUME pc = "name", Names(w[l]) PROVE GoodName(c, k, w[l].name)
  BY <1>1, <1>3, <1>13, <1>14, NameAt DEF GoodName, w
<1>15. HasName <=> w[l].form = "own" \/ (w[l].form = "call" /\ w[l].name # NoName)
  BY <1>2 DEF HasName
<1>16. CASE OwnName
  <2>1. /\ pc = "name" /\ HasName /\ pc' = "argument" /\ call' = call
        /\ names' = Append(names, <<w[l].name>>)
    BY <1>2, <1>16 DEF OwnName, Named
  <2>2. Names(w[l])
    BY <1>15, <2>1 DEF Names
  <2> QED
    BY <1>14, <2>1, <2>2
<1>17. CASE Descend
  <2>1. ~Names(w[l])
    BY <1>2, <1>15, <1>17 DEF Descend, Names
  <2>2. /\ expr' = getSubExpr(expr) /\ pc' = "strip" /\ call' = call /\ names' = names
        /\ w[l].form \in {"subscript", "unary", "call"}
    BY <1>2, <1>17 DEF Descend, StartNaming
  <2> QED
    BY <1>6, <2>1, <2>2
<1>18. CASE Nameless
  <2>1. /\ pc = "name" /\ pc' = "argument" /\ call' = call /\ names' = Append(names, <<NoName>>)
        /\ w[l].form \notin {"own", "subscript", "unary", "call"}
    BY <1>2, <1>18, <1>15 DEF Nameless, Named
  <2>2. w[l].form = "binary"
    BY <1>1, <1>3, <2>1 DEF Forms
  <2>3. Names(w[l]) /\ w[l].name = NoName
    BY <1>3, <2>2 DEF Names
  <2> QED
    BY <1>14, <2>1, <2>3
<1> QED
  BY <1>7, <1>8, <1>10, <1>11, <1>12, <1>16, <1>17, <1>18 DEF exprName

-----------------------------------------------------------------------------
(* The reports *)

\* What is left of D after the first n.
Rest(D, n) == [i \in 1 .. (Len(D) - n) |-> D[n + i]]

\* Each report is taken from the front of what is left.
LEMMA RestIs ==
    ASSUME NEW S, NEW D \in Seq(S), NEW n \in 0 .. Len(D)
    PROVE  /\ Rest(D, 0) = D
           /\ Rest(D, n) = <<>> => n = Len(D)
           /\ Rest(D, n) # <<>> =>
                 /\ n < Len(D) /\ Head(Rest(D, n)) = D[n + 1]
                 /\ Tail(Rest(D, n)) = Rest(D, n + 1)
<1>1. Len(D) \in Nat /\ DOMAIN D = 1 .. Len(D) /\ \A i \in 1 .. Len(D) : D[i] \in S
  OBVIOUS
<1>2. Rest(D, 0) = D
  BY <1>1 DEF Rest
<1>3. Rest(D, n) \in Seq(S) /\ Len(Rest(D, n)) = Len(D) - n
  <2>1. Rest(D, n) \in [1 .. (Len(D) - n) -> S]
    BY <1>1 DEF Rest
  <2>2. Len(D) - n \in Nat
    BY <1>1
  <2> QED
    BY <2>1, <2>2
<1> DEFINE R == Rest(D, n)
           T == Tail(R)
<1>0. n \in Int /\ Len(D) \in Int /\ n <= Len(D)
  OBVIOUS
<1>4. R = <<>> => n = Len(D)
  <2>1. n \in Nat /\ n <= Len(D) /\ Len(R) = Len(D) - n
    BY <1>1, <1>3
  <2> HIDE DEF R
  <2>2. R = <<>> => Len(R) = 0
    OBVIOUS
  <2>3. R = <<>> => Len(D) - n = 0
    BY <2>1, <2>2
  <2> QED
    BY <1>0, <2>3
<1>5. ASSUME R # <<>>
      PROVE  n < Len(D) /\ Head(R) = D[n + 1] /\ Tail(R) = Rest(D, n + 1)
  <2>1. n < Len(D)
    <3>1. n \in Nat /\ n <= Len(D) /\ Len(R) = Len(D) - n /\ R \in Seq(S)
      BY <1>1, <1>3
    <3> HIDE DEF R
    <3>2. Len(R) # 0
      BY <1>5, <3>1
    <3>3. Len(D) - n # 0
      BY <3>1, <3>2
    <3> QED
      BY <1>0, <3>3
  <2>2. \A i \in 1 .. (Len(D) - n) : R[i] = D[n + i]
    BY DEF Rest
  <2> HIDE DEF R
  <2>3. R \in Seq(S) /\ Len(R) = Len(D) - n
    BY <1>3 DEF R
  <2>4. Head(R) = D[n + 1]
    BY <1>1, <2>1, <2>2, <2>3
  <2>5. T \in Seq(S) /\ Len(T) = Len(R) - 1
    BY <1>5, <2>3
  <2>6. \A i \in 1 .. Len(T) : T[i] = R[i + 1]
    BY <1>5, <2>3, <2>5
  <2> HIDE DEF T
  <2>7. Len(T) = Len(D) - (n + 1)
    BY <1>1, <2>1, <2>3, <2>5
  <2>8. \A i \in 1 .. (Len(D) - (n + 1)) : T[i] = D[(n + 1) + i]
    BY <1>1, <2>1, <2>2, <2>6, <2>7
  <2>9. T = [i \in 1 .. (Len(D) - (n + 1)) |-> T[i]]
    BY <2>5, <2>7
  <2>10. T = Rest(D, n + 1)
    BY <2>8, <2>9 DEF Rest
  <2> QED
    BY <2>1, <2>4, <2>10 DEF T
<1> QED
  BY <1>2, <1>4, <1>5

\* The call site as it is written.
SiteWritten(c) ==
    [args |-> [k \in DOMAIN c.written |-> NamesOf(c.written[k])], params |-> c.params]

\* The arguments a deserved report is about are written, and their names have the
\* morphemes it says are swapped.
LEMMA GroundsWritten ==
    ASSUME NEW c \in Calls, NEW stats, NEW r \in Deserved(SiteWritten(c), "All", stats)
    PROVE  /\ r.arg1 \in DOMAIN c.written /\ c.written[r.arg1] # NotWritten
           /\ r.morphemes1 \subseteq Split[NameWritten(c.written[r.arg1])]
           /\ r.arg2 \in DOMAIN c.written /\ c.written[r.arg2] # NotWritten
           /\ r.morphemes2 \subseteq Split[NameWritten(c.written[r.arg2])]
<1> DEFINE s == SiteWritten(c)
<1>1. Len(c.written) \in Nat /\ DOMAIN c.written = 1 .. Len(c.written)
  BY EventIs
<1>2. DOMAIN s.args = 1 .. Len(c.written) /\ Len(s.args) = Len(c.written)
  BY <1>1 DEF SiteWritten
<1>3. \A k \in DOMAIN c.written : s.args[k] = NamesOf(c.written[k])
  BY DEF SiteWritten
<1> HIDE DEF s
<1>4. PICK p \in PairsOf(s) : /\ Verdict(s, "All", stats, p[1], p[2]) # "none"
                              /\ r = ReportOn(s, Verdict(s, "All", stats, p[1], p[2]), p)
  BY <1>1, <1>2, DeservedReports DEF s
<1>5. Usable(s, p[1], p[2])
  BY <1>4 DEF Verdict, CoverVerdict, StatsVerdict
<1>6. /\ p[1] \in 0 .. (Len(c.written) - 1) /\ p[2] \in 0 .. (Len(c.written) - 1)
  BY <1>2, <1>4 DEF PairsOf
<1>7. /\ r.arg1 = p[1] + 1 /\ r.arg2 = p[2] + 1
      /\ r.morphemes1 \subseteq ArgMorphemes(s, p[1]) /\ r.morphemes2 \subseteq ArgMorphemes(s, p[2])
  BY <1>4 DEF ReportOn, UniqueArg
<1>8. ASSUME NEW q \in 0 .. (Len(c.written) - 1), ArgMorphemes(s, q) # {}
      PROVE  /\ q + 1 \in DOMAIN c.written /\ c.written[q + 1] # NotWritten
             /\ ArgMorphemes(s, q) = Split[NameWritten(c.written[q + 1])]
  <2>1. q + 1 \in DOMAIN c.written
    BY <1>1
  <2>2. s.args[q + 1] = NamesOf(c.written[q + 1])
    BY <1>3, <2>1
  <2>3. c.written[q + 1] # NotWritten
    <3>1. CASE s.args[q + 1] = <<>>
      BY <3>1, <1>8 DEF ArgMorphemes
    <3> QED
      BY <3>1, <2>2 DEF NamesOf
  <2>4. s.args[q + 1] = <<NameWritten(c.written[q + 1])>>
    BY <2>2, <2>3 DEF NamesOf
  <2>5. ArgMorphemes(s, q) = Split[NameWritten(c.written[q + 1])]
    BY <2>4 DEF ArgMorphemes
  <2> QED
    BY <2>1, <2>3, <2>5
<1>9. ArgMorphemes(s, p[1]) # {} /\ ArgMorphemes(s, p[2]) # {}
  BY <1>5 DEF Usable
<1> QED
  BY <1>6, <1>7, <1>8, <1>9

\* A report that is taken marks what it should.
MarksWell(c, rep) ==
    rep.marks # <<>> =>
        LET said == <<rep.about.morphemes1, rep.about.morphemes2>>
        IN  \A m \in 1 .. 2 : \E l \in DOMAIN Event(c).args :
                /\ Event(c).args[l] = rep.marks[m]
                /\ c.written[l] # NotWritten
                /\ said[m] \subseteq Split[NameWritten(c.written[l])]

Listed(s) == Len(s) \in Nat /\ s = [i \in 1 .. Len(s) |-> s[i]]

\* The first n of the reports D that are due have been made, in their order.
Made(c, D, n, taken, declined) ==
    /\ Listed(taken) /\ Listed(declined)
    /\ n = Len(taken) + Len(declined) /\ n <= Len(D)
    /\ {taken[k].about : k \in DOMAIN taken} \cup ToSet(declined) = {D[i] : i \in 1 .. n}
    /\ \A k, l \in DOMAIN taken : k < l =>
          \E p, q \in 1 .. n : p < q /\ D[p] = taken[k].about /\ D[q] = taken[l].about
    /\ \A k \in DOMAIN taken : MarksWell(c, taken[k])

\* One more at the end of a vector.
LEMMA AppendIs ==
    ASSUME NEW s, Listed(s), NEW x
    PROVE  /\ Listed(Append(s, x)) /\ Len(Append(s, x)) = Len(s) + 1
           /\ DOMAIN s = 1 .. Len(s) /\ DOMAIN Append(s, x) = 1 .. (Len(s) + 1)
           /\ \A i \in 1 .. Len(s) : Append(s, x)[i] = s[i]
           /\ Append(s, x)[Len(s) + 1] = x
<1> DEFINE S == {s[i] : i \in 1 .. Len(s)} \cup {x}
           a == Append(s, x)
<1>0. Len(s) \in Nat /\ s = [i \in 1 .. Len(s) |-> s[i]]
  BY DEF Listed
<1>1. [i \in 1 .. Len(s) |-> s[i]] \in [1 .. Len(s) -> S]
  OBVIOUS
<1>2. s \in Seq(S)
  BY <1>0, <1>1
<1> HIDE DEF S
<1>3. x \in S
  BY DEF S
<1>4. a \in Seq(S) /\ Len(a) = Len(s) + 1 /\ Len(a) \in Nat
  BY <1>2, <1>3
<1>5. (\A i \in 1 .. Len(s) : a[i] = s[i]) /\ a[Len(s) + 1] = x
  BY <1>2, <1>3
<1> HIDE DEF a
<1>6. DOMAIN a = 1 .. Len(a) /\ a = [i \in 1 .. Len(a) |-> a[i]]
  BY <1>4
<1>7. DOMAIN s = 1 .. Len(s)
  BY <1>2
<1> QED
  BY <1>4, <1>5, <1>6, <1>7 DEF a, Listed

\* The image of one more.
LEMMA OneMore ==
    ASSUME NEW n \in Nat
    PROVE  1 .. (n + 1) = (1 .. n) \cup {n + 1}
OBVIOUS

\* The next report that is due is taken.
LEMMA TakeOne ==
    ASSUME NEW c, NEW D, Len(D) \in Nat, NEW n \in Nat, n < Len(D), NEW taken, NEW declined,
           Made(c, D, n, taken, declined),
           NEW report, report.about = D[n + 1], MarksWell(c, report)
    PROVE  Made(c, D, n + 1, Append(taken, report), declined)
<1> DEFINE e == Append(taken, report)
           t == Len(taken)
<1>1. /\ Listed(taken) /\ Listed(declined) /\ t \in Nat /\ Len(declined) \in Nat
      /\ n = t + Len(declined)
      /\ {taken[k].about : k \in DOMAIN taken} \cup ToSet(declined) = {D[i] : i \in 1 .. n}
      /\ \A k, l \in DOMAIN taken : k < l =>
            \E p, q \in 1 .. n : p < q /\ D[p] = taken[k].about /\ D[q] = taken[l].about
      /\ \A k \in DOMAIN taken : MarksWell(c, taken[k])
  BY DEF Made, Listed
<1>2. /\ Listed(e) /\ Len(e) = t + 1 /\ DOMAIN taken = 1 .. t /\ DOMAIN e = 1 .. (t + 1)
      /\ \A k \in 1 .. t : e[k] = taken[k]
      /\ e[t + 1] = report
  BY <1>1, AppendIs
<1> HIDE DEF e, t
<1>3. DOMAIN e = DOMAIN taken \cup {t + 1}
  BY <1>1, <1>2, OneMore
<1>4. {e[k].about : k \in DOMAIN e} = {taken[k].about : k \in DOMAIN taken} \cup {D[n + 1]}
  BY <1>2, <1>3
<1>5. {D[i] : i \in 1 .. (n + 1)} = {D[i] : i \in 1 .. n} \cup {D[n + 1]}
  BY OneMore
<1>6. {e[k].about : k \in DOMAIN e} \cup ToSet(declined) = {D[i] : i \in 1 .. (n + 1)}
  BY <1>1, <1>4, <1>5
<1>7. ASSUME NEW k \in DOMAIN e, NEW l \in DOMAIN e, k < l
      PROVE  \E p, q \in 1 .. (n + 1) : p < q /\ D[p] = e[k].about /\ D[q] = e[l].about
  <2>0. k \in Nat /\ l \in Nat /\ k <= t + 1 /\ l <= t + 1 /\ k >= 1
    BY <1>1, <1>2
  <2>1. k \in DOMAIN taken /\ e[k] = taken[k]
    BY <1>1, <1>2, <1>7, <2>0
  <2>2. CASE l \in DOMAIN taken
    <3>1. e[l] = taken[l]
      BY <2>2, <1>2
    <3>2. PICK p \in 1 .. n : \E q \in 1 .. n : p < q /\ D[p] = taken[k].about /\ D[q] = taken[l].about
      BY <2>1, <2>2, <1>7, <1>1
    <3> QED
      BY <3>1, <3>2, <2>1, OneMore
  <2>3. CASE l = t + 1
    <3>1. taken[k].about \in {D[i] : i \in 1 .. n}
      BY <2>1, <1>1
    <3>2. PICK p \in 1 .. n : D[p] = taken[k].about
      BY <3>1
    <3>3. p \in 1 .. (n + 1) /\ n + 1 \in 1 .. (n + 1) /\ p < n + 1
      OBVIOUS
    <3> QED
      BY <3>2, <3>3, <2>1, <2>3, <1>2
  <2> QED
    BY <2>2, <2>3, <1>3
<1>8. \A k \in DOMAIN e : MarksWell(c, e[k])
  BY <1>1, <1>2, <1>3
<1>9. n + 1 = Len(e) + Len(declined) /\ n + 1 <= Len(D)
  BY <1>1, <1>2
<1> QED
  BY <1>1, <1>2, <1>6, <1>7, <1>8, <1>9 DEF Made, e

\* There is no node for the next report that is due.
LEMMA DeclineOne ==
    ASSUME NEW c, NEW D, Len(D) \in Nat, NEW n \in Nat, n < Len(D), NEW taken, NEW declined,
           Made(c, D, n, taken, declined)
    PROVE  Made(c, D, n + 1, taken, Append(declined, D[n + 1]))
<1> DEFINE e == Append(declined, D[n + 1])
           t == Len(declined)
<1>1. /\ Listed(taken) /\ Listed(declined) /\ t \in Nat /\ Len(taken) \in Nat
      /\ n = Len(taken) + t
      /\ {taken[k].about : k \in DOMAIN taken} \cup ToSet(declined) = {D[i] : i \in 1 .. n}
      /\ \A k, l \in DOMAIN taken : k < l =>
            \E p, q \in 1 .. n : p < q /\ D[p] = taken[k].about /\ D[q] = taken[l].about
      /\ \A k \in DOMAIN taken : MarksWell(c, taken[k])
  BY DEF Made, Listed
<1>2. /\ Listed(e) /\ Len(e) = t + 1 /\ DOMAIN declined = 1 .. t /\ DOMAIN e = 1 .. (t + 1)
      /\ \A k \in 1 .. t : e[k] = declined[k]
      /\ e[t + 1] = D[n + 1]
  BY <1>1, AppendIs
<1> HIDE DEF e, t
<1>3. DOMAIN e = DOMAIN declined \cup {t + 1}
  BY <1>1, <1>2, OneMore
<1>4. ToSet(e) = ToSet(declined) \cup {D[n + 1]}
  BY <1>2, <1>3 DEF ToSet
<1>5. {D[i] : i \in 1 .. (n + 1)} = {D[i] : i \in 1 .. n} \cup {D[n + 1]}
  BY OneMore
<1>6. {taken[k].about : k \in DOMAIN taken} \cup ToSet(e) = {D[i] : i \in 1 .. (n + 1)}
  BY <1>1, <1>4, <1>5
<1>7. ASSUME NEW k \in DOMAIN taken, NEW l \in DOMAIN taken, k < l
      PROVE  \E p, q \in 1 .. (n + 1) : p < q /\ D[p] = taken[k].about /\ D[q] = taken[l].about
  <2>1. PICK p \in 1 .. n : \E q \in 1 .. n : p < q /\ D[p] = taken[k].about /\ D[q] = taken[l].about
    BY <1>1, <1>7
  <2> QED
    BY <2>1, OneMore
<1>8. n + 1 = Len(taken) + Len(e) /\ n + 1 <= Len(D)
  BY <1>1, <1>2
<1> QED
  BY <1>1, <1>2, <1>6, <1>7, <1>8 DEF Made, e

-----------------------------------------------------------------------------
(* The plugin *)

\* What the names of the k-th argument may be.
FoundFor(c, k, found) ==
    IF c.written[k] = NotWritten THEN found = <<>>
    ELSE \E n : GoodName(c, k, n) /\ found = <<n>>

NamesFound(c) ==
    /\ Listed(names) /\ Len(names) <= Len(c.written)
    /\ \A k \in 1 .. Len(names) : FoundFor(c, k, names[k])
    /\ checker = "gt.ExprNames" => Len(names) <= 1

\* The checker looks into the call.
Asked(c) == IF checker = "gt.SwapDetector" THEN c.callee # "block"
            ELSE c.callee = "clang_analyzer_exprName"

Silent == left = <<>> /\ emitted = <<>> /\ refused = <<>>

\* What is due on c, and whether it is there to see.
DueOf(c) ==
    CASE checker = "gt.SwapDetector" /\ c.callee # "block" -> CheckSite(SiteWritten(c), model)
      [] checker = "gt.ExprNames" /\ c.callee = "clang_analyzer_exprName" ->
           IF NamesOf(c.written[1]) = <<NoName>> THEN <<>> ELSE <<NamesOf(c.written[1])>>
      [] OTHER -> <<>>

HidesNothing(c) ==
    \A k \in DOMAIN c.written : Unfolds(c, k) /\ c.written[k] # NotWritten =>
        NameWritten(c.written[k]) = NameExpanded(c.written[k])

ReportingInv(c) ==
    HidesNothing(c) =>
        \E n \in Nat : Made(c, DueOf(c), n, emitted, refused) /\ left = Rest(DueOf(c), n)

Handled(c) ==
    /\ call = Event(c)
    /\ NamesFound(c)
    /\ \/ /\ NamingInv(c, Len(names) + 1) /\ Asked(c) /\ Silent
          /\ Idx = Len(names) + 1 /\ (checker = "gt.ExprNames" => Idx = 1)
       \/ pc = "argument" /\ Idx = Len(names) /\ Asked(c) /\ Silent
       \/ pc = "report" /\ Asked(c) /\ ReportingInv(c)
       \/ pc = "returned" /\ left = <<>> /\ ReportingInv(c)

Idle == pc = "idle" /\ names = <<>> /\ Silent /\ Idx = 0

BugTypeInv == pending \subseteq {BT} /\ 0 \notin pending

\* Nothing is handled, or one of the calls is; the BugType that reports refer to is
\* the one alive, and there is one.
PluginInv ==
    /\ checker \in {"gt.SwapDetector", "gt.ExprNames"}
    /\ BugTypeInv
    /\ Idle \/ \E c \in Calls : Handled(c)

\* What is due is a vector.
LEMMA DueIs ==
    ASSUME NEW c \in Calls
    PROVE  Len(DueOf(c)) \in Nat /\ \E S : DueOf(c) \in Seq(S)
<1>1. DOMAIN c.written = 1 .. Len(c.written) /\ Len(c.written) \in Nat
  BY EventIs
<1>2. CheckSite(SiteWritten(c), model) \in Seq(Deserved(SiteWritten(c), "All", model))
  <2>1. Len(SiteWritten(c).args) \in Nat
    BY <1>1 DEF SiteWritten
  <2> QED
    BY <2>1, CheckSiteIs
<1>3. CASE checker = "gt.SwapDetector" /\ c.callee # "block"
  BY <1>2, <1>3 DEF DueOf
<1>4. CASE ~(checker = "gt.SwapDetector" /\ c.callee # "block")
  <2> DEFINE x == NamesOf(c.written[1])
  <2>1. DueOf(c) \in {<<>>, <<x>>}
    BY <1>4 DEF DueOf
  <2> HIDE DEF x
  <2>2. <<>> \in Seq({x})
    OBVIOUS
  <2>3. <<x>> \in Seq({x})
    OBVIOUS
  <2>4. DueOf(c) \in Seq({x})
    BY <2>1, <2>2, <2>3
  <2>5. Len(DueOf(c)) \in Nat
    BY <2>4
  <2> QED
    BY <2>4, <2>5
<1> QED
  BY <1>3, <1>4

\* When nothing is hidden, the names are those written.
LEMMA NamesAreWritten ==
    ASSUME NEW c \in Calls, HidesNothing(c), NEW k \in DOMAIN c.written, NEW found,
           FoundFor(c, k, found)
    PROVE  found = NamesOf(c.written[k])
BY DEF HidesNothing, FoundFor, GoodName, NamesOf

\* Nothing has been made of what is due.
LEMMA NoneMade ==
    ASSUME NEW c, NEW S, NEW D \in Seq(S)
    PROVE  Made(c, D, 0, <<>>, <<>>) /\ Rest(D, 0) = D
<1>1. Len(D) \in Nat /\ 0 \in 0 .. Len(D)
  OBVIOUS
<1>2. Rest(D, 0) = D
  BY <1>1, RestIs
<1>3. Listed(<<>>) /\ Len(<<>>) = 0
  BY DEF Listed
<1>4. ToSet(<<>>) = {}
  BY DEF ToSet
<1> QED
  BY <1>1, <1>2, <1>3, <1>4 DEF Made

\* A handler begins.
LEMMA BeginStep ==
    ASSUME NEW c \in Calls, NEW next, Idle, BugTypeInv, Begin(c, next),
           checker \in {"gt.SwapDetector", "gt.ExprNames"},
           next = IF Asked(c) THEN "argument" ELSE "returned"
    PROVE  Handled(c)' /\ BugTypeInv' /\ checker' = checker
<1>1. /\ call' = Event(c) /\ pc' = next /\ names' = <<>> /\ Idx' = 0
      /\ UNCHANGED <<checker, model, left, emitted, refused, BT, pending>>
  BY DEF Begin, reporting
<1>2. Silent /\ Silent'
  BY <1>1 DEF Idle, Silent
<1>3. Len(c.written) \in Nat
  BY EventIs
<1>4. Len(names') = 0 /\ Listed(names')
  BY <1>1 DEF Listed
<1>5. NamesFound(c)'
  BY <1>3, <1>4 DEF NamesFound
<1>6. Asked(c)' <=> Asked(c)
  BY <1>1 DEF Asked
<1>7. CASE Asked(c)
  BY <1>1, <1>2, <1>4, <1>5, <1>6, <1>7 DEF Handled, BugTypeInv
<1>8. CASE ~Asked(c)
  <2>1. DueOf(c)' = <<>>
    BY <1>1, <1>8 DEF DueOf, Asked
  <2>2. Made(c, <<>>, 0, <<>>, <<>>) /\ Rest(<<>>, 0) = <<>>
    <3>1. <<>> \in Seq({})
      OBVIOUS
    <3> QED
      BY <3>1, NoneMade
  <2>3. ReportingInv(c)'
    BY <1>2, <2>1, <2>2 DEF ReportingInv, Silent
  <2> QED
    BY <1>1, <1>2, <1>5, <1>8, <2>3 DEF Handled, BugTypeInv, Silent
<1> QED
  BY <1>7, <1>8

\* The next argument is written, and exprName begins.
LEMMA NameArgumentStep ==
    ASSUME NEW c \in Calls, Handled(c), BugTypeInv, NameArgument,
           checker \in {"gt.SwapDetector", "gt.ExprNames"}
    PROVE  Handled(c)' /\ BugTypeInv' /\ checker' = checker
<1> DEFINE k == Len(names) + 1
           w == c.written[k]
           l == First(w, 1, Forms \ {"macro"})
<1>1. /\ call = Event(c) /\ NamesFound(c) /\ Idx = Len(names) /\ Asked(c) /\ Silent
  BY DEF Handled, NameArgument, NamingInv, Busy
<1>2. /\ pc' = "strip" /\ expr' = call.args[Idx + 1] /\ Idx' = Idx + 1
      /\ Unnamed /\ call.args[Idx + 1] # NoExpr
      /\ UNCHANGED <<call, names, checker, model, left, emitted, refused, BT, pending>>
  BY DEF NameArgument, StartNaming, reporting
<1>3. /\ Len(c.written) \in Nat /\ DOMAIN c.written = 1 .. Len(c.written)
      /\ Len(call.args) = Len(c.written)
  BY <1>1, EventIs
<1>4. Len(names) \in Nat
  BY <1>1 DEF NamesFound, Listed
<1>5. k \in DOMAIN c.written
  <2>1. CASE checker = "gt.SwapDetector"
    BY <2>1, <1>1, <1>2, <1>3, <1>4 DEF Unnamed
  <2>2. CASE checker = "gt.ExprNames"
    <3>1. c.written # <<>> /\ c.written \in Seq(Expression(Name))
      BY <2>2, <1>1, CallsAssumption DEF Asked
    <3>2. Len(c.written) >= 1
      BY <3>1, <1>3
    <3>3. Len(names) = 0
      BY <2>2, <1>1, <1>2, <1>4 DEF Unnamed
    <3> QED
      BY <3>2, <3>3, <1>3
  <2> QED
    BY <2>1, <2>2
<1>6. WrittenArg(c, k) /\ expr' = LayerOf(c, k, l)
  <2> HIDE DEF k
  <2>1. expr' = Event(c).args[k] /\ expr' # NoExpr
    BY <1>1, <1>2 DEF k
  <2>2. c.written[k] # NotWritten /\ Event(c).args[k] = LayerOf(c, k, l)
    BY <1>5, <2>1, EventIs
  <2> QED
    BY <1>5, <2>1, <2>2 DEF WrittenArg
<1> HIDE DEF k
<1>7. Len(w) \in Nat /\ DOMAIN w = 1 .. Len(w) /\ 1 \in DOMAIN w /\ \A m \in DOMAIN w : w[m].form \in Forms
  BY <1>6, WrittenIs
<1>8. "own" \in Forms \ {"macro"}
  BY DEF Forms
<1>9. /\ l \in 1 .. Len(w) /\ l \in DOMAIN w /\ w[l].form \in Forms \ {"macro"}
      /\ \A m \in 1 .. Len(w) : w[m].form \in Forms \ {"macro"} => l <= m
  BY <1>6, <1>7, <1>8, FirstIs
<1> HIDE DEF l, w
<1>10. ASSUME NEW m \in 1 .. (l - 1) PROVE ~Names(w[m])
  <2>1. m \in 1 .. Len(w) /\ ~(l <= m)
    BY <1>7, <1>9
  <2>2. w[m].form = "macro"
    BY <2>1, <1>7, <1>9
  <2> QED
    BY <2>2 DEF Names
<1>11. expr'.layer = l
  BY <1>6, LayerIs
<1>12. Looking(c, k)'
  BY <1>2, <1>6, <1>9, <1>10, <1>11 DEF Looking, w, k
<1>13. NamingInv(c, k)'
  BY <1>2, <1>12 DEF NamingInv, NotByMacro, Busy, k
<1>14. k = Len(names') + 1 /\ Idx' = k /\ (checker' = "gt.ExprNames" => Idx' = 1)
  BY <1>1, <1>2, <1>4 DEF k, Unnamed
<1>15. NamesFound(c)' /\ Asked(c)' /\ Silent'
  BY <1>1, <1>2 DEF NamesFound, Asked, Silent
<1>16. NamingInv(c, Len(names) + 1)'
  BY <1>2, <1>13 DEF k
<1>17. call' = Event(c)
  BY <1>1, <1>2
<1> QED
  BY <1>2, <1>14, <1>15, <1>16, <1>17 DEF Handled, BugTypeInv

\* exprName goes on, or has found the name.
LEMMA ExprNameStep ==
    ASSUME NEW c \in Calls, Handled(c), BugTypeInv, exprNameStep,
           checker \in {"gt.SwapDetector", "gt.ExprNames"}
    PROVE  Handled(c)' /\ BugTypeInv' /\ checker' = checker
<1>0. PICK k : k = Len(names) + 1
  OBVIOUS
<1>1. exprName /\ UNCHANGED <<checker, Idx, model, left, emitted, refused, BT, pending>>
  BY DEF exprNameStep, reporting
<1>2. pc \in Busy
  BY <1>1 DEF exprName, Strip, Stripped, Peel, MacroName, NotOneMacro, OwnName, Descend, Nameless, Busy
<1>3. /\ call = Event(c) /\ NamesFound(c) /\ NamingInv(c, k) /\ Asked(c) /\ Silent
      /\ Idx = k /\ (checker = "gt.ExprNames" => Idx = 1)
  BY <1>0, <1>2 DEF Handled, Busy
<1>4. Asked(c)' /\ Silent'
  BY <1>1, <1>3 DEF Asked, Silent
<1>5. /\ call' = call
      /\ \/ names' = names /\ NamingInv(c, k)'
         \/ pc' = "argument" /\ \E n : GoodName(c, k, n) /\ names' = Append(names, <<n>>)
  BY <1>1, <1>3, NamingStep
<1>6. CASE names' = names /\ NamingInv(c, k)'
  <2>1. k = Len(names') + 1
    BY <1>0, <1>6
  <2>2. NamesFound(c)'
    BY <1>1, <1>3, <1>6 DEF NamesFound
  <2>4. NamingInv(c, Len(names) + 1)'
    BY <1>6, <2>1 DEF NamingInv, Looking, NotByMacro, FollowedBack
  <2> QED
    BY <1>1, <1>3, <1>4, <1>5, <2>1, <2>2, <2>4 DEF Handled, BugTypeInv
<1>7. CASE pc' = "argument" /\ \E n : GoodName(c, k, n) /\ names' = Append(names, <<n>>)
  <2>1. PICK n : GoodName(c, k, n) /\ names' = Append(names, <<n>>)
    BY <1>7
  <2>2. /\ Listed(names) /\ Len(names) \in Nat
        /\ \A m \in 1 .. Len(names) : FoundFor(c, m, names[m])
    BY <1>3 DEF NamesFound, Listed
  <2>3. /\ Listed(names') /\ Len(names') = k
        /\ \A m \in 1 .. Len(names) : names'[m] = names[m]
        /\ names'[k] = <<n>>
    BY <1>0, <2>1, <2>2, AppendIs
  <2>4. WrittenArg(c, k)
    BY <1>3 DEF NamingInv, Looking
  <2>5. FoundFor(c, k, <<n>>)
    BY <2>1, <2>4 DEF FoundFor, WrittenArg
  <2>6. DOMAIN c.written = 1 .. Len(c.written) /\ Len(c.written) \in Nat
    BY EventIs
  <2>7. k <= Len(c.written)
    BY <2>4, <2>6 DEF WrittenArg
  <2>8. \A m \in 1 .. k : m \in 1 .. Len(names) \/ m = k
    BY <1>0, <2>2
  <2>9. \A m \in 1 .. k : FoundFor(c, m, names'[m])
    BY <2>2, <2>3, <2>5, <2>8
  <2>10. NamesFound(c)'
    BY <1>1, <1>3, <2>3, <2>7, <2>9 DEF NamesFound
  <2> QED
    BY <1>1, <1>3, <1>4, <1>5, <1>7, <2>3, <2>10 DEF Handled, BugTypeInv
<1> QED
  BY <1>5, <1>6, <1>7

\* An argument that is not written has no names.
LEMMA NoArgExprStep ==
    ASSUME NEW c \in Calls, Handled(c), BugTypeInv, NoArgExpr,
           checker \in {"gt.SwapDetector", "gt.ExprNames"}
    PROVE  Handled(c)' /\ BugTypeInv' /\ checker' = checker
<1> DEFINE k == Len(names) + 1
<1>1. call = Event(c) /\ NamesFound(c) /\ Idx = Len(names) /\ Asked(c) /\ Silent
  BY DEF Handled, NoArgExpr, NamingInv, Busy
<1>2. /\ pc' = "argument" /\ names' = Append(names, <<>>) /\ Idx' = Idx + 1
      /\ Unnamed /\ call.args[Idx + 1] = NoExpr
      /\ UNCHANGED <<call, checker, model, left, emitted, refused, BT, pending>>
  BY DEF NoArgExpr, WithoutNames, reporting
<1>3. /\ Len(c.written) \in Nat /\ DOMAIN c.written = 1 .. Len(c.written)
      /\ Len(call.args) = Len(c.written)
  BY <1>1, EventIs
<1>4. /\ Listed(names) /\ Len(names) \in Nat
      /\ \A m \in 1 .. Len(names) : FoundFor(c, m, names[m])
  BY <1>1 DEF NamesFound, Listed
<1>5. k \in DOMAIN c.written /\ (checker = "gt.ExprNames" => k = 1)
  <2>1. CASE checker = "gt.SwapDetector"
    BY <2>1, <1>1, <1>2, <1>3, <1>4 DEF Unnamed
  <2>2. CASE checker = "gt.ExprNames"
    <3>1. c.written # <<>> /\ c.written \in Seq(Expression(Name))
      BY <2>2, <1>1, CallsAssumption DEF Asked
    <3>2. Len(c.written) >= 1
      BY <3>1, <1>3
    <3>3. Len(names) = 0
      BY <2>2, <1>1, <1>2, <1>4 DEF Unnamed
    <3> QED
      BY <3>2, <3>3, <1>3
  <2> QED
    BY <2>1, <2>2
<1> HIDE DEF k
<1>6. c.written[k] = NotWritten
  <2>1. Event(c).args[k] = NoExpr
    BY <1>1, <1>2 DEF k
  <2> QED
    BY <1>5, <2>1, EventIs
<1>7. /\ Listed(names') /\ Len(names') = k
      /\ \A m \in 1 .. Len(names) : names'[m] = names[m]
      /\ names'[k] = <<>>
  BY <1>2, <1>4, AppendIs DEF k
<1>8. \A m \in 1 .. k : m \in 1 .. Len(names) \/ m = k
  BY <1>4 DEF k
<1>9. \A m \in 1 .. k : FoundFor(c, m, names'[m])
  <2>1. FoundFor(c, k, <<>>)
    BY <1>6 DEF FoundFor
  <2> QED
    BY <1>4, <1>7, <1>8, <2>1
<1>10. k <= Len(c.written)
  BY <1>3, <1>5
<1>11. NamesFound(c)'
  BY <1>2, <1>5, <1>7, <1>9, <1>10 DEF NamesFound
<1>12. Asked(c)' /\ Silent' /\ Idx' = k /\ call' = Event(c)
  BY <1>1, <1>2 DEF Asked, Silent, k
<1> QED
  BY <1>2, <1>7, <1>11, <1>12 DEF Handled, BugTypeInv

\* The names are found, and the library is asked for its reports.
LEMMA CheckNamesStep ==
    ASSUME NEW c \in Calls, Handled(c), BugTypeInv, CheckNames \/ InspectName,
           checker \in {"gt.SwapDetector", "gt.ExprNames"}
    PROVE  Handled(c)' /\ BugTypeInv' /\ checker' = checker
<1>1. call = Event(c) /\ NamesFound(c) /\ Idx = Len(names) /\ Asked(c) /\ Silent
  BY DEF Handled, CheckNames, InspectName, NamingInv, Busy
<1>2. /\ ~Unnamed /\ pc' = "report"
      /\ UNCHANGED <<call, names, checker, model, emitted, refused, BT, pending>>
  BY DEF CheckNames, InspectName
<1>3. /\ Len(c.written) \in Nat /\ DOMAIN c.written = 1 .. Len(c.written)
      /\ Len(call.args) = Len(c.written) /\ call.params = c.params
  BY <1>1, EventIs
<1>4. /\ Len(names) \in Nat /\ names = [i \in 1 .. Len(names) |-> names[i]]
      /\ Len(names) <= Len(c.written)
      /\ \A m \in 1 .. Len(names) : FoundFor(c, m, names[m])
  BY <1>1 DEF NamesFound, Listed
<1>5. ASSUME HidesNothing(c) PROVE \A m \in 1 .. Len(names) : names[m] = NamesOf(c.written[m])
  <2>1. \A m \in 1 .. Len(names) : m \in DOMAIN c.written
    BY <1>3, <1>4
  <2> QED
    BY <1>4, <1>5, <2>1, NamesAreWritten
<1>6. ASSUME HidesNothing(c) PROVE left' = DueOf(c)
  <2>1. CASE CheckNames
    <3>1. checker = "gt.SwapDetector" /\ left' = CheckSite([args |-> names, params |-> c.params], model)
      BY <2>1, <1>3 DEF CheckNames
    <3>2. Len(names) = Len(c.written)
      BY <3>1, <1>1, <1>2, <1>3, <1>4 DEF Unnamed
    <3>3. names = [m \in 1 .. Len(c.written) |-> NamesOf(c.written[m])]
      BY <3>2, <1>4, <1>5, <1>6
    <3>4. [args |-> names, params |-> c.params] = SiteWritten(c)
      BY <3>3, <1>3 DEF SiteWritten
    <3> QED
      BY <3>1, <3>4, <1>1 DEF DueOf, Asked
  <2>2. CASE InspectName
    <3>1. checker = "gt.ExprNames" /\ left' = IF names[1] = <<NoName>> THEN <<>> ELSE names
      BY <2>2 DEF InspectName
    <3>2. Len(names) = 1
      BY <3>1, <1>1, <1>2, <1>4 DEF Unnamed, NamesFound
    <3>3. names[1] = NamesOf(c.written[1])
      BY <3>2, <1>5, <1>6
    <3>4. names = <<names[1]>>
      BY <3>2, <1>4
    <3> QED
      BY <3>1, <3>3, <3>4, <1>1 DEF DueOf, Asked
  <2> QED
    BY <2>1, <2>2
<1>7. DueOf(c)' = DueOf(c)
  BY <1>2 DEF DueOf
<1>8. ReportingInv(c)'
  <2>1. PICK S : DueOf(c) \in Seq(S)
    BY DueIs
  <2>2. Made(c, DueOf(c), 0, <<>>, <<>>) /\ Rest(DueOf(c), 0) = DueOf(c)
    BY <2>1, NoneMade
  <2>3. emitted' = <<>> /\ refused' = <<>>
    BY <1>1, <1>2 DEF Silent
  <2>4. HidesNothing(c) => Made(c, DueOf(c)', 0, emitted', refused') /\ left' = Rest(DueOf(c)', 0)
    BY <1>6, <1>7, <2>2, <2>3
  <2> QED
    BY <2>4 DEF ReportingInv
<1>9. NamesFound(c)' /\ Asked(c)' /\ call' = Event(c)
  BY <1>1, <1>2 DEF NamesFound, Asked
<1> QED
  BY <1>2, <1>8, <1>9 DEF Handled, BugTypeInv

\* A report is taken, or there is no node for it.
LEMMA EmitStep ==
    ASSUME NEW c \in Calls, Handled(c), BugTypeInv, NEW report, Emit(report),
           report.about = Head(left),
           HidesNothing(c) /\ Head(left) \in ToSet(DueOf(c)) => MarksWell(c, report),
           checker \in {"gt.SwapDetector", "gt.ExprNames"}
    PROVE  Handled(c)' /\ BugTypeInv' /\ checker' = checker
<1>1. call = Event(c) /\ NamesFound(c) /\ Asked(c) /\ ReportingInv(c) /\ pc = "report"
  BY DEF Handled, Emit, NamingInv, Busy
<1>2. /\ left # <<>> /\ left' = Tail(left)
      /\ \/ /\ BT' = BugType /\ pending' = pending \cup {BugType}
            /\ emitted' = Append(emitted, report) /\ refused' = refused
         \/ /\ refused' = Append(refused, Head(left)) /\ emitted' = emitted
            /\ BT' = BT /\ pending' = pending
      /\ UNCHANGED <<pc, call, names, checker, model>>
  BY DEF Emit, naming
<1>3. BugTypeInv'
  BY <1>2 DEF BugTypeInv, BugType
<1>4. DueOf(c)' = DueOf(c)
  BY <1>2 DEF DueOf
<1>5. ReportingInv(c)'
  <2> SUFFICES ASSUME HidesNothing(c)
               PROVE  \E n \in Nat : /\ Made(c, DueOf(c), n, emitted', refused')
                                     /\ left' = Rest(DueOf(c), n)
    BY <1>4 DEF ReportingInv
  <2>1. PICK D : D = DueOf(c)
    OBVIOUS
  <2>2. PICK S : D \in Seq(S)
    BY <2>1, DueIs
  <2>3. Len(D) \in Nat /\ DOMAIN D = 1 .. Len(D)
    BY <2>2
  <2>4. PICK n \in Nat : Made(c, D, n, emitted, refused) /\ left = Rest(D, n)
    BY <1>1, <2>1 DEF ReportingInv
  <2>5. n \in 0 .. Len(D)
    BY <2>3, <2>4 DEF Made
  <2>6. n < Len(D) /\ Head(left) = D[n + 1] /\ left' = Rest(D, n + 1)
    <3>1. Rest(D, n) # <<>> => /\ n < Len(D) /\ Head(Rest(D, n)) = D[n + 1]
                               /\ Tail(Rest(D, n)) = Rest(D, n + 1)
      BY <2>2, <2>5, RestIs
    <3> QED
      BY <3>1, <1>2, <2>4
  <2>7. Head(left) \in ToSet(D)
    <3>1. n + 1 \in DOMAIN D
      BY <2>3, <2>6
    <3> QED
      BY <3>1, <2>6 DEF ToSet
  <2>8. Made(c, D, n + 1, Append(emitted, report), refused)
    BY <2>1, <2>3, <2>4, <2>6, <2>7, TakeOne
  <2>9. Made(c, D, n + 1, emitted, Append(refused, D[n + 1]))
    BY <2>3, <2>4, <2>6, DeclineOne
  <2>10. Made(c, D, n + 1, emitted', refused')
    <3>1. CASE emitted' = Append(emitted, report) /\ refused' = refused
      BY <3>1, <2>8
    <3>2. CASE refused' = Append(refused, Head(left)) /\ emitted' = emitted
      BY <3>2, <2>6, <2>9
    <3> QED
      BY <1>2, <3>1, <3>2
  <2>11. n + 1 \in Nat
    OBVIOUS
  <2> QED
    BY <2>1, <2>6, <2>10, <2>11
<1>6. NamesFound(c)' /\ Asked(c)' /\ call' = Event(c) /\ pc' = "report"
  BY <1>1, <1>2 DEF NamesFound, Asked
<1> QED
  BY <1>2, <1>3, <1>5, <1>6 DEF Handled

\* reportRuleViolation marks the two arguments by their positions in the call.
LEMMA ReportStep ==
    ASSUME NEW c \in Calls, Handled(c), BugTypeInv, reportRuleViolation \/ reportBug,
           checker \in {"gt.SwapDetector", "gt.ExprNames"}
    PROVE  Handled(c)' /\ BugTypeInv' /\ checker' = checker
<1>1. CASE reportBug
  <2> DEFINE rep == [about |-> Head(left), marks |-> <<>>]
  <2>1. rep.about = Head(left) /\ MarksWell(c, rep) /\ Emit(rep)
    BY <1>1 DEF reportBug, MarksWell
  <2> HIDE DEF rep
  <2> QED
    BY <2>1, EmitStep
<1>2. CASE reportRuleViolation
  <2> DEFINE r == Head(left)
             rep == [about |-> r, marks |-> <<getArgExpr(r.arg1 - 1), getArgExpr(r.arg2 - 1)>>]
  <2>1. rep.about = Head(left) /\ Emit(rep)
    BY <1>2 DEF reportRuleViolation
  <2>2. call = Event(c) /\ Asked(c) /\ checker = "gt.SwapDetector"
    BY <1>2 DEF Handled, reportRuleViolation, Emit, NamingInv, Busy
  <2>3. ASSUME r \in ToSet(DueOf(c)) PROVE MarksWell(c, rep)
    <3> DEFINE D == Deserved(SiteWritten(c), "All", model)
    <3>1. DOMAIN c.written = 1 .. Len(c.written) /\ Len(c.written) \in Nat
          /\ DOMAIN Event(c).args = 1 .. Len(c.written)
      BY EventIs
    <3>2. Len(SiteWritten(c).args) \in Nat
      BY <3>1 DEF SiteWritten
    <3>3. DueOf(c) = CheckSite(SiteWritten(c), model)
      BY <2>2 DEF DueOf, Asked
    <3>4. ToSet(DueOf(c)) = D
      BY <3>2, <3>3, CheckSiteIs DEF ToSet
    <3>5. r \in D
      BY <2>3, <3>4
    <3> HIDE DEF r, D
    <3>6. /\ r.arg1 \in DOMAIN c.written /\ c.written[r.arg1] # NotWritten
          /\ r.morphemes1 \subseteq Split[NameWritten(c.written[r.arg1])]
          /\ r.arg2 \in DOMAIN c.written /\ c.written[r.arg2] # NotWritten
          /\ r.morphemes2 \subseteq Split[NameWritten(c.written[r.arg2])]
      BY <3>5, GroundsWritten DEF D
    <3>7. /\ rep.marks[1] = Event(c).args[r.arg1] /\ rep.marks[2] = Event(c).args[r.arg2]
          /\ r.arg1 \in DOMAIN Event(c).args /\ r.arg2 \in DOMAIN Event(c).args
      <4>1. r.arg1 \in Int /\ r.arg2 \in Int
        BY <3>1, <3>6
      <4>2. (r.arg1 - 1) + 1 = r.arg1 /\ (r.arg2 - 1) + 1 = r.arg2
        BY <4>1
      <4> QED
        BY <4>2, <2>2, <3>1, <3>6 DEF getArgExpr
    <3>8. rep.about = r
      OBVIOUS
    <3> HIDE DEF rep
    <3>9. ASSUME NEW m \in 1 .. 2
          PROVE  \E l \in DOMAIN Event(c).args :
                     /\ Event(c).args[l] = rep.marks[m]
                     /\ c.written[l] # NotWritten
                     /\ <<rep.about.morphemes1, rep.about.morphemes2>>[m]
                           \subseteq Split[NameWritten(c.written[l])]
      <4>1. CASE m = 1
        BY <4>1, <3>6, <3>7, <3>8
      <4>2. CASE m = 2
        BY <4>2, <3>6, <3>7, <3>8
      <4> QED
        BY <4>1, <4>2
    <3> QED
      BY <3>9 DEF MarksWell
  <2> HIDE DEF rep
  <2> QED
    BY <2>1, <2>3, EmitStep
<1> QED
  BY <1>1, <1>2

\* Every report has been made, and the handler returns.
LEMMA AllReportedStep ==
    ASSUME NEW c \in Calls, Handled(c), BugTypeInv, AllReported,
           checker \in {"gt.SwapDetector", "gt.ExprNames"}
    PROVE  Handled(c)' /\ BugTypeInv' /\ checker' = checker
<1>1. call = Event(c) /\ NamesFound(c) /\ ReportingInv(c)
  BY DEF Handled, AllReported, NamingInv, Busy
<1>2. /\ left = <<>> /\ pc' = "returned"
      /\ UNCHANGED <<call, names, checker, model, left, emitted, refused, BT, pending>>
  BY DEF AllReported, reporting
<1>3. DueOf(c)' = DueOf(c)
  BY <1>2 DEF DueOf
<1>4. NamesFound(c)' /\ ReportingInv(c)' /\ call' = Event(c)
  BY <1>1, <1>2, <1>3 DEF NamesFound, ReportingInv
<1> QED
  BY <1>2, <1>4 DEF Handled, BugTypeInv

\* The analyzer goes on; reports that are still pending keep their BugType.
LEMMA ProceedStep ==
    ASSUME NEW c \in Calls, Handled(c), BugTypeInv, Proceed
    PROVE  Idle' /\ BugTypeInv' /\ checker' = checker
<1>1. left = <<>>
  BY DEF Handled, Proceed, NamingInv, Busy
<1> QED
  BY <1>1 DEF Proceed, Idle, Silent, BugTypeInv

\* What holds at every step of the plugin, whatever calls it is given.
THEOREM PluginInvariant == Spec => []PluginInv
<1>1. Init => PluginInv
  BY DEF Init, ExprNamesInit, PluginInv, Idle, Silent, BugTypeInv
<1>2. PluginInv /\ [Next]_vars => PluginInv'
  <2> SUFFICES ASSUME PluginInv, [Next]_vars PROVE PluginInv'
    OBVIOUS
  <2>1. checker \in {"gt.SwapDetector", "gt.ExprNames"} /\ BugTypeInv
    BY DEF PluginInv
  <2>2. CASE UNCHANGED vars
    <3>1. UNCHANGED <<pc, call, names, expr, begin, end, checker, Idx, model, left, emitted,
                      refused, BT, pending>>
      BY <2>2 DEF vars, naming, range, reporting
    <3>2. ASSUME NEW c \in Calls, Handled(c) PROVE Handled(c)'
      <4>1. (Asked(c)' <=> Asked(c)) /\ (Silent' <=> Silent) /\ DueOf(c)' = DueOf(c)
        BY <3>1 DEF Asked, Silent, DueOf
      <4>2. (NamesFound(c)' <=> NamesFound(c)) /\ (ReportingInv(c)' <=> ReportingInv(c))
        BY <3>1, <4>1 DEF NamesFound, ReportingInv
      <4>3. NamingInv(c, Len(names) + 1)' <=> NamingInv(c, Len(names) + 1)
        BY <3>1 DEF NamingInv, Looking, NotByMacro, FollowedBack
      <4> QED
        BY <3>1, <3>2, <4>1, <4>2, <4>3 DEF Handled
    <3>3. Idle => Idle'
      BY <3>1 DEF Idle, Silent
    <3>4. BugTypeInv' /\ checker' = checker
      BY <2>1, <3>1 DEF BugTypeInv
    <3> QED
      BY <2>1, <3>2, <3>3, <3>4 DEF PluginInv
  <2>3. ASSUME pc = "idle" PROVE Idle
    BY <2>3 DEF PluginInv, Handled, NamingInv, Busy
  <2>4. CASE checkPreCall
    <3>1. PICK c \in Calls : Begin(c, IF c.callee = "block" THEN "returned" ELSE "argument")
      BY <2>4 DEF checkPreCall
    <3>2. Idle /\ checker = "gt.SwapDetector"
      BY <2>3, <2>4 DEF checkPreCall
    <3>3. Handled(c)' /\ BugTypeInv' /\ checker' = checker
      <4>1. (IF c.callee = "block" THEN "returned" ELSE "argument")
              = IF Asked(c) THEN "argument" ELSE "returned"
        BY <3>2 DEF Asked
      <4> QED
        BY <2>1, <3>1, <3>2, <4>1, BeginStep
    <3> QED
      BY <2>1, <3>3 DEF PluginInv
  <2>5. CASE evalCall
    <3>1. PICK c \in Calls : Begin(c, IF c.callee = "clang_analyzer_exprName" THEN "argument" ELSE "returned")
      BY <2>5 DEF evalCall
    <3>2. Idle /\ checker = "gt.ExprNames"
      BY <2>3, <2>5 DEF evalCall
    <3>3. Handled(c)' /\ BugTypeInv' /\ checker' = checker
      <4>1. (IF c.callee = "clang_analyzer_exprName" THEN "argument" ELSE "returned")
              = IF Asked(c) THEN "argument" ELSE "returned"
        BY <3>2 DEF Asked
      <4> QED
        BY <2>1, <3>1, <3>2, <4>1, BeginStep
    <3> QED
      BY <2>1, <3>3 DEF PluginInv
  <2>6. CASE Handle
    <3>1. pc # "idle"
      BY <2>6 DEF Handle, NameArgument, exprNameStep, exprName, Strip, Stripped, Peel, MacroName,
                  NotOneMacro, OwnName, Descend, Nameless, NoArgExpr, CheckNames, InspectName,
                  reportRuleViolation, reportBug, Emit, AllReported, Proceed
    <3>2. PICK c \in Calls : Handled(c)
      BY <3>1 DEF PluginInv, Idle
    <3>3. CASE Proceed
      <4>1. Idle' /\ BugTypeInv' /\ checker' = checker
        BY <2>1, <3>2, <3>3, ProceedStep
      <4> QED
        BY <2>1, <4>1 DEF PluginInv
    <3>4. CASE ~Proceed
      <4>1. Handled(c)' /\ BugTypeInv' /\ checker' = checker
        BY <2>1, <2>6, <3>2, <3>4, NameArgumentStep, ExprNameStep, NoArgExprStep, CheckNamesStep,
           ReportStep, AllReportedStep DEF Handle
      <4> QED
        BY <2>1, <4>1 DEF PluginInv
    <3> QED
      BY <3>3, <3>4
  <2> QED
    BY <2>2, <2>4, <2>5, <2>6 DEF Next
<1> QED
  BY <1>1, <1>2, PTL DEF Spec

\* exprName gives every argument the name it has in the source, however it is
\* written, and whatever macros it went through, and an argument whose macros the
\* call hides the name of what they stand for: no bound on the number of layers, of
\* macros or of arguments.
THEOREM NamesFromSource == Spec => []NamesAsWritten
<1>1. PluginInv => NamesAsWritten
  <2> SUFFICES ASSUME PluginInv, NEW k \in DOMAIN names
               PROVE  LET w == call.written[k]
                      IN  names[k] = IF w = NotWritten THEN <<>>
                                     ELSE IF Hidden(k) THEN <<NameExpanded(w)>>
                                     ELSE <<NameWritten(w)>>
    BY DEF NamesAsWritten
  <2>1. CASE Idle
    BY <2>1 DEF Idle
  <2>2. CASE \E c \in Calls : Handled(c)
    <3>1. PICK c \in Calls : Handled(c)
      BY <2>2
    <3>2. call = Event(c) /\ call.written = c.written /\ call.how = c.how
      BY <3>1, EventIs DEF Handled
    <3>3. k \in 1 .. Len(names)
      BY <3>1 DEF Handled, NamesFound, Listed
    <3>4. FoundFor(c, k, names[k])
      BY <3>1, <3>3 DEF Handled, NamesFound
    <3>5. c.written[k] # NotWritten => (Unfolds(c, k) <=> Hidden(k))
      <4>1. k \in DOMAIN c.written
        BY <3>1, <3>3, EventIs DEF Handled, NamesFound, Listed
      <4> QED
        BY <3>2, <4>1, UnfoldsIsHidden DEF WrittenArg
    <3> QED
      BY <3>2, <3>4, <3>5 DEF FoundFor, GoodName
  <2> QED
    BY <2>1, <2>2 DEF PluginInv
<1> QED
  BY <1>1, PluginInvariant, PTL

\* A report is never flushed after its BugType is gone.
THEOREM BugTypeStays == Spec => []BugTypeOutlivesReports
<1>1. PluginInv => BugTypeOutlivesReports
  BY DEF PluginInv, BugTypeInv, BugTypeOutlivesReports
<1> QED
  BY <1>1, PluginInvariant, PTL

\* What a call that hides no name deserves is reported when its handler returns, in
\* order, nothing else is, and the marks are on the arguments that have the morphemes.
THEOREM ReportsFromSource == Spec => []ReportsAsWritten
<1>1. PluginInv => ReportsAsWritten
  <2> DEFINE abouts == [k \in DOMAIN emitted |-> emitted[k].about]
  <2> SUFFICES ASSUME PluginInv, pc = "returned", NothingHidden
               PROVE  /\ ToSet(abouts) \cup ToSet(refused) = ToSet(Due)
                      /\ Len(emitted) + Len(refused) = Len(Due)
                      /\ \A k, l \in DOMAIN abouts : k < l =>
                            \E p, q \in DOMAIN Due : p < q /\ Due[p] = abouts[k] /\ Due[q] = abouts[l]
                      /\ \A k \in DOMAIN emitted : emitted[k].marks # <<>> =>
                            LET said == <<abouts[k].morphemes1, abouts[k].morphemes2>>
                            IN  \A m \in 1 .. 2 : \E l \in DOMAIN call.args :
                                    /\ call.args[l] = emitted[k].marks[m]
                                    /\ call.written[l] # NotWritten
                                    /\ said[m] \subseteq Split[NameWritten(call.written[l])]
    BY DEF ReportsAsWritten
  <2>1. PICK c \in Calls : Handled(c)
    BY DEF PluginInv, Idle
  <2>2. call = Event(c) /\ left = <<>> /\ ReportingInv(c)
    BY <2>1 DEF Handled, NamingInv, Busy
  <2>3. /\ call.written = c.written /\ call.how = c.how /\ call.callee = c.callee
        /\ call.params = c.params
    BY <2>2, EventIs
  <2>4. HidesNothing(c)
    <3> SUFFICES ASSUME NEW k \in DOMAIN c.written, Unfolds(c, k), c.written[k] # NotWritten
                 PROVE  NameWritten(c.written[k]) = NameExpanded(c.written[k])
      BY DEF HidesNothing
    <3>1. Hidden(k)
      BY <2>2, UnfoldsIsHidden DEF WrittenArg
    <3> QED
      BY <2>3, <3>1 DEF NothingHidden
  <2>5. Due = DueOf(c)
    BY <2>3 DEF Due, DueOf, SiteWritten
  <2>6. PICK n \in Nat : Made(c, Due, n, emitted, refused) /\ left = Rest(Due, n)
    BY <2>2, <2>4, <2>5 DEF ReportingInv
  <2>7. PICK S : Due \in Seq(S)
    BY <2>5, DueIs
  <2> HIDE DEF abouts
  <2>8. Len(Due) \in Nat /\ DOMAIN Due = 1 .. Len(Due) /\ n \in 0 .. Len(Due)
    BY <2>6, <2>7 DEF Made
  <2>9. n = Len(Due)
    <3>1. PICK D : D = Due
      OBVIOUS
    <3>2. D \in Seq(S) /\ n \in 0 .. Len(D)
      BY <3>1, <2>7, <2>8
    <3>3. Rest(D, n) = <<>> => n = Len(D)
      BY <3>2, RestIs
    <3> QED
      BY <3>1, <3>3, <2>2, <2>6
  <2>10. /\ DOMAIN abouts = DOMAIN emitted /\ \A k \in DOMAIN emitted : abouts[k] = emitted[k].about
    BY DEF abouts
  <2>11. ToSet(abouts) = {emitted[k].about : k \in DOMAIN emitted}
    BY <2>10 DEF ToSet
  <2>12. ToSet(Due) = {Due[i] : i \in 1 .. n}
    BY <2>8, <2>9 DEF ToSet
  <2>13. ToSet(abouts) \cup ToSet(refused) = ToSet(Due)
    BY <2>6, <2>11, <2>12 DEF Made
  <2>14. Len(emitted) + Len(refused) = Len(Due)
    BY <2>6, <2>9 DEF Made
  <2>15. ASSUME NEW k \in DOMAIN abouts, NEW l \in DOMAIN abouts, k < l
         PROVE  \E p, q \in DOMAIN Due : p < q /\ Due[p] = abouts[k] /\ Due[q] = abouts[l]
    BY <2>6, <2>8, <2>9, <2>10, <2>15 DEF Made
  <2>16. ASSUME NEW k \in DOMAIN emitted, emitted[k].marks # <<>>
         PROVE  LET said == <<abouts[k].morphemes1, abouts[k].morphemes2>>
                IN  \A m \in 1 .. 2 : \E l \in DOMAIN call.args :
                        /\ call.args[l] = emitted[k].marks[m]
                        /\ call.written[l] # NotWritten
                        /\ said[m] \subseteq Split[NameWritten(call.written[l])]
    <3>1. MarksWell(c, emitted[k])
      BY <2>6 DEF Made
    <3>2. abouts[k] = emitted[k].about
      BY <2>10
    <3> QED
      BY <3>1, <3>2, <2>2, <2>3, <2>16 DEF MarksWell
  <2> QED
    BY <2>13, <2>14, <2>15, <2>16
<1> QED
  BY <1>1, PluginInvariant, PTL
=============================================================================
