----------------------------- MODULE ClangPlugin -----------------------------
(***************************************************************************)
(* The Clang static analyzer plugin: gt.SwapDetector, which checks a call  *)
(* before the analyzer evaluates it, and gt.ExprNames, which reports the   *)
(* name of an argument. The analyzer calls a handler for one call after    *)
(* another and flushes the reports from time to time.                      *)
(***************************************************************************)
EXTENDS CheckerClient, ExprNames

CONSTANTS Calls,     \* the calls of the program, as they are written
          Models     \* the statistics of the databases of ModelPath

ASSUME PluginAssumption == NoName = EmptyName

\* A call that is not written has no tokens to pass on, an operator begins with its
\* first argument, and the inspection is given what it inspects.
ASSUME CallsAssumption ==
    \A c \in Calls :
        /\ c \in [callee : STRING, params : Seq(Name), written : Seq(Expression(Name)),
                   how : {"direct", "operator", "body", "implicit"}, passed : Nat]
        /\ \A k \in DOMAIN c.written : c.written[k] # NotWritten => WellFormed(c.written[k])
        /\ c.how = "implicit" => c.passed = 0
        /\ c.how = "operator" \/ c.callee = "clang_analyzer_exprName" =>
              c.written # <<>> /\ c.written[1] # NotWritten

VARIABLES
    checker,    \* the checker that is enabled
    Idx,        \* the arguments of the call seen so far
    model,      \* the statistics, or NoStats
    left,       \* the reports still to be made on the call
    emitted,    \* those the analyzer has taken
    refused,    \* those it had no node for
    BT,         \* the BugType alive, 0 for none
    pending     \* the BugTypes that reports not yet flushed refer to

reporting == <<left, emitted, refused, BT, pending>>
vars == <<naming, checker, Idx, model, reporting>>

\* initializeSwappedArgChecker: no ModelPath is no database.
Init ==
    /\ ExprNamesInit
    /\ checker \in {"gt.SwapDetector", "gt.ExprNames"}
    /\ Idx = 0
    /\ model \in Models \cup {NoStats}
    /\ left = <<>> /\ emitted = <<>> /\ refused = <<>>
    /\ BT = 0 /\ pending = {}

-----------------------------------------------------------------------------
(* The calls *)

Begin(written, next) ==
    /\ call' = Event(written)
    /\ pc' = next
    /\ names' = <<>> /\ Idx' = 0
    /\ UNCHANGED <<expr, range, checker, model, reporting>>

checkPreCall ==
    /\ pc = "idle" /\ checker = "gt.SwapDetector"
    /\ \E c \in Calls : Begin(c, IF c.callee = "block" THEN "returned" ELSE "argument")

\* The call of any other function is left to the analyzer.
evalCall ==
    /\ pc = "idle" /\ checker = "gt.ExprNames"
    /\ \E c \in Calls :
          Begin(c, IF c.callee = "clang_analyzer_exprName" THEN "argument" ELSE "returned")

-----------------------------------------------------------------------------
(* getArgNames. The inspection names the first argument only. *)

Unnamed == IF checker = "gt.ExprNames" THEN Idx < 1 ELSE Idx < Len(call.args)

NameArgument ==
    /\ pc = "argument" /\ Unnamed /\ call.args[Idx + 1] # NoExpr
    /\ StartNaming(call.args[Idx + 1])
    /\ Idx' = Idx + 1
    /\ UNCHANGED <<call, names, range, checker, model, reporting>>

exprNameStep ==
    /\ exprName
    /\ UNCHANGED <<checker, Idx, model, reporting>>

\* A mistake: an argument without an expression is left out.
LeftOut == names

WithoutNames == Append(names, <<>>)

NoArgExpr ==
    /\ pc = "argument" /\ Unnamed /\ call.args[Idx + 1] = NoExpr
    /\ names' = WithoutNames
    /\ Idx' = Idx + 1
    /\ UNCHANGED <<pc, call, expr, range, checker, model, reporting>>

-----------------------------------------------------------------------------
(* The reports *)

CheckNames ==
    /\ pc = "argument" /\ ~Unnamed /\ checker = "gt.SwapDetector"
    /\ left' = CheckSite([args |-> names, params |-> call.params], model)
    /\ pc' = "report"
    /\ UNCHANGED <<call, names, expr, range, checker, Idx, model, emitted, refused, BT, pending>>

InspectName ==
    /\ pc = "argument" /\ ~Unnamed /\ checker = "gt.ExprNames"
    /\ left' = IF names[1] = <<NoName>> THEN <<>> ELSE names
    /\ pc' = "report"
    /\ UNCHANGED <<call, names, expr, range, checker, Idx, model, emitted, refused, BT, pending>>

\* A mistake: every report has a new BugType, and the last one is deleted.
FreshBugType == IF BT = 1 THEN 2 ELSE 1

BugType == IF BT = 0 THEN 1 ELSE BT

\* The analyzer has a node for the report, or none.
Emit(report) ==
    /\ pc = "report" /\ left # <<>>
    /\ left' = Tail(left)
    /\ \/ /\ BT' = BugType
          /\ pending' = pending \cup {BugType}
          /\ emitted' = Append(emitted, report)
          /\ UNCHANGED refused
       \/ /\ refused' = Append(refused, Head(left))
          /\ UNCHANGED <<BT, pending, emitted>>
    /\ UNCHANGED <<naming, checker, Idx, model>>

getArgExpr(pos) == call.args[pos + 1]

reportRuleViolation ==
    /\ checker = "gt.SwapDetector"
    /\ Emit([about |-> Head(left),
             marks |-> <<getArgExpr(Head(left).arg1 - 1), getArgExpr(Head(left).arg2 - 1)>>])

reportBug ==
    /\ checker = "gt.ExprNames"
    /\ Emit([about |-> Head(left), marks |-> <<>>])

AllReported ==
    /\ pc = "report" /\ left = <<>>
    /\ pc' = "returned"
    /\ UNCHANGED <<call, names, expr, range, checker, Idx, model, reporting>>

\* The analyzer goes on to the next call, and may flush the reports first.
Proceed ==
    /\ pc = "returned"
    /\ pc' = "idle" /\ call' = NoCall
    /\ names' = <<>> /\ emitted' = <<>> /\ refused' = <<>> /\ Idx' = 0
    /\ expr' = NoExpr /\ begin' = NoLoc /\ end' = NoLoc
    /\ pending' \in {pending, {}}
    /\ UNCHANGED <<checker, model, left, BT>>

Handle ==
    \/ NameArgument \/ exprNameStep \/ NoArgExpr \/ CheckNames \/ InspectName
    \/ reportRuleViolation \/ reportBug \/ AllReported \/ Proceed

Next == checkPreCall \/ evalCall \/ Handle

\* A handler runs to its end.
Spec == Init /\ [][Next]_vars /\ WF_vars(Handle)

-----------------------------------------------------------------------------
(* Properties *)

NamesOf(w) == IF w = NotWritten THEN <<>> ELSE <<NameWritten(w)>>

\* What should be reported of the call as it is written.
Due ==
    CASE checker = "gt.SwapDetector" /\ call.callee # "block" ->
           CheckSite([args |-> [k \in DOMAIN call.written |-> NamesOf(call.written[k])],
                      params |-> call.params], model)
      [] checker = "gt.ExprNames" /\ call.callee = "clang_analyzer_exprName" ->
           IF NamesOf(call.written[1]) = <<NoName>> THEN <<>> ELSE <<NamesOf(call.written[1])>>
      [] OTHER -> <<>>

\* No argument has another name because the call hides its macro.
NothingHidden ==
    \A k \in DOMAIN call.written : Hidden(k) /\ call.written[k] # NotWritten =>
        NameWritten(call.written[k]) = NameExpanded(call.written[k])

\* When a handler returns, and no name is hidden by the call, every report that the
\* call as written deserves has been emitted, or there was no node for it; they are
\* in order, there is no other, and each marks two arguments that are written and
\* whose names have the morphemes it says are swapped.
ReportsAsWritten ==
    pc = "returned" /\ NothingHidden =>
        LET abouts == [k \in DOMAIN emitted |-> emitted[k].about]
        IN  /\ ToSet(abouts) \cup ToSet(refused) = ToSet(Due)
            /\ Len(emitted) + Len(refused) = Len(Due)
            /\ \A k, l \in DOMAIN abouts : k < l =>
                  \E p, q \in DOMAIN Due : p < q /\ Due[p] = abouts[k] /\ Due[q] = abouts[l]
            /\ \A k \in DOMAIN emitted : emitted[k].marks # <<>> =>
                  LET said == <<abouts[k].morphemes1, abouts[k].morphemes2>>
                  IN  \A m \in 1 .. 2 : \E l \in DOMAIN call.args :
                          /\ call.args[l] = emitted[k].marks[m]
                          /\ call.written[l] # NotWritten
                          /\ said[m] \subseteq Split[NameWritten(call.written[l])]

\* A report waits at the analyzer for longer than the call that it is about: the
\* BugType it refers to is still alive when it is flushed.
BugTypeOutlivesReports == pending \subseteq {BT}

\* Every handler returns: stripping, following macros back and going down an
\* expression come to an end.
HandlerReturns == (pc # "idle") ~> (pc = "idle")
=============================================================================
