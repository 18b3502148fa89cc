----------------------------- MODULE Statistics -----------------------------
(***************************************************************************)
(* The Statistics class: a database handle and two prepared statements,    *)
(* opened by Checker's constructor, queried one call at a time, and        *)
(* released by its destructor. Every return code is ignored but those of   *)
(* the open and of the steps, so any of the calls may fail unnoticed.      *)
(*                                                                         *)
(* Of SQLite the module keeps what the class depends on: a statement takes *)
(* bindings only when it is reset, reads the rows its bindings selected    *)
(* when it started, and keeps its database from being closed. Rows are     *)
(* known by their places in a scan of the table.                           *)
(***************************************************************************)
EXTENDS Naturals, Sequences

CONSTANTS Func, Arg, Morpheme,
          Rows,      \* the table "weights": its rows in the order of a scan
          Null       \* a null pointer, and SQL's NULL

Row == [func : Func, arg : Arg, morpheme : Morpheme, value : Nat]

ASSUME TableAssumption ==
    /\ Rows \in Seq(Row)
    /\ Null \notin Func \cup Arg \cup Morpheme

VARIABLES
    pc,        \* where the constructor, a query or the destructor is
    db,        \* the handle: Null, "error" (open failed), "open" or "closed"
    stmt,      \* the two prepared statements
    query,     \* the query under way or last asked
    res,       \* the rows it has read
    answer     \* what it returned

vars == <<pc, db, stmt, query, res, answer>>

Kind == {"morph_value_query", "value_query"}
Query == [kind : Kind, func : Func, arg : Arg, morpheme : Morpheme]

\* The columns that a statement's WHERE clause compares with a parameter.
Columns(kind) ==
    IF kind = "value_query" THEN {"func", "arg", "morpheme"} ELSE {"func", "arg"}

Matches(kind, params) ==
    {k \in DOMAIN Rows : \A c \in Columns(kind) : Rows[k][c] = params[c]}

First(rows) == {k \in rows : \A l \in rows : k <= l}

\* What a query would read from the table: weightForMorphemeAtPos returns the
\* first row, morphemesAndWeightsAtPos every row.
Truth ==
    [q \in Query |->
        IF q.kind = "value_query" THEN First(Matches(q.kind, q)) ELSE Matches(q.kind, q)]

-----------------------------------------------------------------------------
(* Prepared statements *)

Params(kind) == [Columns(kind) -> Func \cup Arg \cup Morpheme \cup {Null}]
Statement(kind) ==
    [status : {"ready", "running", "halted"}, params : Params(kind), next : Nat]

ASSUME NullAssumption ==
    /\ Null \notin {"error", "open", "closed"}
    /\ \A k \in Kind : Null \notin Statement(k)

NoParams(kind) == [c \in Columns(kind) |-> Null]
Prepared(kind) == [status |-> "ready", params |-> NoParams(kind), next |-> 1]

\* A bind overwrites a parameter, with NULL when the value cannot be copied,
\* unless the statement has been stepped and not reset.
AfterBind(kind, s, values) ==
    IF s.status = "ready"
    THEN {[s EXCEPT !.params = p] :
              p \in {f \in [Columns(kind) -> {values[c] : c \in Columns(kind)} \cup {Null}] :
                        \A c \in Columns(kind) : f[c] \in {values[c], Null}}}
    ELSE {s}

\* The rows a step has before it: those its parameters select, and of a
\* statement under way the ones it has not come to yet.
Ahead(kind, s) == {k \in Matches(kind, s.params) : s.status = "running" => k >= s.next}

\* What a step leaves: the statement past the row it came to, or at its end.
Pass(s, k) == [s EXCEPT !.status = "running", !.next = k + 1]

Halt(s) == [s EXCEPT !.status = "halted", !.next = 1]

-----------------------------------------------------------------------------

valid == db # Null /\ \A k \in Kind : stmt[k] # Null

Init ==
    /\ pc = "open"
    /\ db = Null
    /\ stmt = [k \in Kind |-> Null]
    /\ query \in Query
    /\ res = {}
    /\ answer = {}

\* sqlite3_open_v2 hands out a handle even when it fails, memory permitting.
OpenDatabase ==
    /\ pc = "open"
    /\ \/ db' = "open" /\ pc' = "prepare"
       \/ db' \in {"error", Null} /\ pc' = "check"
    /\ UNCHANGED <<stmt, query, res, answer>>

\* Either statement may fail to compile.
Prepare ==
    /\ pc = "prepare"
    /\ \E failed \in SUBSET Kind :
          stmt' = [k \in Kind |-> IF k \in failed THEN Null ELSE Prepared(k)]
    /\ pc' = "check"
    /\ UNCHANGED <<db, query, res, answer>>

\* A mistake: what could be opened and prepared is not looked at.
Unchecked ==
    /\ pc = "check"
    /\ pc' = "idle"
    /\ UNCHANGED <<db, stmt, query, res, answer>>

\* Checker keeps valid statistics and deletes invalid ones.
CheckValid ==
    /\ pc = "check"
    /\ pc' = IF valid THEN "idle" ELSE "delete"
    /\ UNCHANGED <<db, stmt, query, res, answer>>

Ask ==
    /\ pc = "idle"
    /\ query' \in Query
    /\ pc' = "bind"
    /\ res' = {}
    /\ answer' = {}
    /\ UNCHANGED <<db, stmt>>

\* A mistake: one query's code copied to the other, statement and all.
copied == stmt["value_query"]

current == stmt[query.kind]

SetCurrent(s) == stmt' = [stmt EXCEPT ![query.kind] = s]

\* Binder's constructor.
Bind ==
    /\ pc = "bind"
    /\ \E s \in AfterBind(query.kind, current, query) : SetCurrent(s)
    /\ pc' = "step"
    /\ UNCHANGED <<db, query, res, answer>>

\* SQLITE_ROW: the first row is the weight; every row is one of the morphemes.
ReadRow ==
    /\ pc = "step"
    /\ \E k \in First(Ahead(query.kind, current)) :
        /\ SetCurrent(Pass(current, k))
        /\ res' = res \cup {k}
    /\ pc' = IF query.kind = "value_query" THEN "unbind" ELSE "step"
    /\ UNCHANGED <<db, query, answer>>

\* SQLITE_DONE ends the loop.
ReadDone ==
    /\ pc = "step"
    /\ Ahead(query.kind, current) = {}
    /\ SetCurrent(Halt(current))
    /\ pc' = "unbind"
    /\ UNCHANGED <<db, query, res, answer>>

\* A mistake: rows read before the error are returned.
KeepRows ==
    /\ pc = "step"
    /\ SetCurrent(Halt(current))
    /\ pc' = "unbind"
    /\ UNCHANGED <<db, query, res, answer>>

\* Any other code ends it too: the weight is nullopt, the morphemes are void.
ReadError ==
    /\ pc = "step"
    /\ SetCurrent(Halt(current))
    /\ res' = {}
    /\ pc' = "unbind"
    /\ UNCHANGED <<db, query, answer>>

\* A mistake: the bindings are cleared but the statement is not reset.
ClearOnly ==
    /\ pc = "unbind"
    /\ SetCurrent([current EXCEPT !.params = NoParams(query.kind)])
    /\ answer' = res
    /\ pc' = "idle"
    /\ UNCHANGED <<db, query, res>>

\* Binder's destructor, on the way out of the query.
Unbind ==
    /\ pc = "unbind"
    /\ SetCurrent(Prepared(query.kind))
    /\ answer' = res
    /\ pc' = "idle"
    /\ UNCHANGED <<db, query, res>>

\* ~Checker.
Delete ==
    /\ pc = "idle"
    /\ pc' = "delete"
    /\ UNCHANGED <<db, stmt, query, res, answer>>

\* Mistakes: one statement is forgotten; only valid statistics are taken apart.
FinalizeOne ==
    /\ pc = "delete"
    /\ stmt' = [stmt EXCEPT !["value_query"] = Null]
    /\ pc' = "close"
    /\ UNCHANGED <<db, query, res, answer>>

FinalizeValid ==
    /\ pc = "delete"
    /\ valid
    /\ stmt' = [k \in Kind |-> Null]
    /\ pc' = "close"
    /\ UNCHANGED <<db, query, res, answer>>

\* ~Statistics: the statements go first.
Finalize ==
    /\ pc = "delete"
    /\ stmt' = [k \in Kind |-> Null]
    /\ pc' = "close"
    /\ UNCHANGED <<db, query, res, answer>>

\* sqlite3_close refuses with SQLITE_BUSY while a statement is alive.
Close ==
    /\ pc = "close"
    /\ db' = IF db # Null /\ \A k \in Kind : stmt[k] = Null THEN "closed" ELSE db
    /\ pc' = "gone"
    /\ UNCHANGED <<stmt, query, res, answer>>

Querying == Bind \/ ReadRow \/ ReadDone \/ ReadError \/ Unbind

Next ==
    \/ OpenDatabase \/ Prepare \/ CheckValid
    \/ Ask \/ Querying
    \/ Delete \/ Finalize \/ Close

\* A call that has begun runs on; nothing makes a client ask or destroy.
Fairness ==
    /\ WF_vars(OpenDatabase \/ Prepare \/ CheckValid)
    /\ WF_vars(Querying)
    /\ WF_vars(Finalize \/ Close)

Spec == Init /\ [][Next]_vars /\ Fairness

-----------------------------------------------------------------------------
(* Properties *)

TypeOK ==
    /\ pc \in {"open", "prepare", "check", "idle", "bind", "step", "unbind",
               "delete", "close", "gone"}
    /\ db \in {Null, "error", "open", "closed"}
    /\ DOMAIN stmt = Kind
    /\ \A k \in Kind : stmt[k] = Null \/ stmt[k] \in Statement(k)
    /\ query \in Query
    /\ res \subseteq DOMAIN Rows
    /\ answer \subseteq DOMAIN Rows

\* The assertion of both queries: no query runs on a handle whose open failed
\* or with a statement that did not compile.
OnlyValidIsQueried == pc \in {"idle", "bind", "step", "unbind"} => valid /\ db = "open"

\* Between queries no statement is active or bound, after a query that stopped
\* at its first row or at an error too: an active one would keep a read lock on
\* the database file and refuse the next query's bindings.
IdleHoldsNothing ==
    pc = "idle" => \A k \in Kind : stmt[k] = Prepared(k)

\* Nothing outlives the object, whichever step of its construction failed.
NothingLeaks ==
    pc = "gone" => db \in {Null, "closed"} /\ \A k \in Kind : stmt[k] = Null

\* What the bound parameters ask for: the query, or nothing at all.
BoundTo(s) ==
    \/ \A c \in Columns(query.kind) : s.params[c] = query[c]
    \/ \E c \in Columns(query.kind) : s.params[c] = Null

\* The session step by step: which statements are prepared when, and that the
\* rows read are those before the place that the statement has come to. An
\* inductive invariant.
Opening ==
    /\ pc = "open" => db = Null
    /\ pc = "prepare" => db = "open"
    /\ pc \in {"open", "prepare", "close", "gone"} \/ db # "open" =>
          \A k \in Kind : stmt[k] = Null
    /\ db = "closed" => pc = "gone"
    /\ pc = "gone" => db \in {Null, "closed"}

Serving ==
    /\ OnlyValidIsQueried
    /\ pc = "check" => \A k \in Kind : stmt[k] \in {Null, Prepared(k)}
    /\ pc \in {"idle", "bind"} => \A k \in Kind : stmt[k] = Prepared(k)
    /\ pc \in {"step", "unbind"} => \A k \in Kind \ {query.kind} : stmt[k] = Prepared(k)

Reading ==
    /\ pc = "bind" => res = {}
    /\ pc = "step" =>
          /\ current.status \in {"ready", "running"}
          /\ BoundTo(current)
          /\ current.status = "ready" => res = {}
          /\ current.status = "running" =>
                /\ query.kind = "morph_value_query"
                /\ res = {k \in Matches(query.kind, current.params) : k < current.next}
    /\ pc = "unbind" => res \in {Truth[query], {}}

SessionInv == TypeOK /\ Opening /\ Serving /\ Reading

\* Statistics is the store the checker relies on.
phase ==
    CASE pc \in {"open", "prepare", "check"} -> "opening"
      [] pc = "idle" -> "idle"
      [] pc \in {"bind", "step", "unbind"} -> "asked"
      [] OTHER -> "shut"

Store == INSTANCE WeightStore WITH state <- phase

IsWeightStore == Store!Spec

\* A constructor that fails half-way is undone, and a destructor finishes.
ReleasedInTheEnd == (pc \in {"check", "delete"} /\ ~valid) ~> (pc = "gone")
=============================================================================
