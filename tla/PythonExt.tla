------------------------------ MODULE PythonExt ------------------------------
(***************************************************************************)
(* The Python extension swappedargs: its import, the life of a Checker     *)
(* object, and check_call, which turns two iterables into a call site and  *)
(* the reports into a list of dicts. One step is one call of the Python    *)
(* API, and each may fail; a destructor's Py_DECREFs are steps of their    *)
(* own, which come before anything else.                                   *)
(*                                                                         *)
(* What an iterable will give is written out as a sequence: its items, and *)
(* at the end Exhausted or Raises. An item is a name, or NotStr, or        *)
(* Unencodable (a str that has no UTF-8 form).                             *)
(***************************************************************************)
EXTENDS CheckerClient, PyObjects

CONSTANTS Calls,     \* the calls of check_call: [arguments, parameters]
          NotStr, Unencodable, Exhausted, Raises,
          Null

NotIterable == <<>>
NotGiven == <<Null>>     \* parameters absent, or None

\* An iterable ends once.
Iterable ==
    {s \in Seq(Name \cup {NotStr, Unencodable, Exhausted, Raises}) :
        \A n \in DOMAIN s : s[n] \in {Exhausted, Raises} <=> n = Len(s)}

ASSUME IterablesAssumption ==
    /\ Calls \subseteq [arguments : Iterable, parameters : Iterable \cup {NotGiven}]
    /\ Exhausted # Raises
    /\ Null \notin Name \cup {NotStr, Unencodable, Exhausted, Raises}

VARIABLES
    pc,
    depth,     \* the functions that are running: the interpreter is the first
    err,       \* the exception set, or "none"
    ret,       \* the object returned to Python, or Null
    call,      \* the call of check_call
    source,    \* the iterable being read: "arguments" or "parameters"
    taken,     \* how often its iterator has been asked
    site,      \* the names collected
    results,   \* what the checker reports
    nth,       \* the one being converted
    field,     \* the entry of its dict in hand
    todo       \* the morphemes still to be added to the entry's set

objects == <<heap, refs, dropped>>
outcome == <<err, ret>>
collection == <<source, taken, site>>
entry == <<field, todo>>
conversion == <<results, nth, entry>>
vars == <<pc, depth, objects, outcome, call, collection, conversion>>

Single(name) == Obj(name, 0, "", "")
Type == Single("type")
Module == Single("module")
Checker == Single("checker")
List == Single("list")
Iterator == Obj("iterator", 0, source, "")
Item == Obj("item", 0, source, "")
Dict(k) == Obj("dict", k, "", "")
Value(k, f) == Obj("value", k, f, "")
Str(k, f, m) == Obj("str", k, f, m)

\* A null pointer is no object.
ASSUME NullAssumption == Null \notin {Module, Checker, List}

Init ==
    /\ pc = "idle" /\ depth = 1
    /\ heap = [o \in {Type} |-> [count |-> 1, value |-> Null]]
    /\ refs = {} /\ dropped = {}
    /\ err = "none" /\ ret = Null
    /\ call \in Calls
    /\ source = "arguments" /\ taken = 0 /\ site = SiteOf(<<>>, <<>>)
    /\ results = <<>> /\ nth = 1 /\ field = "arg1" /\ todo = {}

-----------------------------------------------------------------------------
(* PyOwnedObject: a local that holds one reference *)

\* A local of the n-th function takes over a new object.
Own(n, o, value) == heap' = NewObject(o, value) /\ refs' = refs \cup {Local(n, o)}

\* A mistake: the destructor leaves the count alone.
NotDestroyed(locals) == {}

\* ~PyOwnedObject, for those that go out of scope.
Destroyed(locals) == locals

\* The functions after the n-th return nullptr.
Above(rs, n) == {r \in rs : \E f \in (n + 1) .. depth : r[1] = Frame(f)}
Unwind(rs, n) == depth' = n /\ refs' = rs /\ dropped' = Destroyed(Above(rs, n))

\* The running function returns with o.
ReturnFromFrame(o) ==
    /\ depth' = depth - 1
    /\ refs' = (refs \ {Local(depth, o)}) \cup {Local(depth - 1, o)}
    /\ dropped' = Destroyed(HeldBy(Frame(depth)) \ {Local(depth, o)})

\* The extension returns nullptr to Python.
ReturnNull(rs, exception) ==
    /\ Unwind(rs, 1)
    /\ err' = exception
    /\ ret' = Null
    /\ pc' = "returned"

-----------------------------------------------------------------------------
(* PyInit_swappedargs, Checker_New and Checker_Dealloc *)

Imported == Module \in Locals(1)

\* PyType_Ready and PyModule_Create.
CreateModule ==
    /\ pc = "idle" /\ ~Imported
    /\ \/ ReturnNull(refs, "MemoryError") /\ UNCHANGED heap
       \/ /\ depth' = 2
          /\ Own(2, Module, Null)
          /\ pc' = "add"
          /\ UNCHANGED <<dropped, outcome>>
    /\ UNCHANGED <<call, collection, conversion>>

\* A mistake: the reference is left to a module that did not take it.
TypeKept == {}

\* Checker_Type has a reference to give away, which a failing
\* PyModule_AddObject does not take.
TypeGivenBack == {Local(2, Type)}

AddType ==
    /\ pc = "add"
    /\ heap' = INCREF(Type)
    /\ \/ ReturnNull(refs \cup TypeGivenBack, "MemoryError")
       \/ /\ depth' = 1
          /\ refs' = (refs \ {Local(2, Module)}) \cup {Local(1, Module), <<Module, "Checker", Type>>}
          /\ ret' = Module
          /\ pc' = "returned"
          /\ UNCHANGED <<dropped, err>>
    /\ UNCHANGED <<call, collection, conversion>>

Checker_New ==
    /\ pc = "idle" /\ Imported /\ Checker \notin Locals(1)
    /\ \/ ReturnNull(refs, "MemoryError") /\ UNCHANGED heap
       \/ /\ Own(1, Checker, Null)
          /\ ret' = Checker
          /\ pc' = "returned"
          /\ UNCHANGED <<depth, dropped, err>>
    /\ UNCHANGED <<call, collection, conversion>>

Checker_Dealloc ==
    /\ pc = "idle" /\ Checker \in Locals(1)
    /\ dropped' = {Local(1, Checker)}
    /\ UNCHANGED <<pc, depth, heap, refs, outcome, call, collection, conversion>>

\* Python has done with what it got, or has handled the exception.
Consume ==
    /\ pc = "returned"
    /\ pc' = "idle" /\ err' = "none" /\ ret' = Null
    /\ dropped' = IF ret = List THEN {Local(1, List)} ELSE {}
    /\ UNCHANGED <<depth, heap, refs, call, collection, conversion>>

-----------------------------------------------------------------------------
(* Checker_Check: the call site *)

\* PyArg_ParseTupleAndKeywords may refuse the call.
Checker_Check ==
    /\ pc = "idle" /\ Checker \in Locals(1)
    /\ call' \in Calls
    /\ source' = "arguments" /\ taken' = 0 /\ site' = SiteOf(<<>>, <<>>)
    /\ results' = <<>> /\ nth' = 1 /\ field' = "arg1" /\ todo' = {}
    /\ \/ ReturnNull(refs, "TypeError")
       \/ /\ depth' = 2
          /\ pc' = "iterate"
          /\ UNCHANGED <<refs, dropped, outcome>>
    /\ UNCHANGED heap

NoParameters ==
    /\ pc = "iterate"
    /\ source = "parameters" /\ call.parameters = NotGiven
    /\ pc' = "list"
    /\ UNCHANGED <<depth, objects, outcome, call, collection, conversion>>

\* Whatever PyObject_GetIter raises is replaced.
GetIter ==
    /\ pc = "iterate"
    /\ ~(source = "parameters" /\ call.parameters = NotGiven)
    /\ \/ ReturnNull(refs, "TypeError") /\ UNCHANGED heap
       \/ /\ call[source] # NotIterable
          /\ Own(2, Iterator, Null)
          /\ pc' = "next"
          /\ UNCHANGED <<depth, dropped, outcome>>
    /\ taken' = 0
    /\ UNCHANGED <<call, source, site, conversion>>

\* PyIter_Next gives an item, or null; only the exception tells the end of the
\* iteration from its failure.
NextItem ==
    /\ pc = "next"
    /\ taken' = taken + 1
    /\ LET given == call[source][taken + 1]
       IN  IF given \in {Exhausted, Raises}
           THEN /\ pc' = "ended"
                /\ err' = IF given = Raises THEN "raised by the iterator" ELSE "none"
                /\ UNCHANGED <<heap, refs>>
           ELSE /\ pc' = "item"
                /\ Own(2, Item, given)
                /\ UNCHANGED err
    /\ UNCHANGED <<depth, dropped, ret, call, source, site, conversion>>

RejectItem ==
    /\ pc = "item"
    /\ ReturnNull(refs, CASE heap[Item].value = NotStr -> "TypeError"
                          [] heap[Item].value = Unencodable -> "UnicodeEncodeError"
                          [] OTHER -> "MemoryError")
    /\ UNCHANGED <<heap, call, collection, conversion>>

CollectItem ==
    /\ pc = "item" /\ heap[Item].value \in Name
    /\ site' = IF source = "arguments"
               THEN [site EXCEPT !.args = Append(@, <<heap[Item].value>>)]
               ELSE [site EXCEPT !.params = Append(@, heap[Item].value)]
    /\ dropped' = Destroyed({Local(2, Item)})
    /\ pc' = "next"
    /\ UNCHANGED <<depth, heap, refs, outcome, call, source, taken, conversion>>

\* A mistake: the question is not asked.
NotAsked == FALSE
PyErr_Occurred == err # "none"

EndOfIteration ==
    /\ pc = "ended"
    /\ IF PyErr_Occurred
       THEN ReturnNull(refs, err) /\ UNCHANGED source
       ELSE /\ dropped' = Destroyed({Local(2, Iterator)})
            /\ source' = "parameters"
            /\ pc' = IF source = "arguments" THEN "iterate" ELSE "list"
            /\ UNCHANGED <<depth, refs, outcome>>
    /\ UNCHANGED <<heap, taken, site, call, conversion>>

-----------------------------------------------------------------------------
(* Checker_Check: the list of results *)

\* The checker has no statistics.
NewList ==
    /\ pc = "list"
    /\ \/ ReturnNull(refs, "MemoryError") /\ UNCHANGED <<heap, results, nth>>
       \/ /\ Own(2, List, Null)
          /\ results' = CheckSite(site, NoStats) /\ nth' = 1
          /\ pc' = "results"
          /\ UNCHANGED <<depth, dropped, outcome>>
    /\ UNCHANGED <<call, collection, entry>>

\* ResultToPy begins with an empty dict,
NewDict ==
    /\ pc = "results" /\ nth \in DOMAIN results
    /\ depth' = 3
    /\ Own(3, Dict(nth), Null)
    /\ field' = "arg1"
    /\ pc' = "field"
    /\ UNCHANGED <<dropped, outcome, call, collection, results, nth, todo>>

\* makes a number
NewNumber ==
    /\ pc = "field" /\ field \in {"arg1", "arg2"}
    /\ Own(3, Value(nth, field), results[nth][field])
    /\ pc' = "put"
    /\ UNCHANGED <<depth, dropped, outcome, call, collection, conversion>>

\* or has MorphemeSetToPy make a set, which begins empty,
NewSet ==
    /\ pc = "field" /\ field \in {"morphemes1", "morphemes2"}
    /\ depth' = 4
    /\ Own(4, Value(nth, field), Null)
    /\ todo' = results[nth][field]
    /\ pc' = "morphemes"
    /\ UNCHANGED <<dropped, outcome, call, collection, results, nth, field>>

NewStr ==
    /\ pc = "morphemes"
    /\ \E m \in todo : Own(4, Str(nth, field, m), m)
    /\ pc' = "add morpheme"
    /\ UNCHANGED <<depth, dropped, outcome, call, collection, conversion>>

AddMorpheme ==
    /\ pc = "add morpheme"
    /\ \E m \in todo :
          /\ Str(nth, field, m) \in Locals(4)
          /\ Put(Value(nth, field), m, Str(nth, field, m))
          /\ dropped' = Destroyed({Local(4, Str(nth, field, m))})
          /\ todo' = todo \ {m}
    /\ pc' = "morphemes"
    /\ UNCHANGED <<depth, outcome, call, collection, results, nth, field>>

ReturnSet ==
    /\ pc = "morphemes" /\ todo = {}
    /\ ReturnFromFrame(Value(nth, field))
    /\ pc' = "put"
    /\ UNCHANGED <<heap, outcome, call, collection, conversion>>

\* and enters it into the dict,
SetItem ==
    /\ pc = "put"
    /\ Put(Dict(nth), field, Value(nth, field))
    /\ field' = CASE field = "arg1" -> "arg2"
                  [] field = "arg2" -> "morphemes1"
                  [] field = "morphemes1" -> "morphemes2"
                  [] OTHER -> "none"
    /\ pc' = "field"
    /\ UNCHANGED <<depth, dropped, outcome, call, collection, results, nth, todo>>

\* which has four entries.
ReturnDict ==
    /\ pc = "field" /\ field = "none"
    /\ ReturnFromFrame(Dict(nth))
    /\ pc' = "append"
    /\ UNCHANGED <<heap, outcome, call, collection, conversion>>

\* Both functions return null objects, for an exception set.
ConversionFails ==
    /\ \/ pc = "results" /\ nth \in DOMAIN results
       \/ pc = "field" /\ field # "none"
       \/ pc = "morphemes" /\ todo # {}
       \/ pc \in {"add morpheme", "put"}
    /\ Unwind(refs, 2)
    /\ err' = "MemoryError"
    /\ pc' = "append"
    /\ UNCHANGED <<heap, ret, call, collection, conversion>>

\* A mistake: a result that could not be converted is left out.
NullSkipped ==
    /\ nth' = nth + 1
    /\ err' = "none"
    /\ pc' = "results"
    /\ UNCHANGED <<depth, refs, dropped, ret>>

\* PyList_Append refuses a null item with an exception of its own.
NullAppended == ReturnNull(refs, "SystemError") /\ UNCHANGED nth

AppendResult ==
    /\ pc = "append"
    /\ \/ Dict(nth) \notin Locals(2) /\ NullAppended /\ UNCHANGED heap
       \/ Dict(nth) \in Locals(2) /\ ReturnNull(refs, "MemoryError") /\ UNCHANGED <<heap, nth>>
       \/ /\ Dict(nth) \in Locals(2)
          /\ Put(List, Cardinality(HeldBy(List)) + 1, Dict(nth))
          /\ dropped' = Destroyed({Local(2, Dict(nth))})
          /\ nth' = nth + 1
          /\ pc' = "results"
          /\ UNCHANGED <<depth, outcome>>
    /\ UNCHANGED <<call, collection, results, entry>>

\* resultList.release(): the reference goes to Python.
ReturnList ==
    /\ pc = "results" /\ nth \notin DOMAIN results
    /\ ReturnFromFrame(List)
    /\ ret' = List
    /\ pc' = "returned"
    /\ UNCHANGED <<heap, err, call, collection, conversion>>

\* What the extension, or the program that uses it, does next.
Step ==
    \/ CreateModule \/ AddType \/ Checker_New \/ Checker_Dealloc \/ Consume
    \/ Checker_Check \/ NoParameters \/ GetIter
    \/ NextItem \/ RejectItem \/ CollectItem \/ EndOfIteration
    \/ NewList \/ NewDict \/ NewNumber \/ NewSet \/ NewStr \/ AddMorpheme \/ ReturnSet
    \/ SetItem \/ ReturnDict \/ ConversionFails \/ AppendResult \/ ReturnList

Next ==
    \/ DECREF /\ UNCHANGED <<pc, depth, outcome, call, collection, conversion>>
    \/ dropped = {} /\ Step

Spec == Init /\ [][Next]_vars

-----------------------------------------------------------------------------
(* Properties *)

\* What Python's convention asks of every function of the extension: NULL comes
\* with an exception set, and an object without one. (Some failures are only
\* seen from the exception, and some set it twice.)
RaisesOrReturns == pc = "returned" => ((ret = Null) <=> (err # "none"))

\* Every object alive has as many references counted as there are, and nothing
\* refers to a freed one: at no point of any error path can a count drift. (The
\* static type has one of its own.)
CountsAreReferences ==
    /\ \A o \in DOMAIN heap :
          heap[o].count = Cardinality({r \in refs : r[3] = o}) + (IF o = Type THEN 1 ELSE 0)
    /\ \A r \in refs : r[3] \in DOMAIN heap

\* Between calls, whatever failed before, only what Python itself holds is
\* alive.
LeavesNothingBehind ==
    pc = "idle" /\ dropped = {} => DOMAIN heap = Locals(1) \cup {Type}

\* A dict read back.
AsResult(dict) ==
    [arg1 |-> heap[Slot(dict, "arg1")].value,
     arg2 |-> heap[Slot(dict, "arg2")].value,
     morphemes1 |-> Keys(Slot(dict, "morphemes1")),
     morphemes2 |-> Keys(Slot(dict, "morphemes2"))]

\* The call that was passed to check_call.
CallPassed ==
    SiteOf(Front(call.arguments),
           IF call.parameters = NotGiven THEN <<>> ELSE Front(call.parameters))

\* A list that is returned has one dict for each report on the call that was
\* passed, with its positions and morphemes and in order: it is never the list
\* of a call cut short by an iterator that failed, nor one with results missing.
ListIsVerdicts ==
    pc = "returned" /\ ret = List =>
        LET reports == CheckSite(CallPassed, NoStats)
        IN  /\ Last(call.arguments) = Exhausted
            /\ Last(call.parameters) \in {Exhausted, Null}
            /\ Keys(List) = DOMAIN reports
            /\ \A k \in DOMAIN reports :
                  LET got == AsResult(Slot(List, k))
                  IN  \A f \in DOMAIN got : got[f] = reports[k][f]
=============================================================================
