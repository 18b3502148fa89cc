------------------------------ MODULE PyObjects ------------------------------
(***************************************************************************)
(* External: CPython's objects as the extension uses them. Beside the      *)
(* counts that the interpreter keeps stand the references themselves, by   *)
(* whom and to what, so that the one can be compared with the other.       *)
(*                                                                         *)
(* An object is known by what it is made for, so that equal heaps are      *)
(* equal states. A running function is a holder like any other.            *)
(***************************************************************************)
EXTENDS Integers, FiniteSets

VARIABLES
    heap,      \* the live objects: the count of each, and its value
    refs,      \* the references there are: by a holder, under a key, to an object
    dropped    \* those that are given up, and still to be counted down

\* The object of the given type made for a field and a morpheme of result k.
Obj(type, k, field, m) == <<type, k, field, m>>

\* The n-th function on the stack, and its local variable for o.
Frame(n) == Obj("frame", n, "", "")
Local(n, o) == <<Frame(n), "", o>>

\* What a holder holds, what the locals of a function are, and what a key of a
\* container stands for.
HeldBy(c) == {r \in refs : r[1] = c}
Locals(n) == {r[3] : r \in {s \in refs \ dropped : s[1] = Frame(n)}}
Keys(c) == {r[2] : r \in HeldBy(c)}
Slot(c, key) == (CHOOSE r \in HeldBy(c) : r[2] = key)[3]

\* A new object with the one reference its maker gets.
NewObject(o, value) ==
    [x \in DOMAIN heap \cup {o} |-> IF x = o THEN [count |-> 1, value |-> value] ELSE heap[x]]

INCREF(o) == [heap EXCEPT ![o].count = @ + 1]

\* An object without references is freed, and gives up what it holds.
DECREF ==
    \E r \in dropped :
        /\ refs' = refs \ {r}
        /\ IF heap[r[3]].count > 1
           THEN /\ heap' = [heap EXCEPT ![r[3]].count = @ - 1]
                /\ dropped' = dropped \ {r}
           ELSE /\ heap' = [o \in DOMAIN heap \ {r[3]} |-> heap[o]]
                /\ dropped' = (dropped \ {r}) \cup HeldBy(r[3])

\* PyList_Append, PyDict_SetItemString and PySet_Add take a reference of their
\* own.
Put(c, key, o) == heap' = INCREF(o) /\ refs' = refs \cup {<<c, key, o>>}
=============================================================================
