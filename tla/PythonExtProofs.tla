--------------------------- MODULE PythonExtProofs ---------------------------
(***************************************************************************)
(* Proofs about the Python extension: its error paths, its reference       *)
(* counts and the list that it returns.                                    *)
(***************************************************************************)
EXTENDS PythonExt, CheckerClientProofs

Fields == {"arg1", "arg2", "morphemes1", "morphemes2"}

\* The entries of a dict that come before f.
FieldsBefore(f) ==
    CASE f = "arg1" -> {}
      [] f = "arg2" -> {"arg1"}
      [] f = "morphemes1" -> {"arg1", "arg2"}
      [] f = "morphemes2" -> {"arg1", "arg2", "morphemes1"}
      [] OTHER -> Fields

Building == pc \in {"field", "put", "morphemes", "add morpheme"}
ListIsAlive == Building \/ pc \in {"results", "append"} \/ (pc = "returned" /\ ret = List)

-----------------------------------------------------------------------------
(* The references *)

\* Who refers to what: a local, or a container to what belongs in it.
RefForm(r) ==
    \/ \E n \in 1 .. 4 : r = Local(n, r[3])
    \/ r = <<Module, "Checker", Type>>
    \/ r = <<List, r[2], Dict(r[2])>>
    \/ r = <<Dict(r[1][2]), r[2], Value(r[1][2], r[2])>>
    \/ r = <<Value(r[1][2], r[1][3]), r[2], Str(r[1][2], r[1][3], r[2])>>

\* The references outside dropped have a holder, those in it have lost theirs.
HoldersInv ==
    /\ IsFiniteSet(refs)
    /\ dropped \subseteq refs
    /\ \A r \in refs : RefForm(r)
    /\ \A r \in refs \ dropped : r[1] \in DOMAIN heap \/ \E n \in 1 .. depth : r[1] = Frame(n)
    /\ \A r \in dropped : r[1] \notin DOMAIN heap
    /\ \A o \in DOMAIN heap : o[1] # "frame"

\* The counts, and that only the type lives without a reference to it.
CountInv ==
    /\ CountsAreReferences
    /\ Type \in DOMAIN heap
    /\ \A o \in DOMAIN heap \ {Type} : \E r \in refs : r[3] = o

-----------------------------------------------------------------------------
(* The stack *)

DepthInv ==
    \/ depth = 1 /\ pc \in {"idle", "returned"}
    \/ depth = 2 /\ pc \in {"add", "iterate", "next", "item", "ended", "list", "results", "append"}
    \/ depth = 3 /\ pc \in {"field", "put"}
    \/ depth = 4 /\ pc \in {"morphemes", "add morpheme"}

OutcomeInv ==
    /\ pc # "returned" => ret = Null
    /\ pc \notin {"ended", "append", "returned"} => err = "none"
    /\ RaisesOrReturns

\* What ResultToPy has when it comes to entry f of result k.
DictLocals(k, f) == {Dict(k)} \cup {Value(k, g) : g \in FieldsBefore(f)}

\* The locals of the interpreter, of Checker_Check (or of PyInit_swappedargs), of
\* ResultToPy and of MorphemeSetToPy.
LocalsInv ==
    /\ Locals(1) \in SUBSET {Module, Checker, List}
    /\ List \in Locals(1) <=> pc = "returned" /\ ret = List
    /\ Locals(2) = CASE pc = "add" -> {Module}
                     [] pc \in {"next", "ended"} -> {Iterator}
                     [] pc = "item" -> {Iterator, Item}
                     [] Building \/ pc = "results" -> {List}
                     [] pc = "append" -> IF err = "none" THEN {List, Dict(nth)} ELSE {List}
                     [] OTHER -> {}
    /\ Locals(3) = CASE pc = "put" -> DictLocals(nth, field) \cup {Value(nth, field)}
                     [] Building /\ pc # "put" -> DictLocals(nth, field)
                     [] OTHER -> {}
    /\ CASE pc = "morphemes" -> Locals(4) = {Value(nth, field)}
         [] pc = "add morpheme" -> \E m \in todo : Locals(4) = {Value(nth, field), Str(nth, field, m)}
         [] OTHER -> Locals(4) = {}

\* A module being made is new and empty.
ModuleInv == pc = "add" => HeldBy(Module) = {} /\ Module \notin Locals(1)

-----------------------------------------------------------------------------
(* The list *)

SetHolds(k, f, morphemes) ==
    HeldBy(Value(k, f)) = {<<Value(k, f), m, Str(k, f, m)>> : m \in morphemes}

ValueIsComplete(k, f) ==
    IF f \in {"arg1", "arg2"} THEN heap[Value(k, f)].value = results[k][f]
                              ELSE SetHolds(k, f, results[k][f])

\* The dict has these entries.
DictHolds(k, fields) ==
    /\ HeldBy(Dict(k)) = {<<Dict(k), f, Value(k, f)>> : f \in fields}
    /\ \A f \in fields : ValueIsComplete(k, f)

\* The list has the results converted so far, and the one in hand is as far as
\* its function is.
ListInv ==
    /\ ListIsAlive =>
          /\ HeldBy(List) = {<<List, k, Dict(k)>> : k \in 1 .. (nth - 1)}
          /\ \A k \in 1 .. (nth - 1) : DictHolds(k, Fields)
    /\ Building => DictHolds(nth, FieldsBefore(field))
    /\ pc = "put" => ValueIsComplete(nth, field)
    /\ pc \in {"morphemes", "add morpheme"} =>
          /\ todo \subseteq results[nth][field]
          /\ SetHolds(nth, field, results[nth][field] \ todo)
    /\ pc = "append" /\ err = "none" => DictHolds(nth, Fields)

FieldInv ==
    /\ pc = "field" => field \in Fields \cup {"none"}
    /\ pc = "put" => field \in Fields
    /\ pc \in {"morphemes", "add morpheme"} => field \in {"morphemes1", "morphemes2"}

\* The results are those of the call that was passed.
ResultsInv ==
    /\ nth \in Nat \ {0}
    /\ ListIsAlive =>
          /\ results = CheckSite(CallPassed, NoStats)
          /\ Len(results) \in Nat /\ DOMAIN results = 1 .. Len(results)
          /\ Last(call.arguments) = Exhausted
          /\ Last(call.parameters) \in {Exhausted, Null}
          /\ nth <= Len(results) + 1
    /\ Building \/ pc = "append" => nth <= Len(results)
    /\ pc = "returned" /\ ret = List => nth = Len(results) + 1

-----------------------------------------------------------------------------
(* The call site *)

\* How many names of the iterable have been collected.
Collected == IF pc = "next" THEN taken ELSE taken - 1

SiteInv ==
    /\ call \in Calls
    /\ source \in {"arguments", "parameters"}
    /\ taken \in Nat
    /\ pc \in {"next", "item", "ended"} => call[source] \in Iterable
    /\ pc \in {"next", "item"} => taken < Len(call[source])
    /\ pc = "item" => taken >= 1 /\ heap[Item].value = call[source][taken]
    /\ pc = "ended" =>
          /\ taken \in DOMAIN call[source]
          /\ call[source][taken] = IF err = "none" THEN Exhausted ELSE Raises
    /\ pc \in {"iterate", "next", "item", "ended"} /\ source = "parameters" =>
          Last(call.arguments) = Exhausted
    /\ pc = "list" => /\ site = CallPassed
                      /\ Last(call.arguments) = Exhausted
                      /\ Last(call.parameters) \in {Exhausted, Null}
    /\ pc = "iterate" =>
          site = SiteOf(IF source = "arguments" THEN <<>> ELSE Front(call.arguments), <<>>)
    /\ pc \in {"next", "item", "ended"} =>
          site = IF source = "arguments"
                 THEN SiteOf(SubSeq(call.arguments, 1, Collected), <<>>)
                 ELSE SiteOf(Front(call.arguments), SubSeq(call.parameters, 1, Collected))

-----------------------------------------------------------------------------
\* What the proofs rest on.
ExtInv ==
    /\ HoldersInv /\ CountInv
    /\ DepthInv /\ OutcomeInv /\ LocalsInv /\ ModuleInv
    /\ ListInv /\ FieldInv /\ ResultsInv
    /\ SiteInv

-----------------------------------------------------------------------------
(* Counting references *)

\* The references among R to o.
To(R, o) == {r \in R : r[3] = o}

\* A finite set of references has finitely many to each object.
LEMMA ToFinite ==
    ASSUME NEW R, IsFiniteSet(R), NEW o
    PROVE  IsFiniteSet(To(R, o)) /\ Cardinality(To(R, o)) \in Nat
<1>1. To(R, o) \in SUBSET R
  BY DEF To
<1> QED
  BY <1>1, FS_Subset, FS_CardinalityType

\* One reference more counts once, for the object it refers to.
LEMMA ToAdd ==
    ASSUME NEW R, IsFiniteSet(R), NEW r, r \notin R, NEW o
    PROVE  /\ IsFiniteSet(R \cup {r})
           /\ Cardinality(To(R \cup {r}, o)) = Cardinality(To(R, o)) + (IF r[3] = o THEN 1 ELSE 0)
<1>1. IsFiniteSet(To(R, o)) /\ Cardinality(To(R, o)) \in Nat
  BY ToFinite
<1>2. IsFiniteSet(R \cup {r})
  BY FS_AddElement
<1>3. CASE r[3] = o
  <2>1. To(R \cup {r}, o) = To(R, o) \cup {r} /\ r \notin To(R, o)
    BY <1>3 DEF To
  <2>2. Cardinality(To(R, o) \cup {r}) = Cardinality(To(R, o)) + 1
    BY <1>1, <2>1, FS_AddElement
  <2> QED
    BY <1>2, <1>3, <2>1, <2>2
<1>4. CASE r[3] # o
  <2>1. To(R \cup {r}, o) = To(R, o)
    BY <1>4 DEF To
  <2> QED
    BY <1>1, <1>2, <1>4, <2>1
<1> QED
  BY <1>3, <1>4

\* And one less.
LEMMA ToRemove ==
    ASSUME NEW R, IsFiniteSet(R), NEW r \in R, NEW o
    PROVE  /\ IsFiniteSet(R \ {r})
           /\ Cardinality(To(R \ {r}, o)) = Cardinality(To(R, o)) - (IF r[3] = o THEN 1 ELSE 0)
<1>1. IsFiniteSet(R \ {r})
  BY FS_RemoveElement
<1>2. (R \ {r}) \cup {r} = R /\ r \notin R \ {r}
  OBVIOUS
<1>3. Cardinality(To(R, o)) = Cardinality(To(R \ {r}, o)) + (IF r[3] = o THEN 1 ELSE 0)
  BY <1>1, <1>2, ToAdd
<1>4. Cardinality(To(R \ {r}, o)) \in Nat
  BY <1>1, ToFinite
<1> QED
  BY <1>1, <1>3, <1>4

\* No references are none, and one is no other.
LEMMA ToOne ==
    ASSUME NEW R, IsFiniteSet(R), NEW o
    PROVE  /\ Cardinality(To(R, o)) = 0 <=> \A r \in R : r[3] # o
           /\ Cardinality(To(R, o)) = 1 /\ (\E r \in R : r[3] = o) =>
                 \A r, s \in R : r[3] = o /\ s[3] = o => r = s
<1>1. IsFiniteSet(To(R, o))
  BY ToFinite
<1>2. Cardinality(To(R, o)) = 0 <=> To(R, o) = {}
  BY <1>1, FS_EmptySet
<1>3. Cardinality(To(R, o)) = 1 => \E x : To(R, o) = {x}
  BY <1>1, FS_Singleton
<1>4. (\A r \in R : r[3] # o) <=> To(R, o) = {}
  BY DEF To
<1>5. ASSUME NEW x, To(R, o) = {x}
      PROVE  \A r, s \in R : r[3] = o /\ s[3] = o => r = s
  BY <1>5 DEF To
<1> QED
  BY <1>2, <1>3, <1>4, <1>5

\* CountsAreReferences in these terms.
LEMMA CountsIs ==
    CountsAreReferences <=>
        /\ \A o \in DOMAIN heap :
              heap[o].count = Cardinality(To(refs, o)) + (IF o = Type THEN 1 ELSE 0)
        /\ \A r \in refs : r[3] \in DOMAIN heap
BY DEF CountsAreReferences, To

-----------------------------------------------------------------------------
(* What each way to change the references does. Objects are known by their *)
(* kinds and what they are made for.                                       *)

\* The kind of an object is the first part of its name.
LEMMA Kinds ==
    /\ \A n : Frame(n)[1] = "frame"
    /\ Type[1] = "type" /\ Module[1] = "module" /\ Checker[1] = "checker" /\ List[1] = "list"
    /\ Iterator[1] = "iterator" /\ Item[1] = "item"
    /\ \A k : Dict(k)[1] = "dict"
    /\ \A k, f : Value(k, f)[1] = "value"
    /\ \A k, f, m : Str(k, f, m)[1] = "str"
BY DEF Frame, Type, Module, Checker, List, Iterator, Item, Dict, Value, Str, Single, Obj

\* Every function on the stack is a holder of its own.
LEMMA FramesDiffer == \A n, k : Frame(n) = Frame(k) => n = k
BY DEF Frame, Obj

\* A local is a reference by its function, under no key.
LEMMA LocalIs == \A n, o : Local(n, o)[1] = Frame(n) /\ Local(n, o)[2] = "" /\ Local(n, o)[3] = o
BY DEF Local

\* A local takes over a new object.
LEMMA OwnCounts ==
    ASSUME HoldersInv, CountInv, NEW n \in 1 .. 4, NEW o, NEW v,
           o \notin DOMAIN heap, Own(n, o, v)
    PROVE  CountInv'
<1>1. heap' = NewObject(o, v) /\ refs' = refs \cup {Local(n, o)}
  BY DEF Own
<1>2. DOMAIN heap' = DOMAIN heap \cup {o}
  BY <1>1 DEF NewObject
<1>3. heap'[o].count = 1 /\ \A x \in DOMAIN heap : heap'[x] = heap[x]
  BY <1>1 DEF NewObject
<1>4. \A r \in refs : r[3] \in DOMAIN heap
  BY DEF CountInv, CountsAreReferences
<1>5. IsFiniteSet(refs) /\ Local(n, o)[3] = o /\ Local(n, o) \notin refs
  <2>1. Local(n, o)[3] = o
    BY LocalIs
  <2>2. Local(n, o) \notin refs
    BY <1>4, <2>1
  <2> QED
    BY <2>1, <2>2 DEF HoldersInv
<1>6. \A x : Cardinality(To(refs', x)) = Cardinality(To(refs, x)) + (IF o = x THEN 1 ELSE 0)
  BY <1>1, <1>5, ToAdd
<1>7. Cardinality(To(refs, o)) = 0
  BY <1>4, <1>5, ToOne
<1>8. Type \in DOMAIN heap /\ o # Type
  BY DEF CountInv
<1>9. \A x \in DOMAIN heap : heap[x].count = Cardinality(To(refs, x)) + (IF x = Type THEN 1 ELSE 0)
  BY CountsIs DEF CountInv
<1>10. \A x \in DOMAIN heap : Cardinality(To(refs, x)) \in Nat
  BY <1>5, ToFinite
<1>11. \A x \in DOMAIN heap' :
           heap'[x].count = Cardinality(To(refs', x)) + (IF x = Type THEN 1 ELSE 0)
  <2> SUFFICES ASSUME NEW x \in DOMAIN heap'
               PROVE  heap'[x].count = Cardinality(To(refs', x)) + (IF x = Type THEN 1 ELSE 0)
    OBVIOUS
  <2>1. CASE x = o
    BY <2>1, <1>3, <1>6, <1>7, <1>8
  <2>2. CASE x # o
    <3>1. x \in DOMAIN heap
      BY <2>2, <1>2
    <3>2. Cardinality(To(refs', x)) = Cardinality(To(refs, x))
      BY <2>2, <3>1, <1>6, <1>10
    <3> QED
      BY <3>1, <3>2, <1>3, <1>9
  <2> QED
    BY <2>1, <2>2
<1>12. \A r \in refs' : r[3] \in DOMAIN heap'
  BY <1>1, <1>2, <1>4, <1>5
<1>13. CountsAreReferences'
  BY <1>11, <1>12 DEF CountsAreReferences, To
<1>14. \A x \in DOMAIN heap' \ {Type} : \E r \in refs' : r[3] = x
  BY <1>1, <1>2, <1>5 DEF CountInv
<1> QED
  BY <1>2, <1>8, <1>13, <1>14 DEF CountInv, Type, Single

\* The references that there may be: a local refers to anything.
LEMMA LocalForm == \A n \in 1 .. 4 : \A o : RefForm(Local(n, o))
BY LocalIs DEF RefForm

\* and it has a holder.
LEMMA OwnHolders ==
    ASSUME HoldersInv, dropped = {}, dropped' = {}, NEW n \in 1 .. 4, NEW o, NEW v,
           o[1] # "frame", Own(n, o, v), depth \in Nat, depth' \in Nat, n <= depth', depth <= depth'
    PROVE  HoldersInv'
<1>1. DOMAIN heap' = DOMAIN heap \cup {o} /\ refs' = refs \cup {Local(n, o)}
  BY DEF Own, NewObject
<1>2. IsFiniteSet(refs')
  BY <1>1, FS_AddElement DEF HoldersInv
<1>3. \A r \in refs' : RefForm(r)
  BY <1>1, LocalForm DEF HoldersInv
<1>4. \A r \in refs' : r[1] \in DOMAIN heap' \/ \E k \in 1 .. depth' : r[1] = Frame(k)
  <2>1. ASSUME NEW r \in refs
        PROVE  r[1] \in DOMAIN heap' \/ \E k \in 1 .. depth' : r[1] = Frame(k)
    <3>1. r[1] \in DOMAIN heap \/ \E k \in 1 .. depth : r[1] = Frame(k)
      BY <2>1 DEF HoldersInv
    <3> QED
      BY <3>1, <1>1
  <2>2. \E k \in 1 .. depth' : Local(n, o)[1] = Frame(k)
    <3>1. n \in 1 .. depth'
      OBVIOUS
    <3>2. Local(n, o)[1] = Frame(n)
      BY LocalIs
    <3> QED
      BY <3>1, <3>2
  <2> QED
    BY <1>1, <2>1, <2>2
<1>5. \A x \in DOMAIN heap' : x[1] # "frame"
  BY <1>1 DEF HoldersInv
<1>6. (\A r \in refs : RefForm(r))' <=> \A r \in refs' : RefForm(r)
  BY DEF RefForm, Local, Frame, Obj, Dict, Value, Str, List, Module, Type, Single
<1> QED
  BY <1>2, <1>3, <1>4, <1>5, <1>6 DEF HoldersInv

\* The locals in terms of the references.
LEMMA LocalsAre ==
    ASSUME HoldersInv, NEW n \in 1 .. 4
    PROVE  /\ \A o : o \in Locals(n) <=> Local(n, o) \in refs \ dropped
           /\ \A r \in refs : r[1] = Frame(n) => r = Local(n, r[3])
<1>1. ASSUME NEW r \in refs, r[1] = Frame(n)
      PROVE  r = Local(n, r[3])
  <2>1. RefForm(r)
    BY <1>1 DEF HoldersInv
  <2>2. r[1] # Module /\ r[1] # List /\ \A k, f : r[1] # Dict(k) /\ r[1] # Value(k, f)
    BY <1>1, Kinds
  <2>3. ASSUME NEW c, NEW x, NEW y, r = <<c, x, y>>
        PROVE  r[1] = c
    BY <2>3
  <2>4. \E k \in 1 .. 4 : r = Local(k, r[3])
    BY <2>1, <2>2, <2>3 DEF RefForm
  <2>5. PICK k \in 1 .. 4 : r = Local(k, r[3])
    BY <2>4
  <2>6. Local(k, r[3])[1] = Frame(k)
    BY LocalIs
  <2>7. Frame(k) = Frame(n)
    BY <1>1, <2>5, <2>6
  <2>8. k = n
    BY <2>7, FramesDiffer
  <2> QED
    BY <2>5, <2>8
<1>2. \A o : Local(n, o)[1] = Frame(n) /\ Local(n, o)[3] = o
  BY LocalIs
<1> QED
  BY <1>1, <1>2 DEF Locals

\* A local is known by its function and its object.
LEMMA LocalsDiffer == \A n, o, k, p : Local(n, o) = Local(k, p) <=> n = k /\ o = p
BY DEF Local, Frame, Obj

\* Nothing else is changed.
LEMMA OwnEffects ==
    ASSUME HoldersInv, dropped = {}, dropped' = {}, NEW n \in 1 .. 4, NEW o, NEW v,
           o[1] # "frame", o \notin DOMAIN heap, Own(n, o, v)
    PROVE  /\ Locals(n)' = Locals(n) \cup {o}
           /\ \A k : k # n => Locals(k)' = Locals(k)
           /\ \A c : c # Frame(n) => HeldBy(c)' = HeldBy(c)
           /\ HeldBy(o)' = {}
           /\ \A x \in DOMAIN heap : x \in DOMAIN heap' /\ heap'[x] = heap[x]
           /\ o \in DOMAIN heap' /\ heap'[o].value = v
<1>1. refs' = refs \cup {Local(n, o)}
  BY DEF Own
<1>2. \A x \in DOMAIN heap : x \in DOMAIN heap' /\ heap'[x] = heap[x]
  BY DEF Own, NewObject
<1>3. o \in DOMAIN heap' /\ heap'[o].value = v
  BY DEF Own, NewObject
<1>4. Local(n, o)[1] = Frame(n) /\ Local(n, o)[3] = o
  BY LocalIs
<1>5. Locals(n)' = Locals(n) \cup {o}
  BY <1>1, <1>4 DEF Locals, Frame, Obj
<1>6. ASSUME NEW k, k # n
      PROVE  Locals(k)' = Locals(k)
  <2>1. Frame(k) # Frame(n)
    BY <1>6, FramesDiffer
  <2> QED
    BY <1>1, <1>4, <2>1 DEF Locals, Frame, Obj
<1>7. \A c : c # Frame(n) => HeldBy(c)' = HeldBy(c)
  BY <1>1, <1>4 DEF HeldBy
<1>8. o # Frame(n) /\ \A k : o # Frame(k)
  BY Kinds
<1>9. HeldBy(o) = {}
  BY <1>8 DEF HeldBy, HoldersInv
<1> QED
  BY <1>2, <1>3, <1>5, <1>6, <1>7, <1>8, <1>9

\* An object has one reference more, and counts it.
LEMMA CountUp ==
    ASSUME HoldersInv, CountInv, NEW o \in DOMAIN heap, heap' = INCREF(o),
           \A x : Cardinality(To(refs', x)) = Cardinality(To(refs, x)) + (IF o = x THEN 1 ELSE 0),
           \A s \in refs' : s[3] \in DOMAIN heap,
           \A x \in DOMAIN heap \ {Type} : \E s \in refs' : s[3] = x
    PROVE  /\ CountInv'
           /\ DOMAIN heap' = DOMAIN heap
           /\ \A x \in DOMAIN heap : heap'[x].value = heap[x].value
<1>1. DOMAIN heap' = DOMAIN heap
  BY DEF INCREF
<1>2. \A x \in DOMAIN heap : x # o => heap'[x] = heap[x]
  BY DEF INCREF
<1>3. heap'[o] = [heap[o] EXCEPT !.count = heap[o].count + 1]
  BY DEF INCREF
<1>4. heap'[o].count = heap[o].count + 1 /\ heap'[o].value = heap[o].value
  BY <1>3
<1>5. \A x \in DOMAIN heap : heap[x].count = Cardinality(To(refs, x)) + (IF x = Type THEN 1 ELSE 0)
  BY CountsIs DEF CountInv
<1>6. \A x : Cardinality(To(refs, x)) \in Nat
  BY ToFinite DEF HoldersInv
<1>7. ASSUME NEW x \in DOMAIN heap
      PROVE  /\ heap'[x].count = Cardinality(To(refs', x)) + (IF x = Type THEN 1 ELSE 0)
             /\ heap'[x].value = heap[x].value
  <2>1. heap[x].count = Cardinality(To(refs, x)) + (IF x = Type THEN 1 ELSE 0)
    BY <1>5
  <2>2. Cardinality(To(refs', x)) = Cardinality(To(refs, x)) + (IF o = x THEN 1 ELSE 0)
    OBVIOUS
  <2>3. Cardinality(To(refs, x)) \in Nat
    BY <1>6
  <2>4. CASE x = o
    BY <2>1, <2>2, <2>3, <2>4, <1>4
  <2>5. CASE x # o
    BY <2>1, <2>2, <2>3, <2>5, <1>2
  <2> QED
    BY <2>4, <2>5
<1>8. CountsAreReferences'
  BY <1>1, <1>7 DEF CountsAreReferences, To
<1>9. Type \in DOMAIN heap' /\ \A x \in DOMAIN heap' \ {Type} : \E s \in refs' : s[3] = x
  BY <1>1 DEF CountInv
<1> QED
  BY <1>1, <1>7, <1>8, <1>9 DEF CountInv

\* A new reference is counted.
LEMMA AddRefCounts ==
    ASSUME HoldersInv, CountInv, NEW r, r \notin refs, r[3] \in DOMAIN heap,
           heap' = INCREF(r[3]), refs' = refs \cup {r}
    PROVE  /\ CountInv'
           /\ DOMAIN heap' = DOMAIN heap
           /\ \A x \in DOMAIN heap : heap'[x].value = heap[x].value
<1>1. IsFiniteSet(refs)
  BY DEF HoldersInv
<1>2. \A x : Cardinality(To(refs', x)) = Cardinality(To(refs, x)) + (IF r[3] = x THEN 1 ELSE 0)
  BY <1>1, ToAdd
<1>3. \A s \in refs' : s[3] \in DOMAIN heap
  BY DEF CountInv, CountsAreReferences
<1>4. \A x \in DOMAIN heap \ {Type} : \E s \in refs' : s[3] = x
  BY DEF CountInv
<1> QED
  BY <1>2, <1>3, <1>4, CountUp

\* A reference that is handed on is the same count.
LEMMA MoveCounts ==
    ASSUME HoldersInv, CountInv, NEW r \in refs, NEW s, s \notin refs, r[3] = s[3],
           heap' = heap, refs' = (refs \ {r}) \cup {s}
    PROVE  CountInv' /\ IsFiniteSet(refs')
<1>1. IsFiniteSet(refs) /\ IsFiniteSet(refs \ {r})
  BY FS_RemoveElement DEF HoldersInv
<1>2. IsFiniteSet(refs')
  BY <1>1, FS_AddElement
<1>3. ASSUME NEW x
      PROVE  Cardinality(To(refs', x)) = Cardinality(To(refs, x))
  <2>1. Cardinality(To(refs \ {r}, x)) = Cardinality(To(refs, x)) - (IF r[3] = x THEN 1 ELSE 0)
    BY <1>1, ToRemove
  <2>2. Cardinality(To(refs', x)) = Cardinality(To(refs \ {r}, x)) + (IF s[3] = x THEN 1 ELSE 0)
    BY <1>1, ToAdd
  <2>3. Cardinality(To(refs, x)) \in Nat /\ Cardinality(To(refs \ {r}, x)) \in Nat
    BY <1>1, ToFinite
  <2> QED
    BY <2>1, <2>2, <2>3
<1>4. \A x \in DOMAIN heap : heap[x].count = Cardinality(To(refs, x)) + (IF x = Type THEN 1 ELSE 0)
  BY CountsIs DEF CountInv
<1>5. \A x \in refs' : x[3] \in DOMAIN heap'
  BY DEF CountInv, CountsAreReferences
<1>6. \A x \in DOMAIN heap' :
          heap'[x].count = Cardinality(To(refs', x)) + (IF x = Type THEN 1 ELSE 0)
  BY <1>3, <1>4
<1>7. CountsAreReferences'
  BY <1>5, <1>6 DEF CountsAreReferences, To
<1>8. Type \in DOMAIN heap' /\ \A x \in DOMAIN heap' \ {Type} : \E t \in refs' : t[3] = x
  BY DEF CountInv
<1> QED
  BY <1>2, <1>7, <1>8 DEF CountInv

\* The parts of HoldersInv after a step.
LEMMA HoldersAfter ==
    ASSUME IsFiniteSet(refs'), dropped' \subseteq refs', \A r \in refs' : RefForm(r),
           \A r \in refs' \ dropped' :
               r[1] \in DOMAIN heap' \/ \E n \in 1 .. depth' : r[1] = Frame(n),
           \A r \in dropped' : r[1] \notin DOMAIN heap',
           \A o \in DOMAIN heap' : o[1] # "frame"
    PROVE  HoldersInv'
BY DEF HoldersInv

\* A function returns with one of its locals, and gives up the others.
LEMMA ReturnKeeps ==
    ASSUME HoldersInv, CountInv, dropped = {}, NEW d \in 2 .. 4, depth = d,
           NEW o, o \in Locals(d), o \notin Locals(d - 1), ReturnFromFrame(o), heap' = heap
    PROVE  /\ HoldersInv' /\ CountInv'
           /\ Locals(d - 1)' = Locals(d - 1) \cup {o}
           /\ Locals(d)' = {}
           /\ \A k \in 1 .. 4 : k # d /\ k # d - 1 => Locals(k)' = Locals(k)
           /\ \A c : c[1] # "frame" => HeldBy(c)' = HeldBy(c)
<1> DEFINE a == Local(d, o)
           b == Local(d - 1, o)
<1>1. /\ depth' = d - 1 /\ refs' = (refs \ {a}) \cup {b}
      /\ dropped' = {r \in refs : r[1] = Frame(d)} \ {a}
  BY DEF ReturnFromFrame, Destroyed, HeldBy
<1>2. d \in 1 .. 4 /\ d - 1 \in 1 .. 4 /\ d - 1 # d /\ d \in Int
  OBVIOUS
<1>3. a \in refs /\ b \notin refs
  BY <1>2, LocalsAre
<1>4. a[1] = Frame(d) /\ b[1] = Frame(d - 1) /\ a[3] = o /\ b[3] = o
  BY LocalIs
<1>5. RefForm(b)
  BY <1>2, LocalForm
<1>6. Frame(d) # Frame(d - 1)
  BY <1>2, FramesDiffer
<1>7. Frame(d)[1] = "frame" /\ Frame(d - 1)[1] = "frame"
  BY Kinds
<1> HIDE DEF a, b
<1>8. CountInv' /\ IsFiniteSet(refs')
  BY <1>1, <1>3, <1>4, MoveCounts
<1>9. dropped' \subseteq refs'
  BY <1>1
<1>10. \A r \in refs' : RefForm(r)
  BY <1>1, <1>5 DEF HoldersInv
<1>11. ASSUME NEW r \in refs' \ dropped'
       PROVE  r[1] \in DOMAIN heap' \/ \E n \in 1 .. depth' : r[1] = Frame(n)
  <2>1. CASE r = b
    <3>1. d - 1 \in 1 .. depth'
      BY <1>1, <1>2
    <3> QED
      BY <2>1, <3>1, <1>4
  <2>2. CASE r # b
    <3>1. r \in refs /\ r[1] # Frame(d)
      BY <2>2, <1>1, <1>11
    <3>2. r[1] \in DOMAIN heap \/ \E n \in 1 .. depth : r[1] = Frame(n)
      BY <3>1 DEF HoldersInv
    <3>3. ASSUME NEW n \in 1 .. depth, r[1] = Frame(n)
          PROVE  n \in 1 .. depth'
      <4>1. n # d
        BY <3>1, <3>3
      <4> QED
        BY <4>1, <1>1, <1>2
    <3> QED
      BY <3>2, <3>3
  <2> QED
    BY <2>1, <2>2
<1>12. \A x \in DOMAIN heap' : x[1] # "frame"
  BY DEF HoldersInv
<1>13. \A r \in dropped' : r[1] \notin DOMAIN heap'
  BY <1>1, <1>7, <1>12
<1>14. HoldersInv'
  BY <1>8, <1>9, <1>10, <1>11, <1>12, <1>13, HoldersAfter
<1>15. Locals(d - 1)' = Locals(d - 1) \cup {o}
  <2>1. Locals(d - 1)' = {r[3] : r \in {s \in refs' \ dropped' : s[1] = Frame(d - 1)}}
    BY DEF Locals, Frame, Obj
  <2>2. {s \in refs' \ dropped' : s[1] = Frame(d - 1)}
            = {s \in refs \ dropped : s[1] = Frame(d - 1)} \cup {b}
    BY <1>1, <1>4, <1>6
  <2> QED
    BY <2>1, <2>2, <1>4 DEF Locals
<1>16. Locals(d)' = {}
  <2>1. Locals(d)' = {r[3] : r \in {s \in refs' \ dropped' : s[1] = Frame(d)}}
    BY DEF Locals, Frame, Obj
  <2>2. {s \in refs' \ dropped' : s[1] = Frame(d)} = {}
    BY <1>1, <1>4, <1>6
  <2> QED
    BY <2>1, <2>2
<1>17. ASSUME NEW k \in 1 .. 4, k # d, k # d - 1
       PROVE  Locals(k)' = Locals(k)
  <2>1. Locals(k)' = {r[3] : r \in {s \in refs' \ dropped' : s[1] = Frame(k)}}
    BY DEF Locals, Frame, Obj
  <2>2. Frame(k) # Frame(d) /\ Frame(k) # Frame(d - 1)
    BY <1>17, FramesDiffer
  <2>3. {s \in refs' \ dropped' : s[1] = Frame(k)} = {s \in refs \ dropped : s[1] = Frame(k)}
    BY <2>2, <1>1, <1>4
  <2> QED
    BY <2>1, <2>3 DEF Locals
<1>18. ASSUME NEW c, c[1] # "frame"
       PROVE  HeldBy(c)' = HeldBy(c)
  <2>1. c # Frame(d) /\ c # Frame(d - 1)
    BY <1>7, <1>18
  <2> QED
    BY <2>1, <1>1, <1>4 DEF HeldBy
<1> QED
  BY <1>8, <1>14, <1>15, <1>16, <1>17, <1>18

\* The functions after the n-th return, and give up their locals.
LEMMA UnwindKeeps ==
    ASSUME HoldersInv, CountInv, dropped = {}, NEW d \in 1 .. 4, depth = d, NEW n \in 1 .. d,
           Unwind(refs, n), heap' = heap
    PROVE  /\ HoldersInv' /\ CountInv'
           /\ \A k \in 1 .. n : Locals(k)' = Locals(k)
           /\ \A k \in (n + 1) .. 4 : Locals(k)' = {}
           /\ \A c : HeldBy(c)' = HeldBy(c)
<1>1. /\ depth' = n /\ refs' = refs
      /\ dropped' = {r \in refs : \E f \in (n + 1) .. d : r[1] = Frame(f)}
  BY DEF Unwind, Above, Destroyed
<1>2. CountInv'
  BY <1>1 DEF CountInv, CountsAreReferences, Type, Single, Obj
<1>3. IsFiniteSet(refs') /\ dropped' \subseteq refs' /\ \A r \in refs' : RefForm(r)
  BY <1>1 DEF HoldersInv
<1>4. ASSUME NEW r \in refs
      PROVE  r[1] \in DOMAIN heap \/ \E k \in 1 .. d : r[1] = Frame(k)
  BY <1>4 DEF HoldersInv
<1>5. ASSUME NEW k \in 1 .. d
      PROVE  k \in 1 .. n \/ k \in (n + 1) .. d
  OBVIOUS
<1>6. \A r \in refs' \ dropped' :
          r[1] \in DOMAIN heap' \/ \E k \in 1 .. depth' : r[1] = Frame(k)
  BY <1>1, <1>4, <1>5
<1>7. \A x \in DOMAIN heap' : x[1] # "frame"
  BY DEF HoldersInv
<1>8. \A r \in dropped' : r[1] \notin DOMAIN heap'
  BY <1>1, <1>7, Kinds
<1>9. HoldersInv'
  BY <1>3, <1>6, <1>7, <1>8, HoldersAfter
<1>10. ASSUME NEW k
       PROVE  Locals(k)' = {r[3] : r \in {s \in refs' \ dropped' : s[1] = Frame(k)}}
  BY DEF Locals, Frame, Obj
<1>11. ASSUME NEW k \in 1 .. n
       PROVE  Locals(k)' = Locals(k)
  <2>1. \A f \in (n + 1) .. d : Frame(k) # Frame(f)
    <3>1. \A f \in (n + 1) .. d : k # f
      BY <1>11
    <3> QED
      BY <3>1, FramesDiffer
  <2>2. {s \in refs' \ dropped' : s[1] = Frame(k)} = {s \in refs \ dropped : s[1] = Frame(k)}
    BY <1>1, <2>1
  <2> QED
    BY <1>10, <2>2 DEF Locals
<1>12. ASSUME NEW k \in (n + 1) .. 4
       PROVE  Locals(k)' = {}
  <2>1. ASSUME NEW s \in refs' \ dropped', s[1] = Frame(k)
        PROVE  FALSE
    <3>1. s \in refs /\ s \notin dropped' /\ Frame(k)[1] = "frame"
      BY <1>1, <2>1, Kinds
    <3>2. PICK f \in 1 .. d : s[1] = Frame(f)
      BY <1>4, <1>7, <2>1, <3>1
    <3>3. f = k
      BY <2>1, <3>2, FramesDiffer
    <3>4. k \in (n + 1) .. d
      BY <3>2, <3>3
    <3> QED
      BY <1>1, <2>1, <3>1, <3>4
  <2>2. {s \in refs' \ dropped' : s[1] = Frame(k)} = {}
    BY <2>1
  <2> QED
    BY <1>10, <2>2
<1>13. \A c : HeldBy(c)' = HeldBy(c)
  BY <1>1 DEF HeldBy
<1> QED
  BY <1>2, <1>9, <1>11, <1>12, <1>13

\* A local goes out of scope.
LEMMA DropKeeps ==
    ASSUME HoldersInv, CountInv, dropped = {}, NEW n \in 1 .. 4, NEW o, o \in Locals(n),
           dropped' = {Local(n, o)}, heap' = heap, refs' = refs, depth' = depth
    PROVE  /\ HoldersInv' /\ CountInv'
           /\ Locals(n)' = Locals(n) \ {o}
           /\ \A k \in 1 .. 4 : k # n => Locals(k)' = Locals(k)
           /\ \A c : HeldBy(c)' = HeldBy(c)
<1>1. Local(n, o) \in refs
  BY LocalsAre
<1>2. Local(n, o)[1] = Frame(n) /\ Frame(n)[1] = "frame"
  BY LocalIs, Kinds
<1>3. CountInv'
  BY DEF CountInv, CountsAreReferences, Type, Single, Obj
<1>4. HoldersInv'
  <2>1. IsFiniteSet(refs') /\ dropped' \subseteq refs' /\ \A r \in refs' : RefForm(r)
    BY <1>1 DEF HoldersInv
  <2>2. \A r \in refs' \ dropped' :
            r[1] \in DOMAIN heap' \/ \E k \in 1 .. depth' : r[1] = Frame(k)
    BY DEF HoldersInv
  <2>3. \A x \in DOMAIN heap' : x[1] # "frame"
    BY DEF HoldersInv
  <2>4. \A r \in dropped' : r[1] \notin DOMAIN heap'
    BY <1>2, <2>3
  <2> QED
    BY <2>1, <2>2, <2>3, <2>4, HoldersAfter
<1>5. ASSUME NEW k \in 1 .. 4
      PROVE  Locals(k)' = IF k = n THEN Locals(n) \ {o} ELSE Locals(k)
  <2>1. Locals(k)' = {r[3] : r \in {s \in refs' \ dropped' : s[1] = Frame(k)}}
    BY DEF Locals, Frame, Obj
  <2>2. CASE k # n
    <3>1. Frame(k) # Frame(n)
      BY <2>2, FramesDiffer
    <3>2. {s \in refs' \ dropped' : s[1] = Frame(k)} = {s \in refs \ dropped : s[1] = Frame(k)}
      BY <1>2, <3>1
    <3> QED
      BY <2>1, <2>2, <3>2 DEF Locals
  <2>3. CASE k = n
    <3>1. ASSUME NEW s \in refs \ dropped, s[1] = Frame(n)
          PROVE  s = Local(n, s[3])
      BY <3>1, LocalsAre
    <3>2. Local(n, o)[3] = o
      BY LocalIs
    <3>3. {s \in refs' \ dropped' : s[1] = Frame(n)}
              = {s \in refs \ dropped : s[1] = Frame(n)} \ {Local(n, o)}
      OBVIOUS
    <3>4. {r[3] : r \in {s \in refs \ dropped : s[1] = Frame(n)} \ {Local(n, o)}}
              = {r[3] : r \in {s \in refs \ dropped : s[1] = Frame(n)}} \ {o}
      BY <3>1, <3>2, <1>1, <1>2
    <3> QED
      BY <2>1, <2>3, <3>3, <3>4 DEF Locals
  <2> QED
    BY <2>2, <2>3
<1>6. \A c : HeldBy(c)' = HeldBy(c)
  BY DEF HeldBy
<1> QED
  BY <1>3, <1>4, <1>5, <1>6

\* Container c takes reference r to what the n-th function has in a local, which
\* may go out of scope.
Takes(c, r, n, o) ==
    /\ c \in DOMAIN heap /\ o \in Locals(n)
    /\ r[1] = c /\ r[3] = o /\ r \notin refs /\ RefForm(r)
    /\ heap' = INCREF(o) /\ refs' = refs \cup {r}
    /\ dropped' = {} \/ dropped' = {Local(n, o)}

HasTaken(c, r, n, o) ==
    /\ HoldersInv' /\ CountInv'
    /\ dropped' = {} => Locals(n)' = Locals(n)
    /\ dropped' # {} => Locals(n)' = Locals(n) \ {o}
    /\ \A k \in 1 .. 4 : k # n => Locals(k)' = Locals(k)
    /\ HeldBy(c)' = HeldBy(c) \cup {r}
    /\ \A x : x # c => HeldBy(x)' = HeldBy(x)
    /\ \A x \in DOMAIN heap : heap'[x].value = heap[x].value

\* A container takes a reference of its own, and the local of the object may be
\* given up.
LEMMA PutKeeps ==
    ASSUME HoldersInv, CountInv, dropped = {}, NEW c, NEW r, NEW n \in 1 .. 4, NEW o,
           Takes(c, r, n, o), depth' = depth
    PROVE  HasTaken(c, r, n, o)
<1> USE DEF Takes
<1>1. Local(n, o) \in refs /\ \A s \in refs : s[1] = Frame(n) => s = Local(n, s[3])
  BY LocalsAre
<1>2. Local(n, o)[1] = Frame(n) /\ Local(n, o)[3] = o
  BY LocalIs
<1>3. o \in DOMAIN heap
  BY <1>1, <1>2 DEF CountInv, CountsAreReferences
<1>4. heap' = INCREF(o) /\ refs' = refs \cup {r}
  OBVIOUS
<1>5. r[1] = c /\ r[3] = o
  OBVIOUS
<1>6. c[1] # "frame" /\ \A k : c # Frame(k)
  BY Kinds DEF HoldersInv
<1>7. r \notin refs /\ RefForm(r)
  OBVIOUS
<1>8. /\ CountInv' /\ DOMAIN heap' = DOMAIN heap
      /\ \A x \in DOMAIN heap : heap'[x].value = heap[x].value
  BY <1>3, <1>4, <1>5, <1>7, AddRefCounts
<1>9. HoldersInv'
  <2>1. IsFiniteSet(refs')
    BY <1>4, FS_AddElement DEF HoldersInv
  <2>2. dropped' \subseteq refs' /\ \A s \in refs' : RefForm(s)
    BY <1>1, <1>4, <1>7 DEF HoldersInv
  <2>3. \A s \in refs' \ dropped' :
            s[1] \in DOMAIN heap' \/ \E k \in 1 .. depth' : s[1] = Frame(k)
    BY <1>4, <1>5, <1>8 DEF HoldersInv
  <2>4. \A x \in DOMAIN heap' : x[1] # "frame"
    BY <1>8 DEF HoldersInv
  <2>5. \A s \in dropped' : s[1] \notin DOMAIN heap'
    BY <1>2, <2>4, Kinds
  <2> QED
    BY <2>1, <2>2, <2>3, <2>4, <2>5, HoldersAfter
<1>10. ASSUME NEW k
       PROVE  Locals(k)' = {t[3] : t \in {s \in refs' \ dropped' : s[1] = Frame(k)}}
  BY DEF Locals, Frame, Obj
<1>11. ASSUME NEW k \in 1 .. 4, k # n \/ dropped' = {}
       PROVE  Locals(k)' = Locals(k)
  <2>1. k # n => Frame(k) # Frame(n)
    BY FramesDiffer
  <2>2. r \notin {s \in refs' \ dropped' : s[1] = Frame(k)}
    BY <1>5, <1>6
  <2>3. {s \in refs' \ dropped' : s[1] = Frame(k)} = {s \in refs \ dropped : s[1] = Frame(k)}
    BY <1>2, <1>4, <1>11, <2>1, <2>2
  <2> QED
    BY <1>10, <2>3 DEF Locals
<1>12. ASSUME dropped' # {}
       PROVE  Locals(n)' = Locals(n) \ {o}
  <2>1. dropped' = {Local(n, o)}
    BY <1>12
  <2>2. r \notin {s \in refs' \ dropped' : s[1] = Frame(n)}
    BY <1>5, <1>6
  <2>3. {s \in refs' \ dropped' : s[1] = Frame(n)}
            = {s \in refs \ dropped : s[1] = Frame(n)} \ {Local(n, o)}
    BY <1>4, <2>1, <2>2
  <2>4. {t[3] : t \in {s \in refs \ dropped : s[1] = Frame(n)} \ {Local(n, o)}}
            = {t[3] : t \in {s \in refs \ dropped : s[1] = Frame(n)}} \ {o}
    BY <1>1, <1>2
  <2> QED
    BY <1>10, <2>3, <2>4 DEF Locals
<1>13. /\ HeldBy(c)' = HeldBy(c) \cup {r}
       /\ \A x : x # c => HeldBy(x)' = HeldBy(x)
  BY <1>4, <1>5 DEF HeldBy
<1> QED
  BY <1>8, <1>9, <1>11, <1>12, <1>13 DEF HasTaken

\* A reference that was given up is counted down, and the object is freed if it
\* was the last one.
LEMMA DecrefKeeps ==
    ASSUME HoldersInv, CountInv, DECREF, depth' = depth
    PROVE  /\ HoldersInv' /\ CountInv'
           /\ \A k : Locals(k)' = Locals(k)
           /\ \A r \in refs \ dropped :
                 r[3] \in DOMAIN heap' /\ heap'[r[3]].value = heap[r[3]].value
           /\ \A x \in DOMAIN heap' : HeldBy(x)' = HeldBy(x)
<1>1. PICK r \in dropped :
          /\ refs' = refs \ {r}
          /\ IF heap[r[3]].count > 1
             THEN /\ heap' = [heap EXCEPT ![r[3]].count = @ - 1]
                  /\ dropped' = dropped \ {r}
             ELSE /\ heap' = [x \in DOMAIN heap \ {r[3]} |-> heap[x]]
                  /\ dropped' = (dropped \ {r}) \cup HeldBy(r[3])
  BY DEF DECREF
<1> DEFINE o == r[3]
<1>2. r \in refs /\ o \in DOMAIN heap /\ r[1] \notin DOMAIN heap
  BY DEF HoldersInv, CountInv, CountsAreReferences
<1>3. IsFiniteSet(refs)
  BY DEF HoldersInv
<1>4. \A x \in DOMAIN heap : heap[x].count = Cardinality(To(refs, x)) + (IF x = Type THEN 1 ELSE 0)
  BY CountsIs DEF CountInv
<1>5. \A x : Cardinality(To(refs, x)) \in Nat
  BY <1>3, ToFinite
<1>6. \A x : Cardinality(To(refs', x)) = Cardinality(To(refs, x)) - (IF o = x THEN 1 ELSE 0)
  BY <1>1, <1>2, <1>3, ToRemove
<1>7. Type \in DOMAIN heap
  BY DEF CountInv
<1>8. \A x \in DOMAIN heap : x[1] # "frame"
  BY DEF HoldersInv
<1>9. IsFiniteSet(refs') /\ \A s \in refs' : RefForm(s)
  BY <1>1, FS_RemoveElement DEF HoldersInv
<1>10. \A s \in refs \ dropped : s[1] \in DOMAIN heap \/ \E n \in 1 .. depth : s[1] = Frame(n)
  BY DEF HoldersInv
<1>11. \A s \in refs : s[3] \in DOMAIN heap
  BY DEF CountInv, CountsAreReferences
<1>12. ASSUME NEW k
       PROVE  Locals(k)' = {s[3] : s \in {t \in refs' \ dropped' : t[1] = Frame(k)}}
  BY DEF Locals, Frame, Obj
<1>13. CASE heap[o].count > 1
  <2>1. /\ DOMAIN heap' = DOMAIN heap /\ dropped' = dropped \ {r}
        /\ heap' = [heap EXCEPT ![o].count = @ - 1]
    BY <1>1, <1>13
  <2>2. \A x \in DOMAIN heap : x # o => heap'[x] = heap[x]
    BY <2>1
  <2>3. heap'[o].count = heap[o].count - 1 /\ heap'[o].value = heap[o].value
    <3> HIDE DEF o
    <3>1. heap'[o] = [heap[o] EXCEPT !.count = heap[o].count - 1]
      BY <2>1, <1>2
    <3> QED
      BY <3>1
  <2>4. Cardinality(To(refs, o)) >= 1
    BY <1>2, <1>3, <1>5, ToOne
  <2>5. o # Type => Cardinality(To(refs', o)) # 0
    <3>1. heap[o].count = Cardinality(To(refs, o)) + (IF o = Type THEN 1 ELSE 0)
      BY <1>2, <1>4
    <3>2. Cardinality(To(refs', o)) = Cardinality(To(refs, o)) - 1
      BY <1>6
    <3>3. Cardinality(To(refs, o)) \in Nat
      BY <1>5
    <3> QED
      BY <1>13, <3>1, <3>2, <3>3
  <2> HIDE DEF o
  <2>6. ASSUME NEW x \in DOMAIN heap'
        PROVE  heap'[x].count = Cardinality(To(refs', x)) + (IF x = Type THEN 1 ELSE 0)
    <3>1. heap[x].count = Cardinality(To(refs, x)) + (IF x = Type THEN 1 ELSE 0)
      BY <1>4, <2>1
    <3>2. Cardinality(To(refs', x)) = Cardinality(To(refs, x)) - (IF o = x THEN 1 ELSE 0)
      BY <1>6
    <3>3. Cardinality(To(refs, x)) \in Nat
      BY <1>5
    <3>4. CASE x = o
      BY <3>1, <3>2, <3>3, <3>4, <2>3
    <3>5. CASE x # o
      BY <3>1, <3>2, <3>3, <3>5, <2>1, <2>2
    <3> QED
      BY <3>4, <3>5
  <2>7. \A s \in refs' : s[3] \in DOMAIN heap'
    BY <1>1, <1>11, <2>1
  <2>8. CountsAreReferences'
    BY <2>6, <2>7 DEF CountsAreReferences, To
  <2>9. ASSUME NEW x \in DOMAIN heap' \ {Type}
        PROVE  \E s \in refs' : s[3] = x
    <3>1. CASE x = o
      BY <2>5, <2>9, <3>1, <1>9, ToOne
    <3>2. CASE x # o
      <4>1. PICK s \in refs : s[3] = x
        BY <2>1, <2>9 DEF CountInv
      <4>2. s # r
        BY <3>2, <4>1 DEF o
      <4> QED
        BY <4>1, <4>2, <1>1
    <3> QED
      BY <3>1, <3>2
  <2>10. CountInv'
    BY <1>7, <2>1, <2>8, <2>9 DEF CountInv
  <2>11. refs' \ dropped' = refs \ dropped
    BY <1>1, <2>1
  <2>12. dropped' \subseteq refs' /\ \A s \in dropped' : s[1] \notin DOMAIN heap'
    BY <1>1, <2>1 DEF HoldersInv
  <2>13. HoldersInv'
    BY <1>8, <1>9, <1>10, <2>1, <2>11, <2>12, HoldersAfter
  <2>14. \A k : Locals(k)' = Locals(k)
    BY <1>12, <2>11 DEF Locals
  <2>15. \A s \in refs \ dropped : s[3] \in DOMAIN heap' /\ heap'[s[3]].value = heap[s[3]].value
    BY <1>11, <2>1, <2>2, <2>3
  <2>16. \A x \in DOMAIN heap' : HeldBy(x)' = HeldBy(x)
    BY <1>1, <1>2, <2>1 DEF HeldBy
  <2> QED
    BY <2>10, <2>13, <2>14, <2>15, <2>16
<1>14. CASE ~(heap[o].count > 1)
  <2>1. /\ heap' = [x \in DOMAIN heap \ {o} |-> heap[x]]
        /\ dropped' = (dropped \ {r}) \cup HeldBy(o)
    BY <1>1, <1>14
  <2>2. DOMAIN heap' = DOMAIN heap \ {o} /\ \A x \in DOMAIN heap' : heap'[x] = heap[x]
    BY <2>1
  <2>3. Cardinality(To(refs, o)) = 1 /\ o # Type
    <3>1. heap[o].count = Cardinality(To(refs, o)) + (IF o = Type THEN 1 ELSE 0)
      BY <1>2, <1>4
    <3>2. Cardinality(To(refs, o)) \in Nat
      BY <1>5
    <3>3. Cardinality(To(refs, o)) # 0
      BY <1>2, <1>3, ToOne
    <3> QED
      BY <1>14, <3>1, <3>2, <3>3
  <2>4. \A s \in refs : s[3] = o => s = r
    BY <1>2, <1>3, <2>3, ToOne
  <2> HIDE DEF o
  <2>5. \A s \in refs' : s[3] \in DOMAIN heap'
    BY <1>1, <1>11, <2>2, <2>4
  <2>6. ASSUME NEW x \in DOMAIN heap'
        PROVE  heap'[x].count = Cardinality(To(refs', x)) + (IF x = Type THEN 1 ELSE 0)
    <3>1. heap[x].count = Cardinality(To(refs, x)) + (IF x = Type THEN 1 ELSE 0)
      BY <1>4, <2>2
    <3>2. Cardinality(To(refs', x)) = Cardinality(To(refs, x)) - (IF o = x THEN 1 ELSE 0)
      BY <1>6
    <3>3. Cardinality(To(refs, x)) \in Nat /\ o # x
      BY <1>5, <2>2
    <3> QED
      BY <3>1, <3>2, <3>3, <2>2
  <2>7. CountsAreReferences'
    BY <2>5, <2>6 DEF CountsAreReferences, To
  <2>8. ASSUME NEW x \in DOMAIN heap' \ {Type}
        PROVE  \E s \in refs' : s[3] = x
    <3>1. PICK s \in refs : s[3] = x
      BY <2>2, <2>8 DEF CountInv
    <3>2. s # r
      BY <2>2, <3>1 DEF o
    <3> QED
      BY <3>1, <3>2, <1>1
  <2>9. CountInv'
    BY <1>7, <2>2, <2>3, <2>7, <2>8 DEF CountInv
  <2>10. HeldBy(o) = {s \in refs : s[1] = o}
    BY DEF HeldBy
  <2>11. r \notin HeldBy(o)
    BY <1>2, <2>10
  <2>12. dropped' \subseteq refs'
    BY <1>1, <2>1, <2>10, <2>11 DEF HoldersInv
  <2>13. \A s \in dropped' : s[1] \notin DOMAIN heap'
    BY <2>1, <2>2, <2>10 DEF HoldersInv
  <2>14. \A s \in refs' \ dropped' : s \in refs \ dropped /\ s[1] # o
    BY <1>1, <2>1, <2>10
  <2>15. \A s \in refs' \ dropped' :
             s[1] \in DOMAIN heap' \/ \E n \in 1 .. depth' : s[1] = Frame(n)
    BY <1>10, <2>2, <2>14
  <2>16. HoldersInv'
    BY <1>8, <1>9, <2>2, <2>12, <2>13, <2>15, HoldersAfter
  <2>17. ASSUME NEW k
         PROVE  Locals(k)' = Locals(k)
    <3>1. o # Frame(k)
      BY <1>2, <1>8, Kinds
    <3>2. {t \in refs' \ dropped' : t[1] = Frame(k)} = {t \in refs \ dropped : t[1] = Frame(k)}
      BY <1>1, <2>1, <2>10, <3>1
    <3> QED
      BY <1>12, <3>2 DEF Locals
  <2>18. \A s \in refs \ dropped : s[3] \in DOMAIN heap' /\ heap'[s[3]].value = heap[s[3]].value
    BY <1>11, <2>2, <2>4
  <2>19. \A x \in DOMAIN heap' : HeldBy(x)' = HeldBy(x)
    BY <1>1, <1>2, <2>2 DEF HeldBy
  <2> QED
    BY <2>9, <2>16, <2>17, <2>18, <2>19
<1> QED
  BY <1>13, <1>14

-----------------------------------------------------------------------------
(* Who keeps an object alive. What has no holder yet is new.               *)

\* An object lives by a local, by the list, by its dict or by its set.
LEMMA Holder ==
    ASSUME HoldersInv, CountInv, dropped = {}, depth \in 1 .. 4, NEW o \in DOMAIN heap, o # Type
    PROVE  \/ \E n \in 1 .. 4 : o \in Locals(n)
           \/ \E k : o = Dict(k) /\ <<List, k, o>> \in refs
           \/ \E k, f : o = Value(k, f) /\ <<Dict(k), f, o>> \in refs
           \/ \E k, f, m : o = Str(k, f, m) /\ <<Value(k, f), m, o>> \in refs
<1>1. PICK r \in refs : r[3] = o
  BY DEF CountInv
<1>2. RefForm(r)
  BY DEF HoldersInv
<1>3. CASE \E n \in 1 .. 4 : r = Local(n, r[3])
  <2>1. PICK n \in 1 .. 4 : r = Local(n, o)
    BY <1>1, <1>3
  <2>2. o \in Locals(n)
    BY <2>1, LocalsAre
  <2> QED
    BY <2>2
<1>4. ASSUME NEW c, NEW x, NEW y, r = <<c, x, y>>
      PROVE  r[3] = y
  BY <1>4
<1>5. r # <<Module, "Checker", Type>>
  BY <1>1, <1>4
<1>6. CASE r = <<List, r[2], Dict(r[2])>>
  BY <1>1, <1>4, <1>6
<1>7. CASE r = <<Dict(r[1][2]), r[2], Value(r[1][2], r[2])>>
  BY <1>1, <1>4, <1>7
<1>8. CASE r = <<Value(r[1][2], r[1][3]), r[2], Str(r[1][2], r[1][3], r[2])>>
  BY <1>1, <1>4, <1>8
<1> QED
  BY <1>2, <1>3, <1>5, <1>6, <1>7, <1>8 DEF RefForm

\* The kinds of object that only locals hold.
LEMMA OnlyLocal ==
    ASSUME HoldersInv, CountInv, dropped = {}, depth \in 1 .. 4, NEW o \in DOMAIN heap,
           o[1] \notin {"type", "dict", "value", "str"}
    PROVE  \E n \in 1 .. 4 : o \in Locals(n)
<1>1. o # Type /\ \A k, f, m : o # Dict(k) /\ o # Value(k, f) /\ o # Str(k, f, m)
  BY Kinds
<1>2. \/ \E n \in 1 .. 4 : o \in Locals(n)
      \/ \E k : o = Dict(k) /\ <<List, k, o>> \in refs
      \/ \E k, f : o = Value(k, f) /\ <<Dict(k), f, o>> \in refs
      \/ \E k, f, m : o = Str(k, f, m) /\ <<Value(k, f), m, o>> \in refs
  BY <1>1, Holder
<1> QED
  BY <1>1, <1>2

\* Objects are the same if they are made for the same.
LEMMA Identities ==
    /\ \A k, l : Dict(k) = Dict(l) => k = l
    /\ \A k, f, l, g : Value(k, f) = Value(l, g) => k = l /\ f = g
    /\ \A k, f, m, l, g, p : Str(k, f, m) = Str(l, g, p) => k = l /\ f = g /\ m = p
BY DEF Dict, Value, Str, Obj

\* What keeps a dict alive,
LEMMA DictHolder ==
    ASSUME HoldersInv, CountInv, dropped = {}, depth \in 1 .. 4, NEW k, Dict(k) \in DOMAIN heap
    PROVE  (\E n \in 1 .. 4 : Dict(k) \in Locals(n)) \/ <<List, k, Dict(k)>> \in refs
<1>1. Dict(k) # Type /\ \A l, f, m : Dict(k) # Value(l, f) /\ Dict(k) # Str(l, f, m)
  BY Kinds
<1> QED
  BY <1>1, Holder, Identities

\* a value
LEMMA ValueHolder ==
    ASSUME HoldersInv, CountInv, dropped = {}, depth \in 1 .. 4, NEW k, NEW f,
           Value(k, f) \in DOMAIN heap
    PROVE  (\E n \in 1 .. 4 : Value(k, f) \in Locals(n)) \/ <<Dict(k), f, Value(k, f)>> \in refs
<1>1. Value(k, f) # Type /\ \A l, g, m : Value(k, f) # Dict(l) /\ Value(k, f) # Str(l, g, m)
  BY Kinds
<1> QED
  BY <1>1, Holder, Identities

\* and a str.
LEMMA StrHolder ==
    ASSUME HoldersInv, CountInv, dropped = {}, depth \in 1 .. 4, NEW k, NEW f, NEW m,
           Str(k, f, m) \in DOMAIN heap
    PROVE  \/ \E n \in 1 .. 4 : Str(k, f, m) \in Locals(n)
           \/ <<Value(k, f), m, Str(k, f, m)>> \in refs
<1>1. Str(k, f, m) # Type /\ \A l, g, p : Str(k, f, m) # Dict(l) /\ Str(k, f, m) # Value(l, g)
  BY Kinds
<1>2. \/ \E n \in 1 .. 4 : Str(k, f, m) \in Locals(n)
      \/ \E l, g, p : /\ Str(k, f, m) = Str(l, g, p)
                        /\ <<Value(l, g), p, Str(k, f, m)>> \in refs
  BY <1>1, Holder
<1>3. ASSUME NEW l, NEW g, NEW p, Str(k, f, m) = Str(l, g, p)
      PROVE  l = k /\ g = f /\ p = m
  BY <1>3, Identities
<1>4. ASSUME NEW l, NEW g, NEW p, Str(k, f, m) = Str(l, g, p),
             <<Value(l, g), p, Str(k, f, m)>> \in refs
      PROVE  <<Value(k, f), m, Str(k, f, m)>> \in refs
  <2>1. l = k /\ g = f /\ p = m
    BY <1>3, <1>4
  <2> QED
    BY <1>4, <2>1
<1> QED
  BY <1>2, <1>4

-----------------------------------------------------------------------------
(* The invariants away from where they say something *)

Collecting == pc \in {"iterate", "next", "item", "ended", "list"}

\* SiteInv says little unless a call site is being collected,
LEMMA SiteElsewhere ==
    ASSUME call' \in Calls, source' \in {"arguments", "parameters"}, taken' \in Nat, ~Collecting'
    PROVE  SiteInv'
BY DEF SiteInv, Collecting

\* ListInv nothing unless there is a list,
LEMMA ListElsewhere ==
    ASSUME nth' \in Nat \ {0}, ~ListIsAlive'
    PROVE  ListInv' /\ FieldInv' /\ ResultsInv'
<1>1. pc' \notin {"field", "put", "morphemes", "add morpheme", "results", "append"}
  BY DEF ListIsAlive, Building
<1>2. ~(pc' = "returned" /\ ret' = List)
  BY DEF ListIsAlive, List, Single, Obj
<1>3. ListInv'
  BY <1>1, <1>2 DEF ListInv, ListIsAlive, Building, List, Single, Obj
<1>4. FieldInv'
  BY <1>1 DEF FieldInv
<1>5. ResultsInv'
  BY <1>1, <1>2 DEF ResultsInv, ListIsAlive, Building, List, Single, Obj
<1> QED
  BY <1>3, <1>4, <1>5

\* and LocalsInv little when only the interpreter has locals.
LEMMA LocalsAtRest ==
    ASSUME pc' \in {"idle", "returned"}, Locals(1)' \in SUBSET {Module, Checker, List},
           List \in Locals(1)' <=> pc' = "returned" /\ ret' = List,
           Locals(2)' = {}, Locals(3)' = {}, Locals(4)' = {}
    PROVE  LocalsInv'
BY DEF LocalsInv, Building

\* The stack is never deeper than MorphemeSetToPy.
LEMMA DepthIs ==
    ASSUME DepthInv
    PROVE  depth \in 1 .. 4
<1>1. depth = 1 \/ depth = 2 \/ depth = 3 \/ depth = 4
  BY DEF DepthInv
<1> QED
  BY <1>1

\* The extension returns null, from wherever it is.
LEMMA NullReturned ==
    ASSUME ExtInv, dropped = {}, NEW e, e # "none", pc # "returned", ReturnNull(refs, e), heap' = heap,
           call' \in Calls, source' \in {"arguments", "parameters"}, taken' \in Nat,
           nth' \in Nat \ {0}
    PROVE  ExtInv'
<1>1. depth \in 1 .. 4
  BY DepthIs DEF ExtInv
<1>2. PICK d \in 1 .. 4 : d = depth
  BY <1>1
<1>3. Unwind(refs, 1) /\ pc' = "returned" /\ ret' = Null /\ err' = e /\ depth' = 1
  BY DEF ReturnNull, Unwind
<1>4. /\ HoldersInv' /\ CountInv'
      /\ \A k \in 1 .. 1 : Locals(k)' = Locals(k)
      /\ \A k \in (1 + 1) .. 4 : Locals(k)' = {}
  BY <1>2, <1>3, UnwindKeeps DEF ExtInv
<1>5. Locals(1)' = Locals(1) /\ Locals(2)' = {} /\ Locals(3)' = {} /\ Locals(4)' = {}
  BY <1>4
<1>6. Null # List
  BY NullAssumption
<1>7. LocalsInv'
  BY <1>3, <1>5, <1>6 DEF ExtInv, LocalsInv, Building, List, Module, Checker, Single, Obj
<1>8. DepthInv' /\ OutcomeInv' /\ ModuleInv'
  BY <1>3 DEF DepthInv, OutcomeInv, RaisesOrReturns, ModuleInv
<1>9. SiteInv'
  BY <1>3, SiteElsewhere DEF Collecting
<1>10. ~ListIsAlive'
  BY <1>3, <1>6 DEF ListIsAlive, Building, List, Single, Obj
<1>11. ListInv' /\ FieldInv' /\ ResultsInv'
  BY <1>10, ListElsewhere
<1> QED
  BY <1>4, <1>7, <1>8, <1>9, <1>11 DEF ExtInv

\* A local takes over a new object: all of it.
LEMMA OwnKeeps ==
    ASSUME HoldersInv, CountInv, dropped = {}, dropped' = {}, NEW n \in 1 .. 4, NEW o, NEW v,
           o[1] # "frame", o \notin DOMAIN heap, Own(n, o, v),
           depth \in 1 .. 4, depth' \in 1 .. 4, n <= depth', depth <= depth'
    PROVE  /\ HoldersInv' /\ CountInv'
           /\ Locals(n)' = Locals(n) \cup {o}
           /\ \A k : k # n => Locals(k)' = Locals(k)
           /\ \A c : c[1] # "frame" => HeldBy(c)' = HeldBy(c)
           /\ HeldBy(o)' = {}
           /\ \A x \in DOMAIN heap : x \in DOMAIN heap' /\ heap'[x] = heap[x]
           /\ o \in DOMAIN heap' /\ heap'[o].value = v
<1>1. depth \in Nat /\ depth' \in Nat
  OBVIOUS
<1>2. HoldersInv'
  BY <1>1, OwnHolders
<1>3. CountInv'
  BY OwnCounts
<1>4. \A c : c[1] # "frame" => c # Frame(n)
  BY Kinds
<1> QED
  BY <1>2, <1>3, <1>4, OwnEffects

-----------------------------------------------------------------------------
(* PyInit_swappedargs, Checker_New and Checker_Dealloc *)

\* A step that touches neither the call nor the list.
LEMMA Untouched ==
    ASSUME ExtInv, UNCHANGED <<call, source, taken, nth>>
    PROVE  /\ call' \in Calls /\ source' \in {"arguments", "parameters"} /\ taken' \in Nat
           /\ nth' \in Nat \ {0}
BY DEF ExtInv, SiteInv, ResultsInv

\* PyModule_Create.
LEMMA CreateModuleInv ==
    ASSUME ExtInv, dropped = {}, CreateModule
    PROVE  ExtInv'
<1>1. call' \in Calls /\ source' \in {"arguments", "parameters"} /\ taken' \in Nat /\ nth' \in Nat \ {0}
  BY Untouched DEF CreateModule, collection, conversion
<1>2. CASE ReturnNull(refs, "MemoryError") /\ UNCHANGED heap
  BY <1>1, <1>2, NullReturned DEF CreateModule
<1>3. CASE depth' = 2 /\ Own(2, Module, Null) /\ pc' = "add" /\ UNCHANGED <<dropped, outcome>>
  <2>1. pc = "idle" /\ Module \notin Locals(1) /\ err' = err /\ ret' = ret
    BY <1>3 DEF CreateModule, Imported, outcome
  <2>2. Locals(2) = {} /\ Locals(3) = {} /\ Locals(4) = {} /\ depth = 1
    BY <2>1 DEF ExtInv, LocalsInv, Building, DepthInv
  <2>3. \A n \in 1 .. 4 : Module \notin Locals(n)
    BY <2>1, <2>2
  <2>4. Module[1] = "module"
    BY Kinds
  <2>5. Module \notin DOMAIN heap
    BY <2>2, <2>3, <2>4, OnlyLocal DEF ExtInv
  <2>6. /\ HoldersInv' /\ CountInv'
        /\ Locals(2)' = Locals(2) \cup {Module}
        /\ \A k : k # 2 => Locals(k)' = Locals(k)
        /\ HeldBy(Module)' = {}
    <3>1. depth \in 1 .. 4 /\ depth' \in 1 .. 4 /\ 2 <= depth' /\ depth <= depth' /\ 2 \in 1 .. 4
      BY <1>3, <2>2
    <3>2. dropped' = {} /\ Module[1] # "frame" /\ HoldersInv /\ CountInv
      BY <1>3, <2>4 DEF ExtInv
    <3> QED
      BY <1>3, <2>5, <3>1, <3>2, OwnKeeps
  <2>7. Locals(1)' = Locals(1) /\ Locals(2)' = {Module} /\ Locals(3)' = {} /\ Locals(4)' = {}
    BY <2>2, <2>6
  <2>8. LocalsInv'
    BY <1>3, <2>1, <2>7 DEF ExtInv, LocalsInv, Building, Module, Checker, List, Single, Obj
  <2>9. ModuleInv'
    BY <2>1, <2>6, <2>7 DEF ModuleInv, Module, Single, Obj
  <2>10. DepthInv' /\ OutcomeInv'
    BY <1>3, <2>1 DEF ExtInv, DepthInv, OutcomeInv, RaisesOrReturns
  <2>11. SiteInv'
    BY <1>1, <1>3, SiteElsewhere DEF Collecting
  <2>12. ListInv' /\ FieldInv' /\ ResultsInv'
    BY <1>1, <1>3, ListElsewhere DEF ListIsAlive, Building
  <2> QED
    BY <2>6, <2>8, <2>9, <2>10, <2>11, <2>12 DEF ExtInv
<1> QED
  BY <1>2, <1>3 DEF CreateModule

\* PyModule_AddObject, with the reference given back when it fails.
LEMMA AddTypeInv ==
    ASSUME ExtInv, dropped = {}, AddType
    PROVE  ExtInv'
<1> DEFINE a == Local(2, Module)
           b == Local(1, Module)
           c == <<Module, "Checker", Type>>
           t == Local(2, Type)
<1>1. call' \in Calls /\ source' \in {"arguments", "parameters"} /\ taken' \in Nat /\ nth' \in Nat \ {0}
  BY Untouched DEF AddType, collection, conversion
<1>2. pc = "add" /\ heap' = INCREF(Type) /\ depth = 2
  BY DEF AddType, ExtInv, DepthInv
<1>3. /\ Locals(2) = {Module} /\ Locals(3) = {} /\ Locals(4) = {}
      /\ Module \notin Locals(1) /\ HeldBy(Module) = {}
      /\ Locals(1) \in SUBSET {Module, Checker, List} /\ List \notin Locals(1)
  BY <1>2 DEF ExtInv, LocalsInv, ModuleInv, Building
<1>4. Module # Type /\ Module # List /\ Module # Checker
  BY Kinds
<1>5. HoldersInv /\ CountInv /\ IsFiniteSet(refs) /\ Type \in DOMAIN heap
  BY DEF ExtInv, HoldersInv, CountInv
<1>6. a \in refs /\ t \notin refs /\ b \notin refs
  BY <1>3, <1>4, <1>5, LocalsAre
<1>7. c \notin refs
  BY <1>3 DEF HeldBy
<1>8. a[1] = Frame(2) /\ a[3] = Module /\ b[1] = Frame(1) /\ b[3] = Module /\ t[1] = Frame(2) /\ t[3] = Type
  BY LocalIs
<1>9. c[1] = Module /\ c[3] = Type
  OBVIOUS
<1>10. RefForm(b) /\ RefForm(t)
  BY LocalForm
<1>11. RefForm(c)
  BY DEF RefForm
<1>12. Module \in DOMAIN heap
  BY <1>5, <1>6, <1>8 DEF CountInv, CountsAreReferences
<1>13. Frame(1)[1] = "frame" /\ Frame(2)[1] = "frame" /\ Frame(1) # Frame(2)
  BY Kinds, FramesDiffer
<1>14. \A r \in refs : r[1] \in DOMAIN heap \/ r[1] = Frame(1) \/ r[1] = Frame(2)
  <2>1. \A r \in refs : r[1] \in DOMAIN heap \/ \E n \in 1 .. 2 : r[1] = Frame(n)
    BY <1>2, <1>5 DEF HoldersInv
  <2> QED
    BY <2>1
<1>15. \A x \in DOMAIN heap : x[1] # "frame"
  BY <1>5 DEF HoldersInv
<1>16. \A k : Locals(k)' = {r[3] : r \in {s \in refs' \ dropped' : s[1] = Frame(k)}}
  BY DEF Locals, Frame, Obj
<1>17. \A r \in refs : RefForm(r) /\ r[3] \in DOMAIN heap
  BY <1>5 DEF HoldersInv, CountInv, CountsAreReferences
<1>18. Null # Module /\ Null # List
  BY NullAssumption
<1>19. CASE ReturnNull(refs \cup TypeGivenBack, "MemoryError")
  <2>1. refs' = refs \cup {t} /\ depth' = 1 /\ pc' = "returned" /\ err' = "MemoryError" /\ ret' = Null
    BY <1>19 DEF ReturnNull, Unwind, TypeGivenBack
  <2>2. dropped' = {r \in refs' : \E f \in (1 + 1) .. depth : r[1] = Frame(f)}
    BY <1>19 DEF ReturnNull, Unwind, TypeGivenBack, Above, Destroyed
  <2>3. dropped' = {r \in refs' : r[1] = Frame(2)}
    BY <1>2, <2>2
  <2> HIDE DEF a, b, c, t
  <2>4. CountInv' /\ DOMAIN heap' = DOMAIN heap
    BY <1>2, <1>5, <1>6, <1>8, <2>1, AddRefCounts
  <2>5. HoldersInv'
    <3>1. IsFiniteSet(refs')
      BY <1>5, <2>1, FS_AddElement
    <3>2. dropped' \subseteq refs' /\ \A r \in refs' : RefForm(r)
      BY <1>10, <1>17, <2>1, <2>3
    <3>3. \A r \in refs' \ dropped' : r[1] \in DOMAIN heap' \/ r[1] = Frame(1)
      BY <1>8, <1>14, <2>1, <2>3, <2>4
    <3>4. \A r \in refs' \ dropped' : r[1] \in DOMAIN heap' \/ \E n \in 1 .. depth' : r[1] = Frame(n)
      BY <2>1, <3>3
    <3>5. \A r \in dropped' : r[1] \notin DOMAIN heap'
      BY <1>13, <1>15, <2>3, <2>4
    <3> QED
      BY <1>15, <2>4, <3>1, <3>2, <3>4, <3>5, HoldersAfter
  <2>6. {s \in refs' \ dropped' : s[1] = Frame(1)} = {s \in refs \ dropped : s[1] = Frame(1)}
    BY <1>8, <1>13, <2>1, <2>3
  <2>7. Locals(1)' = Locals(1)
    BY <1>16, <2>6 DEF Locals
  <2>8. ASSUME NEW k \in 2 .. 4
        PROVE  Locals(k)' = {}
    <3>1. {s \in refs' \ dropped' : s[1] = Frame(k)} = {}
      <4>1. ASSUME NEW s \in refs' \ dropped', s[1] = Frame(k)
            PROVE  FALSE
        <5>1. s \in refs /\ s[1] # Frame(2)
          BY <2>1, <2>3, <4>1, <1>8
        <5>2. Frame(k)[1] = "frame" /\ Frame(k) # Frame(1)
          BY Kinds, FramesDiffer
        <5> QED
          BY <1>14, <1>15, <4>1, <5>1, <5>2
      <4> QED
        BY <4>1
    <3> QED
      BY <1>16, <3>1
  <2>9. LocalsInv'
    <3>1. Locals(2)' = {} /\ Locals(3)' = {} /\ Locals(4)' = {}
      BY <2>8
    <3> QED
      BY <1>3, <1>18, <2>1, <2>7, <3>1, LocalsAtRest
  <2>10. ModuleInv' /\ DepthInv' /\ OutcomeInv'
    BY <2>1 DEF ModuleInv, DepthInv, OutcomeInv, RaisesOrReturns
  <2>11. SiteInv'
    BY <1>1, <2>1, SiteElsewhere DEF Collecting
  <2>12. ListInv' /\ FieldInv' /\ ResultsInv'
    BY <1>1, <1>18, <2>1, ListElsewhere DEF ListIsAlive, Building, List, Single, Obj
  <2> QED
    BY <2>4, <2>5, <2>9, <2>10, <2>11, <2>12 DEF ExtInv
<1>20. CASE /\ depth' = 1 /\ refs' = (refs \ {a}) \cup {b, c}
            /\ ret' = Module /\ pc' = "returned" /\ UNCHANGED <<dropped, err>>
  <2>1. dropped' = {} /\ err' = err /\ err = "none"
    BY <1>2, <1>20 DEF ExtInv, OutcomeInv
  <2> HIDE DEF a, b, c, t
  <2> DEFINE R == (refs \ {a}) \cup {b}
  <2>2. refs' = R \cup {c} /\ c \notin R
    BY <1>4, <1>7, <1>8, <1>9, <1>20
  <2>3. IsFiniteSet(refs \ {a}) /\ IsFiniteSet(R) /\ IsFiniteSet(refs')
    BY <1>5, <2>2, FS_RemoveElement, FS_AddElement
  <2>4. ASSUME NEW x
        PROVE  Cardinality(To(refs', x)) = Cardinality(To(refs, x)) + (IF Type = x THEN 1 ELSE 0)
    <3>1. Cardinality(To(refs \ {a}, x)) = Cardinality(To(refs, x)) - (IF Module = x THEN 1 ELSE 0)
      BY <1>5, <1>6, <1>8, ToRemove
    <3>2. Cardinality(To(R, x)) = Cardinality(To(refs \ {a}, x)) + (IF Module = x THEN 1 ELSE 0)
      BY <1>6, <1>8, <2>3, ToAdd
    <3>3. Cardinality(To(refs', x)) = Cardinality(To(R, x)) + (IF Type = x THEN 1 ELSE 0)
      BY <1>9, <2>2, <2>3, ToAdd
    <3>4. /\ Cardinality(To(refs, x)) \in Nat /\ Cardinality(To(refs \ {a}, x)) \in Nat
          /\ Cardinality(To(R, x)) \in Nat
      BY <1>5, <2>3, ToFinite
    <3> HIDE DEF R
    <3> QED
      BY <3>1, <3>2, <3>3, <3>4
  <2>5. \A s \in refs' : s[3] \in DOMAIN heap
    BY <1>5, <1>8, <1>9, <1>12, <1>17, <1>20
  <2>6. \A x \in DOMAIN heap \ {Type} : \E s \in refs' : s[3] = x
    <3>1. \A x \in DOMAIN heap \ {Type} : \E s \in refs : s[3] = x
      BY <1>5 DEF CountInv
    <3> QED
      BY <1>8, <1>20, <3>1
  <2>7. CountInv' /\ DOMAIN heap' = DOMAIN heap
    BY <1>2, <1>5, <2>4, <2>5, <2>6, CountUp
  <2>8. ASSUME NEW s \in refs', s[1] = Frame(2)
        PROVE  FALSE
    <3>1. s \in refs /\ s # a
      BY <1>4, <1>8, <1>9, <1>12, <1>13, <1>15, <1>20, <2>8
    <3>2. s = Local(2, s[3])
      BY <1>5, <2>8, <3>1, LocalsAre
    <3>3. s[3] \in Locals(2)
      BY <3>1, <3>2, <1>5, LocalsAre
    <3> QED
      BY <1>3, <3>1, <3>2, <3>3 DEF a
  <2>9. \A r \in refs' : r[1] \in DOMAIN heap' \/ r[1] = Frame(1)
    BY <1>8, <1>9, <1>12, <1>14, <1>20, <2>7, <2>8
  <2>10. HoldersInv'
    <3>1. dropped' \subseteq refs' /\ \A r \in refs' : RefForm(r)
      BY <1>10, <1>11, <1>17, <1>20, <2>1
    <3>2. \A r \in refs' \ dropped' : r[1] \in DOMAIN heap' \/ \E n \in 1 .. depth' : r[1] = Frame(n)
      BY <1>20, <2>9
    <3> QED
      BY <1>15, <2>1, <2>3, <2>7, <3>1, <3>2, HoldersAfter
  <2>11. {s \in refs' \ dropped' : s[1] = Frame(1)} = {s \in refs \ dropped : s[1] = Frame(1)} \cup {b}
    BY <1>8, <1>9, <1>12, <1>13, <1>15, <1>20, <2>1
  <2>12. Locals(1)' = Locals(1) \cup {Module}
    BY <1>8, <1>16, <2>11 DEF Locals
  <2>13. ASSUME NEW k \in 2 .. 4
         PROVE  Locals(k)' = {}
    <3>1. Frame(k)[1] = "frame" /\ Frame(k) # Frame(1)
      BY Kinds, FramesDiffer
    <3>2. {s \in refs' \ dropped' : s[1] = Frame(k)} = {}
      BY <1>15, <2>7, <2>9, <3>1
    <3> QED
      BY <1>16, <3>2
  <2>14. LocalsInv'
    <3>1. Locals(2)' = {} /\ Locals(3)' = {} /\ Locals(4)' = {}
      BY <2>13
    <3> QED
      BY <1>3, <1>4, <1>20, <2>12, <3>1, LocalsAtRest
  <2>15. ModuleInv' /\ DepthInv' /\ OutcomeInv'
    BY <1>18, <1>20, <2>1 DEF ModuleInv, DepthInv, OutcomeInv, RaisesOrReturns
  <2>16. SiteInv'
    BY <1>1, <1>20, SiteElsewhere DEF Collecting
  <2>17. ListInv' /\ FieldInv' /\ ResultsInv'
    BY <1>1, <1>4, <1>20, ListElsewhere DEF ListIsAlive, Building, Module, List, Single, Obj
  <2> QED
    BY <2>7, <2>10, <2>14, <2>15, <2>16, <2>17 DEF ExtInv
<1> QED
  BY <1>19, <1>20 DEF AddType

\* tp_new.
LEMMA Checker_NewInv ==
    ASSUME ExtInv, dropped = {}, Checker_New
    PROVE  ExtInv'
<1>1. call' \in Calls /\ source' \in {"arguments", "parameters"} /\ taken' \in Nat /\ nth' \in Nat \ {0}
  BY Untouched DEF Checker_New, collection, conversion
<1>2. CASE ReturnNull(refs, "MemoryError") /\ UNCHANGED heap
  BY <1>1, <1>2, NullReturned DEF Checker_New
<1>3. CASE /\ Own(1, Checker, Null) /\ ret' = Checker /\ pc' = "returned"
           /\ UNCHANGED <<depth, dropped, err>>
  <2>1. pc = "idle" /\ Checker \notin Locals(1) /\ dropped' = {} /\ depth' = depth /\ err' = err
    BY <1>3 DEF Checker_New
  <2>2. /\ Locals(2) = {} /\ Locals(3) = {} /\ Locals(4) = {} /\ depth = 1 /\ err = "none"
        /\ Locals(1) \in SUBSET {Module, Checker, List} /\ List \notin Locals(1)
    BY <2>1 DEF ExtInv, LocalsInv, Building, DepthInv, OutcomeInv
  <2>3. \A n \in 1 .. 4 : Checker \notin Locals(n)
    BY <2>1, <2>2
  <2>4. Checker[1] = "checker" /\ Checker # List
    BY Kinds
  <2>5. Checker \notin DOMAIN heap
    BY <2>2, <2>3, <2>4, OnlyLocal DEF ExtInv
  <2>6. /\ HoldersInv' /\ CountInv'
        /\ Locals(1)' = Locals(1) \cup {Checker}
        /\ \A k : k # 1 => Locals(k)' = Locals(k)
    <3>1. depth \in 1 .. 4 /\ depth' \in 1 .. 4 /\ 1 <= depth' /\ depth <= depth' /\ 1 \in 1 .. 4
      BY <2>1, <2>2
    <3>2. Checker[1] # "frame" /\ HoldersInv /\ CountInv
      BY <2>4 DEF ExtInv
    <3> QED
      BY <1>3, <2>1, <2>5, <3>1, <3>2, OwnKeeps
  <2>7. Locals(2)' = {} /\ Locals(3)' = {} /\ Locals(4)' = {}
    BY <2>2, <2>6
  <2>8. LocalsInv'
    BY <1>3, <2>2, <2>4, <2>6, <2>7, LocalsAtRest
  <2>9. Checker # Null
    BY NullAssumption
  <2>10. DepthInv' /\ OutcomeInv' /\ ModuleInv'
    BY <1>3, <2>1, <2>2, <2>9 DEF DepthInv, OutcomeInv, RaisesOrReturns, ModuleInv
  <2>11. SiteInv'
    BY <1>1, <1>3, SiteElsewhere DEF Collecting
  <2>12. ListInv' /\ FieldInv' /\ ResultsInv'
    BY <1>1, <1>3, <2>4, ListElsewhere DEF ListIsAlive, Building, List, Single, Obj
  <2> QED
    BY <2>6, <2>8, <2>10, <2>11, <2>12 DEF ExtInv
<1> QED
  BY <1>2, <1>3 DEF Checker_New

\* tp_dealloc.
LEMMA Checker_DeallocInv ==
    ASSUME ExtInv, dropped = {}, Checker_Dealloc
    PROVE  ExtInv'
<1>1. call' \in Calls /\ source' \in {"arguments", "parameters"} /\ taken' \in Nat /\ nth' \in Nat \ {0}
  BY Untouched DEF Checker_Dealloc, collection, conversion
<1>2. /\ pc = "idle" /\ pc' = "idle" /\ Checker \in Locals(1) /\ dropped' = {Local(1, Checker)}
      /\ depth' = depth /\ heap' = heap /\ refs' = refs /\ err' = err /\ ret' = ret
  BY DEF Checker_Dealloc, outcome
<1>3. /\ Locals(2) = {} /\ Locals(3) = {} /\ Locals(4) = {} /\ depth = 1 /\ err = "none" /\ ret = Null
      /\ Locals(1) \in SUBSET {Module, Checker, List} /\ List \notin Locals(1)
  BY <1>2 DEF ExtInv, LocalsInv, Building, DepthInv, OutcomeInv
<1>4. /\ HoldersInv' /\ CountInv'
      /\ Locals(1)' = Locals(1) \ {Checker}
      /\ \A k \in 1 .. 4 : k # 1 => Locals(k)' = Locals(k)
  <2>1. HoldersInv /\ CountInv /\ 1 \in 1 .. 4
    BY DEF ExtInv
  <2> QED
    BY <1>2, <2>1, DropKeeps
<1>5. Locals(2)' = {} /\ Locals(3)' = {} /\ Locals(4)' = {}
  BY <1>3, <1>4
<1>6. LocalsInv'
  BY <1>2, <1>3, <1>4, <1>5, LocalsAtRest
<1>7. DepthInv' /\ OutcomeInv' /\ ModuleInv'
  BY <1>2, <1>3 DEF DepthInv, OutcomeInv, RaisesOrReturns, ModuleInv
<1>8. SiteInv'
  BY <1>1, <1>2, SiteElsewhere DEF Collecting
<1>9. ListInv' /\ FieldInv' /\ ResultsInv'
  BY <1>1, <1>2, ListElsewhere DEF ListIsAlive, Building
<1> QED
  BY <1>4, <1>6, <1>7, <1>8, <1>9 DEF ExtInv

\* The program lets go of what it got.
LEMMA ConsumeInv ==
    ASSUME ExtInv, dropped = {}, Consume
    PROVE  ExtInv'
<1>1. call' \in Calls /\ source' \in {"arguments", "parameters"} /\ taken' \in Nat /\ nth' \in Nat \ {0}
  BY Untouched DEF Consume, collection, conversion
<1>2. /\ pc = "returned" /\ pc' = "idle" /\ err' = "none" /\ ret' = Null
      /\ dropped' = (IF ret = List THEN {Local(1, List)} ELSE {})
      /\ depth' = depth /\ heap' = heap /\ refs' = refs
  BY DEF Consume
<1>3. /\ Locals(2) = {} /\ Locals(3) = {} /\ Locals(4) = {} /\ depth = 1
      /\ Locals(1) \in SUBSET {Module, Checker, List} /\ (List \in Locals(1) <=> ret = List)
      /\ HoldersInv /\ CountInv
  BY <1>2 DEF ExtInv, LocalsInv, Building, DepthInv
<1>4. /\ HoldersInv' /\ CountInv'
      /\ Locals(1)' = Locals(1) \ {List}
      /\ \A k \in 1 .. 4 : k # 1 => Locals(k)' = Locals(k)
  <2>1. CASE ret = List
    <3>1. 1 \in 1 .. 4 /\ List \in Locals(1) /\ dropped' = {Local(1, List)}
      BY <1>2, <1>3, <2>1
    <3> QED
      BY <1>2, <1>3, <3>1, DropKeeps
  <2>2. CASE ret # List
    <3>1. UNCHANGED <<heap, refs, dropped, depth>>
      BY <1>2, <2>2
    <3>2. HoldersInv' /\ CountInv'
      BY <1>3, <3>1 DEF HoldersInv, CountInv, CountsAreReferences, Type, Single, Frame, Obj,
                        RefForm, Local, Dict, Value, Str, List, Module
    <3>3. \A k : Locals(k)' = Locals(k)
      BY <3>1 DEF Locals, Frame, Obj
    <3> QED
      BY <1>3, <2>2, <3>2, <3>3
  <2> QED
    BY <2>1, <2>2
<1>5. Locals(2)' = {} /\ Locals(3)' = {} /\ Locals(4)' = {}
  BY <1>3, <1>4
<1>6. LocalsInv'
  BY <1>2, <1>3, <1>4, <1>5, LocalsAtRest
<1>7. DepthInv' /\ OutcomeInv' /\ ModuleInv'
  BY <1>2, <1>3 DEF DepthInv, OutcomeInv, RaisesOrReturns, ModuleInv
<1>8. SiteInv'
  BY <1>1, <1>2, SiteElsewhere DEF Collecting
<1>9. ListInv' /\ FieldInv' /\ ResultsInv'
  BY <1>1, <1>2, ListElsewhere DEF ListIsAlive, Building
<1> QED
  BY <1>4, <1>6, <1>7, <1>8, <1>9 DEF ExtInv

-----------------------------------------------------------------------------
(* Checker_Check: the call site *)

\* A step that leaves the objects alone.
LEMMA SameObjects ==
    ASSUME HoldersInv, CountInv, UNCHANGED <<heap, refs, dropped>>, depth \in 1 .. 4, depth' \in 1 .. 4,
           depth <= depth'
    PROVE  /\ HoldersInv' /\ CountInv'
           /\ \A k : Locals(k)' = Locals(k)
           /\ \A c : HeldBy(c)' = HeldBy(c)
<1>1. CountInv'
  BY DEF CountInv, CountsAreReferences
<1>2. ASSUME NEW r \in refs' \ dropped'
      PROVE  r[1] \in DOMAIN heap' \/ \E n \in 1 .. depth' : r[1] = Frame(n)
  <2>1. r[1] \in DOMAIN heap \/ \E n \in 1 .. depth : r[1] = Frame(n)
    BY DEF HoldersInv
  <2>2. \A n \in 1 .. depth : n \in 1 .. depth'
    OBVIOUS
  <2> QED
    BY <2>1, <2>2
<1>3. HoldersInv'
  BY <1>2, HoldersAfter DEF HoldersInv
<1>4. \A k : Locals(k)' = Locals(k)
  BY DEF Locals, Frame, Obj
<1>5. \A c : HeldBy(c)' = HeldBy(c)
  BY DEF HeldBy
<1> QED
  BY <1>1, <1>3, <1>4, <1>5

\* While the call is being collected, Checker_Check has no list.
LEMMA LocalsInCheck ==
    ASSUME pc' \in {"iterate", "next", "item", "ended", "list"},
           Locals(1)' \in SUBSET {Module, Checker, List}, List \notin Locals(1)',
           Locals(2)' = CASE pc' \in {"next", "ended"} -> {Iterator'}
                          [] pc' = "item" -> {Iterator', Item'}
                          [] OTHER -> {},
           Locals(3)' = {}, Locals(4)' = {}
    PROVE  LocalsInv'
<1>1. CASE pc' \in {"next", "ended"}
  <2>1. Locals(2)' = {Iterator'}
    BY <1>1
  <2> QED
    BY <1>1, <2>1 DEF LocalsInv, Building
<1>2. CASE pc' = "item"
  <2>1. Locals(2)' = {Iterator', Item'}
    BY <1>2
  <2> QED
    BY <1>2, <2>1 DEF LocalsInv, Building
<1>3. CASE pc' \in {"iterate", "list"}
  <2>1. Locals(2)' = {}
    BY <1>3
  <2> QED
    BY <1>3, <2>1 DEF LocalsInv, Building
<1> QED
  BY <1>1, <1>2, <1>3

\* In these states there is no list.
LEMMA NoListInCheck ==
    ASSUME pc' \in {"iterate", "next", "item", "ended", "list"}, nth' \in Nat \ {0}
    PROVE  ListInv' /\ FieldInv' /\ ResultsInv' /\ ModuleInv'
<1>1. ~ListIsAlive'
  BY DEF ListIsAlive, Building
<1> QED
  BY <1>1, ListElsewhere DEF ModuleInv

\* What IterablesAssumption says of a call.
LEMMA CallIs ==
    ASSUME call \in Calls
    PROVE  /\ call.arguments \in Iterable /\ call["arguments"] = call.arguments
           /\ call["parameters"] = call.parameters
           /\ call.parameters \in Iterable \/ call.parameters = NotGiven
           /\ ~(call.parameters \in Iterable /\ call.parameters = NotGiven)
<1>1. call \in [arguments : Iterable, parameters : Iterable \cup {NotGiven}]
  BY IterablesAssumption
<1>2. NotGiven \notin Iterable
  <2>1. Len(NotGiven) = 1 /\ NotGiven[1] = Null
    BY DEF NotGiven
  <2>2. ASSUME NotGiven \in Seq(Name \cup {NotStr, Unencodable, Exhausted, Raises})
        PROVE  NotGiven[1] \in Name \cup {NotStr, Unencodable, Exhausted, Raises}
    BY <2>1, <2>2
  <2> QED
    BY <2>1, <2>2, IterablesAssumption DEF Iterable
<1> QED
  BY <1>1, <1>2

\* What SubSeq makes of the first items.
LEMMA FirstItems ==
    ASSUME NEW S, NEW s \in Seq(S)
    PROVE  /\ SubSeq(s, 1, 0) = <<>>
           /\ \A n \in 1 .. Len(s) : SubSeq(s, 1, n) = Append(SubSeq(s, 1, n - 1), s[n])
           /\ \A n \in 0 .. Len(s) : SubSeq(s, 1, n) \in Seq(S)
           /\ Front(s) = SubSeq(s, 1, Len(s) - 1)
<1>1. \A n \in 0 .. Len(s) : SubSeq(s, 1, n) \in Seq(S) /\ Len(SubSeq(s, 1, n)) = n
  OBVIOUS
<1>2. SubSeq(s, 1, 0) = <<>>
  BY <1>1
<1>3. ASSUME NEW n \in 1 .. Len(s)
      PROVE  SubSeq(s, 1, n) = Append(SubSeq(s, 1, n - 1), s[n])
  OBVIOUS
<1> QED
  BY <1>1, <1>2, <1>3 DEF Front

\* A site grows by the name that is pushed back.
LEMMA SiteOfAppend ==
    ASSUME NEW S, NEW s \in Seq(S), NEW x \in S, NEW p
    PROVE  /\ [SiteOf(s, p) EXCEPT !.args = Append(SiteOf(s, p).args, <<x>>)] = SiteOf(Append(s, x), p)
           /\ \A y : [SiteOf(s, p) EXCEPT !.params = Append(SiteOf(s, p).params, y)] = SiteOf(s, Append(p, y))
<1> DEFINE f == [k \in DOMAIN s |-> <<s[k]>>]
           g == [k \in DOMAIN Append(s, x) |-> <<Append(s, x)[k]>>]
<1>1. f \in Seq(Seq(S)) /\ Len(f) = Len(s)
  <2>1. Len(s) \in Nat /\ DOMAIN s = 1 .. Len(s)
    OBVIOUS
  <2>2. f \in [1 .. Len(s) -> Seq(S)]
    BY <2>1
  <2> HIDE DEF f
  <2> QED
    BY <2>1, <2>2
<1>2. Append(f, <<x>>) = g
  OBVIOUS
<1>3. SiteOf(s, p) = [args |-> f, params |-> p] /\ SiteOf(Append(s, x), p) = [args |-> g, params |-> p]
  BY DEF SiteOf
<1>4. \A y : SiteOf(s, Append(p, y)) = [args |-> f, params |-> Append(p, y)]
  BY DEF SiteOf
<1> HIDE DEF f, g
<1>5. SiteOf(s, p).args = f /\ SiteOf(s, p).params = p
  BY <1>3
<1>6. \A v : [SiteOf(s, p) EXCEPT !.args = v] = [args |-> v, params |-> p]
  BY <1>3
<1>7. \A v : [SiteOf(s, p) EXCEPT !.params = v] = [args |-> f, params |-> v]
  BY <1>3
<1>8. [SiteOf(s, p) EXCEPT !.args = Append(f, <<x>>)] = SiteOf(Append(s, x), p)
  BY <1>2, <1>3, <1>6
<1>9. \A y : [SiteOf(s, p) EXCEPT !.params = Append(p, y)] = SiteOf(s, Append(p, y))
  BY <1>4, <1>7
<1> QED
  BY <1>5, <1>8, <1>9

\* check_call begins, or its arguments are refused.
LEMMA Checker_CheckInv ==
    ASSUME ExtInv, dropped = {}, Checker_Check
    PROVE  ExtInv'
<1>1. /\ pc = "idle" /\ call' \in Calls /\ source' = "arguments" /\ taken' = 0
      /\ site' = SiteOf(<<>>, <<>>) /\ nth' = 1 /\ heap' = heap
  BY DEF Checker_Check
<1>2. call' \in Calls /\ source' \in {"arguments", "parameters"} /\ taken' \in Nat /\ nth' \in Nat \ {0}
  BY <1>1
<1>3. CASE ReturnNull(refs, "TypeError")
  BY <1>1, <1>2, <1>3, NullReturned
<1>4. CASE depth' = 2 /\ pc' = "iterate" /\ UNCHANGED <<refs, dropped, outcome>>
  <2>1. /\ Locals(2) = {} /\ Locals(3) = {} /\ Locals(4) = {} /\ depth = 1 /\ err = "none" /\ ret = Null
        /\ Locals(1) \in SUBSET {Module, Checker, List} /\ List \notin Locals(1)
        /\ HoldersInv /\ CountInv
    BY <1>1 DEF ExtInv, LocalsInv, Building, DepthInv, OutcomeInv
  <2>2. err' = err /\ ret' = ret
    BY <1>4 DEF outcome
  <2>3. HoldersInv' /\ CountInv' /\ \A k : Locals(k)' = Locals(k)
    BY <1>1, <1>4, <2>1, SameObjects
  <2>4. LocalsInv'
    BY <1>4, <2>1, <2>3, LocalsInCheck
  <2>5. DepthInv' /\ OutcomeInv'
    BY <1>4, <2>1, <2>2 DEF DepthInv, OutcomeInv, RaisesOrReturns
  <2>6. SiteInv'
    BY <1>1, <1>4 DEF SiteInv
  <2>7. ListInv' /\ FieldInv' /\ ResultsInv' /\ ModuleInv'
    BY <1>2, <1>4, NoListInCheck
  <2> QED
    BY <2>3, <2>4, <2>5, <2>6, <2>7 DEF ExtInv
<1> QED
  BY <1>3, <1>4 DEF Checker_Check

\* Without parameters the site is complete.
LEMMA NoParametersInv ==
    ASSUME ExtInv, dropped = {}, NoParameters
    PROVE  ExtInv'
<1>1. call' \in Calls /\ source' \in {"arguments", "parameters"} /\ taken' \in Nat /\ nth' \in Nat \ {0}
  BY Untouched DEF NoParameters, collection, conversion
<1>2. /\ pc = "iterate" /\ pc' = "list" /\ source = "parameters" /\ call.parameters = NotGiven
      /\ UNCHANGED <<depth, heap, refs, dropped, err, ret, call, site>>
  BY DEF NoParameters, objects, outcome, collection
<1>3. /\ Locals(2) = {} /\ Locals(3) = {} /\ Locals(4) = {} /\ depth = 2 /\ err = "none" /\ ret = Null
      /\ Locals(1) \in SUBSET {Module, Checker, List} /\ List \notin Locals(1)
      /\ HoldersInv /\ CountInv
  BY <1>2 DEF ExtInv, LocalsInv, Building, DepthInv, OutcomeInv
<1>4. HoldersInv' /\ CountInv' /\ \A k : Locals(k)' = Locals(k)
  BY <1>2, <1>3, SameObjects
<1>5. LocalsInv'
  BY <1>2, <1>3, <1>4, LocalsInCheck
<1>6. DepthInv' /\ OutcomeInv'
  BY <1>2, <1>3 DEF DepthInv, OutcomeInv, RaisesOrReturns
<1>7. ListInv' /\ FieldInv' /\ ResultsInv' /\ ModuleInv'
  BY <1>1, <1>2, NoListInCheck
<1>8. site = SiteOf(Front(call.arguments), <<>>) /\ Last(call.arguments) = Exhausted
  BY <1>2 DEF ExtInv, SiteInv
<1>9. Last(call.parameters) = Null
  BY <1>2 DEF Last, NotGiven
<1>10. site = CallPassed
  BY <1>2, <1>8 DEF CallPassed
<1>11. CallPassed' = CallPassed
  BY <1>2 DEF CallPassed
<1>12. SiteInv'
  BY <1>1, <1>2, <1>8, <1>9, <1>10, <1>11 DEF SiteInv
<1> QED
  BY <1>4, <1>5, <1>6, <1>7, <1>12 DEF ExtInv

\* PyObject_GetIter.
LEMMA GetIterInv ==
    ASSUME ExtInv, dropped = {}, GetIter
    PROVE  ExtInv'
<1>1. /\ pc = "iterate" /\ ~(source = "parameters" /\ call.parameters = NotGiven) /\ taken' = 0
      /\ UNCHANGED <<call, source, site, nth>>
  BY DEF GetIter, conversion
<1>2. /\ call' \in Calls /\ source' \in {"arguments", "parameters"} /\ taken' \in Nat
      /\ nth' \in Nat \ {0} /\ call \in Calls /\ source \in {"arguments", "parameters"}
  BY <1>1 DEF ExtInv, SiteInv, ResultsInv
<1>3. CASE ReturnNull(refs, "TypeError") /\ UNCHANGED heap
  BY <1>1, <1>2, <1>3, NullReturned
<1>4. CASE /\ call[source] # NotIterable /\ Own(2, Iterator, Null) /\ pc' = "next"
           /\ UNCHANGED <<depth, dropped, outcome>>
  <2>1. /\ Locals(2) = {} /\ Locals(3) = {} /\ Locals(4) = {} /\ depth = 2 /\ err = "none" /\ ret = Null
        /\ Locals(1) \in SUBSET {Module, Checker, List} /\ List \notin Locals(1)
        /\ HoldersInv /\ CountInv
    BY <1>1 DEF ExtInv, LocalsInv, Building, DepthInv, OutcomeInv
  <2>2. err' = err /\ ret' = ret /\ depth' = 2 /\ dropped' = {}
    BY <1>4, <2>1 DEF outcome
  <2>3. PICK o : o = Iterator
    OBVIOUS
  <2>4. o[1] = "iterator" /\ o \notin {Module, Checker, List}
    BY <2>3, Kinds
  <2>5. \A n \in 1 .. 4 : o \notin Locals(n)
    BY <2>1, <2>4
  <2>6. o \notin DOMAIN heap
    BY <2>1, <2>4, <2>5, OnlyLocal
  <2>7. /\ HoldersInv' /\ CountInv'
        /\ Locals(2)' = Locals(2) \cup {o}
        /\ \A k : k # 2 => Locals(k)' = Locals(k)
    <3>1. depth \in 1 .. 4 /\ depth' \in 1 .. 4 /\ 2 <= depth' /\ depth <= depth' /\ 2 \in 1 .. 4
      BY <2>1, <2>2
    <3>2. o[1] # "frame" /\ Own(2, o, Null)
      BY <1>4, <2>3, <2>4
    <3> QED
      BY <2>1, <2>2, <2>6, <3>1, <3>2, OwnKeeps
  <2>8. Iterator' = o
    BY <1>1, <2>3 DEF Iterator, Obj
  <2>9. Locals(1)' = Locals(1) /\ Locals(2)' = {Iterator'} /\ Locals(3)' = {} /\ Locals(4)' = {}
    BY <2>1, <2>7, <2>8
  <2>10. LocalsInv'
    BY <1>4, <2>1, <2>9, LocalsInCheck
  <2>11. DepthInv' /\ OutcomeInv'
    BY <1>4, <2>1, <2>2 DEF DepthInv, OutcomeInv, RaisesOrReturns
  <2>12. ListInv' /\ FieldInv' /\ ResultsInv' /\ ModuleInv'
    BY <1>2, <1>4, NoListInCheck
  <2>13. call[source] \in Iterable /\ call.arguments \in Iterable
    BY <1>1, <1>2, CallIs
  <2>14. Len(call[source]) \in Nat /\ Len(call[source]) # 0
    BY <1>4, <2>13 DEF Iterable, NotIterable
  <2>15. /\ source = "parameters" => Last(call.arguments) = Exhausted
         /\ site = SiteOf(IF source = "arguments" THEN <<>> ELSE Front(call.arguments), <<>>)
    BY <1>1 DEF ExtInv, SiteInv
  <2>16. SubSeq(call.arguments, 1, 0) = <<>>
    BY <2>13, FirstItems DEF Iterable
  <2>17. source = "parameters" => SubSeq(call.parameters, 1, 0) = <<>>
    BY <1>2, <2>13, CallIs, FirstItems DEF Iterable
  <2>18. Collected' = 0
    BY <1>1, <1>4 DEF Collected
  <2>19. site' = IF source' = "arguments"
                 THEN SiteOf(SubSeq(call'.arguments, 1, Collected'), <<>>)
                 ELSE SiteOf(Front(call'.arguments), SubSeq(call'.parameters, 1, Collected'))
    BY <1>1, <1>2, <2>15, <2>16, <2>17, <2>18
  <2>20. taken' < Len(call'[source']) /\ call'[source'] \in Iterable
    BY <1>1, <2>13, <2>14
  <2>21. SiteInv'
    BY <1>1, <1>2, <1>4, <2>15, <2>19, <2>20 DEF SiteInv
  <2> QED
    BY <2>7, <2>10, <2>11, <2>12, <2>21 DEF ExtInv
<1> QED
  BY <1>3, <1>4 DEF GetIter

\* PyIter_Next, whose null says either of two things.
LEMMA NextItemInv ==
    ASSUME ExtInv, dropped = {}, NextItem
    PROVE  ExtInv'
<1> DEFINE given == call[source][taken + 1]
<1>1. /\ pc = "next" /\ taken' = taken + 1
      /\ UNCHANGED <<depth, dropped, ret, call, source, site, nth>>
  BY DEF NextItem, conversion
<1>2. /\ call' \in Calls /\ source' \in {"arguments", "parameters"} /\ taken \in Nat /\ taken' \in Nat
      /\ nth' \in Nat \ {0} /\ call[source] \in Iterable /\ taken < Len(call[source])
  BY <1>1 DEF ExtInv, SiteInv, ResultsInv
<1>3. /\ Locals(2) = {Iterator} /\ Locals(3) = {} /\ Locals(4) = {} /\ depth = 2 /\ err = "none" /\ ret = Null
      /\ Locals(1) \in SUBSET {Module, Checker, List} /\ List \notin Locals(1)
      /\ HoldersInv /\ CountInv
  BY <1>1 DEF ExtInv, LocalsInv, Building, DepthInv, OutcomeInv
<1>4. Iterator' = Iterator /\ Item' = Item
  BY <1>1 DEF Iterator, Item, Obj
<1>5. taken' \in DOMAIN call[source] /\ (given \in {Exhausted, Raises} <=> taken' = Len(call[source]))
  <2>1. Len(call[source]) \in Nat /\ DOMAIN call[source] = 1 .. Len(call[source])
    BY <1>2 DEF Iterable
  <2>2. taken + 1 \in DOMAIN call[source]
    BY <1>2, <2>1
  <2> QED
    BY <1>1, <1>2, <2>2 DEF Iterable
<1>6. /\ source = "parameters" => Last(call.arguments) = Exhausted
      /\ site = IF source = "arguments"
                THEN SiteOf(SubSeq(call.arguments, 1, taken), <<>>)
                ELSE SiteOf(Front(call.arguments), SubSeq(call.parameters, 1, taken))
  BY <1>1 DEF ExtInv, SiteInv, Collected
<1>7. ASSUME pc' \in {"item", "ended"}
      PROVE  site' = IF source' = "arguments"
                     THEN SiteOf(SubSeq(call'.arguments, 1, Collected'), <<>>)
                     ELSE SiteOf(Front(call'.arguments), SubSeq(call'.parameters, 1, Collected'))
  <2>1. Collected' = taken
    BY <1>1, <1>2, <1>7 DEF Collected
  <2> QED
    BY <1>1, <1>6, <2>1
<1> HIDE DEF given
<1>8. CASE given \in {Exhausted, Raises}
  <2>1. /\ pc' = "ended" /\ UNCHANGED <<heap, refs>>
        /\ err' = IF given = Raises THEN "raised by the iterator" ELSE "none"
    BY <1>8 DEF NextItem, given
  <2>2. HoldersInv' /\ CountInv' /\ \A k : Locals(k)' = Locals(k)
    <3>1. UNCHANGED <<heap, refs, dropped>>
      BY <1>1, <2>1
    <3>2. depth' = 2
      BY <1>1, <1>3
    <3>3. depth \in 1 .. 4 /\ depth' \in 1 .. 4 /\ depth <= depth'
      BY <1>3, <3>2
    <3> QED
      BY <1>3, <3>1, <3>3, SameObjects
  <2>3. LocalsInv'
    BY <1>3, <1>4, <2>1, <2>2, LocalsInCheck
  <2>4. DepthInv' /\ OutcomeInv'
    BY <1>1, <1>3, <2>1 DEF DepthInv, OutcomeInv, RaisesOrReturns
  <2>5. ListInv' /\ FieldInv' /\ ResultsInv' /\ ModuleInv'
    BY <1>2, <2>1, NoListInCheck
  <2>6. taken' \in DOMAIN call'[source'] /\ call'[source'] \in Iterable
    BY <1>1, <1>2, <1>5
  <2>7. call'[source'][taken'] = IF err' = "none" THEN Exhausted ELSE Raises
    BY <1>1, <1>8, <2>1 DEF given
  <2>8. SiteInv'
    BY <1>1, <1>2, <1>6, <1>7, <2>1, <2>6, <2>7 DEF SiteInv
  <2> QED
    BY <2>2, <2>3, <2>4, <2>5, <2>8 DEF ExtInv
<1>9. CASE given \notin {Exhausted, Raises}
  <2>1. pc' = "item" /\ Own(2, Item, given) /\ err' = err
    BY <1>9 DEF NextItem, given
  <2>2. PICK o, v : o = Item /\ v = given
    OBVIOUS
  <2>3. o[1] = "item" /\ o \notin {Module, Checker, List, Iterator}
    BY <2>2, Kinds
  <2>4. \A n \in 1 .. 4 : o \notin Locals(n)
    BY <1>3, <2>3
  <2>5. o \notin DOMAIN heap
    BY <1>3, <2>3, <2>4, OnlyLocal
  <2>6. /\ HoldersInv' /\ CountInv'
        /\ Locals(2)' = Locals(2) \cup {o}
        /\ \A k : k # 2 => Locals(k)' = Locals(k)
        /\ heap'[o].value = v
    <3>1. depth \in 1 .. 4 /\ depth' \in 1 .. 4 /\ 2 <= depth' /\ depth <= depth' /\ 2 \in 1 .. 4
      BY <1>1, <1>3
    <3>2. o[1] # "frame" /\ Own(2, o, v) /\ dropped' = {}
      BY <1>1, <2>1, <2>2, <2>3
    <3> QED
      BY <1>3, <2>5, <3>1, <3>2, OwnKeeps
  <2>7. Locals(1)' = Locals(1) /\ Locals(2)' = {Iterator', Item'} /\ Locals(3)' = {} /\ Locals(4)' = {}
    BY <1>3, <1>4, <2>2, <2>6
  <2>8. LocalsInv'
    BY <1>3, <2>1, <2>7, LocalsInCheck
  <2>9. DepthInv' /\ OutcomeInv'
    BY <1>1, <1>3, <2>1 DEF DepthInv, OutcomeInv, RaisesOrReturns
  <2>10. ListInv' /\ FieldInv' /\ ResultsInv' /\ ModuleInv'
    BY <1>2, <2>1, NoListInCheck
  <2>11. call'[source'] \in Iterable /\ taken' < Len(call'[source']) /\ taken' >= 1
    <3>1. Len(call[source]) \in Nat
      BY <1>2 DEF Iterable
    <3> QED
      BY <1>1, <1>2, <1>5, <1>9, <3>1
  <2>12. heap'[Item'].value = call'[source'][taken']
    BY <1>1, <1>4, <2>2, <2>6 DEF given
  <2>13. SiteInv'
    BY <1>1, <1>2, <1>6, <1>7, <2>1, <2>11, <2>12 DEF SiteInv
  <2> QED
    BY <2>6, <2>8, <2>9, <2>10, <2>13 DEF ExtInv
<1> QED
  BY <1>8, <1>9

\* An item that has no UTF-8 form ends the call.
LEMMA RejectItemInv ==
    ASSUME ExtInv, dropped = {}, RejectItem
    PROVE  ExtInv'
<1>1. call' \in Calls /\ source' \in {"arguments", "parameters"} /\ taken' \in Nat /\ nth' \in Nat \ {0}
  BY Untouched DEF RejectItem, collection, conversion
<1>2. PICK e : e = CASE heap[Item].value = NotStr -> "TypeError"
                     [] heap[Item].value = Unencodable -> "UnicodeEncodeError"
                     [] OTHER -> "MemoryError"
  OBVIOUS
<1>3. e # "none"
  <2>1. CASE heap[Item].value = NotStr \/ heap[Item].value = Unencodable
    BY <1>2, <2>1
  <2>2. CASE ~(heap[Item].value = NotStr \/ heap[Item].value = Unencodable)
    BY <1>2, <2>2
  <2> QED
    BY <2>1, <2>2
<1>4. pc = "item" /\ ReturnNull(refs, e) /\ heap' = heap
  BY <1>2 DEF RejectItem
<1> QED
  BY <1>1, <1>3, <1>4, NullReturned

\* An item that has one is pushed back, and let go.
LEMMA CollectItemInv ==
    ASSUME ExtInv, dropped = {}, CollectItem
    PROVE  ExtInv'
<1>1. /\ pc = "item" /\ pc' = "next" /\ dropped' = {Local(2, Item)}
      /\ heap[Item].value \in Name
      /\ site' = (IF source = "arguments"
                  THEN [site EXCEPT !.args = Append(site.args, <<heap[Item].value>>)]
                  ELSE [site EXCEPT !.params = Append(site.params, heap[Item].value)])
      /\ UNCHANGED <<depth, heap, refs, err, ret, call, source, taken, nth>>
  BY DEF CollectItem, Destroyed, outcome, conversion
<1>2. /\ call' \in Calls /\ source' \in {"arguments", "parameters"} /\ taken \in Nat
      /\ nth' \in Nat \ {0} /\ call[source] \in Iterable /\ taken < Len(call[source])
      /\ taken >= 1 /\ heap[Item].value = call[source][taken] /\ call \in Calls
  BY <1>1 DEF ExtInv, SiteInv, ResultsInv
<1>3. /\ Locals(2) = {Iterator, Item} /\ Locals(3) = {} /\ Locals(4) = {} /\ depth = 2
      /\ err = "none" /\ ret = Null
      /\ Locals(1) \in SUBSET {Module, Checker, List} /\ List \notin Locals(1)
      /\ HoldersInv /\ CountInv
  BY <1>1 DEF ExtInv, LocalsInv, Building, DepthInv, OutcomeInv
<1>4. Iterator' = Iterator /\ Iterator # Item
  BY <1>1 DEF Iterator, Item, Obj
<1>5. PICK o : o = Item
  OBVIOUS
<1>6. /\ HoldersInv' /\ CountInv'
      /\ Locals(2)' = Locals(2) \ {o}
      /\ \A k \in 1 .. 4 : k # 2 => Locals(k)' = Locals(k)
  <2>1. 2 \in 1 .. 4 /\ o \in Locals(2) /\ dropped' = {Local(2, o)}
    BY <1>1, <1>3, <1>5
  <2> QED
    BY <1>1, <1>3, <2>1, DropKeeps
<1>7. Locals(1)' = Locals(1) /\ Locals(2)' = {Iterator'} /\ Locals(3)' = {} /\ Locals(4)' = {}
  BY <1>3, <1>4, <1>5, <1>6
<1>8. LocalsInv'
  BY <1>1, <1>3, <1>7, LocalsInCheck
<1>9. DepthInv' /\ OutcomeInv'
  BY <1>1, <1>3 DEF DepthInv, OutcomeInv, RaisesOrReturns
<1>10. ListInv' /\ FieldInv' /\ ResultsInv' /\ ModuleInv'
  BY <1>1, <1>2, NoListInCheck
<1>11. /\ source = "parameters" => Last(call.arguments) = Exhausted
       /\ site = IF source = "arguments"
                 THEN SiteOf(SubSeq(call.arguments, 1, taken - 1), <<>>)
                 ELSE SiteOf(Front(call.arguments), SubSeq(call.parameters, 1, taken - 1))
  BY <1>1 DEF ExtInv, SiteInv, Collected
<1>12. /\ call.arguments \in Iterable /\ call["arguments"] = call.arguments
       /\ call["parameters"] = call.parameters
  BY <1>2, CallIs
<1>13. PICK S : S = Name \cup {NotStr, Unencodable, Exhausted, Raises}
  OBVIOUS
<1>14. PICK s, x : s = call[source] /\ x = s[taken]
  OBVIOUS
<1>15. s \in Seq(S) /\ taken \in 1 .. Len(s) /\ x \in S /\ Len(s) \in Nat /\ x = heap[Item].value
  <2>1. s \in Seq(S)
    BY <1>2, <1>13, <1>14 DEF Iterable
  <2>2. taken \in 1 .. Len(s) /\ Len(s) \in Nat
    BY <1>2, <1>14, <2>1
  <2> QED
    BY <1>2, <1>14, <2>1, <2>2
<1>16. PICK t \in 1 .. Len(s) : t = taken
  BY <1>15
<1>17. SubSeq(s, 1, t) = Append(SubSeq(s, 1, t - 1), x) /\ SubSeq(s, 1, t - 1) \in Seq(S)
  <2>1. t - 1 \in 0 .. Len(s)
    BY <1>15, <1>16
  <2> QED
    BY <1>14, <1>15, <1>16, <2>1, FirstItems
<1>18. Collected' = t
  BY <1>1, <1>16 DEF Collected
<1>19. ASSUME source = "arguments"
       PROVE  SiteInv'
  <2>1. s = call.arguments /\ site = SiteOf(SubSeq(s, 1, t - 1), <<>>)
    BY <1>11, <1>12, <1>14, <1>16, <1>19
  <2>2. site' = [SiteOf(SubSeq(s, 1, t - 1), <<>>) EXCEPT
                    !.args = Append(SiteOf(SubSeq(s, 1, t - 1), <<>>).args, <<x>>)]
    BY <1>1, <1>15, <1>19, <2>1
  <2>3. site' = SiteOf(SubSeq(s, 1, t), <<>>)
    <3>1. PICK q \in Seq(S) : q = SubSeq(s, 1, t - 1)
      BY <1>17
    <3>2. site' = [SiteOf(q, <<>>) EXCEPT !.args = Append(SiteOf(q, <<>>).args, <<x>>)]
      BY <2>2, <3>1
    <3>3. PICK p : p = <<>>
      OBVIOUS
    <3>4. x \in S
      BY <1>15
    <3>5. [SiteOf(q, p) EXCEPT !.args = Append(SiteOf(q, p).args, <<x>>)] = SiteOf(Append(q, x), p)
      BY <3>4, SiteOfAppend
    <3> QED
      BY <1>17, <3>1, <3>2, <3>3, <3>5
  <2> QED
    BY <1>1, <1>2, <1>18, <1>19, <2>1, <2>3 DEF SiteInv
<1>20. ASSUME source = "parameters"
       PROVE  SiteInv'
  <2>1. s = call.parameters /\ site = SiteOf(Front(call.arguments), SubSeq(s, 1, t - 1))
    BY <1>11, <1>12, <1>14, <1>16, <1>20
  <2>2. PICK a, p : a = Front(call.arguments) /\ p = SubSeq(s, 1, t - 1)
    OBVIOUS
  <2>3. site' = [SiteOf(a, p) EXCEPT !.params = Append(SiteOf(a, p).params, x)]
    BY <1>1, <1>15, <1>20, <2>1, <2>2
  <2>4. a \in Seq(S)
    <3>1. PICK q : q = call.arguments
      OBVIOUS
    <3>2. q \in Seq(S) /\ Len(q) \in Nat
      BY <1>12, <1>13, <3>1 DEF Iterable
    <3>3. a = SubSeq(q, 1, Len(q) - 1)
      BY <3>1, <3>2, <2>2, FirstItems
    <3> QED
      BY <3>2, <3>3
  <2>5. site' = SiteOf(a, SubSeq(s, 1, t))
    <3>1. x \in S
      BY <1>15
    <3>2. [SiteOf(a, p) EXCEPT !.params = Append(SiteOf(a, p).params, x)] = SiteOf(a, Append(p, x))
      BY <2>4, <3>1, SiteOfAppend
    <3> QED
      BY <1>17, <2>2, <2>3, <3>2
  <2> QED
    BY <1>1, <1>2, <1>11, <1>18, <1>20, <2>1, <2>2, <2>5 DEF SiteInv
<1> QED
  BY <1>1, <1>2, <1>6, <1>8, <1>9, <1>10, <1>19, <1>20 DEF ExtInv

\* An iterable that was read to its end.
LEMMA ReadToEnd ==
    ASSUME NEW s \in Iterable, NEW t \in DOMAIN s, s[t] = Exhausted
    PROVE  t = Len(s) /\ Last(s) = Exhausted /\ Front(s) = SubSeq(s, 1, t - 1)
<1>1. s \in Seq(Name \cup {NotStr, Unencodable, Exhausted, Raises})
  BY DEF Iterable
<1>2. t = Len(s)
  BY DEF Iterable
<1>3. Front(s) = SubSeq(s, 1, Len(s) - 1)
  BY <1>1, FirstItems
<1> QED
  BY <1>2, <1>3 DEF Last

\* PyErr_Occurred tells the end of an iteration from its failure.
LEMMA EndOfIterationInv ==
    ASSUME ExtInv, dropped = {}, EndOfIteration
    PROVE  ExtInv'
<1>1. /\ pc = "ended" /\ UNCHANGED <<heap, taken, site, call, nth>>
      /\ source \in {"arguments", "parameters"} /\ call \in Calls
  BY DEF EndOfIteration, conversion, ExtInv, SiteInv
<1>2. call' \in Calls /\ taken' \in Nat /\ nth' \in Nat \ {0}
  BY <1>1 DEF ExtInv, SiteInv, ResultsInv
<1>3. CASE err # "none"
  <2>1. ReturnNull(refs, err) /\ source' = source
    BY <1>3 DEF EndOfIteration, PyErr_Occurred
  <2>2. PICK e : e = err
    OBVIOUS
  <2>3. ReturnNull(refs, e) /\ e # "none" /\ heap' = heap /\ pc # "returned"
        /\ source' \in {"arguments", "parameters"}
    BY <1>1, <1>3, <2>1, <2>2
  <2> QED
    BY <1>2, <2>3, NullReturned
<1>4. CASE err = "none"
  <2>1. /\ dropped' = {Local(2, Iterator)} /\ source' = "parameters"
        /\ pc' = (IF source = "arguments" THEN "iterate" ELSE "list")
        /\ UNCHANGED <<depth, refs, err, ret>>
    BY <1>4 DEF EndOfIteration, PyErr_Occurred, Destroyed, outcome
  <2>2. /\ Locals(2) = {Iterator} /\ Locals(3) = {} /\ Locals(4) = {} /\ depth = 2 /\ ret = Null
        /\ Locals(1) \in SUBSET {Module, Checker, List} /\ List \notin Locals(1)
        /\ HoldersInv /\ CountInv
    BY <1>1 DEF ExtInv, LocalsInv, Building, DepthInv, OutcomeInv
  <2>3. PICK o : o = Iterator
    OBVIOUS
  <2>4. /\ HoldersInv' /\ CountInv'
        /\ Locals(2)' = Locals(2) \ {o}
        /\ \A k \in 1 .. 4 : k # 2 => Locals(k)' = Locals(k)
    <3>1. 2 \in 1 .. 4 /\ o \in Locals(2) /\ dropped' = {Local(2, o)}
      BY <2>1, <2>2, <2>3
    <3>2. heap' = heap /\ refs' = refs /\ depth' = depth
      BY <1>1, <2>1
    <3> QED
      BY <2>2, <3>1, <3>2, DropKeeps
  <2>5. Locals(1)' = Locals(1) /\ Locals(2)' = {} /\ Locals(3)' = {} /\ Locals(4)' = {}
    BY <2>2, <2>3, <2>4
  <2>6. pc' \in {"iterate", "list"}
    BY <2>1
  <2>7. LocalsInv'
    BY <2>2, <2>5, <2>6, LocalsInCheck
  <2>8. DepthInv' /\ OutcomeInv'
    BY <1>4, <2>1, <2>2, <2>6 DEF DepthInv, OutcomeInv, RaisesOrReturns
  <2>9. ListInv' /\ FieldInv' /\ ResultsInv' /\ ModuleInv'
    BY <1>2, <2>6, NoListInCheck
  <2>10. /\ taken \in DOMAIN call[source] /\ call[source][taken] = Exhausted /\ call[source] \in Iterable
         /\ source = "parameters" => Last(call.arguments) = Exhausted
         /\ site = IF source = "arguments"
                   THEN SiteOf(SubSeq(call.arguments, 1, taken - 1), <<>>)
                   ELSE SiteOf(Front(call.arguments), SubSeq(call.parameters, 1, taken - 1))
    BY <1>1, <1>4 DEF ExtInv, SiteInv, Collected
  <2>11. /\ call["arguments"] = call.arguments /\ call["parameters"] = call.parameters
         /\ ~(call.parameters \in Iterable /\ call.parameters = NotGiven)
    BY <1>1, CallIs
  <2>12. PICK s, t : s = call[source] /\ t = taken
    OBVIOUS
  <2>13. Last(s) = Exhausted /\ Front(s) = SubSeq(s, 1, t - 1)
    BY <2>10, <2>12, ReadToEnd
  <2>14. CASE source = "arguments"
    <3>1. pc' = "iterate" /\ s = call.arguments
      BY <2>1, <2>11, <2>12, <2>14
    <3>2. site = SiteOf(Front(call.arguments), <<>>)
      BY <2>10, <2>12, <2>13, <2>14, <3>1
    <3>3. SiteInv'
      BY <1>1, <1>2, <2>1, <2>13, <3>1, <3>2 DEF SiteInv
    <3> QED
      BY <2>4, <2>7, <2>8, <2>9, <3>3 DEF ExtInv
  <2>15. CASE source = "parameters"
    <3>1. pc' = "list" /\ s = call.parameters
      BY <2>1, <2>11, <2>12, <2>15
    <3>2. site = SiteOf(Front(call.arguments), Front(call.parameters))
      BY <2>10, <2>12, <2>13, <2>15, <3>1
    <3>3. call.parameters # NotGiven
      BY <2>10, <2>11, <2>15
    <3>4. site = CallPassed
      BY <3>2, <3>3 DEF CallPassed
    <3>5. CallPassed' = CallPassed
      BY <1>1 DEF CallPassed
    <3>6. Last(call.arguments) = Exhausted /\ Last(call.parameters) \in {Exhausted, Null}
      BY <2>10, <2>13, <2>15, <3>1
    <3>7. SiteInv'
      BY <1>1, <1>2, <2>1, <3>1, <3>4, <3>5, <3>6 DEF SiteInv
    <3> QED
      BY <2>4, <2>7, <2>8, <2>9, <3>7 DEF ExtInv
  <2> QED
    BY <1>1, <2>14, <2>15
<1> QED
  BY <1>3, <1>4

-----------------------------------------------------------------------------
(* Checker_Check: the list of results *)

\* The vector of the reports on the call that was passed.
LEMMA ReportsAreSeq ==
    ASSUME call \in Calls
    PROVE  /\ Len(CheckSite(CallPassed, NoStats)) \in Nat
           /\ DOMAIN CheckSite(CallPassed, NoStats) = 1 .. Len(CheckSite(CallPassed, NoStats))
<1>1. PICK S : S = Name \cup {NotStr, Unencodable, Exhausted, Raises}
  OBVIOUS
<1>2. PICK s : s = call.arguments
  OBVIOUS
<1>3. s \in Seq(S)
  BY <1>1, <1>2, CallIs DEF Iterable
<1>4. Front(s) = SubSeq(s, 1, Len(s) - 1)
  BY <1>3, FirstItems
<1>5. PICK q : q = Front(s)
  OBVIOUS
<1>6. q \in Seq(S)
  BY <1>3, <1>4, <1>5
<1>7. DOMAIN q = 1 .. Len(q) /\ Len(q) \in Nat
  BY <1>6
<1>8. PICK f : f = [k \in 1 .. Len(q) |-> <<q[k]>>]
  OBVIOUS
<1>9. f \in Seq(Seq(S))
  BY <1>6, <1>7, <1>8
<1>10. CallPassed.args = f
  BY <1>2, <1>5, <1>7, <1>8 DEF CallPassed, SiteOf
<1>11. PICK c : c = CallPassed
  OBVIOUS
<1>12. Len(c.args) \in Nat
  BY <1>9, <1>10, <1>11
<1>13. CheckSite(c, NoStats) \in Seq(Deserved(c, "All", NoStats))
  BY <1>12, CheckSiteIs
<1> QED
  BY <1>11, <1>13

\* PyList_New, and the reports.
LEMMA NewListInv ==
    ASSUME ExtInv, dropped = {}, NewList
    PROVE  ExtInv'
<1>1. pc = "list" /\ UNCHANGED <<call, source, taken>> /\ call \in Calls
  BY DEF NewList, collection, ExtInv, SiteInv
<1>2. call' \in Calls /\ source' \in {"arguments", "parameters"} /\ taken' \in Nat
  BY <1>1 DEF ExtInv, SiteInv
<1>3. CASE ReturnNull(refs, "MemoryError") /\ UNCHANGED <<heap, results, nth>>
  <2>1. nth' \in Nat \ {0} /\ heap' = heap /\ ReturnNull(refs, "MemoryError")
    BY <1>3 DEF ExtInv, ResultsInv
  <2> QED
    BY <1>1, <1>2, <2>1, NullReturned
<1>4. CASE /\ Own(2, List, Null) /\ results' = CheckSite(site, NoStats) /\ nth' = 1
           /\ pc' = "results" /\ UNCHANGED <<depth, dropped, outcome>>
  <2>1. /\ Locals(2) = {} /\ Locals(3) = {} /\ Locals(4) = {} /\ depth = 2 /\ err = "none" /\ ret = Null
        /\ Locals(1) \in SUBSET {Module, Checker, List} /\ List \notin Locals(1)
        /\ HoldersInv /\ CountInv
    BY <1>1 DEF ExtInv, LocalsInv, Building, DepthInv, OutcomeInv
  <2>2. err' = err /\ ret' = ret /\ depth' = 2 /\ dropped' = {}
    BY <1>4, <2>1 DEF outcome
  <2>3. List[1] = "list"
    BY Kinds
  <2>4. \A n \in 1 .. 4 : List \notin Locals(n)
    BY <2>1
  <2>5. List \notin DOMAIN heap
    BY <2>1, <2>3, <2>4, OnlyLocal
  <2>6. /\ HoldersInv' /\ CountInv'
        /\ Locals(2)' = Locals(2) \cup {List}
        /\ \A k : k # 2 => Locals(k)' = Locals(k)
        /\ HeldBy(List)' = {}
    <3>1. depth \in 1 .. 4 /\ depth' \in 1 .. 4 /\ 2 <= depth' /\ depth <= depth' /\ 2 \in 1 .. 4
      BY <2>1, <2>2
    <3>2. PICK o : o = List
      OBVIOUS
    <3>3. o[1] # "frame" /\ Own(2, o, Null) /\ o \notin DOMAIN heap
      BY <1>4, <2>3, <2>5, <3>2
    <3>4. /\ HoldersInv' /\ CountInv'
          /\ Locals(2)' = Locals(2) \cup {o}
          /\ \A k : k # 2 => Locals(k)' = Locals(k)
          /\ HeldBy(o)' = {}
      BY <2>1, <2>2, <3>1, <3>3, OwnKeeps
    <3> QED
      BY <3>2, <3>4 DEF HeldBy, List, Single, Obj
  <2>7. Locals(1)' = Locals(1) /\ Locals(2)' = {List} /\ Locals(3)' = {} /\ Locals(4)' = {}
    BY <2>1, <2>6
  <2>8. LocalsInv'
    BY <1>4, <2>1, <2>7 DEF LocalsInv, Building, Module, Checker, List, Single, Obj
  <2>9. DepthInv' /\ OutcomeInv' /\ ModuleInv'
    BY <1>4, <2>1, <2>2 DEF DepthInv, OutcomeInv, RaisesOrReturns, ModuleInv
  <2>10. SiteInv'
    BY <1>2, <1>4, SiteElsewhere DEF Collecting
  <2>11. ListInv' /\ FieldInv'
    <3>1. 1 .. (nth' - 1) = {}
      BY <1>4
    <3> QED
      BY <1>4, <2>6, <3>1 DEF ListInv, FieldInv, Building
  <2>12. /\ site = CallPassed /\ Last(call.arguments) = Exhausted
         /\ Last(call.parameters) \in {Exhausted, Null}
    BY <1>1 DEF ExtInv, SiteInv
  <2>13. CallPassed' = CallPassed
    BY <1>1 DEF CallPassed
  <2>14. results' = CheckSite(CallPassed', NoStats)
    BY <1>4, <2>12, <2>13
  <2>15. Len(results') \in Nat /\ DOMAIN results' = 1 .. Len(results')
    BY <1>1, <2>13, <2>14, ReportsAreSeq
  <2>16. nth' \in Nat \ {0} /\ nth' <= Len(results') + 1
    BY <1>4, <2>15
  <2>17. ResultsInv'
    BY <1>1, <1>4, <2>12, <2>14, <2>15, <2>16 DEF ResultsInv, Building
  <2> QED
    BY <2>6, <2>8, <2>9, <2>10, <2>11, <2>17 DEF ExtInv
<1> QED
  BY <1>3, <1>4 DEF NewList

\* The containers that make up a dict with the given entries.
LEMMA DictKept ==
    ASSUME CountInv, NEW k, NEW F, DictHolds(k, F), results' = results,
           HeldBy(Dict(k))' = HeldBy(Dict(k)),
           \A f \in F : HeldBy(Value(k, f))' = HeldBy(Value(k, f)),
           \A x \in DOMAIN heap : heap'[x].value = heap[x].value
    PROVE  DictHolds(k, F)'
<1>1. HeldBy(Dict(k)) = {<<Dict(k), f, Value(k, f)>> : f \in F}
  BY DEF DictHolds
<1>2. ASSUME NEW f \in F
      PROVE  Value(k, f) \in DOMAIN heap
  <2>1. <<Dict(k), f, Value(k, f)>> \in refs
    BY <1>1, <1>2 DEF HeldBy
  <2>2. PICK r : r = <<Dict(k), f, Value(k, f)>>
    OBVIOUS
  <2>3. r \in refs /\ r[3] = Value(k, f)
    BY <2>1, <2>2
  <2> QED
    BY <2>3 DEF CountInv, CountsAreReferences
<1>3. ASSUME NEW f \in F
      PROVE  ValueIsComplete(k, f)'
  <2>1. ValueIsComplete(k, f)
    BY <1>3 DEF DictHolds
  <2>2. heap'[Value(k, f)].value = heap[Value(k, f)].value
    BY <1>2, <1>3
  <2>3. HeldBy(Value(k, f))' = HeldBy(Value(k, f))
    BY <1>3
  <2> QED
    BY <2>1, <2>2, <2>3 DEF ValueIsComplete, SetHolds, Value, Str, Obj
<1> QED
  BY <1>1, <1>3 DEF DictHolds, Dict, Value, Obj

\* The results that were converted stay, whatever happens to other containers.
LEMMA ConvertedKept ==
    ASSUME CountInv, NEW n, HeldBy(List) = {<<List, k, Dict(k)>> : k \in 1 .. (n - 1)},
           \A k \in 1 .. (n - 1) : DictHolds(k, Fields), results' = results,
           NEW X, X # List, \A k \in 1 .. (n - 1) : X # Dict(k) /\ \A f : X # Value(k, f),
           \A c : c[1] # "frame" /\ c # X => HeldBy(c)' = HeldBy(c),
           \A x \in DOMAIN heap : heap'[x].value = heap[x].value
    PROVE  /\ HeldBy(List)' = {<<List, k, Dict(k)>> : k \in 1 .. (n - 1)}
           /\ \A k \in 1 .. (n - 1) : DictHolds(k, Fields)'
<1>1. HeldBy(List)' = HeldBy(List)
  <2>1. PICK c : c = List
    OBVIOUS
  <2>2. c[1] # "frame" /\ c # X
    BY <2>1, Kinds
  <2>3. HeldBy(c)' = HeldBy(c)
    BY <2>2
  <2> QED
    BY <2>1, <2>3 DEF HeldBy, List, Single, Obj
<1>2. ASSUME NEW k \in 1 .. (n - 1)
      PROVE  DictHolds(k, Fields)'
  <2>1. PICK d : d = Dict(k)
    OBVIOUS
  <2>2. d[1] # "frame" /\ d # X
    BY <2>1, Kinds
  <2>3. HeldBy(d)' = HeldBy(d)
    BY <2>2
  <2>4. HeldBy(Dict(k))' = HeldBy(Dict(k))
    BY <2>1, <2>3 DEF HeldBy, Dict, Obj
  <2>5. ASSUME NEW f
        PROVE  HeldBy(Value(k, f))' = HeldBy(Value(k, f))
    <3>1. PICK v : v = Value(k, f)
      OBVIOUS
    <3>2. v[1] # "frame" /\ v # X
      BY <3>1, Kinds
    <3>3. HeldBy(v)' = HeldBy(v)
      BY <3>2
    <3> QED
      BY <3>1, <3>3 DEF HeldBy, Value, Obj
  <2>6. PICK F : F = Fields
    OBVIOUS
  <2>7. DictHolds(k, F)'
    <3>1. DictHolds(k, F)
      BY <2>6
    <3> QED
      BY <2>4, <2>5, <3>1, DictKept
  <2> QED
    BY <2>6, <2>7 DEF Fields
<1> QED
  BY <1>1, <1>2

\* So does what is known of the results.
LEMMA ResultsKept ==
    ASSUME ResultsInv, ListIsAlive, UNCHANGED <<call, results>>, nth' \in Nat \ {0},
           nth' <= Len(results) + 1, Building' \/ pc' = "append" => nth' <= Len(results),
           pc' = "returned" /\ ret' = List => nth' = Len(results) + 1
    PROVE  ResultsInv'
<1>1. CallPassed' = CallPassed
  BY DEF CallPassed
<1> QED
  BY <1>1 DEF ResultsInv, List, Single, Obj

\* The locals while a dict is being made.
LEMMA LocalsInDict ==
    ASSUME pc' \in {"field", "put", "morphemes", "add morpheme"}, NEW k, nth' = k, NEW f, field' = f,
           Locals(1)' \in SUBSET {Module, Checker, List}, List \notin Locals(1)', Locals(2)' = {List},
           Locals(3)' = DictLocals(k, f) \cup (IF pc' = "put" THEN {Value(k, f)} ELSE {}),
           pc' = "morphemes" => Locals(4)' = {Value(k, f)},
           pc' = "add morpheme" => \E m \in todo' : Locals(4)' = {Value(k, f), Str(k, f, m)},
           pc' \in {"field", "put"} => Locals(4)' = {}
    PROVE  LocalsInv'
<1>1. DictLocals(nth, field)' = DictLocals(k, f) /\ Value(nth, field)' = Value(k, f)
  BY DEF DictLocals, Dict, Value, Obj, FieldsBefore, Fields
<1>2. \A m : Str(nth, field, m)' = Str(k, f, m)
  BY DEF Str, Obj
<1>3. /\ Locals(1)' \in SUBSET {Module, Checker, List}'
      /\ List \in Locals(1)' <=> pc' = "returned" /\ ret' = List
  BY DEF Module, Checker, List, Single, Obj
<1>4. CASE pc' = "put"
  BY <1>1, <1>3, <1>4 DEF LocalsInv, Building, List, Single, Obj
<1>5. CASE pc' = "field"
  BY <1>1, <1>3, <1>5 DEF LocalsInv, Building, List, Single, Obj
<1>6. CASE pc' = "morphemes"
  BY <1>1, <1>3, <1>6 DEF LocalsInv, Building, List, Single, Obj
<1>7. CASE pc' = "add morpheme"
  BY <1>1, <1>2, <1>3, <1>7 DEF LocalsInv, Building, List, Single, Obj
<1> QED
  BY <1>4, <1>5, <1>6, <1>7

\* The parts of ListInv after a step.
LEMMA ListAfter ==
    ASSUME NEW n, nth' = n, NEW f, field' = f, NEW F, F = FieldsBefore(f),
           HeldBy(List)' = {<<List, k, Dict(k)>> : k \in 1 .. (n - 1)},
           \A k \in 1 .. (n - 1) : DictHolds(k, Fields)',
           Building' => DictHolds(n, F)',
           pc' = "put" => ValueIsComplete(n, f)',
           pc' \in {"morphemes", "add morpheme"} =>
               todo' \subseteq results'[n][f] /\ SetHolds(n, f, results[n][f] \ todo)',
           pc' = "append" /\ err' = "none" => DictHolds(n, Fields)'
    PROVE  ListInv'
<1>1. (\A k \in 1 .. (nth - 1) : DictHolds(k, Fields))'
  OBVIOUS
<1>2. (HeldBy(List) = {<<List, k, Dict(k)>> : k \in 1 .. (nth - 1)})'
  BY DEF List, Single, Obj, Dict
<1>3. (Building => DictHolds(nth, FieldsBefore(field)))'
  <2>1. FieldsBefore(field)' = F
    BY DEF FieldsBefore, Fields
  <2> QED
    BY <2>1
<1>4. (pc = "put" => ValueIsComplete(nth, field))'
  OBVIOUS
<1>5. (pc \in {"morphemes", "add morpheme"} =>
          /\ todo \subseteq results[nth][field]
          /\ SetHolds(nth, field, results[nth][field] \ todo))'
  OBVIOUS
<1>6. (pc = "append" /\ err = "none" => DictHolds(nth, Fields))'
  OBVIOUS
<1> QED
  BY <1>1, <1>2, <1>3, <1>4, <1>5, <1>6 DEF ListInv

\* What is so while results are being converted.
LEMMA InConversion ==
    ASSUME ExtInv, Building \/ pc \in {"results", "append"}
    PROVE  /\ Locals(1) \in SUBSET {Module, Checker, List} /\ List \notin Locals(1)
           /\ HeldBy(List) = {<<List, k, Dict(k)>> : k \in 1 .. (nth - 1)}
           /\ \A k \in 1 .. (nth - 1) : DictHolds(k, Fields)
           /\ HoldersInv /\ CountInv /\ ResultsInv /\ ListIsAlive
           /\ nth \in Nat \ {0} /\ Len(results) \in Nat /\ DOMAIN results = 1 .. Len(results)
           /\ nth <= Len(results) + 1 /\ ret = Null /\ depth \in 1 .. 4
           /\ call \in Calls /\ source \in {"arguments", "parameters"} /\ taken \in Nat
<1>1. ListIsAlive
  BY DEF ListIsAlive
<1>2. /\ HeldBy(List) = {<<List, k, Dict(k)>> : k \in 1 .. (nth - 1)}
      /\ \A k \in 1 .. (nth - 1) : DictHolds(k, Fields)
  BY <1>1 DEF ExtInv, ListInv
<1>3. /\ nth \in Nat \ {0} /\ Len(results) \in Nat /\ DOMAIN results = 1 .. Len(results)
      /\ nth <= Len(results) + 1
  BY <1>1 DEF ExtInv, ResultsInv
<1>4. pc # "returned"
  BY DEF Building
<1>5. depth \in 1 .. 4
  BY DepthIs DEF ExtInv
<1>6. Locals(1) \in SUBSET {Module, Checker, List} /\ List \notin Locals(1)
  BY <1>4 DEF ExtInv, LocalsInv
<1> QED
  BY <1>1, <1>2, <1>3, <1>4, <1>5, <1>6 DEF ExtInv, OutcomeInv, SiteInv

\* PyDict_New.
LEMMA NewDictInv ==
    ASSUME ExtInv, dropped = {}, NewDict
    PROVE  ExtInv'
<1>1. /\ pc = "results" /\ nth \in DOMAIN results /\ depth' = 3 /\ Own(3, Dict(nth), Null)
      /\ field' = "arg1" /\ pc' = "field"
      /\ UNCHANGED <<dropped, err, ret, call, source, taken, results, nth, todo>>
  BY DEF NewDict, outcome, collection
<1>2. Building \/ pc \in {"results", "append"}
  BY <1>1
<1>3. /\ Locals(1) \in SUBSET {Module, Checker, List} /\ List \notin Locals(1)
      /\ HeldBy(List) = {<<List, k, Dict(k)>> : k \in 1 .. (nth - 1)}
      /\ \A k \in 1 .. (nth - 1) : DictHolds(k, Fields)
      /\ HoldersInv /\ CountInv /\ ResultsInv /\ ListIsAlive
      /\ nth \in Nat \ {0} /\ Len(results) \in Nat /\ DOMAIN results = 1 .. Len(results)
      /\ call \in Calls /\ source \in {"arguments", "parameters"} /\ taken \in Nat
  BY <1>2, InConversion
<1>4. Locals(2) = {List} /\ Locals(3) = {} /\ Locals(4) = {} /\ depth = 2 /\ err = "none" /\ ret = Null
  BY <1>1 DEF ExtInv, LocalsInv, Building, DepthInv, OutcomeInv
<1>5. PICK n \in 1 .. Len(results) : n = nth
  BY <1>1, <1>3
<1>6. PICK o : o = Dict(n)
  OBVIOUS
<1>7. o[1] = "dict" /\ o \notin {Module, Checker, List}
  BY <1>6, Kinds
<1>8. <<List, n, Dict(n)>> \notin refs
  <2>1. n \notin 1 .. (n - 1)
    BY <1>3
  <2>2. \A k : <<List, k, Dict(k)>> = <<List, n, Dict(n)>> => k = n
    OBVIOUS
  <2>3. <<List, n, Dict(n)>> \notin HeldBy(List)
    BY <1>3, <1>5, <2>1, <2>2
  <2> QED
    BY <2>3 DEF HeldBy
<1>9. o \notin DOMAIN heap
  <2>1. \A k \in 1 .. 4 : Dict(n) \notin Locals(k)
    BY <1>3, <1>4, <1>6, <1>7
  <2>2. depth \in 1 .. 4
    BY <1>4
  <2> QED
    BY <1>3, <1>6, <1>8, <2>1, <2>2, DictHolder
<1>10. /\ HoldersInv' /\ CountInv'
       /\ Locals(3)' = Locals(3) \cup {o}
       /\ \A k : k # 3 => Locals(k)' = Locals(k)
       /\ \A c : c[1] # "frame" => HeldBy(c)' = HeldBy(c)
       /\ HeldBy(o)' = {}
       /\ \A x \in DOMAIN heap : x \in DOMAIN heap' /\ heap'[x] = heap[x]
  <2>1. depth \in 1 .. 4 /\ depth' \in 1 .. 4 /\ 3 <= depth' /\ depth <= depth' /\ 3 \in 1 .. 4
    BY <1>1, <1>4
  <2>2. o[1] # "frame" /\ Own(3, o, Null) /\ dropped' = {}
    BY <1>1, <1>5, <1>6, <1>7
  <2> QED
    BY <1>3, <1>9, <2>1, <2>2, OwnKeeps
<1>11. FieldsBefore("arg1") = {}
  BY DEF FieldsBefore
<1>12. LocalsInv'
  <2>1. DictLocals(n, "arg1") = {o}
    BY <1>6, <1>11 DEF DictLocals
  <2>2. Locals(1)' = Locals(1) /\ Locals(2)' = {List} /\ Locals(3)' = {o} /\ Locals(4)' = {}
    BY <1>4, <1>10
  <2>3. PICK f : f = "arg1"
    OBVIOUS
  <2>4. /\ nth' = n /\ field' = f
        /\ Locals(3)' = DictLocals(n, f) \cup (IF pc' = "put" THEN {Value(n, f)} ELSE {})
    BY <1>1, <1>5, <2>1, <2>2, <2>3
  <2> QED
    BY <1>1, <1>3, <2>2, <2>4, LocalsInDict
<1>13. DepthInv' /\ OutcomeInv' /\ ModuleInv' /\ FieldInv'
  BY <1>1, <1>4 DEF DepthInv, OutcomeInv, RaisesOrReturns, ModuleInv, FieldInv, Fields
<1>14. SiteInv'
  BY <1>1, <1>3, SiteElsewhere DEF Collecting
<1>15. ResultsInv'
  <2>1. nth' \in Nat \ {0} /\ nth' <= Len(results) + 1 /\ nth' <= Len(results)
    BY <1>1, <1>3, <1>5
  <2> QED
    BY <1>1, <1>3, <2>1, ResultsKept
<1>16. /\ HeldBy(List)' = {<<List, k, Dict(k)>> : k \in 1 .. (n - 1)}
       /\ \A k \in 1 .. (n - 1) : DictHolds(k, Fields)'
  <2>1. PICK X : X = Type
    OBVIOUS
  <2>2. X # List /\ \A k \in 1 .. (n - 1) : X # Dict(k) /\ \A f : X # Value(k, f)
    BY <2>1, Kinds
  <2>3. /\ HeldBy(List) = {<<List, k, Dict(k)>> : k \in 1 .. (n - 1)}
        /\ \A k \in 1 .. (n - 1) : DictHolds(k, Fields)
    BY <1>3, <1>5
  <2>4. \A x \in DOMAIN heap : heap'[x].value = heap[x].value
    BY <1>10
  <2> QED
    BY <1>1, <1>3, <1>10, <2>2, <2>3, <2>4, ConvertedKept
<1>17. DictHolds(n, {})'
  BY <1>6, <1>10 DEF DictHolds, HeldBy, Dict, Obj
<1>18. ListInv'
  <2>1. PICK f, F : f = "arg1" /\ F = FieldsBefore(f)
    OBVIOUS
  <2>2. F = {}
    BY <1>11, <2>1
  <2>3. DictHolds(n, F)'
    BY <1>17, <2>2
  <2>4. nth' = n /\ field' = f /\ pc' = "field"
    BY <1>1, <1>5, <2>1
  <2> QED
    BY <1>16, <2>1, <2>3, <2>4, ListAfter
<1> QED
  BY <1>10, <1>12, <1>13, <1>14, <1>15, <1>18 DEF ExtInv

\* What is so while a dict is being made.
LEMMA InDict ==
    ASSUME ExtInv, Building
    PROVE  /\ Locals(2) = {List}
           /\ Locals(3) = DictLocals(nth, field) \cup (IF pc = "put" THEN {Value(nth, field)} ELSE {})
           /\ DictHolds(nth, FieldsBefore(field))
           /\ err = "none" /\ nth <= Len(results) /\ nth \in DOMAIN results
<1>1. pc \in {"field", "put", "morphemes", "add morpheme"}
  BY DEF Building
<1>2. Locals(2) = {List}
  BY <1>1 DEF ExtInv, LocalsInv
<1>3. Locals(3) = DictLocals(nth, field) \cup (IF pc = "put" THEN {Value(nth, field)} ELSE {})
  <2>1. CASE pc = "put"
    BY <2>1 DEF ExtInv, LocalsInv
  <2>2. CASE pc # "put"
    <3>1. Locals(3) = DictLocals(nth, field)
      BY <2>2 DEF ExtInv, LocalsInv
    <3> QED
      BY <2>2, <3>1
  <2> QED
    BY <2>1, <2>2
<1>4. DictHolds(nth, FieldsBefore(field))
  BY DEF ExtInv, ListInv
<1>5. err = "none"
  BY <1>1 DEF ExtInv, OutcomeInv
<1>6. nth <= Len(results) /\ nth \in Nat \ {0} /\ Len(results) \in Nat /\ DOMAIN results = 1 .. Len(results)
  BY DEF ExtInv, ResultsInv, ListIsAlive
<1> QED
  BY <1>2, <1>3, <1>4, <1>5, <1>6

\* Positions in a list.
LEMMA UpTo ==
    \A i \in Nat \ {0} : /\ i \in 1 .. i
                         /\ \A k \in 1 .. (i - 1) : k \in 1 .. i
                         /\ \A l \in Nat : i <= l => i <= l + 1
OBVIOUS

\* A container that is neither the list, nor one of its dicts, nor an entry of
\* theirs or a finished one of the n-th.
Apart(X, n, F) ==
    /\ X # List /\ \A k \in 1 .. n : X # Dict(k)
    /\ \A k \in 1 .. (n - 1) : \A g : X # Value(k, g)
    /\ \A g \in F : X # Value(n, g)

\* A step that leaves the other containers, and the values, alone.
OnlyTouches(X) ==
    /\ \A c : c[1] # "frame" /\ c # X => HeldBy(c)' = HeldBy(c)
    /\ \A x \in DOMAIN heap : heap'[x].value = heap[x].value
    /\ UNCHANGED <<call, source, taken, results, err, ret>>

\* The dict in hand stays, too, and with it all the rest, as long as the
\* function goes on.
LEMMA DictInHand ==
    ASSUME ExtInv, Building, NEW n, nth = n, nth' = n, NEW F, F = FieldsBefore(field),
           pc' \in {"field", "put", "morphemes", "add morpheme", "append"},
           NEW X, Apart(X, n, F), OnlyTouches(X)
    PROVE  /\ HeldBy(List)' = {<<List, k, Dict(k)>> : k \in 1 .. (n - 1)}
           /\ \A k \in 1 .. (n - 1) : DictHolds(k, Fields)'
           /\ DictHolds(n, F)'
           /\ OutcomeInv' /\ ModuleInv' /\ SiteInv' /\ ResultsInv'
<1> USE DEF Apart, OnlyTouches
<1>1. /\ HeldBy(List) = {<<List, k, Dict(k)>> : k \in 1 .. (nth - 1)}
      /\ \A k \in 1 .. (nth - 1) : DictHolds(k, Fields)
      /\ CountInv /\ ResultsInv /\ ListIsAlive
      /\ nth \in Nat \ {0} /\ Len(results) \in Nat /\ ret = Null
      /\ call \in Calls /\ source \in {"arguments", "parameters"} /\ taken \in Nat
  BY InConversion
<1>2. DictHolds(nth, FieldsBefore(field)) /\ err = "none" /\ nth <= Len(results)
  BY InDict
<1>3. n \in Nat \ {0} /\ n \in 1 .. n /\ \A k \in 1 .. (n - 1) : k \in 1 .. n
  <2>1. n \in Nat \ {0}
    BY <1>1
  <2> QED
    BY <2>1, UpTo
<1>4. /\ HeldBy(List)' = {<<List, k, Dict(k)>> : k \in 1 .. (n - 1)}
      /\ \A k \in 1 .. (n - 1) : DictHolds(k, Fields)'
  <2>1. /\ HeldBy(List) = {<<List, k, Dict(k)>> : k \in 1 .. (n - 1)}
        /\ \A k \in 1 .. (n - 1) : DictHolds(k, Fields)
        /\ \A k \in 1 .. (n - 1) : X # Dict(k) /\ \A g : X # Value(k, g)
        /\ results' = results
    BY <1>1, <1>3
  <2> QED
    BY <1>1, <2>1, ConvertedKept
<1>5. DictHolds(n, F)'
  <2>1. PICK d : d = Dict(n)
    OBVIOUS
  <2>2. d[1] # "frame" /\ d # X
    BY <1>3, <2>1, Kinds
  <2>3. HeldBy(d)' = HeldBy(d)
    BY <2>2
  <2>4. HeldBy(Dict(n))' = HeldBy(Dict(n))
    BY <2>1, <2>3 DEF HeldBy, Dict, Obj
  <2>5. ASSUME NEW g \in F
        PROVE  HeldBy(Value(n, g))' = HeldBy(Value(n, g))
    <3>1. PICK v : v = Value(n, g)
      OBVIOUS
    <3>2. v[1] # "frame" /\ v # X
      BY <2>5, <3>1, Kinds
    <3>3. HeldBy(v)' = HeldBy(v)
      BY <3>2
    <3> QED
      BY <3>1, <3>3 DEF HeldBy, Value, Obj
  <2>6. DictHolds(n, F) /\ results' = results
    BY <1>2
  <2> QED
    BY <1>1, <2>4, <2>5, <2>6, DictKept
<1>6. OutcomeInv' /\ ModuleInv'
  BY <1>1, <1>2 DEF OutcomeInv, RaisesOrReturns, ModuleInv
<1>7. SiteInv'
  BY <1>1, SiteElsewhere DEF Collecting
<1>8. ResultsInv'
  <2>1. PICK l \in Nat : l = Len(results)
    BY <1>1
  <2>2. n \in Nat \ {0} /\ n <= l
    BY <1>2, <1>3, <2>1
  <2>3. n <= l + 1
    BY <2>2, UpTo
  <2>4. nth' \in Nat \ {0} /\ nth' <= Len(results) /\ nth' <= Len(results) + 1
    BY <2>1, <2>2, <2>3
  <2> QED
    BY <1>1, <2>4, ResultsKept
<1> QED
  BY <1>4, <1>5, <1>6, <1>7, <1>8

\* The entry in hand is not among those before it, and is not yet there.
LEMMA FreshValue ==
    ASSUME ExtInv, dropped = {}, pc = "field", field \in Fields, NEW n, n = nth, NEW f, f = field
    PROVE  Value(n, f) \notin DOMAIN heap
<1>1. Building
  BY DEF Building
<1>2. Locals(1) \in SUBSET {Module, Checker, List} /\ HoldersInv /\ CountInv /\ depth \in 1 .. 4
  BY <1>1, InConversion
<1>3. /\ Locals(2) = {List} /\ Locals(3) = DictLocals(n, f)
      /\ DictHolds(n, FieldsBefore(f))
  BY <1>1, InDict
<1>4. Locals(4) = {}
  BY DEF ExtInv, LocalsInv
<1>5. f \notin FieldsBefore(f)
  BY DEF FieldsBefore, Fields
<1>6. \A g \in FieldsBefore(f) : Value(n, f) # Value(n, g)
  BY <1>5, Identities
<1>7. Value(n, f) \notin {Module, Checker, List, Dict(n)}
  BY Kinds
<1>8. \A k \in 1 .. 4 : Value(n, f) \notin Locals(k)
  BY <1>2, <1>3, <1>4, <1>6, <1>7 DEF DictLocals
<1>9. <<Dict(n), f, Value(n, f)>> \notin refs
  <2>1. HeldBy(Dict(n)) = {<<Dict(n), g, Value(n, g)>> : g \in FieldsBefore(f)}
    BY <1>3 DEF DictHolds
  <2>2. \A g : <<Dict(n), g, Value(n, g)>> = <<Dict(n), f, Value(n, f)>> => g = f
    OBVIOUS
  <2>3. <<Dict(n), f, Value(n, f)>> \notin HeldBy(Dict(n))
    BY <1>5, <2>1, <2>2
  <2> QED
    BY <2>3 DEF HeldBy
<1> QED
  BY <1>2, <1>8, <1>9, ValueHolder

\* PyLong_FromSize_t.
LEMMA NewNumberInv ==
    ASSUME ExtInv, dropped = {}, NewNumber
    PROVE  ExtInv'
<1>1. /\ pc = "field" /\ field \in {"arg1", "arg2"} /\ pc' = "put"
      /\ Own(3, Value(nth, field), results[nth][field])
      /\ UNCHANGED <<depth, dropped, err, ret, call, source, taken, results, nth, field, todo>>
  BY DEF NewNumber, outcome, collection, conversion, entry
<1>2. PICK n, f, v : n = nth /\ f = field /\ v = results[nth][field]
  OBVIOUS
<1>3. PICK o, F : o = Value(n, f) /\ F = FieldsBefore(f)
  OBVIOUS
<1>4. Building /\ field \in Fields
  BY <1>1 DEF Building, Fields
<1>5. o \notin DOMAIN heap
  BY <1>1, <1>2, <1>3, <1>4, FreshValue
<1>6. Locals(1) \in SUBSET {Module, Checker, List} /\ List \notin Locals(1) /\ HoldersInv /\ CountInv
  BY <1>4, InConversion
<1>7. Locals(2) = {List} /\ Locals(3) = DictLocals(n, f)
  BY <1>1, <1>2, <1>4, InDict
<1>8. Locals(4) = {} /\ depth = 3
  BY <1>1 DEF ExtInv, LocalsInv, DepthInv
<1>9. o[1] = "value" /\ o # List
  BY <1>3, Kinds
<1>10. /\ HoldersInv' /\ CountInv'
       /\ Locals(3)' = Locals(3) \cup {o}
       /\ \A k : k # 3 => Locals(k)' = Locals(k)
       /\ \A c : c[1] # "frame" => HeldBy(c)' = HeldBy(c)
       /\ \A x \in DOMAIN heap : x \in DOMAIN heap' /\ heap'[x] = heap[x]
       /\ heap'[o].value = v
  <2>1. depth \in 1 .. 4 /\ depth' \in 1 .. 4 /\ 3 <= depth' /\ depth <= depth' /\ 3 \in 1 .. 4
    BY <1>1, <1>8
  <2>2. o[1] # "frame" /\ Own(3, o, v) /\ dropped' = {}
    BY <1>1, <1>2, <1>3, <1>9
  <2> QED
    BY <1>5, <1>6, <2>1, <2>2, OwnKeeps
<1>11. /\ HeldBy(List)' = {<<List, k, Dict(k)>> : k \in 1 .. (n - 1)}
       /\ \A k \in 1 .. (n - 1) : DictHolds(k, Fields)'
       /\ DictHolds(n, F)'
       /\ OutcomeInv' /\ ModuleInv' /\ SiteInv' /\ ResultsInv'
  <2>1. PICK X : X = Type
    OBVIOUS
  <2>2. Apart(X, n, F)
    BY <2>1, Kinds DEF Apart
  <2>3. OnlyTouches(X)
    BY <1>1, <1>10 DEF OnlyTouches
  <2>4. /\ nth = n /\ nth' = n /\ F = FieldsBefore(field)
        /\ pc' \in {"field", "put", "morphemes", "add morpheme", "append"}
    BY <1>1, <1>2, <1>3
  <2> QED
    BY <1>4, <2>2, <2>3, <2>4, DictInHand
<1>12. LocalsInv'
  <2>1. Locals(1)' = Locals(1) /\ Locals(2)' = {List} /\ Locals(4)' = {}
    BY <1>7, <1>8, <1>10
  <2>2. /\ nth' = n /\ field' = f
        /\ Locals(3)' = DictLocals(n, f) \cup (IF pc' = "put" THEN {Value(n, f)} ELSE {})
    BY <1>1, <1>2, <1>3, <1>7, <1>10
  <2> QED
    BY <1>1, <1>6, <2>1, <2>2, LocalsInDict
<1>13. DepthInv' /\ FieldInv'
  BY <1>1, <1>4, <1>8 DEF DepthInv, FieldInv
<1>14. ValueIsComplete(n, f)'
  <2>1. heap'[Value(n, f)].value = results'[n][f]
    BY <1>1, <1>2, <1>3, <1>10
  <2>2. f \in {"arg1", "arg2"}
    BY <1>1, <1>2
  <2> QED
    BY <2>1, <2>2 DEF ValueIsComplete, Value, Obj
<1>15. ListInv'
  <2>1. nth' = n /\ field' = f
    BY <1>1, <1>2
  <2> QED
    BY <1>1, <1>3, <1>11, <1>14, <2>1, ListAfter
<1> QED
  BY <1>10, <1>11, <1>12, <1>13, <1>15 DEF ExtInv

\* PySet_New.
LEMMA NewSetInv ==
    ASSUME ExtInv, dropped = {}, NewSet
    PROVE  ExtInv'
<1>1. /\ pc = "field" /\ field \in {"morphemes1", "morphemes2"} /\ pc' = "morphemes"
      /\ depth' = 4 /\ Own(4, Value(nth, field), Null) /\ todo' = results[nth][field]
      /\ UNCHANGED <<dropped, err, ret, call, source, taken, results, nth, field>>
  BY DEF NewSet, outcome, collection
<1>2. PICK n, f : n = nth /\ f = field
  OBVIOUS
<1>3. PICK o, F : o = Value(n, f) /\ F = FieldsBefore(f)
  OBVIOUS
<1>4. Building /\ field \in Fields
  BY <1>1 DEF Building, Fields
<1>5. o \notin DOMAIN heap
  BY <1>1, <1>2, <1>3, <1>4, FreshValue
<1>6. Locals(1) \in SUBSET {Module, Checker, List} /\ List \notin Locals(1) /\ HoldersInv /\ CountInv
  BY <1>4, InConversion
<1>7. Locals(2) = {List} /\ Locals(3) = DictLocals(n, f)
  BY <1>1, <1>2, <1>4, InDict
<1>8. Locals(4) = {} /\ depth = 3
  BY <1>1 DEF ExtInv, LocalsInv, DepthInv
<1>9. o[1] = "value" /\ o # List
  BY <1>3, Kinds
<1>10. /\ HoldersInv' /\ CountInv'
       /\ Locals(4)' = Locals(4) \cup {o}
       /\ \A k : k # 4 => Locals(k)' = Locals(k)
       /\ \A c : c[1] # "frame" => HeldBy(c)' = HeldBy(c)
       /\ HeldBy(o)' = {}
       /\ \A x \in DOMAIN heap : x \in DOMAIN heap' /\ heap'[x] = heap[x]
  <2>1. depth \in 1 .. 4 /\ depth' \in 1 .. 4 /\ 4 <= depth' /\ depth <= depth' /\ 4 \in 1 .. 4
    BY <1>1, <1>8
  <2>2. o[1] # "frame" /\ Own(4, o, Null) /\ dropped' = {}
    BY <1>1, <1>2, <1>3, <1>9
  <2> QED
    BY <1>5, <1>6, <2>1, <2>2, OwnKeeps
<1>11. /\ HeldBy(List)' = {<<List, k, Dict(k)>> : k \in 1 .. (n - 1)}
       /\ \A k \in 1 .. (n - 1) : DictHolds(k, Fields)'
       /\ DictHolds(n, F)'
       /\ OutcomeInv' /\ ModuleInv' /\ SiteInv' /\ ResultsInv'
  <2>1. PICK X : X = Type
    OBVIOUS
  <2>2. Apart(X, n, F)
    BY <2>1, Kinds DEF Apart
  <2>3. OnlyTouches(X)
    BY <1>1, <1>10 DEF OnlyTouches
  <2>4. /\ nth = n /\ nth' = n /\ F = FieldsBefore(field)
        /\ pc' \in {"field", "put", "morphemes", "add morpheme", "append"}
    BY <1>1, <1>2, <1>3
  <2> QED
    BY <1>4, <2>2, <2>3, <2>4, DictInHand
<1>12. LocalsInv'
  <2>1. Locals(1)' = Locals(1) /\ Locals(2)' = {List} /\ Locals(4)' = {Value(n, f)}
    BY <1>3, <1>7, <1>8, <1>10
  <2>2. /\ nth' = n /\ field' = f
        /\ Locals(3)' = DictLocals(n, f) \cup (IF pc' = "put" THEN {Value(n, f)} ELSE {})
    BY <1>1, <1>2, <1>3, <1>7, <1>10
  <2> QED
    BY <1>1, <1>6, <2>1, <2>2, LocalsInDict
<1>13. DepthInv' /\ FieldInv'
  BY <1>1 DEF DepthInv, FieldInv
<1>14. todo' \subseteq results'[n][f] /\ SetHolds(n, f, results[n][f] \ todo)'
  <2>1. todo' = results'[n][f]
    BY <1>1, <1>2
  <2>2. HeldBy(Value(n, f))' = {}
    BY <1>3, <1>10 DEF HeldBy, Value, Obj
  <2> QED
    BY <2>1, <2>2 DEF SetHolds
<1>15. ListInv'
  <2>1. nth' = n /\ field' = f
    BY <1>1, <1>2
  <2> QED
    BY <1>1, <1>3, <1>11, <1>14, <2>1, ListAfter
<1> QED
  BY <1>10, <1>11, <1>12, <1>13, <1>15 DEF ExtInv

\* What MorphemeSetToPy has.
LEMMA InSet ==
    ASSUME ExtInv, pc \in {"morphemes", "add morpheme"}
    PROVE  /\ Building /\ depth = 4 /\ field \in {"morphemes1", "morphemes2"} /\ field \in Fields
           /\ todo \subseteq results[nth][field]
           /\ SetHolds(nth, field, results[nth][field] \ todo)
           /\ Value(nth, field) \in Locals(4)
           /\ field \notin FieldsBefore(field)
<1>1. field \in {"morphemes1", "morphemes2"}
  BY DEF ExtInv, FieldInv
<1>2. Value(nth, field) \in Locals(4)
  <2>1. CASE pc = "morphemes"
    BY <2>1 DEF ExtInv, LocalsInv
  <2>2. CASE pc = "add morpheme"
    <3>1. \E m \in todo : Locals(4) = {Value(nth, field), Str(nth, field, m)}
      BY <2>2 DEF ExtInv, LocalsInv
    <3> QED
      BY <3>1
  <2> QED
    BY <2>1, <2>2
<1>3. /\ todo \subseteq results[nth][field]
      /\ SetHolds(nth, field, results[nth][field] \ todo)
  BY DEF ExtInv, ListInv
<1>4. field \in Fields /\ field \notin FieldsBefore(field)
  BY <1>1 DEF Fields, FieldsBefore
<1> QED
  BY <1>1, <1>2, <1>3, <1>4 DEF Building, ExtInv, DepthInv

\* PyUnicode_FromStringAndSize.
LEMMA NewStrInv ==
    ASSUME ExtInv, dropped = {}, NewStr
    PROVE  ExtInv'
<1>1. /\ pc = "morphemes" /\ pc' = "add morpheme"
      /\ UNCHANGED <<depth, dropped, err, ret, call, source, taken, results, nth, field, todo>>
  BY DEF NewStr, outcome, collection, conversion, entry
<1>2. PICK m \in todo : Own(4, Str(nth, field, m), m)
  BY DEF NewStr
<1>3. PICK n, f, F : n = nth /\ f = field /\ F = FieldsBefore(f)
  OBVIOUS
<1>4. PICK o, c : o = Str(n, f, m) /\ c = Value(n, f)
  OBVIOUS
<1>5. /\ Building /\ depth = 4 /\ field \in {"morphemes1", "morphemes2"}
      /\ todo \subseteq results[nth][field] /\ SetHolds(nth, field, results[nth][field] \ todo)
  BY <1>1, InSet
<1>6. /\ Locals(1) \in SUBSET {Module, Checker, List} /\ List \notin Locals(1)
      /\ HoldersInv /\ CountInv /\ depth \in 1 .. 4
  BY <1>5, InConversion
<1>7. Locals(2) = {List} /\ Locals(3) = DictLocals(n, f)
  BY <1>1, <1>3, <1>5, InDict
<1>8. Locals(4) = {Value(n, f)}
  BY <1>1, <1>3 DEF ExtInv, LocalsInv
<1>9. /\ o[1] = "str" /\ o \notin {Module, Checker, List}
      /\ o # Value(n, f) /\ o # Dict(n) /\ \A g : o # Value(n, g)
  BY <1>4, Kinds
<1>10. o \notin DOMAIN heap
  <2>1. \A k \in 1 .. 4 : Str(n, f, m) \notin Locals(k)
    BY <1>4, <1>6, <1>7, <1>8, <1>9 DEF DictLocals
  <2>2. <<Value(n, f), m, Str(n, f, m)>> \notin refs
    <3>1. HeldBy(c) = {<<Value(n, f), p, Str(n, f, p)>> : p \in results[n][f] \ todo}
      BY <1>3, <1>4, <1>5 DEF SetHolds
    <3>2. \A p : <<Value(n, f), p, Str(n, f, p)>> = <<Value(n, f), m, Str(n, f, m)>> => p = m
      OBVIOUS
    <3>3. m \notin results[n][f] \ todo
      BY <1>2
    <3>4. <<Value(n, f), m, Str(n, f, m)>> \notin HeldBy(c)
      BY <3>1, <3>2, <3>3
    <3> QED
      BY <1>4, <3>4 DEF HeldBy
  <2> QED
    BY <1>4, <1>6, <2>1, <2>2, StrHolder
<1>11. /\ HoldersInv' /\ CountInv'
       /\ Locals(4)' = Locals(4) \cup {o}
       /\ \A k : k # 4 => Locals(k)' = Locals(k)
       /\ \A x : x[1] # "frame" => HeldBy(x)' = HeldBy(x)
       /\ \A x \in DOMAIN heap : x \in DOMAIN heap' /\ heap'[x] = heap[x]
  <2>1. depth = 4 /\ depth' = 4
    BY <1>1, <1>5
  <2>2. depth \in 1 .. 4 /\ depth' \in 1 .. 4 /\ 4 <= depth' /\ depth <= depth' /\ 4 \in 1 .. 4
    BY <2>1
  <2>3. o[1] # "frame" /\ Own(4, o, m) /\ dropped' = {}
    BY <1>1, <1>2, <1>3, <1>4, <1>9
  <2> QED
    BY <1>6, <1>10, <2>2, <2>3, OwnKeeps
<1>12. /\ HeldBy(List)' = {<<List, k, Dict(k)>> : k \in 1 .. (n - 1)}
       /\ \A k \in 1 .. (n - 1) : DictHolds(k, Fields)'
       /\ DictHolds(n, F)'
       /\ OutcomeInv' /\ ModuleInv' /\ SiteInv' /\ ResultsInv'
  <2>1. PICK X : X = Type
    OBVIOUS
  <2>2. Apart(X, n, F)
    BY <2>1, Kinds DEF Apart
  <2>3. OnlyTouches(X)
    BY <1>1, <1>11 DEF OnlyTouches
  <2>4. /\ nth = n /\ nth' = n /\ F = FieldsBefore(field)
        /\ pc' \in {"field", "put", "morphemes", "add morpheme", "append"}
    BY <1>1, <1>3
  <2> QED
    BY <1>5, <2>2, <2>3, <2>4, DictInHand
<1>13. LocalsInv'
  <2>1. Locals(1)' = Locals(1) /\ Locals(2)' = {List} /\ Locals(4)' = {Value(n, f), Str(n, f, m)}
    BY <1>4, <1>7, <1>8, <1>11
  <2>2. m \in todo'
    BY <1>1, <1>2
  <2>3. nth' = n /\ field' = f
    BY <1>1, <1>3
  <2>4. Locals(3)' = DictLocals(n, f)
    BY <1>7, <1>11
  <2>5. Locals(3)' = DictLocals(n, f) \cup (IF pc' = "put" THEN {Value(n, f)} ELSE {})
    BY <1>1, <2>4
  <2> QED
    BY <1>1, <1>6, <2>1, <2>2, <2>3, <2>5, LocalsInDict
<1>14. DepthInv' /\ FieldInv'
  BY <1>1, <1>5 DEF DepthInv, FieldInv
<1>15. todo' \subseteq results'[n][f] /\ SetHolds(n, f, results[n][f] \ todo)'
  <2>1. HeldBy(c)' = HeldBy(c)
    BY <1>4, <1>11, Kinds
  <2>2. HeldBy(Value(n, f))' = HeldBy(Value(n, f))
    BY <1>4, <2>1 DEF HeldBy, Value, Obj
  <2> QED
    BY <1>1, <1>3, <1>5, <2>2 DEF SetHolds, Value, Str, Obj
<1>16. ListInv'
  <2>1. nth' = n /\ field' = f
    BY <1>1, <1>3
  <2> QED
    BY <1>1, <1>3, <1>12, <1>15, <2>1, ListAfter
<1> QED
  BY <1>11, <1>12, <1>13, <1>14, <1>16 DEF ExtInv

\* PySet_Add, and the str is let go.
LEMMA AddMorphemeInv ==
    ASSUME ExtInv, dropped = {}, AddMorpheme
    PROVE  ExtInv'
<1>1. /\ pc = "add morpheme" /\ pc' = "morphemes"
      /\ UNCHANGED <<depth, err, ret, call, source, taken, results, nth, field>>
  BY DEF AddMorpheme, outcome, collection
<1>2. PICK m \in todo :
          /\ Str(nth, field, m) \in Locals(4)
          /\ Put(Value(nth, field), m, Str(nth, field, m))
          /\ dropped' = {Local(4, Str(nth, field, m))}
          /\ todo' = todo \ {m}
  BY DEF AddMorpheme, Destroyed
<1>3. PICK n, f, F : n = nth /\ f = field /\ F = FieldsBefore(f)
  OBVIOUS
<1>4. PICK o, c : o = Str(n, f, m) /\ c = Value(n, f)
  OBVIOUS
<1>5. /\ Building /\ depth = 4 /\ field \in {"morphemes1", "morphemes2"}
      /\ todo \subseteq results[nth][field] /\ SetHolds(nth, field, results[nth][field] \ todo)
      /\ Value(nth, field) \in Locals(4) /\ field \notin FieldsBefore(field)
  BY <1>1, InSet
<1>6. /\ Locals(1) \in SUBSET {Module, Checker, List} /\ List \notin Locals(1)
      /\ HoldersInv /\ CountInv
  BY <1>5, InConversion
<1>7. Locals(2) = {List} /\ Locals(3) = DictLocals(n, f)
  BY <1>1, <1>3, <1>5, InDict
<1>8. c[1] = "value" /\ o[1] = "str" /\ c # o
  BY <1>4, Kinds
<1>9. Locals(4) = {c, o}
  <2>1. PICK p \in todo : Locals(4) = {Value(nth, field), Str(nth, field, p)}
    BY <1>1 DEF ExtInv, LocalsInv
  <2>2. Str(n, f, m) = Value(n, f) \/ Str(n, f, m) = Str(n, f, p)
    BY <1>2, <1>3, <2>1
  <2>3. p = m
    BY <1>4, <1>8, <2>2, Identities
  <2> QED
    BY <1>3, <1>4, <2>1, <2>3
<1>10. HeldBy(c) = {<<c, p, Str(n, f, p)>> : p \in results[n][f] \ todo}
  BY <1>3, <1>4, <1>5 DEF SetHolds
<1>11. <<c, m, o>> \notin refs
  <2>1. \A p : <<c, p, Str(n, f, p)>> = <<c, m, o>> => p = m
    OBVIOUS
  <2>2. m \notin results[n][f] \ todo
    BY <1>2
  <2>3. <<c, m, o>> \notin HeldBy(c)
    BY <1>10, <2>1, <2>2
  <2> QED
    BY <2>3 DEF HeldBy
<1>12. RefForm(<<c, m, o>>)
  <2>1. PICK r : r = <<c, m, o>>
    OBVIOUS
  <2>2. r[1] = c /\ r[2] = m
    BY <2>1
  <2>3. c[2] = n /\ c[3] = f
    BY <1>4 DEF Value, Obj
  <2>4. r = <<Value(r[1][2], r[1][3]), r[2], Str(r[1][2], r[1][3], r[2])>>
    BY <1>4, <2>1, <2>2, <2>3
  <2>5. RefForm(r)
    BY <2>4 DEF RefForm
  <2> QED
    BY <2>1, <2>5
<1>13. c \in DOMAIN heap
  <2>1. Local(4, c) \in refs
    BY <1>6, <1>9, LocalsAre
  <2>2. Local(4, c)[3] = c
    BY LocalIs
  <2> QED
    BY <1>6, <2>1, <2>2 DEF CountInv, CountsAreReferences
<1>14. /\ HoldersInv' /\ CountInv'
       /\ Locals(4)' = Locals(4) \ {o}
       /\ \A k \in 1 .. 4 : k # 4 => Locals(k)' = Locals(k)
       /\ HeldBy(c)' = HeldBy(c) \cup {<<c, m, o>>}
       /\ \A x : x # c => HeldBy(x)' = HeldBy(x)
       /\ \A x \in DOMAIN heap : heap'[x].value = heap[x].value
  <2>1. 4 \in 1 .. 4 /\ o \in Locals(4)
    BY <1>9
  <2>2. dropped' = {Local(4, o)}
    BY <1>2, <1>3, <1>4
  <2>3. Put(c, m, o) /\ depth' = depth
    BY <1>1, <1>2, <1>3, <1>4
  <2>4. PICK r : r = <<c, m, o>>
    OBVIOUS
  <2>5. r[1] = c /\ r[3] = o /\ r \notin refs /\ RefForm(r)
    BY <1>11, <1>12, <2>4
  <2>6. Takes(c, r, 4, o)
    BY <1>13, <2>1, <2>2, <2>3, <2>4, <2>5 DEF Takes, Put
  <2>7. HasTaken(c, r, 4, o)
    BY <1>6, <2>1, <2>3, <2>6, PutKeeps
  <2>8. dropped' # {}
    BY <2>2
  <2> QED
    BY <2>4, <2>7, <2>8 DEF HasTaken
<1>15. /\ HeldBy(List)' = {<<List, k, Dict(k)>> : k \in 1 .. (n - 1)}
       /\ \A k \in 1 .. (n - 1) : DictHolds(k, Fields)'
       /\ DictHolds(n, F)'
       /\ OutcomeInv' /\ ModuleInv' /\ SiteInv' /\ ResultsInv'
  <2>1. Apart(c, n, F)
    <3>1. c # List /\ \A k : c # Dict(k)
      BY <1>8, Kinds
    <3>2. \A k, g : c = Value(k, g) => k = n /\ g = f
      BY <1>4, Identities
    <3>3. n \in Nat
      BY <1>3 DEF ExtInv, ResultsInv
    <3>4. n \notin 1 .. (n - 1)
      BY <3>3
    <3>5. f \notin F
      BY <1>3, <1>5
    <3> QED
      BY <3>1, <3>2, <3>4, <3>5 DEF Apart
  <2>2. OnlyTouches(c)
    BY <1>1, <1>14 DEF OnlyTouches
  <2>3. /\ nth = n /\ nth' = n /\ F = FieldsBefore(field)
        /\ pc' \in {"field", "put", "morphemes", "add morpheme", "append"}
    BY <1>1, <1>3
  <2> QED
    BY <1>5, <2>1, <2>2, <2>3, DictInHand
<1>16. LocalsInv'
  <2>1. Locals(1)' = Locals(1) /\ Locals(2)' = {List} /\ Locals(4)' = {Value(n, f)}
    BY <1>4, <1>7, <1>8, <1>9, <1>14
  <2>2. nth' = n /\ field' = f
    BY <1>1, <1>3
  <2>3. Locals(3)' = DictLocals(n, f)
    BY <1>7, <1>14
  <2>4. Locals(3)' = DictLocals(n, f) \cup (IF pc' = "put" THEN {Value(n, f)} ELSE {})
    BY <1>1, <2>3
  <2> QED
    BY <1>1, <1>6, <2>1, <2>2, <2>4, LocalsInDict
<1>17. DepthInv' /\ FieldInv'
  BY <1>1, <1>5 DEF DepthInv, FieldInv
<1>18. todo' \subseteq results'[n][f] /\ SetHolds(n, f, results[n][f] \ todo)'
  <2>1. results[n][f] \ todo' = (results[n][f] \ todo) \cup {m}
    BY <1>2, <1>3, <1>5
  <2>2. HeldBy(c)' = {<<c, p, Str(n, f, p)>> : p \in results[n][f] \ todo'}
    BY <1>4, <1>10, <1>14, <2>1
  <2>3. HeldBy(Value(n, f))' = {<<Value(n, f), p, Str(n, f, p)>> : p \in results[n][f] \ todo'}
    BY <1>4, <2>2 DEF HeldBy, Value, Obj
  <2>4. todo' \subseteq results'[n][f] /\ results'[n][f] \ todo' = results[n][f] \ todo'
    BY <1>1, <1>2, <1>3, <1>5
  <2> QED
    BY <2>3, <2>4 DEF SetHolds, Value, Str, Obj
<1>19. ListInv'
  <2>1. nth' = n /\ field' = f
    BY <1>1, <1>3
  <2> QED
    BY <1>1, <1>3, <1>15, <1>18, <2>1, ListAfter
<1> QED
  BY <1>14, <1>15, <1>16, <1>17, <1>19 DEF ExtInv

\* The set goes to ResultToPy.
LEMMA ReturnSetInv ==
    ASSUME ExtInv, dropped = {}, ReturnSet
    PROVE  ExtInv'
<1>1. /\ pc = "morphemes" /\ todo = {} /\ ReturnFromFrame(Value(nth, field)) /\ pc' = "put"
      /\ UNCHANGED <<heap, err, ret, call, source, taken, results, nth, field, todo>>
  BY DEF ReturnSet, outcome, collection, conversion, entry
<1>2. PICK n, f, F : n = nth /\ f = field /\ F = FieldsBefore(f)
  OBVIOUS
<1>3. PICK o : o = Value(n, f)
  OBVIOUS
<1>4. /\ Building /\ depth = 4 /\ field \in {"morphemes1", "morphemes2"} /\ field \in Fields
      /\ SetHolds(nth, field, results[nth][field] \ todo) /\ field \notin FieldsBefore(field)
  BY <1>1, InSet
<1>5. /\ Locals(1) \in SUBSET {Module, Checker, List} /\ List \notin Locals(1)
      /\ HoldersInv /\ CountInv
  BY <1>4, InConversion
<1>6. Locals(2) = {List} /\ Locals(3) = DictLocals(n, f)
  BY <1>1, <1>2, <1>4, InDict
<1>7. Locals(4) = {o}
  BY <1>1, <1>2, <1>3 DEF ExtInv, LocalsInv
<1>8. o \notin Locals(3)
  <2>1. o # Dict(n)
    BY <1>3, Kinds
  <2>2. \A g \in FieldsBefore(f) : o # Value(n, g)
    BY <1>2, <1>3, <1>4, Identities
  <2> QED
    BY <1>6, <2>1, <2>2 DEF DictLocals
<1>9. /\ HoldersInv' /\ CountInv'
      /\ Locals(3)' = Locals(3) \cup {o}
      /\ Locals(4)' = {}
      /\ \A k \in 1 .. 4 : k # 4 /\ k # 3 => Locals(k)' = Locals(k)
      /\ \A c : c[1] # "frame" => HeldBy(c)' = HeldBy(c)
  <2>1. PICK d \in 2 .. 4 : d = 4
    OBVIOUS
  <2>2. depth = d /\ o \in Locals(d) /\ o \notin Locals(d - 1) /\ ReturnFromFrame(o) /\ heap' = heap
    BY <1>1, <1>2, <1>3, <1>4, <1>7, <1>8, <2>1
  <2>3. /\ HoldersInv' /\ CountInv'
        /\ Locals(d - 1)' = Locals(d - 1) \cup {o}
        /\ Locals(d)' = {}
        /\ \A k \in 1 .. 4 : k # d /\ k # d - 1 => Locals(k)' = Locals(k)
        /\ \A c : c[1] # "frame" => HeldBy(c)' = HeldBy(c)
    BY <1>5, <2>2, ReturnKeeps
  <2> QED
    BY <2>1, <2>3
<1>10. depth' = 3
  BY <1>1, <1>4 DEF ReturnFromFrame
<1>11. /\ HeldBy(List)' = {<<List, k, Dict(k)>> : k \in 1 .. (n - 1)}
       /\ \A k \in 1 .. (n - 1) : DictHolds(k, Fields)'
       /\ DictHolds(n, F)'
       /\ OutcomeInv' /\ ModuleInv' /\ SiteInv' /\ ResultsInv'
  <2>1. PICK X : X = Type
    OBVIOUS
  <2>2. Apart(X, n, F)
    BY <2>1, Kinds DEF Apart
  <2>3. OnlyTouches(X)
    BY <1>1, <1>9 DEF OnlyTouches
  <2>4. /\ nth = n /\ nth' = n /\ F = FieldsBefore(field)
        /\ pc' \in {"field", "put", "morphemes", "add morpheme", "append"}
    BY <1>1, <1>2
  <2> QED
    BY <1>4, <2>2, <2>3, <2>4, DictInHand
<1>12. LocalsInv'
  <2>1. Locals(1)' = Locals(1) /\ Locals(2)' = {List} /\ Locals(4)' = {}
    BY <1>6, <1>9
  <2>2. nth' = n /\ field' = f
    BY <1>1, <1>2
  <2>3. Locals(3)' = DictLocals(n, f) \cup {Value(n, f)}
    BY <1>3, <1>6, <1>9
  <2>4. Locals(3)' = DictLocals(n, f) \cup (IF pc' = "put" THEN {Value(n, f)} ELSE {})
    BY <1>1, <2>3
  <2> QED
    BY <1>1, <1>5, <2>1, <2>2, <2>4, LocalsInDict
<1>13. DepthInv' /\ FieldInv'
  BY <1>1, <1>4, <1>10 DEF DepthInv, FieldInv
<1>14. ValueIsComplete(n, f)'
  <2>1. HeldBy(o)' = HeldBy(o)
    BY <1>3, <1>9, Kinds
  <2>2. HeldBy(Value(n, f))' = HeldBy(Value(n, f))
    BY <1>3, <2>1 DEF HeldBy, Value, Obj
  <2>3. results[n][f] \ todo = results[n][f]
    BY <1>1
  <2>4. SetHolds(n, f, results[n][f])
    BY <1>2, <1>4, <2>3
  <2>5. SetHolds(n, f, results[n][f])'
    BY <1>1, <2>2, <2>4 DEF SetHolds, Value, Str, Obj
  <2>6. f \notin {"arg1", "arg2"}
    BY <1>2, <1>4
  <2> QED
    BY <2>5, <2>6 DEF ValueIsComplete
<1>15. ListInv'
  <2>1. nth' = n /\ field' = f
    BY <1>1, <1>2
  <2> QED
    BY <1>1, <1>2, <1>11, <1>14, <2>1, ListAfter
<1> QED
  BY <1>9, <1>11, <1>12, <1>13, <1>15 DEF ExtInv

\* PyDict_SetItemString.
LEMMA SetItemInv ==
    ASSUME ExtInv, dropped = {}, SetItem
    PROVE  ExtInv'
<1>1. /\ pc = "put" /\ pc' = "field" /\ Put(Dict(nth), field, Value(nth, field))
      /\ field' = (CASE field = "arg1" -> "arg2"
                     [] field = "arg2" -> "morphemes1"
                     [] field = "morphemes1" -> "morphemes2"
                     [] OTHER -> "none")
      /\ UNCHANGED <<depth, dropped, err, ret, call, source, taken, results, nth, todo>>
  BY DEF SetItem, outcome, collection
<1>2. PICK n, f, F : n = nth /\ f = field /\ F = FieldsBefore(f)
  OBVIOUS
<1>3. PICK o, c : o = Value(n, f) /\ c = Dict(n)
  OBVIOUS
<1>4. Building /\ depth = 3 /\ f \in Fields /\ ValueIsComplete(n, f) /\ n \in Nat
  BY <1>1, <1>2 DEF Building, ExtInv, DepthInv, FieldInv, ListInv, ResultsInv
<1>5. /\ Locals(1) \in SUBSET {Module, Checker, List} /\ List \notin Locals(1)
      /\ HeldBy(List) = {<<List, k, Dict(k)>> : k \in 1 .. (n - 1)}
      /\ \A k \in 1 .. (n - 1) : DictHolds(k, Fields)
      /\ HoldersInv /\ CountInv /\ ResultsInv /\ ListIsAlive
      /\ n \in Nat \ {0} /\ Len(results) \in Nat /\ ret = Null
      /\ call \in Calls /\ source \in {"arguments", "parameters"} /\ taken \in Nat
  BY <1>2, <1>4, InConversion
<1>6. /\ Locals(2) = {List} /\ Locals(3) = DictLocals(n, f) \cup {o}
      /\ DictHolds(n, F) /\ err = "none" /\ n <= Len(results)
  BY <1>1, <1>2, <1>3, <1>4, InDict
<1>7. Locals(4) = {}
  BY <1>1 DEF ExtInv, LocalsInv
<1>8. c[1] = "dict" /\ c # List /\ c \in Locals(3) /\ o \in Locals(3)
  BY <1>3, <1>6, Kinds DEF DictLocals
<1>9. PICK g, G : g = field' /\ G = FieldsBefore(g)
  OBVIOUS
<1>10. G = F \cup {f} /\ g \in Fields \cup {"none"} /\ f \notin F
  BY <1>1, <1>2, <1>4, <1>9 DEF Fields, FieldsBefore
<1>11. HeldBy(c) = {<<c, h, Value(n, h)>> : h \in F}
  BY <1>3, <1>6 DEF DictHolds
<1>12. PICK r : r = <<c, f, o>>
  OBVIOUS
<1>13. r \notin refs
  <2>1. \A h : <<c, h, Value(n, h)>> = <<c, f, o>> => h = f
    OBVIOUS
  <2>2. r \notin HeldBy(c)
    BY <1>10, <1>11, <1>12, <2>1
  <2> QED
    BY <1>12, <2>2 DEF HeldBy
<1>14. RefForm(r)
  <2>1. r[1] = c /\ r[2] = f
    BY <1>12
  <2>2. c[2] = n
    BY <1>3 DEF Dict, Obj
  <2>3. r = <<Dict(r[1][2]), r[2], Value(r[1][2], r[2])>>
    BY <1>3, <1>12, <2>1, <2>2
  <2> QED
    BY <2>3 DEF RefForm
<1>15. c \in DOMAIN heap /\ o \in DOMAIN heap
  <2>1. Local(3, c) \in refs /\ Local(3, o) \in refs
    BY <1>5, <1>8, LocalsAre
  <2>2. Local(3, c)[3] = c /\ Local(3, o)[3] = o
    BY LocalIs
  <2> QED
    BY <1>5, <2>1, <2>2 DEF CountInv, CountsAreReferences
<1>16. HasTaken(c, r, 3, o)
  <2>1. Put(c, f, o) /\ dropped' = {} /\ depth' = depth
    BY <1>1, <1>2, <1>3
  <2>2. r[1] = c /\ r[3] = o
    BY <1>12
  <2>3. Takes(c, r, 3, o)
    BY <1>8, <1>12, <1>13, <1>14, <1>15, <2>1, <2>2 DEF Takes, Put
  <2>4. 3 \in 1 .. 4
    OBVIOUS
  <2> QED
    BY <1>5, <2>1, <2>3, <2>4, PutKeeps
<1>17. /\ HoldersInv' /\ CountInv' /\ \A k \in 1 .. 4 : Locals(k)' = Locals(k)
       /\ HeldBy(c)' = HeldBy(c) \cup {r}
       /\ \A x : x # c => HeldBy(x)' = HeldBy(x)
       /\ \A x \in DOMAIN heap : heap'[x].value = heap[x].value
  <2>1. dropped' = {}
    BY <1>1
  <2> QED
    BY <1>16, <2>1 DEF HasTaken
<1>18. /\ HeldBy(List)' = {<<List, k, Dict(k)>> : k \in 1 .. (n - 1)}
       /\ \A k \in 1 .. (n - 1) : DictHolds(k, Fields)'
  <2>1. n \notin 1 .. (n - 1)
    BY <1>4
  <2>2. \A k \in 1 .. (n - 1) : c # Dict(k) /\ \A h : c # Value(k, h)
    BY <1>3, <2>1, Identities, Kinds
  <2>3. results' = results
    BY <1>1
  <2> QED
    BY <1>5, <1>8, <1>17, <2>2, <2>3, ConvertedKept
<1>19. DictHolds(n, G)'
  <2>1. HeldBy(c)' = {<<c, h, Value(n, h)>> : h \in G}
    BY <1>3, <1>10, <1>11, <1>12, <1>17
  <2>2. ASSUME NEW h \in G
        PROVE  ValueIsComplete(n, h)'
    <3>1. ValueIsComplete(n, h)
      BY <1>4, <1>6, <1>10 DEF DictHolds
    <3>2. PICK v : v = Value(n, h)
      OBVIOUS
    <3>3. v # c
      BY <1>3, <3>2, Kinds
    <3>4. HeldBy(v)' = HeldBy(v)
      BY <1>17, <3>3
    <3>5. v \in DOMAIN heap
      <4>1. CASE h = f
        BY <1>3, <1>15, <3>2, <4>1
      <4>2. CASE h # f
        <5>1. v \in Locals(3)
          BY <1>2, <1>6, <1>10, <3>2, <4>2 DEF DictLocals
        <5>2. Local(3, v) \in refs
          BY <1>5, <5>1, LocalsAre
        <5>3. Local(3, v)[3] = v
          BY LocalIs
        <5> QED
          BY <1>5, <5>2, <5>3 DEF CountInv, CountsAreReferences
      <4> QED
        BY <4>1, <4>2
    <3>6. heap'[v].value = heap[v].value
      BY <1>17, <3>5
    <3>7. HeldBy(Value(n, h))' = HeldBy(Value(n, h)) /\ heap'[Value(n, h)].value = heap[Value(n, h)].value
      BY <3>2, <3>4, <3>6 DEF HeldBy, Value, Obj
    <3> QED
      BY <1>1, <3>1, <3>7 DEF ValueIsComplete, SetHolds, Value, Str, Obj
  <2>3. HeldBy(Dict(n))' = {<<Dict(n), h, Value(n, h)>> : h \in G}
    BY <1>3, <2>1 DEF HeldBy, Dict, Obj
  <2> QED
    BY <2>2, <2>3 DEF DictHolds, Dict, Value, Obj
<1>20. LocalsInv'
  <2>1. Locals(1)' = Locals(1) /\ Locals(2)' = {List} /\ Locals(4)' = {}
    BY <1>6, <1>7, <1>17
  <2>2. nth' = n /\ field' = g
    BY <1>1, <1>2, <1>9
  <2>3. DictLocals(n, g) = DictLocals(n, f) \cup {o}
    BY <1>2, <1>3, <1>9, <1>10 DEF DictLocals
  <2>4. Locals(3)' = DictLocals(n, g)
    BY <1>6, <1>17, <2>3
  <2>5. Locals(3)' = DictLocals(n, g) \cup (IF pc' = "put" THEN {Value(n, g)} ELSE {})
    BY <1>1, <2>4
  <2> QED
    BY <1>1, <1>5, <2>1, <2>2, <2>5, LocalsInDict
<1>21. DepthInv' /\ FieldInv' /\ OutcomeInv' /\ ModuleInv'
  BY <1>1, <1>4, <1>5, <1>6, <1>9, <1>10
     DEF DepthInv, FieldInv, OutcomeInv, RaisesOrReturns, ModuleInv
<1>22. SiteInv'
  BY <1>1, <1>5, SiteElsewhere DEF Collecting
<1>23. ResultsInv'
  <2>1. PICK l \in Nat : l = Len(results)
    BY <1>5
  <2>2. n <= l + 1 /\ n <= l
    BY <1>5, <1>6, <2>1, UpTo
  <2>3. nth' \in Nat \ {0} /\ nth' <= Len(results) /\ nth' <= Len(results) + 1
    BY <1>1, <1>2, <1>5, <2>1, <2>2
  <2> QED
    BY <1>1, <1>5, <2>3, ResultsKept
<1>24. ListInv'
  <2>1. nth' = n /\ field' = g /\ pc' = "field"
    BY <1>1, <1>2, <1>9
  <2> QED
    BY <1>9, <1>18, <1>19, <2>1, ListAfter
<1> QED
  BY <1>17, <1>20, <1>21, <1>22, <1>23, <1>24 DEF ExtInv

\* The dict goes to Checker_Check, and its values are let go.
LEMMA ReturnDictInv ==
    ASSUME ExtInv, dropped = {}, ReturnDict
    PROVE  ExtInv'
<1>1. /\ pc = "field" /\ field = "none" /\ ReturnFromFrame(Dict(nth)) /\ pc' = "append"
      /\ UNCHANGED <<heap, err, ret, call, source, taken, results, nth, field, todo>>
  BY DEF ReturnDict, outcome, collection, conversion, entry
<1>2. PICK n, f, F : n = nth /\ f = field /\ F = FieldsBefore(f)
  OBVIOUS
<1>3. PICK o : o = Dict(n)
  OBVIOUS
<1>4. Building /\ depth = 3 /\ F = Fields
  BY <1>1, <1>2 DEF Building, ExtInv, DepthInv, FieldsBefore
<1>5. /\ Locals(1) \in SUBSET {Module, Checker, List} /\ List \notin Locals(1)
      /\ HoldersInv /\ CountInv
  BY <1>4, InConversion
<1>6. Locals(2) = {List} /\ Locals(3) = DictLocals(n, f) /\ err = "none"
  BY <1>1, <1>2, <1>4, InDict
<1>7. Locals(4) = {}
  BY <1>1 DEF ExtInv, LocalsInv
<1>8. o \in Locals(3) /\ o \notin Locals(2)
  BY <1>3, <1>6, Kinds DEF DictLocals
<1>9. /\ HoldersInv' /\ CountInv'
      /\ Locals(2)' = Locals(2) \cup {o}
      /\ Locals(3)' = {}
      /\ \A k \in 1 .. 4 : k # 3 /\ k # 2 => Locals(k)' = Locals(k)
      /\ \A c : c[1] # "frame" => HeldBy(c)' = HeldBy(c)
  <2>1. PICK d \in 2 .. 4 : d = 3
    OBVIOUS
  <2>2. depth = d /\ o \in Locals(d) /\ o \notin Locals(d - 1) /\ ReturnFromFrame(o) /\ heap' = heap
    BY <1>1, <1>2, <1>3, <1>4, <1>8, <2>1
  <2>3. /\ HoldersInv' /\ CountInv'
        /\ Locals(d - 1)' = Locals(d - 1) \cup {o}
        /\ Locals(d)' = {}
        /\ \A k \in 1 .. 4 : k # d /\ k # d - 1 => Locals(k)' = Locals(k)
        /\ \A c : c[1] # "frame" => HeldBy(c)' = HeldBy(c)
    BY <1>5, <2>2, ReturnKeeps
  <2> QED
    BY <2>1, <2>3
<1>10. depth' = 2
  BY <1>1, <1>4 DEF ReturnFromFrame
<1>11. /\ HeldBy(List)' = {<<List, k, Dict(k)>> : k \in 1 .. (n - 1)}
       /\ \A k \in 1 .. (n - 1) : DictHolds(k, Fields)'
       /\ DictHolds(n, F)'
       /\ OutcomeInv' /\ ModuleInv' /\ SiteInv' /\ ResultsInv'
  <2>1. PICK X : X = Type
    OBVIOUS
  <2>2. Apart(X, n, F)
    BY <2>1, Kinds DEF Apart
  <2>3. OnlyTouches(X)
    BY <1>1, <1>9 DEF OnlyTouches
  <2>4. /\ nth = n /\ nth' = n /\ F = FieldsBefore(field)
        /\ pc' \in {"field", "put", "morphemes", "add morpheme", "append"}
    BY <1>1, <1>2
  <2> QED
    BY <1>4, <2>2, <2>3, <2>4, DictInHand
<1>12. LocalsInv'
  <2>1. Locals(1)' = Locals(1) /\ Locals(2)' = {List, Dict(n)} /\ Locals(3)' = {} /\ Locals(4)' = {}
    BY <1>3, <1>6, <1>7, <1>9
  <2>2. Dict(nth)' = Dict(n)
    BY <1>1, <1>2 DEF Dict, Obj
  <2>3. pc' = "append" /\ err' = "none"
    BY <1>1, <1>6
  <2> QED
    BY <1>5, <2>1, <2>2, <2>3 DEF LocalsInv, Building, Module, Checker, List, Single, Obj
<1>13. DepthInv' /\ FieldInv'
  BY <1>1, <1>10 DEF DepthInv, FieldInv
<1>14. ListInv'
  <2>1. nth' = n /\ field' = f /\ pc' = "append"
    BY <1>1, <1>2
  <2>2. DictHolds(n, Fields)'
    BY <1>4, <1>11 DEF Fields
  <2>3. ~Building'
    BY <2>1 DEF Building
  <2> QED
    BY <1>2, <1>11, <2>1, <2>2, <2>3, ListAfter
<1> QED
  BY <1>9, <1>11, <1>12, <1>13, <1>14 DEF ExtInv

\* A function is running in every other step.
LEMMA DepthInCall ==
    ASSUME DepthInv, pc # "idle", pc # "returned"
    PROVE  depth # 1
<1>1. depth = 2 \/ depth = 3 \/ depth = 4
  BY DEF DepthInv
<1> QED
  BY <1>1

\* A conversion that fails, in either function, gives up what they have.
LEMMA ConversionFailsInv ==
    ASSUME ExtInv, dropped = {}, ConversionFails
    PROVE  ExtInv'
<1>1. /\ pc' = "append" /\ err' = "MemoryError" /\ Unwind(refs, 2)
      /\ UNCHANGED <<heap, ret, call, source, taken, results, nth, field, todo>>
  BY DEF ConversionFails, collection, conversion, entry
<1>2. Building \/ (pc = "results" /\ nth \in DOMAIN results)
  BY DEF ConversionFails, Building
<1>3. PICK n, f, F : n = nth /\ f = field /\ F = FieldsBefore(f)
  OBVIOUS
<1>4. /\ Locals(1) \in SUBSET {Module, Checker, List} /\ List \notin Locals(1)
      /\ HeldBy(List) = {<<List, k, Dict(k)>> : k \in 1 .. (n - 1)}
      /\ \A k \in 1 .. (n - 1) : DictHolds(k, Fields)
      /\ HoldersInv /\ CountInv /\ ResultsInv /\ ListIsAlive
      /\ n \in Nat \ {0} /\ Len(results) \in Nat /\ DOMAIN results = 1 .. Len(results)
      /\ ret = Null /\ depth \in 1 .. 4
      /\ call \in Calls /\ source \in {"arguments", "parameters"} /\ taken \in Nat
  BY <1>2, <1>3, InConversion
<1>5. Locals(2) = {List} /\ depth # 1
  <2>1. pc \in {"results", "field", "put", "morphemes", "add morpheme"}
    BY <1>2 DEF Building
  <2>2. Locals(2) = {List}
    <3>1. CASE Building
      BY <3>1, InDict
    <3>2. CASE pc = "results"
      BY <3>2 DEF ExtInv, LocalsInv
    <3> QED
      BY <1>2, <3>1, <3>2
  <2>3. depth # 1
    <3>1. DepthInv
      BY DEF ExtInv
    <3>2. pc # "idle" /\ pc # "returned"
      BY <2>1
    <3> QED
      BY <3>1, <3>2, DepthInCall
  <2> QED
    BY <2>2, <2>3
<1>6. n <= Len(results)
  <2>1. CASE Building
    BY <1>3, <2>1, InDict
  <2>2. CASE pc = "results" /\ nth \in DOMAIN results
    BY <1>3, <1>4, <2>2
  <2> QED
    BY <1>2, <2>1, <2>2
<1>7. /\ HoldersInv' /\ CountInv'
      /\ Locals(1)' = Locals(1) /\ Locals(2)' = Locals(2) /\ Locals(3)' = {} /\ Locals(4)' = {}
      /\ \A c : HeldBy(c)' = HeldBy(c)
  <2>1. PICK d \in 1 .. 4 : d = depth
    BY <1>4
  <2>2. 2 \in 1 .. d
    BY <1>5, <2>1
  <2>3. /\ HoldersInv' /\ CountInv'
        /\ \A k \in 1 .. 2 : Locals(k)' = Locals(k)
        /\ \A k \in (2 + 1) .. 4 : Locals(k)' = {}
        /\ \A c : HeldBy(c)' = HeldBy(c)
    BY <1>1, <1>4, <2>1, <2>2, UnwindKeeps
  <2> QED
    BY <2>3
<1>8. depth' = 2
  BY <1>1 DEF Unwind
<1>9. LocalsInv'
  BY <1>1, <1>4, <1>5, <1>7 DEF LocalsInv, Building, Module, Checker, List, Single, Obj
<1>10. DepthInv' /\ FieldInv' /\ OutcomeInv' /\ ModuleInv'
  BY <1>1, <1>4, <1>8 DEF DepthInv, FieldInv, OutcomeInv, RaisesOrReturns, ModuleInv
<1>11. SiteInv'
  BY <1>1, <1>4, SiteElsewhere DEF Collecting
<1>12. ResultsInv'
  <2>1. PICK l \in Nat : l = Len(results)
    BY <1>4
  <2>2. n <= l + 1 /\ n <= l
    BY <1>4, <1>6, <2>1, UpTo
  <2>3. nth' \in Nat \ {0} /\ nth' <= Len(results) /\ nth' <= Len(results) + 1
    BY <1>1, <1>3, <1>4, <2>1, <2>2
  <2> QED
    BY <1>1, <1>4, <2>3, ResultsKept
<1>13. /\ HeldBy(List)' = {<<List, k, Dict(k)>> : k \in 1 .. (n - 1)}
       /\ \A k \in 1 .. (n - 1) : DictHolds(k, Fields)'
  <2>1. PICK X : X = Type
    OBVIOUS
  <2>2. X # List /\ \A k \in 1 .. (n - 1) : X # Dict(k) /\ \A g : X # Value(k, g)
    BY <2>1, Kinds
  <2>3. /\ \A x \in DOMAIN heap : heap'[x].value = heap[x].value
        /\ \A c : c[1] # "frame" /\ c # X => HeldBy(c)' = HeldBy(c)
        /\ results' = results
    BY <1>1, <1>7
  <2> QED
    BY <1>4, <2>2, <2>3, ConvertedKept
<1>14. ListInv'
  <2>1. nth' = n /\ field' = f /\ pc' = "append" /\ err' # "none"
    BY <1>1, <1>3
  <2>2. ~Building'
    BY <2>1 DEF Building
  <2> QED
    BY <1>3, <1>13, <2>1, <2>2, ListAfter
<1> QED
  BY <1>7, <1>9, <1>10, <1>11, <1>12, <1>14 DEF ExtInv

\* A list of n - 1 references, one for each position, has the n-th place free.
LEMMA ListLength ==
    ASSUME NEW n \in Nat \ {0}, NEW R, R = {<<List, k, Dict(k)>> : k \in 1 .. (n - 1)}
    PROVE  Cardinality(R) + 1 = n
<1>1. PICK m \in Nat : m = n - 1
  OBVIOUS
<1>2. PICK S : S = 1 .. m
  OBVIOUS
<1>3. IsFiniteSet(S) /\ Cardinality(S) = m
  <2>1. IsFiniteSet(1 .. m) /\ Cardinality(1 .. m) = IF 1 > m THEN 0 ELSE m - 1 + 1
    BY FS_Interval
  <2> QED
    BY <1>1, <1>2, <2>1
<1>4. PICK h : h = [k \in S |-> <<List, k, Dict(k)>>]
  OBVIOUS
<1>5. R = {<<List, k, Dict(k)>> : k \in S}
  BY <1>1, <1>2
<1>6. h \in [S -> R]
  BY <1>4, <1>5
<1>7. \A a, b \in S : h[a] = h[b] => a = b
  BY <1>4
<1>8. \A r \in R : \E k \in S : h[k] = r
  BY <1>4, <1>5
<1>9. h \in Injection(S, R)
  BY <1>6, <1>7, Fun_IsInj
<1>10. h \in Surjection(S, R)
  BY <1>6, <1>8, Fun_IsSurj
<1>11. h \in Bijection(S, R)
  BY <1>9, <1>10, Fun_IsBij
<1>12. ExistsBijection(S, R)
  BY <1>11 DEF ExistsBijection
<1>13. Cardinality(R) = Cardinality(S)
  BY <1>3, <1>12, FS_Bijection
<1> QED
  BY <1>1, <1>3, <1>13

\* PyList_Append, also of a null item.
LEMMA AppendResultInv ==
    ASSUME ExtInv, dropped = {}, AppendResult
    PROVE  ExtInv'
<1>1. pc = "append" /\ UNCHANGED <<call, source, taken, results, field, todo>>
  BY DEF AppendResult, collection, entry
<1>2. Building \/ pc \in {"results", "append"}
  BY <1>1
<1>3. PICK n, f, F : n = nth /\ f = field /\ F = FieldsBefore(f)
  OBVIOUS
<1>4. /\ Locals(1) \in SUBSET {Module, Checker, List} /\ List \notin Locals(1)
      /\ HeldBy(List) = {<<List, k, Dict(k)>> : k \in 1 .. (n - 1)}
      /\ \A k \in 1 .. (n - 1) : DictHolds(k, Fields)
      /\ HoldersInv /\ CountInv /\ ResultsInv /\ ListIsAlive
      /\ n \in Nat \ {0} /\ Len(results) \in Nat /\ ret = Null
      /\ call \in Calls /\ source \in {"arguments", "parameters"} /\ taken \in Nat
  BY <1>2, <1>3, InConversion
<1>5. call' \in Calls /\ source' \in {"arguments", "parameters"} /\ taken' \in Nat
  BY <1>1, <1>4
<1>6. CASE Dict(nth) \notin Locals(2) /\ NullAppended /\ UNCHANGED heap
  <2>1. ReturnNull(refs, "SystemError") /\ nth' \in Nat \ {0} /\ heap' = heap
    BY <1>3, <1>4, <1>6 DEF NullAppended
  <2> QED
    BY <1>1, <1>5, <2>1, NullReturned
<1>7. CASE Dict(nth) \in Locals(2) /\ ReturnNull(refs, "MemoryError") /\ UNCHANGED <<heap, nth>>
  <2>1. ReturnNull(refs, "MemoryError") /\ nth' \in Nat \ {0} /\ heap' = heap
    BY <1>3, <1>4, <1>7
  <2> QED
    BY <1>1, <1>5, <2>1, NullReturned
<1>8. CASE /\ Dict(nth) \in Locals(2)
           /\ Put(List, Cardinality(HeldBy(List)) + 1, Dict(nth))
           /\ dropped' = Destroyed({Local(2, Dict(nth))})
           /\ nth' = nth + 1
           /\ pc' = "results"
           /\ UNCHANGED <<depth, outcome>>
  <2>1. PICK o, c : o = Dict(n) /\ c = List
    OBVIOUS
  <2>2. c[1] = "list" /\ o[1] = "dict" /\ c # o
    BY <2>1, Kinds
  <2>3. /\ Locals(3) = {} /\ Locals(4) = {} /\ depth = 2 /\ n <= Len(results)
    BY <1>1, <1>3 DEF ExtInv, LocalsInv, Building, DepthInv, ResultsInv
  <2>4. err = "none" /\ Locals(2) = {c, o}
    <3>1. CASE err = "none"
      <4>1. Locals(2) = {List, Dict(nth)}
        BY <1>1, <3>1 DEF ExtInv, LocalsInv, Building
      <4> QED
        BY <1>3, <2>1, <3>1, <4>1
    <3>2. CASE err # "none"
      <4>1. Locals(2) = {List}
        BY <1>1, <3>2 DEF ExtInv, LocalsInv, Building
      <4> QED
        BY <1>3, <1>8, <2>1, <2>2, <4>1
    <3> QED
      BY <3>1, <3>2
  <2>5. DictHolds(n, Fields)
    BY <1>1, <1>3, <2>4 DEF ExtInv, ListInv
  <2>6. PICK R : R = HeldBy(List)
    OBVIOUS
  <2>7. Cardinality(R) + 1 = n
    BY <1>4, <2>6, ListLength
  <2>8. PICK r : r = <<c, n, o>>
    OBVIOUS
  <2>9. r \notin refs
    <3>1. n \notin 1 .. (n - 1)
      BY <1>4
    <3>2. \A k : <<List, k, Dict(k)>> = <<c, n, o>> => k = n
      OBVIOUS
    <3>3. r \notin HeldBy(List)
      BY <1>4, <2>8, <3>1, <3>2
    <3>4. r[1] = List
      BY <2>1, <2>8
    <3> QED
      BY <3>3, <3>4 DEF HeldBy
  <2>10. RefForm(r)
    <3>1. r[2] = n
      BY <2>8
    <3>2. r = <<List, r[2], Dict(r[2])>>
      BY <2>1, <2>8, <3>1
    <3> QED
      BY <3>2 DEF RefForm
  <2>11. c \in DOMAIN heap
    <3>1. Local(2, c) \in refs
      BY <1>4, <2>4, LocalsAre
    <3>2. Local(2, c)[3] = c
      BY LocalIs
    <3> QED
      BY <1>4, <3>1, <3>2 DEF CountInv, CountsAreReferences
  <2>12. /\ depth' = depth /\ err' = err /\ ret' = ret
         /\ dropped' = {Local(2, o)} /\ dropped' # {} /\ nth' = n + 1
    BY <1>3, <1>8, <2>1 DEF outcome, Destroyed
  <2>13. HasTaken(c, r, 2, o)
    <3>1. Put(c, n, o)
      BY <1>3, <1>8, <2>1, <2>6, <2>7
    <3>2. r[1] = c /\ r[3] = o /\ o \in Locals(2)
      BY <2>4, <2>8
    <3>3. Takes(c, r, 2, o)
      BY <2>8, <2>9, <2>10, <2>11, <2>12, <3>1, <3>2 DEF Takes, Put
    <3>4. 2 \in 1 .. 4
      OBVIOUS
    <3> QED
      BY <1>4, <2>12, <3>3, <3>4, PutKeeps
  <2>14. /\ HoldersInv' /\ CountInv' /\ Locals(2)' = Locals(2) \ {o}
         /\ Locals(1)' = Locals(1) /\ Locals(3)' = Locals(3) /\ Locals(4)' = Locals(4)
         /\ HeldBy(c)' = HeldBy(c) \cup {r}
         /\ \A x : x # c => HeldBy(x)' = HeldBy(x)
         /\ \A x \in DOMAIN heap : heap'[x].value = heap[x].value
    BY <2>12, <2>13 DEF HasTaken
  <2>15. LocalsInv'
    <3>1. Locals(2)' = {List}
      BY <2>1, <2>2, <2>4, <2>14
    <3>2. Locals(1)' = Locals(1) /\ Locals(3)' = {} /\ Locals(4)' = {}
      BY <2>3, <2>14
    <3> QED
      BY <1>4, <1>8, <3>1, <3>2 DEF LocalsInv, Building, Module, Checker, List, Single, Obj
  <2>16. DepthInv' /\ FieldInv' /\ OutcomeInv' /\ ModuleInv'
    BY <1>4, <1>8, <2>3, <2>4, <2>12 DEF DepthInv, FieldInv, OutcomeInv, RaisesOrReturns, ModuleInv
  <2>17. SiteInv'
    BY <1>5, <1>8, SiteElsewhere DEF Collecting
  <2>18. ResultsInv'
    <3>1. nth' \in Nat \ {0} /\ nth' <= Len(results) + 1
      <4>1. PICK l \in Nat : l = Len(results)
        BY <1>4
      <4>2. n \in Nat \ {0} /\ n <= l
        BY <1>4, <2>3, <4>1
      <4>3. n + 1 \in Nat \ {0} /\ n + 1 <= l + 1
        BY <4>2
      <4> QED
        BY <2>12, <4>1, <4>3
    <3>2. ~Building' /\ pc' # "append" /\ pc' # "returned"
      BY <1>8 DEF Building
    <3>3. UNCHANGED <<call, results>>
      BY <1>1
    <3> QED
      BY <1>4, <3>1, <3>2, <3>3, ResultsKept
  <2>19. ASSUME NEW k \in 1 .. n
         PROVE  DictHolds(k, Fields)'
    <3>1. PICK G : G = Fields
      OBVIOUS
    <3>2. DictHolds(k, G)
      <4>1. k = n \/ k \in 1 .. (n - 1)
        BY <1>4, <2>19
      <4> QED
        BY <1>4, <2>5, <3>1, <4>1
    <3>3. PICK d : d = Dict(k)
      OBVIOUS
    <3>4. d # c
      BY <2>1, <3>3, Kinds
    <3>5. HeldBy(d)' = HeldBy(d)
      BY <2>14, <3>4
    <3>6. HeldBy(Dict(k))' = HeldBy(Dict(k))
      BY <3>3, <3>5 DEF HeldBy, Dict, Obj
    <3>7. ASSUME NEW g \in G
          PROVE  HeldBy(Value(k, g))' = HeldBy(Value(k, g))
      <4>1. PICK v : v = Value(k, g)
        OBVIOUS
      <4>2. v # c
        BY <2>1, <4>1, Kinds
      <4>3. HeldBy(v)' = HeldBy(v)
        BY <2>14, <4>2
      <4> QED
        BY <4>1, <4>3 DEF HeldBy, Value, Obj
    <3>8. results' = results
      BY <1>1
    <3>9. DictHolds(k, G)'
      BY <1>4, <2>14, <3>2, <3>6, <3>7, <3>8, DictKept
    <3> QED
      BY <3>1, <3>9 DEF Fields
  <2>20. HeldBy(List)' = {<<List, k, Dict(k)>> : k \in 1 .. n}
    <3>1. 1 .. n = 1 .. (n - 1) \cup {n}
      BY <1>4
    <3>2. HeldBy(c) = {<<List, k, Dict(k)>> : k \in 1 .. (n - 1)}
      BY <1>4, <2>1
    <3>3. HeldBy(c)' = {<<List, k, Dict(k)>> : k \in 1 .. (n - 1)} \cup {<<List, n, Dict(n)>>}
      BY <2>1, <2>8, <2>14, <3>2
    <3>4. HeldBy(c)' = {<<List, k, Dict(k)>> : k \in 1 .. n}
      BY <3>1, <3>3
    <3> QED
      BY <2>1, <3>4 DEF HeldBy, List, Single, Obj
  <2>21. ListInv'
    <3>1. PICK m : m = n + 1
      OBVIOUS
    <3>2. m - 1 = n
      BY <1>4, <3>1
    <3>3. /\ HeldBy(List)' = {<<List, k, Dict(k)>> : k \in 1 .. (m - 1)}
          /\ \A k \in 1 .. (m - 1) : DictHolds(k, Fields)'
      BY <2>19, <2>20, <3>2
    <3>4. nth' = m /\ field' = f /\ pc' = "results"
      BY <1>1, <1>3, <1>8, <2>12, <3>1
    <3>5. ~Building'
      BY <3>4 DEF Building
    <3> QED
      BY <1>3, <3>3, <3>4, <3>5, ListAfter
  <2> QED
    BY <2>14, <2>15, <2>16, <2>17, <2>18, <2>21 DEF ExtInv
<1> QED
  BY <1>6, <1>7, <1>8 DEF AppendResult

\* The list goes to Python.
LEMMA ReturnListInv ==
    ASSUME ExtInv, dropped = {}, ReturnList
    PROVE  ExtInv'
<1>1. /\ pc = "results" /\ nth \notin DOMAIN results /\ ReturnFromFrame(List)
      /\ ret' = List /\ pc' = "returned"
      /\ UNCHANGED <<heap, err, call, source, taken, results, nth, field, todo>>
  BY DEF ReturnList, collection, conversion, entry
<1>2. Building \/ pc \in {"results", "append"}
  BY <1>1
<1>3. PICK n, f, F : n = nth /\ f = field /\ F = FieldsBefore(f)
  OBVIOUS
<1>4. /\ Locals(1) \in SUBSET {Module, Checker, List} /\ List \notin Locals(1)
      /\ HeldBy(List) = {<<List, k, Dict(k)>> : k \in 1 .. (n - 1)}
      /\ \A k \in 1 .. (n - 1) : DictHolds(k, Fields)
      /\ HoldersInv /\ CountInv /\ ResultsInv /\ ListIsAlive
      /\ n \in Nat \ {0} /\ Len(results) \in Nat /\ DOMAIN results = 1 .. Len(results)
      /\ n <= Len(results) + 1
      /\ call \in Calls /\ source \in {"arguments", "parameters"} /\ taken \in Nat
  BY <1>2, <1>3, InConversion
<1>5. Locals(2) = {List} /\ Locals(3) = {} /\ Locals(4) = {} /\ depth = 2 /\ err = "none"
  BY <1>1 DEF ExtInv, LocalsInv, Building, DepthInv, OutcomeInv
<1>6. /\ HoldersInv' /\ CountInv'
      /\ Locals(1)' = Locals(1) \cup {List}
      /\ Locals(2)' = {}
      /\ \A k \in 1 .. 4 : k # 2 /\ k # 1 => Locals(k)' = Locals(k)
      /\ \A c : c[1] # "frame" => HeldBy(c)' = HeldBy(c)
  <2>1. PICK d \in 2 .. 4 : d = 2
    OBVIOUS
  <2>2. PICK o : o = List
    OBVIOUS
  <2>3. depth = d /\ o \in Locals(d) /\ o \notin Locals(d - 1) /\ ReturnFromFrame(o) /\ heap' = heap
    BY <1>1, <1>4, <1>5, <2>1, <2>2
  <2>4. /\ HoldersInv' /\ CountInv'
        /\ Locals(d - 1)' = Locals(d - 1) \cup {o}
        /\ Locals(d)' = {}
        /\ \A k \in 1 .. 4 : k # d /\ k # d - 1 => Locals(k)' = Locals(k)
        /\ \A c : c[1] # "frame" => HeldBy(c)' = HeldBy(c)
    BY <1>4, <2>3, ReturnKeeps
  <2> QED
    BY <2>1, <2>2, <2>4
<1>7. depth' = 1
  BY <1>1, <1>5 DEF ReturnFromFrame
<1>8. LocalsInv'
  <2>1. Locals(2)' = {} /\ Locals(3)' = {} /\ Locals(4)' = {}
    BY <1>5, <1>6
  <2> QED
    BY <1>1, <1>4, <1>6, <2>1, LocalsAtRest
<1>9. Null # List
  BY NullAssumption
<1>10. DepthInv' /\ FieldInv' /\ OutcomeInv' /\ ModuleInv'
  BY <1>1, <1>5, <1>7, <1>9 DEF DepthInv, FieldInv, OutcomeInv, RaisesOrReturns, ModuleInv
<1>11. SiteInv'
  BY <1>1, <1>4, SiteElsewhere DEF Collecting
<1>12. ResultsInv'
  <2>1. PICK l \in Nat : l = Len(results)
    BY <1>4
  <2>2. n \in Nat \ {0} /\ n \notin 1 .. l /\ n <= l + 1
    BY <1>1, <1>3, <1>4, <2>1
  <2>3. n = l + 1
    BY <2>2
  <2>4. nth' \in Nat \ {0} /\ nth' <= Len(results) + 1 /\ nth' = Len(results) + 1
    BY <1>1, <1>3, <2>1, <2>2, <2>3
  <2>5. ~Building' /\ pc' # "append"
    BY <1>1 DEF Building
  <2>6. UNCHANGED <<call, results>>
    BY <1>1
  <2> QED
    BY <1>4, <2>4, <2>5, <2>6, ResultsKept
<1>13. /\ HeldBy(List)' = {<<List, k, Dict(k)>> : k \in 1 .. (n - 1)}
       /\ \A k \in 1 .. (n - 1) : DictHolds(k, Fields)'
  <2>1. PICK X : X = Type
    OBVIOUS
  <2>2. X # List /\ \A k \in 1 .. (n - 1) : X # Dict(k) /\ \A g : X # Value(k, g)
    BY <2>1, Kinds
  <2>3. /\ \A x \in DOMAIN heap : heap'[x].value = heap[x].value
        /\ \A c : c[1] # "frame" /\ c # X => HeldBy(c)' = HeldBy(c)
        /\ results' = results
    BY <1>1, <1>6
  <2> QED
    BY <1>4, <2>2, <2>3, ConvertedKept
<1>14. ListInv'
  <2>1. nth' = n /\ field' = f /\ pc' = "returned"
    BY <1>1, <1>3
  <2>2. ~Building'
    BY <2>1 DEF Building
  <2> QED
    BY <1>3, <1>13, <2>1, <2>2, ListAfter
<1> QED
  BY <1>6, <1>8, <1>10, <1>11, <1>12, <1>14 DEF ExtInv

-----------------------------------------------------------------------------
(* Py_DECREF: what is held from a local outlives it *)

\* The object is there before and after, with the same value.
Lives(o) == o \in DOMAIN heap /\ o \in DOMAIN heap' /\ heap'[o].value = heap[o].value

\* What a local holds lives on, and what that holds in turn.
LEMMA DecrefSpares ==
    ASSUME HoldersInv, CountInv, DECREF, depth' = depth
    PROVE  /\ \A n \in 1 .. 4 : \A o \in Locals(n) : Lives(o)
           /\ \A c : Lives(c) => HeldBy(c)' = HeldBy(c) /\ \A r \in HeldBy(c) : Lives(r[3])
<1>1. /\ \A r \in refs \ dropped :
            r[3] \in DOMAIN heap' /\ heap'[r[3]].value = heap[r[3]].value
      /\ \A x \in DOMAIN heap' : HeldBy(x)' = HeldBy(x)
  BY DecrefKeeps
<1>2. \A r \in refs : r[3] \in DOMAIN heap
  BY DEF CountInv, CountsAreReferences
<1>3. \A r \in refs \ dropped : Lives(r[3])
  BY <1>1, <1>2 DEF Lives
<1>4. ASSUME NEW n \in 1 .. 4, NEW o \in Locals(n)
      PROVE  Lives(o)
  <2>1. Local(n, o) \in refs \ dropped
    BY <1>4, LocalsAre
  <2>2. Local(n, o)[3] = o
    BY LocalIs
  <2> QED
    BY <1>3, <2>1, <2>2
<1>5. ASSUME NEW c, Lives(c)
      PROVE  HeldBy(c)' = HeldBy(c) /\ \A r \in HeldBy(c) : Lives(r[3])
  <2>1. HeldBy(c)' = HeldBy(c)
    BY <1>1, <1>5 DEF Lives
  <2>2. \A r \in HeldBy(c) : r \in refs \ dropped
    BY <1>5 DEF HeldBy, HoldersInv, Lives
  <2> QED
    BY <1>3, <2>1, <2>2
<1> QED
  BY <1>4, <1>5

\* So a dict that lives keeps its entries, and they their values.
LEMMA DictLives ==
    ASSUME HoldersInv, CountInv, DECREF, depth' = depth, results' = results,
           NEW k, NEW F, DictHolds(k, F), Lives(Dict(k))
    PROVE  DictHolds(k, F)'
<1>1. PICK d : d = Dict(k)
  OBVIOUS
<1>2. HeldBy(d)' = HeldBy(d) /\ \A r \in HeldBy(d) : Lives(r[3])
  BY <1>1, DecrefSpares
<1>3. HeldBy(d) = {<<d, f, Value(k, f)>> : f \in F}
  BY <1>1 DEF DictHolds
<1>4. HeldBy(Dict(k))' = {<<Dict(k), f, Value(k, f)>> : f \in F}
  BY <1>1, <1>2, <1>3 DEF HeldBy, Dict, Obj
<1>5. ASSUME NEW f \in F
      PROVE  ValueIsComplete(k, f)'
  <2>1. PICK v : v = Value(k, f)
    OBVIOUS
  <2>2. PICK r : r = <<d, f, v>>
    OBVIOUS
  <2>3. r \in HeldBy(d) /\ r[3] = v
    BY <1>3, <1>5, <2>1, <2>2
  <2>4. Lives(v)
    BY <1>2, <2>3
  <2>5. HeldBy(v)' = HeldBy(v)
    BY <2>4, DecrefSpares
  <2>6. HeldBy(Value(k, f))' = HeldBy(Value(k, f)) /\ heap'[Value(k, f)].value = heap[Value(k, f)].value
    BY <2>1, <2>4, <2>5 DEF HeldBy, Value, Obj, Lives
  <2>7. ValueIsComplete(k, f)
    BY <1>5 DEF DictHolds
  <2> QED
    BY <2>6, <2>7 DEF ValueIsComplete, SetHolds, Value, Str, Obj
<1> QED
  BY <1>4, <1>5 DEF DictHolds, Dict, Value, Obj

\* The locals are what they were if nothing that says so has changed.
LEMMA LocalsStay ==
    ASSUME LocalsInv, \A k : Locals(k)' = Locals(k),
           pc' = pc, err' = err, ret' = ret, source' = source, nth' = nth, field' = field, todo' = todo
    PROVE  LocalsInv'
<1>1. /\ DictLocals(nth, field)' = DictLocals(nth, field) /\ Value(nth, field)' = Value(nth, field)
      /\ Dict(nth)' = Dict(nth) /\ Iterator' = Iterator /\ Item' = Item
      /\ \A m : Str(nth, field, m)' = Str(nth, field, m)
  BY DEF DictLocals, Dict, Value, Str, Iterator, Item, Obj, FieldsBefore, Fields
<1>2. Module' = Module /\ Checker' = Checker /\ List' = List
  BY DEF Module, Checker, List, Single, Obj
<1>3. Building' <=> Building
  BY DEF Building
<1>4. /\ Locals(1)' \in SUBSET {Module', Checker', List'}
      /\ List' \in Locals(1)' <=> pc' = "returned" /\ ret' = List'
  BY <1>2 DEF LocalsInv
<1>5. Locals(2)' = CASE pc' = "add" -> {Module'}
                     [] pc' \in {"next", "ended"} -> {Iterator'}
                     [] pc' = "item" -> {Iterator', Item'}
                     [] Building' \/ pc' = "results" -> {List'}
                     [] pc' = "append" -> IF err' = "none" THEN {List', Dict(nth)'} ELSE {List'}
                     [] OTHER -> {}
  BY <1>1, <1>2, <1>3 DEF LocalsInv
<1>6. Locals(3)' = CASE pc' = "put" -> DictLocals(nth, field)' \cup {Value(nth, field)'}
                     [] Building' /\ pc' # "put" -> DictLocals(nth, field)'
                     [] OTHER -> {}
  BY <1>1, <1>3 DEF LocalsInv
<1>7. (CASE pc' = "morphemes" -> Locals(4)' = {Value(nth, field)'}
         [] pc' = "add morpheme" ->
                \E m \in todo' : Locals(4)' = {Value(nth, field)', Str(nth, field, m)'}
         [] OTHER -> Locals(4)' = {})
  BY <1>1 DEF LocalsInv
<1> QED
  BY <1>4, <1>5, <1>6, <1>7 DEF LocalsInv

\* Py_DECREF.
LEMMA DecrefInv ==
    ASSUME ExtInv, DECREF, UNCHANGED <<pc, depth, outcome, call, collection, conversion>>
    PROVE  ExtInv'
<1>1. /\ HoldersInv /\ CountInv /\ depth' = depth /\ pc' = pc /\ err' = err /\ ret' = ret /\ call' = call
      /\ source' = source /\ taken' = taken /\ site' = site
      /\ results' = results /\ nth' = nth /\ field' = field /\ todo' = todo
  BY DEF ExtInv, outcome, collection, conversion, entry
<1>2. HoldersInv' /\ CountInv' /\ \A k : Locals(k)' = Locals(k)
  BY <1>1, DecrefKeeps
<1>3. /\ \A n \in 1 .. 4 : \A o \in Locals(n) : Lives(o)
      /\ \A c : Lives(c) => HeldBy(c)' = HeldBy(c) /\ \A r \in HeldBy(c) : Lives(r[3])
  BY <1>1, DecrefSpares
<1>4. \A o : o \in Locals(1) \/ o \in Locals(2) \/ o \in Locals(3) \/ o \in Locals(4) => Lives(o)
  BY <1>3
<1>5. PICK n, f, F : n = nth /\ f = field /\ F = FieldsBefore(f)
  OBVIOUS
<1>6. DepthInv' /\ OutcomeInv' /\ FieldInv'
  BY <1>1 DEF ExtInv, DepthInv, OutcomeInv, RaisesOrReturns, FieldInv, Fields
<1>7. LocalsInv'
  BY <1>1, <1>2, LocalsStay DEF ExtInv
<1>8. ModuleInv'
  <2>1. CASE pc = "add"
    <3>1. PICK o : o = Module
      OBVIOUS
    <3>2. o \in Locals(2)
      <4>1. Locals(2) = {Module}
        BY <2>1 DEF ExtInv, LocalsInv, Building
      <4> QED
        BY <3>1, <4>1
    <3>3. HeldBy(o) = {} /\ o \notin Locals(1)
      BY <2>1, <3>1 DEF ExtInv, ModuleInv
    <3>4. HeldBy(o)' = {} /\ o \notin Locals(1)'
      BY <1>2, <1>3, <1>4, <3>2, <3>3
    <3> QED
      BY <3>1, <3>4 DEF ModuleInv, HeldBy, Module, Single, Obj
  <2>2. CASE pc # "add"
    BY <1>1, <2>2 DEF ModuleInv
  <2> QED
    BY <2>1, <2>2
<1>9. SiteInv'
  <2>1. Item' = Item
    BY <1>1 DEF Item, Obj
  <2>2. pc = "item" => heap'[Item'].value = heap[Item].value
    <3>1. pc = "item" => Item \in Locals(2)
      <4>1. pc = "item" => Locals(2) = {Iterator, Item}
        BY DEF ExtInv, LocalsInv, Building
      <4> QED
        BY <4>1
    <3> QED
      BY <1>4, <2>1, <3>1 DEF Lives
  <2>3. CallPassed' = CallPassed
    BY <1>1 DEF CallPassed
  <2>4. Collected' = Collected
    BY <1>1 DEF Collected
  <2>5. SiteInv
    BY DEF ExtInv
  <2> QED
    BY <1>1, <2>2, <2>3, <2>4, <2>5 DEF SiteInv
<1>10. CASE ~ListIsAlive
  <2>1. ~ListIsAlive'
    BY <1>1, <1>10 DEF ListIsAlive, Building, List, Single, Obj
  <2>2. nth' \in Nat \ {0}
    BY <1>1 DEF ExtInv, ResultsInv
  <2>3. ListInv' /\ FieldInv' /\ ResultsInv'
    BY <2>1, <2>2, ListElsewhere
  <2> QED
    BY <1>2, <1>6, <1>7, <1>8, <1>9, <2>3 DEF ExtInv
<1>11. CASE ListIsAlive
  <2>1. List \in Locals(1) \/ List \in Locals(2)
    <3>1. CASE pc = "returned" /\ ret = List
      BY <3>1 DEF ExtInv, LocalsInv
    <3>2. CASE Building
      BY <3>2, InDict
    <3>3. CASE pc = "results"
      BY <3>3 DEF ExtInv, LocalsInv
    <3>4. CASE pc = "append"
      <4>1. Locals(2) = IF err = "none" THEN {List, Dict(nth)} ELSE {List}
        BY <3>4 DEF ExtInv, LocalsInv, Building
      <4> QED
        BY <4>1
    <3> QED
      BY <1>11, <3>1, <3>2, <3>3, <3>4 DEF ListIsAlive
  <2>2. PICK c : c = List
    OBVIOUS
  <2>3. HeldBy(c)' = HeldBy(c) /\ \A r \in HeldBy(c) : Lives(r[3])
    BY <1>3, <1>4, <2>1, <2>2
  <2>4. /\ HeldBy(c) = {<<List, k, Dict(k)>> : k \in 1 .. (n - 1)}
        /\ \A k \in 1 .. (n - 1) : DictHolds(k, Fields)
    BY <1>5, <1>11, <2>2 DEF ExtInv, ListInv
  <2>5. HeldBy(List)' = {<<List, k, Dict(k)>> : k \in 1 .. (n - 1)}
    BY <2>2, <2>3, <2>4 DEF HeldBy, List, Single, Obj
  <2>6. ASSUME NEW k, DictHolds(k, Fields), Lives(Dict(k))
        PROVE  DictHolds(k, Fields)'
    <3>1. PICK G : G = Fields
      OBVIOUS
    <3>2. DictHolds(k, G)'
      BY <1>1, <2>6, <3>1, DictLives
    <3> QED
      BY <3>1, <3>2 DEF Fields
  <2>7. ASSUME NEW k \in 1 .. (n - 1)
        PROVE  DictHolds(k, Fields)'
    <3>1. PICK r : r = <<List, k, Dict(k)>>
      OBVIOUS
    <3>2. r \in HeldBy(c) /\ r[3] = Dict(k)
      BY <2>4, <2>7, <3>1
    <3>3. Lives(Dict(k))
      BY <2>3, <3>2
    <3> QED
      BY <2>4, <2>6, <2>7, <3>3
  <2>8. Building => DictHolds(n, F)'
    <3>1. ASSUME Building
          PROVE  DictHolds(n, F)'
      <4>1. DictHolds(n, F) /\ Locals(3) = DictLocals(n, f) \cup (IF pc = "put" THEN {Value(n, f)} ELSE {})
        BY <1>5, <3>1, InDict
      <4>2. Dict(n) \in Locals(3)
        BY <4>1 DEF DictLocals
      <4>3. Lives(Dict(n))
        BY <1>4, <4>2
      <4> QED
        BY <1>1, <4>1, <4>3, DictLives
    <3> QED
      BY <3>1
  <2>9. pc = "append" /\ err = "none" => DictHolds(n, Fields)'
    <3>1. ASSUME pc = "append", err = "none"
          PROVE  DictHolds(n, Fields)'
      <4>1. Locals(2) = {List, Dict(nth)}
        BY <3>1 DEF ExtInv, LocalsInv, Building
      <4>2. Lives(Dict(n))
        BY <1>4, <1>5, <4>1
      <4>3. DictHolds(n, Fields)
        BY <1>5, <3>1 DEF ExtInv, ListInv
      <4> QED
        BY <2>6, <4>2, <4>3
    <3> QED
      BY <3>1
  <2>10. ASSUME Value(n, f) \in Locals(3) \/ Value(n, f) \in Locals(4)
         PROVE  /\ HeldBy(Value(n, f))' = HeldBy(Value(n, f))
                /\ heap'[Value(n, f)].value = heap[Value(n, f)].value
    <3>1. PICK v : v = Value(n, f)
      OBVIOUS
    <3>2. Lives(v)
      BY <1>4, <2>10, <3>1
    <3>3. HeldBy(v)' = HeldBy(v) /\ heap'[v].value = heap[v].value
      BY <1>3, <3>2 DEF Lives
    <3> QED
      BY <3>1, <3>3 DEF HeldBy, Value, Obj
  <2>11. pc = "put" => ValueIsComplete(n, f)'
    <3>1. ASSUME pc = "put"
          PROVE  ValueIsComplete(n, f)'
      <4>1. Building
        BY <3>1 DEF Building
      <4>2. Locals(3) = DictLocals(n, f) \cup {Value(n, f)}
        BY <1>5, <3>1, <4>1, InDict
      <4>3. ValueIsComplete(n, f)
        BY <1>5, <3>1 DEF ExtInv, ListInv
      <4>4. /\ HeldBy(Value(n, f))' = HeldBy(Value(n, f))
            /\ heap'[Value(n, f)].value = heap[Value(n, f)].value
        BY <2>10, <4>2
      <4> QED
        BY <1>1, <4>3, <4>4 DEF ValueIsComplete, SetHolds, Value, Str, Obj
    <3> QED
      BY <3>1
  <2>12. pc \in {"morphemes", "add morpheme"} =>
             todo' \subseteq results'[n][f] /\ SetHolds(n, f, results[n][f] \ todo)'
    <3>1. ASSUME pc \in {"morphemes", "add morpheme"}
          PROVE  todo' \subseteq results'[n][f] /\ SetHolds(n, f, results[n][f] \ todo)'
      <4>1. /\ todo \subseteq results[n][f] /\ SetHolds(n, f, results[n][f] \ todo)
            /\ Value(n, f) \in Locals(4)
        BY <1>5, <3>1, InSet
      <4>2. HeldBy(Value(n, f))' = HeldBy(Value(n, f))
        BY <2>10, <4>1
      <4> QED
        BY <1>1, <4>1, <4>2 DEF SetHolds, Value, Str, Obj
    <3> QED
      BY <3>1
  <2>13. ListInv'
    <3>1. nth' = n /\ field' = f /\ (Building' <=> Building)
      BY <1>1, <1>5 DEF Building
    <3>2. Building' => DictHolds(n, F)'
      BY <2>8, <3>1
    <3>3. pc' = "put" => ValueIsComplete(n, f)'
      BY <1>1, <2>11
    <3>4. pc' \in {"morphemes", "add morpheme"} =>
              todo' \subseteq results'[n][f] /\ SetHolds(n, f, results[n][f] \ todo)'
      BY <1>1, <2>12
    <3>5. pc' = "append" /\ err' = "none" => DictHolds(n, Fields)'
      BY <1>1, <2>9
    <3> QED
      BY <1>5, <2>5, <2>7, <3>1, <3>2, <3>3, <3>4, <3>5, ListAfter
  <2>14. ResultsInv'
    <3>1. ResultsInv
      BY DEF ExtInv
    <3>2. CallPassed' = CallPassed
      BY <1>1 DEF CallPassed
    <3> QED
      BY <1>1, <3>1, <3>2 DEF ResultsInv, ListIsAlive, Building, List, Single, Obj
  <2> QED
    BY <1>2, <1>6, <1>7, <1>8, <1>9, <2>13, <2>14 DEF ExtInv
<1> QED
  BY <1>10, <1>11

-----------------------------------------------------------------------------
(* The invariant *)

\* It holds before anything is imported.
LEMMA InitInv ==
    ASSUME Init
    PROVE  ExtInv
<1>1. /\ pc = "idle" /\ depth = 1 /\ refs = {} /\ dropped = {} /\ err = "none" /\ ret = Null
      /\ DOMAIN heap = {Type} /\ heap[Type].count = 1
      /\ call \in Calls /\ source = "arguments" /\ taken = 0 /\ nth = 1
  BY DEF Init
<1>2. HoldersInv
  BY <1>1, FS_EmptySet, Kinds DEF HoldersInv
<1>3. CountInv
  <2>1. Cardinality({r \in refs : r[3] = Type}) = 0
    <3>1. {r \in refs : r[3] = Type} = {}
      BY <1>1
    <3> QED
      BY <3>1, FS_EmptySet
  <2> QED
    BY <1>1, <2>1 DEF CountInv, CountsAreReferences
<1>4. Locals(1) = {} /\ Locals(2) = {} /\ Locals(3) = {} /\ Locals(4) = {}
  BY <1>1 DEF Locals
<1>5. DepthInv /\ OutcomeInv /\ ModuleInv /\ FieldInv
  BY <1>1 DEF DepthInv, OutcomeInv, RaisesOrReturns, ModuleInv, FieldInv
<1>6. LocalsInv
  BY <1>1, <1>4 DEF LocalsInv, Building
<1>7. ListInv /\ ResultsInv
  BY <1>1 DEF ListInv, ResultsInv, ListIsAlive, Building
<1>8. SiteInv
  BY <1>1 DEF SiteInv
<1> QED
  BY <1>2, <1>3, <1>5, <1>6, <1>7, <1>8 DEF ExtInv

\* Every call of the Python API keeps it, and every Py_DECREF.
LEMMA NextInv ==
    ASSUME ExtInv, [Next]_vars
    PROVE  ExtInv'
<1>1. CASE DECREF /\ UNCHANGED <<pc, depth, outcome, call, collection, conversion>>
  BY <1>1, DecrefInv
<1>2. CASE dropped = {} /\ Step
  <2>1. CASE CreateModule \/ AddType \/ Checker_New \/ Checker_Dealloc \/ Consume
    BY <1>2, <2>1, CreateModuleInv, AddTypeInv, Checker_NewInv, Checker_DeallocInv, ConsumeInv
  <2>2. CASE Checker_Check \/ NoParameters \/ GetIter
    BY <1>2, <2>2, Checker_CheckInv, NoParametersInv, GetIterInv
  <2>3. CASE NextItem \/ RejectItem \/ CollectItem \/ EndOfIteration
    BY <1>2, <2>3, NextItemInv, RejectItemInv, CollectItemInv, EndOfIterationInv
  <2>4. CASE NewList \/ NewDict \/ NewNumber \/ NewSet \/ NewStr \/ AddMorpheme \/ ReturnSet
    BY <1>2, <2>4, NewListInv, NewDictInv, NewNumberInv, NewSetInv, NewStrInv, AddMorphemeInv,
       ReturnSetInv
  <2>5. CASE SetItem \/ ReturnDict \/ ConversionFails \/ AppendResult \/ ReturnList
    BY <1>2, <2>5, SetItemInv, ReturnDictInv, ConversionFailsInv, AppendResultInv, ReturnListInv
  <2> QED
    BY <1>2, <2>1, <2>2, <2>3, <2>4, <2>5 DEF Step
<1>3. CASE UNCHANGED vars
  <2>1. /\ pc' = pc /\ depth' = depth /\ heap' = heap /\ refs' = refs /\ dropped' = dropped
        /\ err' = err /\ ret' = ret /\ call' = call
        /\ source' = source /\ taken' = taken /\ site' = site
        /\ results' = results /\ nth' = nth /\ field' = field /\ todo' = todo
    BY <1>3 DEF vars, objects, outcome, collection, conversion, entry
  <2>2. HoldersInv' /\ CountInv'
    BY <2>1 DEF ExtInv, HoldersInv, CountInv, CountsAreReferences, RefForm, Local, Frame, Obj,
                Module, List, Type, Single, Dict, Value, Str
  <2>3. DepthInv' /\ OutcomeInv' /\ FieldInv'
    BY <2>1 DEF ExtInv, DepthInv, OutcomeInv, RaisesOrReturns, FieldInv, Fields
  <2>4. ModuleInv' /\ \A k : Locals(k)' = Locals(k)
    BY <2>1 DEF ExtInv, ModuleInv, Locals, HeldBy, Frame, Module, Single, Obj
  <2>5. LocalsInv'
    BY <2>1, <2>4, LocalsStay DEF ExtInv
  <2>6. ResultsInv'
    BY <2>1 DEF ExtInv, ResultsInv, ListIsAlive, Building, CallPassed, List, Single, Obj
  <2>7. ListInv'
    <3>1. CASE ~ListIsAlive
      <4>1. ~ListIsAlive' /\ nth' \in Nat \ {0}
        BY <2>1, <3>1 DEF ExtInv, ResultsInv, ListIsAlive, Building, List, Single, Obj
      <4> QED
        BY <4>1, ListElsewhere
    <3>2. CASE ListIsAlive
      <4>1. PICK n, f, F : n = nth /\ f = field /\ F = FieldsBefore(f)
        OBVIOUS
      <4>2. HeldBy(List)' = {<<List, k, Dict(k)>> : k \in 1 .. (n - 1)}
        <5>1. HeldBy(List) = {<<List, k, Dict(k)>> : k \in 1 .. (n - 1)}
          BY <3>2, <4>1 DEF ExtInv, ListInv
        <5>2. HeldBy(List)' = HeldBy(List)
          BY <2>1 DEF HeldBy, List, Single, Obj
        <5> QED
          BY <5>1, <5>2
      <4>3. ASSUME NEW k, NEW g
            PROVE  ValueIsComplete(k, g)' <=> ValueIsComplete(k, g)
        BY <2>1 DEF ValueIsComplete, SetHolds, HeldBy, Value, Str, Obj
      <4>4. ASSUME NEW k, NEW G
            PROVE  DictHolds(k, G)' <=> DictHolds(k, G)
        <5>1. HeldBy(Dict(k))' = HeldBy(Dict(k))
          BY <2>1 DEF HeldBy, Dict, Obj
        <5>2. (HeldBy(Dict(k)) = {<<Dict(k), g, Value(k, g)>> : g \in G})'
              <=> HeldBy(Dict(k)) = {<<Dict(k), g, Value(k, g)>> : g \in G}
          BY <5>1 DEF Dict, Value, Obj
        <5> QED
          BY <4>3, <5>2 DEF DictHolds
      <4>5. PICK G : G = Fields
        OBVIOUS
      <4>6. \A k : DictHolds(k, Fields) => DictHolds(k, Fields)'
        <5>1. \A k : DictHolds(k, G) => DictHolds(k, G)'
          BY <4>4
        <5> QED
          BY <4>5, <5>1 DEF Fields
      <4>7. /\ \A k \in 1 .. (n - 1) : DictHolds(k, Fields)'
            /\ pc' = "append" /\ err' = "none" => DictHolds(n, Fields)'
        BY <2>1, <3>2, <4>1, <4>6 DEF ExtInv, ListInv
      <4>8. Building' => DictHolds(n, F)'
        <5>1. Building' <=> Building
          BY <2>1 DEF Building
        <5>2. Building => DictHolds(n, F)
          BY <4>1 DEF ExtInv, ListInv
        <5> QED
          BY <4>4, <5>1, <5>2
      <4>9. pc' = "put" => ValueIsComplete(n, f)'
        BY <2>1, <4>1, <4>3 DEF ExtInv, ListInv
      <4>10. pc' \in {"morphemes", "add morpheme"} =>
                 todo' \subseteq results'[n][f] /\ SetHolds(n, f, results[n][f] \ todo)'
        <5>1. pc \in {"morphemes", "add morpheme"} =>
                 todo \subseteq results[n][f] /\ SetHolds(n, f, results[n][f] \ todo)
          BY <4>1 DEF ExtInv, ListInv
        <5> QED
          BY <2>1, <5>1 DEF SetHolds, HeldBy, Value, Str, Obj
      <4>11. nth' = n /\ field' = f
        BY <2>1, <4>1
      <4> QED
        BY <4>1, <4>2, <4>7, <4>8, <4>9, <4>10, <4>11, ListAfter
    <3> QED
      BY <3>1, <3>2
  <2>8. SiteInv'
    BY <2>1 DEF ExtInv, SiteInv, Collected, CallPassed, Item, Obj
  <2> QED
    BY <2>2, <2>3, <2>4, <2>5, <2>6, <2>7, <2>8 DEF ExtInv
<1> QED
  BY <1>1, <1>2, <1>3 DEF Next

\* Every state the extension can be in, with any number of failures behind it,
\* satisfies the invariant.
THEOREM ExtInvariant == Spec => []ExtInv
<1>1. Init => ExtInv
  BY InitInv
<1>2. ExtInv /\ [Next]_vars => ExtInv'
  BY NextInv
<1> QED
  BY <1>1, <1>2, PTL DEF Spec

-----------------------------------------------------------------------------
(* What follows from it *)

\* Every function of the extension returns NULL with an exception set or an
\* object without one, on all of its error paths (Checker_Check's iterators and
\* its appending of a null result among them).
THEOREM ExceptionConvention == Spec => []RaisesOrReturns
<1>1. ExtInv => RaisesOrReturns
  BY DEF ExtInv, OutcomeInv
<1> QED
  BY <1>1, ExtInvariant, PTL

\* For any iterables and any results, at every step of every path the counts are
\* the numbers of references that PyOwnedObject, the containers and Python hold,
\* and none of them dangles.
THEOREM CountsNeverDrift == Spec => []CountsAreReferences
<1>1. ExtInv => CountsAreReferences
  BY DEF ExtInv, CountInv
<1> QED
  BY <1>1, ExtInvariant, PTL

\* With no function running, no list, dict, value or str is left.
LEMMA NoResultsAtRest ==
    ASSUME ExtInv, pc = "idle", dropped = {}
    PROVE  /\ Locals(2) = {} /\ Locals(3) = {} /\ Locals(4) = {}
           /\ List \notin DOMAIN heap
           /\ \A k : Dict(k) \notin DOMAIN heap
           /\ \A k, f : Value(k, f) \notin DOMAIN heap
           /\ \A k, f, m : Str(k, f, m) \notin DOMAIN heap
<1>1. HoldersInv /\ CountInv /\ depth \in 1 .. 4
  BY DepthIs DEF ExtInv
<1>2. Locals(2) = {} /\ Locals(3) = {} /\ Locals(4) = {}
  BY DEF ExtInv, LocalsInv, Building
<1>3. Locals(1) \in SUBSET {Module, Checker, List} /\ List \notin Locals(1)
  BY DEF ExtInv, LocalsInv
<1>4. \A o, n : n \in 1 .. 4 /\ o \in Locals(n) => o = Module \/ o = Checker
  BY <1>2, <1>3
<1>5. ASSUME NEW c, NEW x, NEW o, <<c, x, o>> \in refs, c[1] # "frame"
      PROVE  c \in DOMAIN heap
  <2>1. <<c, x, o>>[1] = c
    OBVIOUS
  <2>2. \A n : c # Frame(n)
    BY <1>5, Kinds
  <2> QED
    BY <1>1, <1>5, <2>1, <2>2 DEF HoldersInv
<1>6. List \notin DOMAIN heap
  <2>1. List[1] = "list" /\ Module[1] = "module" /\ Checker[1] = "checker"
    BY Kinds
  <2>2. List # Module /\ List # Checker
    BY <2>1
  <2>3. List[1] \notin {"type", "dict", "value", "str"}
    BY <2>1
  <2>4. PICK o : o = List
    OBVIOUS
  <2>5. o \in DOMAIN heap => \E n \in 1 .. 4 : o \in Locals(n)
    BY <1>1, <2>3, <2>4, OnlyLocal
  <2> QED
    BY <1>4, <2>2, <2>4, <2>5
<1>7. ASSUME NEW k
      PROVE  Dict(k) \notin DOMAIN heap
  <2>1. <<List, k, Dict(k)>> \notin refs
    BY <1>5, <1>6, Kinds
  <2>2. Dict(k) # Module /\ Dict(k) # Checker
    BY Kinds
  <2> QED
    BY <1>1, <1>4, <2>1, <2>2, DictHolder
<1>8. ASSUME NEW k, NEW f
      PROVE  Value(k, f) \notin DOMAIN heap
  <2>1. <<Dict(k), f, Value(k, f)>> \notin refs
    BY <1>5, <1>7, Kinds
  <2>2. Value(k, f) # Module /\ Value(k, f) # Checker
    BY Kinds
  <2> QED
    BY <1>1, <1>4, <2>1, <2>2, ValueHolder
<1>9. ASSUME NEW k, NEW f, NEW m
      PROVE  Str(k, f, m) \notin DOMAIN heap
  <2>1. <<Value(k, f), m, Str(k, f, m)>> \notin refs
    BY <1>5, <1>8, Kinds
  <2>2. Str(k, f, m) # Module /\ Str(k, f, m) # Checker
    BY Kinds
  <2> QED
    BY <1>1, <1>4, <2>1, <2>2, StrHolder
<1> QED
  BY <1>2, <1>6, <1>7, <1>8, <1>9

\* Whatever failed in the calls before, between two of them only the objects that
\* Python holds, and the static type, are alive: the extension leaks nothing.
THEOREM NothingIsLeftBehind == Spec => []LeavesNothingBehind
<1>1. ASSUME ExtInv, pc = "idle", dropped = {}
      PROVE  DOMAIN heap = Locals(1) \cup {Type}
  <2>1. HoldersInv /\ CountInv /\ depth \in 1 .. 4
    BY <1>1, DepthIs DEF ExtInv
  <2>2. ASSUME NEW o \in DOMAIN heap, o # Type
        PROVE  o \in Locals(1)
    <3>1. \E n \in 1 .. 4 : o \in Locals(n)
      <4>1. \/ \E n \in 1 .. 4 : o \in Locals(n)
            \/ \E k : o = Dict(k) /\ <<List, k, o>> \in refs
            \/ \E k, f : o = Value(k, f) /\ <<Dict(k), f, o>> \in refs
            \/ \E k, f, m : o = Str(k, f, m) /\ <<Value(k, f), m, o>> \in refs
        BY <1>1, <2>1, <2>2, Holder
      <4>2. \A k, f, m : o # Dict(k) /\ o # Value(k, f) /\ o # Str(k, f, m)
        BY <1>1, <2>2, NoResultsAtRest
      <4> QED
        BY <4>1, <4>2
    <3> QED
      BY <1>1, <3>1, NoResultsAtRest
  <2>3. ASSUME NEW o \in Locals(1)
        PROVE  o \in DOMAIN heap
    <3>1. Local(1, o) \in refs
      BY <2>1, <2>3, LocalsAre
    <3>2. Local(1, o)[3] = o
      BY LocalIs
    <3> QED
      BY <2>1, <3>1, <3>2 DEF CountInv, CountsAreReferences
  <2>4. Type \in DOMAIN heap
    BY <2>1 DEF CountInv
  <2> QED
    BY <2>2, <2>3, <2>4
<1>2. ExtInv => LeavesNothingBehind
  BY <1>1 DEF LeavesNothingBehind
<1> QED
  BY <1>2, ExtInvariant, PTL

\* A container that holds a value of its own under each key is read back.
LEMMA ReadBack ==
    ASSUME NEW c, NEW K, NEW V, HeldBy(c) = {<<c, x, V[x]>> : x \in K}
    PROVE  Keys(c) = K /\ \A x \in K : Slot(c, x) = V[x]
<1>1. \A r \in HeldBy(c) : r[2] \in K /\ r[3] = V[r[2]]
  OBVIOUS
<1>2. ASSUME NEW x \in K
      PROVE  <<c, x, V[x]>> \in HeldBy(c) /\ <<c, x, V[x]>>[2] = x
  OBVIOUS
<1>3. Keys(c) = K
  BY <1>1, <1>2 DEF Keys
<1>4. ASSUME NEW x \in K
      PROVE  Slot(c, x) = V[x]
  <2>1. PICK r : r = CHOOSE s \in HeldBy(c) : s[2] = x
    OBVIOUS
  <2>2. r \in HeldBy(c) /\ r[2] = x
    BY <1>2, <2>1
  <2> QED
    BY <1>1, <2>1, <2>2 DEF Slot
<1> QED
  BY <1>3, <1>4

\* The list that is returned, read back.
LEMMA ListReadBack ==
    ASSUME ExtInv, pc = "returned", ret = List
    PROVE  /\ results = CheckSite(CallPassed, NoStats)
           /\ Last(call.arguments) = Exhausted /\ Last(call.parameters) \in {Exhausted, Null}
           /\ Keys(List) = DOMAIN results
           /\ \A k \in DOMAIN results : Slot(List, k) = Dict(k) /\ DictHolds(k, Fields)
<1>1. ListIsAlive
  BY DEF ListIsAlive
<1>2. /\ results = CheckSite(CallPassed, NoStats)
      /\ Last(call.arguments) = Exhausted /\ Last(call.parameters) \in {Exhausted, Null}
      /\ Len(results) \in Nat /\ DOMAIN results = 1 .. Len(results) /\ nth = Len(results) + 1
  BY <1>1 DEF ExtInv, ResultsInv
<1>3. 1 .. (nth - 1) = DOMAIN results
  BY <1>2
<1>4. /\ HeldBy(List) = {<<List, k, Dict(k)>> : k \in DOMAIN results}
      /\ \A k \in DOMAIN results : DictHolds(k, Fields)
  BY <1>1, <1>3 DEF ExtInv, ListInv
<1>5. PICK V : V = [k \in DOMAIN results |-> Dict(k)]
  OBVIOUS
<1>6. HeldBy(List) = {<<List, k, V[k]>> : k \in DOMAIN results}
  BY <1>4, <1>5
<1>7. Keys(List) = DOMAIN results /\ \A k \in DOMAIN results : Slot(List, k) = V[k]
  BY <1>6, ReadBack
<1> QED
  BY <1>2, <1>4, <1>5, <1>7

\* A dict that has all its entries is the result it was made from.
LEMMA DictReadBack ==
    ASSUME NEW k, DictHolds(k, Fields)
    PROVE  LET got == AsResult(Dict(k))
           IN  \A f \in DOMAIN got : got[f] = results[k][f]
<1>1. PICK V : V = [f \in Fields |-> Value(k, f)]
  OBVIOUS
<1>2. HeldBy(Dict(k)) = {<<Dict(k), f, V[f]>> : f \in Fields}
  BY <1>1 DEF DictHolds
<1>3. \A f \in Fields : Slot(Dict(k), f) = Value(k, f)
  BY <1>1, <1>2, ReadBack
<1>4. ASSUME NEW f \in {"morphemes1", "morphemes2"}
      PROVE  Keys(Value(k, f)) = results[k][f]
  <2>1. PICK W : W = [m \in results[k][f] |-> Str(k, f, m)]
    OBVIOUS
  <2>2. SetHolds(k, f, results[k][f])
    BY <1>4 DEF DictHolds, ValueIsComplete, Fields
  <2>3. HeldBy(Value(k, f)) = {<<Value(k, f), m, W[m]>> : m \in results[k][f]}
    BY <2>1, <2>2 DEF SetHolds
  <2>4. PICK c, K : c = Value(k, f) /\ K = results[k][f]
    OBVIOUS
  <2>5. HeldBy(c) = {<<c, m, W[m]>> : m \in K}
    BY <2>3, <2>4
  <2>6. Keys(c) = K
    BY <2>5, ReadBack
  <2> QED
    BY <2>4, <2>6
<1>5. \A f \in {"arg1", "arg2"} : heap[Value(k, f)].value = results[k][f]
  BY DEF DictHolds, ValueIsComplete, Fields
<1>6. /\ heap[Slot(Dict(k), "arg1")].value = results[k].arg1
      /\ heap[Slot(Dict(k), "arg2")].value = results[k].arg2
      /\ Keys(Slot(Dict(k), "morphemes1")) = results[k].morphemes1
      /\ Keys(Slot(Dict(k), "morphemes2")) = results[k].morphemes2
  BY <1>3, <1>4, <1>5 DEF Fields
<1> QED
  BY <1>6 DEF AsResult

\* A list that check_call returns is the checker's reports on the call that was
\* passed, all of them, complete and in order, whatever the two iterables give.
THEOREM ListsAreVerdicts == Spec => []ListIsVerdicts
<1>1. ASSUME ExtInv, pc = "returned", ret = List
      PROVE  LET reports == CheckSite(CallPassed, NoStats)
             IN  /\ Last(call.arguments) = Exhausted
                 /\ Last(call.parameters) \in {Exhausted, Null}
                 /\ Keys(List) = DOMAIN reports
                 /\ \A k \in DOMAIN reports :
                       LET got == AsResult(Slot(List, k))
                       IN  \A f \in DOMAIN got : got[f] = reports[k][f]
  <2>1. /\ results = CheckSite(CallPassed, NoStats)
        /\ Last(call.arguments) = Exhausted /\ Last(call.parameters) \in {Exhausted, Null}
        /\ Keys(List) = DOMAIN results
        /\ \A k \in DOMAIN results : Slot(List, k) = Dict(k) /\ DictHolds(k, Fields)
    BY <1>1, ListReadBack
  <2>2. ASSUME NEW k \in DOMAIN results
        PROVE  LET got == AsResult(Slot(List, k))
               IN  \A f \in DOMAIN got : got[f] = results[k][f]
    <3>1. Slot(List, k) = Dict(k) /\ DictHolds(k, Fields)
      BY <2>1, <2>2
    <3> QED
      BY <3>1, DictReadBack
  <2> QED
    BY <2>1, <2>2
<1>2. ExtInv => ListIsVerdicts
  BY <1>1 DEF ListIsVerdicts
<1> QED
  BY <1>2, ExtInvariant, PTL
=============================================================================
