--------------------------- MODULE StatisticsProofs ---------------------------
(***************************************************************************)
(* The database session holds nothing between queries, leaks nothing, and  *)
(* is the store that the checker relies on, for every table.               *)
(***************************************************************************)
EXTENDS Statistics, TLAPS

-----------------------------------------------------------------------------
(* Statements and rows *)

\* A prepared statement is a statement, and not a null pointer.
LEMMA PreparedType ==
    ASSUME NEW k \in Kind
    PROVE  Prepared(k) \in Statement(k) /\ Prepared(k) # Null
<1>1. Prepared(k) \in Statement(k)
  BY DEF Prepared, Statement, NoParams, Params
<1> QED
  BY <1>1, NullAssumption

\* A parameter that is NULL equals no column of any row.
LEMMA NullMatchesNothing ==
    ASSUME NEW kind \in Kind, NEW params, NEW c \in Columns(kind), params[c] = Null
    PROVE  Matches(kind, params) = {}
<1> SUFFICES ASSUME NEW k \in DOMAIN Rows, Rows[k][c] = Null
             PROVE  FALSE
  BY DEF Matches
<1>1. Rows[k] \in Row
  BY TableAssumption
<1>2. c \in {"func", "arg", "morpheme"}
  BY DEF Columns
<1> QED
  BY <1>1, <1>2, TableAssumption DEF Row

\* Of a set of positions with a first member there is just that one.
LEMMA FirstIsOne ==
    ASSUME NEW rows \in SUBSET Nat, NEW k \in First(rows)
    PROVE  First(rows) = {k} /\ k \in rows /\ \A l \in rows : k <= l
<1>1. k \in rows /\ \A l \in rows : k <= l
  BY DEF First
<1>2. ASSUME NEW l \in First(rows) PROVE l = k
  <2>1. l \in rows /\ k <= l /\ l <= k
    BY <1>1 DEF First
  <2> QED
    BY <1>1, <2>1
<1> QED
  BY <1>1, <1>2

\* The query in hand has a statement of its kind, and others are left alone
\* when that is replaced.
LEMMA CurrentType ==
    ASSUME SessionInv, pc \in {"bind", "step", "unbind"}
    PROVE  /\ query.kind \in Kind /\ query \in Query
           /\ db = "open" /\ \A k \in Kind : stmt[k] # Null
           /\ current \in Statement(query.kind)
<1>1. query.kind \in Kind /\ query \in Query
  BY DEF SessionInv, TypeOK, Query
<1>2. db = "open" /\ \A k \in Kind : stmt[k] # Null
  BY DEF SessionInv, Serving, OnlyValidIsQueried, valid
<1> QED
  BY <1>1, <1>2 DEF SessionInv, TypeOK, current

\* Replacing the statement of the query in hand leaves the other as it was.
LEMMA SetCurrentType ==
    ASSUME SessionInv, pc \in {"bind", "step", "unbind"}, query' = query,
           NEW s \in Statement(query.kind), SetCurrent(s)
    PROVE  /\ DOMAIN stmt' = Kind /\ current' = s
           /\ \A k \in Kind : stmt'[k] \in Statement(k) /\ stmt'[k] # Null
           /\ \A k \in Kind \ {query.kind} : stmt'[k] = stmt[k]
<1>1. query.kind \in Kind /\ DOMAIN stmt = Kind
  BY CurrentType DEF SessionInv, TypeOK
<1>2. \A k \in Kind : stmt[k] \in Statement(k)
  BY CurrentType DEF SessionInv, TypeOK
<1>3. \A k \in Kind : stmt'[k] = IF k = query.kind THEN s ELSE stmt[k]
  BY <1>1 DEF SetCurrent
<1>4. \A k \in Kind : stmt'[k] \in Statement(k)
  BY <1>2, <1>3
<1>5. current' = s
  BY <1>1, <1>3 DEF current
<1> QED
  BY <1>1, <1>3, <1>4, <1>5, NullAssumption DEF SetCurrent

\* A statement that a step took to a row is a statement still.
LEMMA PassType ==
    ASSUME NEW kind, NEW s \in Statement(kind), NEW k \in Nat
    PROVE  /\ Pass(s, k) \in Statement(kind) /\ Pass(s, k).status = "running"
           /\ Pass(s, k).next = k + 1 /\ Pass(s, k).params = s.params
<1>1. PICK n \in Nat : n = k + 1
  OBVIOUS
<1>2. Pass(s, k) = [s EXCEPT !.status = "running", !.next = n]
  BY <1>1 DEF Pass
<1>3. /\ [s EXCEPT !.status = "running", !.next = n] \in Statement(kind)
      /\ [s EXCEPT !.status = "running", !.next = n].status = "running"
      /\ [s EXCEPT !.status = "running", !.next = n].next = n
      /\ [s EXCEPT !.status = "running", !.next = n].params = s.params
  BY DEF Statement
<1> QED
  BY <1>1, <1>2, <1>3

\* What a bind leaves: a ready statement asking for the query or for nothing.
LEMMA BoundStatement ==
    ASSUME query \in Query, NEW s \in AfterBind(query.kind, Prepared(query.kind), query)
    PROVE  /\ s \in Statement(query.kind) /\ s.status = "ready"
           /\ \/ \A c \in Columns(query.kind) : s.params[c] = query[c]
              \/ \E c \in Columns(query.kind) : s.params[c] = Null
<1>1. query.kind \in Kind
  BY DEF Query
<1>2. \A c \in Columns(query.kind) : query[c] \in Func \cup Arg \cup Morpheme
  BY <1>1 DEF Query, Columns
<1>3. PICK p : /\ s = [Prepared(query.kind) EXCEPT !.params = p]
               /\ DOMAIN p = Columns(query.kind) /\ p = [c \in Columns(query.kind) |-> p[c]]
               /\ \A c \in Columns(query.kind) : p[c] \in {query[c], Null}
  BY DEF AfterBind, Prepared
<1>4. p \in Params(query.kind)
  BY <1>2, <1>3 DEF Params
<1>5. s.params = p /\ s.status = "ready" /\ s \in Statement(query.kind)
  BY <1>3, <1>4 DEF Prepared, Statement
<1> QED
  BY <1>3, <1>5

-----------------------------------------------------------------------------
(* The session invariant *)

\* An object under construction has nothing open.
LEMMA SessionInit ==
    ASSUME Init
    PROVE  SessionInv
<1>1. TypeOK
  BY DEF Init, TypeOK
<1>2. Opening /\ Serving /\ Reading
  BY NullAssumption DEF Init, Opening, Serving, Reading, OnlyValidIsQueried
<1> QED
  BY <1>1, <1>2 DEF SessionInv

\* Between a query's bind and its unbind, a step that replaces its statement has
\* only the rows read to answer for.
LEMMA QueryStep ==
    ASSUME SessionInv, pc \in {"bind", "step", "unbind"}, UNCHANGED <<db, query>>,
           NEW s \in Statement(query.kind), SetCurrent(s),
           pc' \in {"idle", "step", "unbind"},
           res' \subseteq DOMAIN Rows, answer' \subseteq DOMAIN Rows,
           pc' = "idle" => s = Prepared(query.kind),
           Reading'
    PROVE  SessionInv'
<1>1. /\ DOMAIN stmt' = Kind /\ current' = s
      /\ \A k \in Kind : stmt'[k] \in Statement(k) /\ stmt'[k] # Null
      /\ \A k \in Kind \ {query.kind} : stmt'[k] = stmt[k]
  BY SetCurrentType
<1>2. query.kind \in Kind /\ query \in Query /\ db = "open"
  BY CurrentType
<1>3. TypeOK'
  BY <1>1, <1>2 DEF SessionInv, TypeOK
<1>4. Opening'
  BY <1>2 DEF Opening
<1>5. \A k \in Kind \ {query.kind} : stmt'[k] = Prepared(k)
  BY <1>1 DEF SessionInv, Serving
<1>6. stmt'[query.kind] = s
  BY <1>1 DEF current
<1>7. OnlyValidIsQueried'
  BY <1>1, <1>2, NullAssumption DEF OnlyValidIsQueried, valid
<1>8. Serving'
  BY <1>5, <1>6, <1>7 DEF Serving
<1> QED
  BY <1>3, <1>4, <1>8 DEF SessionInv

\* Every call of the class keeps the invariant.
LEMMA SessionStep ==
    ASSUME SessionInv, Next
    PROVE  SessionInv'
<1> USE DEF SessionInv
<1>1. CASE OpenDatabase
  <2>1. TypeOK'
    BY <1>1 DEF OpenDatabase, TypeOK
  <2>2. Opening'
    BY <1>1, NullAssumption DEF OpenDatabase, Opening
  <2>3. Serving' /\ Reading'
    BY <1>1 DEF OpenDatabase, Opening, Serving, Reading, OnlyValidIsQueried
  <2> QED
    BY <2>1, <2>2, <2>3
<1>2. CASE Prepare
  <2>1. DOMAIN stmt' = Kind /\ \A k \in Kind : stmt'[k] = Null \/ stmt'[k] \in Statement(k)
    BY <1>2, PreparedType DEF Prepare
  <2>2. TypeOK'
    BY <1>2, <2>1 DEF Prepare, TypeOK
  <2>3. Opening'
    BY <1>2 DEF Prepare, Opening
  <2>4. Serving' /\ Reading'
    BY <1>2 DEF Prepare, Serving, Reading, OnlyValidIsQueried
  <2> QED
    BY <2>2, <2>3, <2>4
<1>3. CASE CheckValid
  <2>1. TypeOK' /\ Opening'
    BY <1>3 DEF CheckValid, TypeOK, Opening
  <2>2. CASE valid
    <3>1. pc' = "idle" /\ db = "open" /\ UNCHANGED <<db, stmt>>
      BY <1>3, <2>2 DEF CheckValid, Opening, valid, Kind
    <3>2. OnlyValidIsQueried'
      BY <2>2, <3>1 DEF OnlyValidIsQueried, valid
    <3>3. \A k \in Kind : stmt[k] = Prepared(k)
      BY <1>3, <2>2 DEF CheckValid, Serving, valid
    <3> QED
      BY <2>1, <3>1, <3>2, <3>3 DEF Serving, Reading
  <2>3. CASE ~valid
    BY <1>3, <2>1, <2>3 DEF CheckValid, Serving, Reading, OnlyValidIsQueried
  <2> QED
    BY <2>2, <2>3
<1>4. CASE Ask
  <2>1. pc = "idle" /\ pc' = "bind" /\ res' = {} /\ UNCHANGED <<db, stmt>>
    BY <1>4 DEF Ask
  <2>2. TypeOK' /\ Opening'
    BY <1>4 DEF Ask, TypeOK, Opening
  <2>3. OnlyValidIsQueried'
    BY <2>1 DEF Serving, OnlyValidIsQueried, valid
  <2>4. Serving' /\ Reading'
    BY <2>1, <2>3 DEF Serving, Reading
  <2> QED
    BY <2>2, <2>4
<1>5. CASE Bind
  <2>1. pc = "bind" /\ pc' = "step" /\ UNCHANGED <<db, query, res, answer>>
    BY <1>5 DEF Bind
  <2>2. current = Prepared(query.kind)
    BY <2>1, CurrentType DEF Serving, current
  <2>3. PICK s \in AfterBind(query.kind, Prepared(query.kind), query) : SetCurrent(s)
    BY <1>5, <2>2 DEF Bind
  <2>4. /\ s \in Statement(query.kind) /\ s.status = "ready"
        /\ \/ \A c \in Columns(query.kind) : s.params[c] = query[c]
           \/ \E c \in Columns(query.kind) : s.params[c] = Null
    BY <2>1, CurrentType, BoundStatement
  <2>5. current' = s
    BY <2>1, <2>3, <2>4, SetCurrentType
  <2>6. Reading'
    BY <2>1, <2>4, <2>5 DEF Reading, BoundTo
  <2> QED
    BY <2>1, <2>3, <2>4, <2>6, QueryStep DEF TypeOK
<1>6. CASE ReadRow
  <2>1. pc = "step" /\ UNCHANGED <<db, query, answer>>
    BY <1>6 DEF ReadRow
  <2> DEFINE ahead == Ahead(query.kind, current)
             match == Matches(query.kind, current.params)
  <2>2. PICK k \in First(ahead) :
          /\ SetCurrent(Pass(current, k))
          /\ res' = res \cup {k}
    BY <1>6 DEF ReadRow
  <2> DEFINE s == Pass(current, k)
  <2>3. match \subseteq DOMAIN Rows /\ DOMAIN Rows \subseteq Nat /\ ahead \subseteq match
    BY TableAssumption DEF Matches, Ahead
  <2>4. k \in ahead /\ \A l \in ahead : k <= l
    BY <2>2, <2>3, FirstIsOne
  <2>5. current \in Statement(query.kind) /\ query.kind \in Kind /\ query \in Query
    BY <2>1, CurrentType
  <2>6. /\ s \in Statement(query.kind) /\ s.status = "running" /\ s.next = k + 1
        /\ s.params = current.params
    <3>1. k \in Nat
      BY <2>3, <2>4
    <3> HIDE DEF ahead, match
    <3> QED
      BY <2>5, <3>1, PassType
  <2>7. current' = s
    BY <2>1, <2>2, <2>5, <2>6, SetCurrentType
  <2>8. res = {l \in match : current.status = "running" /\ l < current.next}
    BY <2>1 DEF Reading
  <2>9. ahead = {l \in match : current.status = "running" => l >= current.next}
    BY DEF Ahead
  <2>10. res' = {l \in match : l < k + 1}
    <3>1. current.next \in Nat /\ k \in Nat
      BY <2>3, <2>4, <2>5 DEF Statement
    <3>2. ASSUME NEW l \in match PROVE l \in res \cup {k} <=> l < k + 1
      <4>1. l \in Nat
        BY <2>3
      <4>2. l \in res => l < k
        <5> HIDE DEF ahead, match
        <5> QED
          BY <2>4, <2>8, <2>9, <3>1, <4>1
      <4>3. l \notin res => k <= l
        <5> HIDE DEF match
        <5>1. l \notin res => l \in ahead
          BY <2>8, <2>9, <3>1, <4>1
        <5> QED
          BY <2>4, <5>1
      <4> QED
        BY <2>4, <3>1, <4>1, <4>2, <4>3
    <3>3. res \cup {k} \subseteq match
      BY <2>3, <2>4, <2>8
    <3> QED
      BY <2>2, <3>2, <3>3
  <2>11. BoundTo(current) /\ \A c \in Columns(query.kind) : current.params[c] = query[c]
    <3>1. BoundTo(current)
      BY <2>1 DEF Reading
    <3>2. match # {}
      BY <2>3, <2>4
    <3> QED
      BY <2>5, <3>1, <3>2, NullMatchesNothing DEF BoundTo
  <2>12. Matches(query.kind, query) = match
    BY <2>11 DEF Matches
  <2>13. Reading'
    <3>1. CASE query.kind = "value_query"
      <4>1. pc' = "unbind" /\ current.status = "ready" /\ res = {}
        BY <1>6, <2>1, <3>1 DEF ReadRow, Reading
      <4>2. ahead = match
        BY <2>9, <4>1
      <4>3. First(match) = {k}
        <5>1. match \in SUBSET Nat
          BY <2>3
        <5>2. k \in First(match)
          BY <2>2, <4>2
        <5> QED
          BY <5>1, <5>2, FirstIsOne
      <4>4. Truth[query] = {k}
        BY <2>5, <2>12, <3>1, <4>3 DEF Truth
      <4>5. res' = Truth[query]
        BY <2>2, <4>1, <4>4
      <4>6. Truth[query]' = Truth[query]
        BY <2>1
      <4> QED
        BY <4>1, <4>5, <4>6 DEF Reading
    <3>2. CASE query.kind # "value_query"
      <4>1. pc' = "step" /\ query.kind = "morph_value_query"
        BY <1>6, <2>5, <3>2 DEF ReadRow, Kind
      <4>2. BoundTo(current)'
        BY <2>1, <2>6, <2>7, <2>11 DEF BoundTo
      <4>3. res' = {l \in Matches(query.kind, current.params) : l < current.next}'
        BY <2>1, <2>6, <2>7, <2>10
      <4>4. (current.status = "running")'
        BY <2>6, <2>7
      <4> HIDE DEF s, match, ahead
      <4> QED
        BY <2>1, <4>1, <4>2, <4>3, <4>4 DEF Reading
    <3> QED
      BY <3>1, <3>2
  <2>14. pc' \in {"step", "unbind"} /\ res' \subseteq DOMAIN Rows
    BY <1>6, <2>3, <2>10 DEF ReadRow
  <2> QED
    BY <2>1, <2>2, <2>6, <2>13, <2>14, QueryStep DEF TypeOK
<1>7. CASE ReadDone
  <2>1. /\ pc = "step" /\ pc' = "unbind" /\ UNCHANGED <<db, query, res, answer>>
        /\ Ahead(query.kind, current) = {} /\ SetCurrent(Halt(current))
    BY <1>7 DEF ReadDone
  <2>2. current \in Statement(query.kind) /\ query.kind \in Kind /\ query \in Query
    BY <2>1, CurrentType
  <2>3. Halt(current) \in Statement(query.kind)
    BY <2>2 DEF Halt, Statement
  <2>4. res \in {Truth[query], {}}
    <3> DEFINE match == Matches(query.kind, current.params)
    <3>1. CASE current.status = "ready"
      BY <2>1, <3>1 DEF Reading
    <3>2. CASE current.status = "running"
      <4>1. /\ query.kind = "morph_value_query" /\ BoundTo(current)
            /\ res = {l \in match : l < current.next}
        BY <2>1, <3>2 DEF Reading
      <4>2. match \subseteq Nat /\ current.next \in Nat
        BY <2>2, TableAssumption DEF Matches, Statement
      <4>3. \A l \in match : ~(l >= current.next)
        BY <2>1, <3>2 DEF Ahead
      <4> HIDE DEF match
      <4>4. res = match
        <5>1. ASSUME NEW l \in match PROVE l < current.next
          BY <4>2, <4>3
        <5> QED
          BY <4>1, <5>1
      <4>5. CASE \A c \in Columns(query.kind) : current.params[c] = query[c]
        <5>1. Matches(query.kind, query) = match
          BY <4>5 DEF Matches, match
        <5> QED
          BY <2>2, <4>1, <4>4, <5>1 DEF Truth
      <4>6. CASE \E c \in Columns(query.kind) : current.params[c] = Null
        BY <2>2, <4>4, <4>6, NullMatchesNothing DEF match
      <4> QED
        BY <4>1, <4>5, <4>6 DEF BoundTo
    <3> QED
      BY <2>1, <3>1, <3>2 DEF Reading
  <2>5. Reading'
    BY <2>1, <2>4 DEF Reading
  <2> QED
    BY <2>1, <2>3, <2>5, QueryStep DEF TypeOK
<1>8. CASE ReadError
  <2>1. /\ pc = "step" /\ pc' = "unbind" /\ res' = {} /\ UNCHANGED <<db, query, answer>>
        /\ SetCurrent(Halt(current))
    BY <1>8 DEF ReadError
  <2>2. Halt(current) \in Statement(query.kind)
    BY <2>1, CurrentType DEF Halt, Statement
  <2>3. Reading'
    BY <2>1 DEF Reading
  <2> QED
    BY <2>1, <2>2, <2>3, QueryStep DEF TypeOK
<1>9. CASE Unbind
  <2>1. /\ pc = "unbind" /\ pc' = "idle" /\ answer' = res /\ UNCHANGED <<db, query, res>>
        /\ SetCurrent(Prepared(query.kind))
    BY <1>9 DEF Unbind
  <2>2. Prepared(query.kind) \in Statement(query.kind)
    BY <2>1, CurrentType, PreparedType
  <2>3. Reading'
    BY <2>1 DEF Reading
  <2> QED
    BY <2>1, <2>2, <2>3, QueryStep DEF TypeOK
<1>10. CASE Delete
  BY <1>10 DEF Delete, TypeOK, Opening, Serving, Reading, OnlyValidIsQueried
<1>11. CASE Finalize
  <2>1. TypeOK'
    BY <1>11 DEF Finalize, TypeOK
  <2>2. Opening' /\ Serving' /\ Reading'
    BY <1>11 DEF Finalize, Opening, Serving, Reading, OnlyValidIsQueried
  <2> QED
    BY <2>1, <2>2
<1>12. CASE Close
  <2>1. pc = "close" /\ pc' = "gone" /\ UNCHANGED <<stmt, query, res, answer>>
        /\ \A k \in Kind : stmt[k] = Null
    BY <1>12 DEF Close, Opening
  <2>2. db' = IF db # Null THEN "closed" ELSE Null
    BY <1>12, <2>1 DEF Close
  <2>3. TypeOK'
    BY <2>1, <2>2 DEF TypeOK
  <2>4. Opening' /\ Serving' /\ Reading'
    BY <2>1, <2>2 DEF Opening, Serving, Reading, OnlyValidIsQueried
  <2> QED
    BY <2>3, <2>4
<1> QED
  BY <1>1, <1>2, <1>3, <1>4, <1>5, <1>6, <1>7, <1>8, <1>9, <1>10, <1>11, <1>12
     DEF Next, Querying

\* A stuttering step keeps the invariant.
LEMMA SessionStutters ==
    ASSUME SessionInv, UNCHANGED vars
    PROVE  SessionInv'
BY DEF vars, SessionInv, TypeOK, Opening, Serving, Reading, OnlyValidIsQueried, valid,
       current, BoundTo

-----------------------------------------------------------------------------
(* Theorems *)

\* The session proceeds as the class's methods are written, for every table.
THEOREM SessionCorrect == Spec => []SessionInv
<1>1. Init => SessionInv
  BY SessionInit
<1>2. SessionInv /\ [Next]_vars => SessionInv'
  BY SessionStep, SessionStutters
<1> QED
  BY <1>1, <1>2, PTL DEF Spec

\* The assertions of weightForMorphemeAtPos and morphemesAndWeightsAtPos hold.
THEOREM NoQueryOnInvalid == Spec => []OnlyValidIsQueried
<1>1. SessionInv => OnlyValidIsQueried
  BY DEF SessionInv, Serving
<1> QED
  BY <1>1, SessionCorrect, PTL

\* Binder's destructor resets what its query used, however the query ended.
THEOREM NothingHeld == Spec => []IdleHoldsNothing
<1>1. SessionInv => IdleHoldsNothing
  BY DEF SessionInv, Serving, IdleHoldsNothing
<1> QED
  BY <1>1, SessionCorrect, PTL

\* The destructor releases whatever the constructor came to acquire.
THEOREM NoLeak == Spec => []NothingLeaks
<1>1. SessionInv => NothingLeaks
  BY DEF SessionInv, Opening, NothingLeaks
<1> QED
  BY <1>1, SessionCorrect, PTL

\* Every answer is a row set the database has for the query asked, or none: the
\* session takes only steps that the store of WeightStore may take.
THEOREM ImplementsStore == Spec => Store!Safe
<1>1. Init => Store!Init
  BY DEF Init, Store!Init, phase
<1>2. ASSUME SessionInv, SessionInv', Next PROVE [Store!Next]_Store!vars
  <2> USE DEF phase
  <2>1. CASE OpenDatabase \/ Prepare
    BY <2>1 DEF OpenDatabase, Prepare, Store!vars
  <2>2. CASE CheckValid
    BY <2>2 DEF CheckValid, Store!Next, Store!Open, Store!Shut
  <2>3. CASE Ask
    BY <2>3 DEF Ask, Store!Next, Store!Ask
  <2>4. CASE Bind \/ ReadRow \/ ReadDone \/ ReadError
    BY <2>4 DEF Bind, ReadRow, ReadDone, ReadError, Store!vars
  <2>5. CASE Unbind
    <3>1. pc = "unbind" /\ pc' = "idle" /\ query' = query /\ answer' = res
      BY <2>5 DEF Unbind
    <3>2. answer' \in {Truth[query], {}}
      BY <1>2, <3>1 DEF SessionInv, Reading
    <3> QED
      BY <3>1, <3>2 DEF Store!Next, Store!Reply
  <2>6. CASE Delete
    BY <2>6 DEF Delete, Store!Next, Store!Shut
  <2>7. CASE Finalize \/ Close
    BY <2>7 DEF Finalize, Close, Store!vars
  <2> QED
    BY <1>2, <2>1, <2>2, <2>3, <2>4, <2>5, <2>6, <2>7 DEF Next, Querying
<1>3. ASSUME UNCHANGED vars PROVE UNCHANGED Store!vars
  BY <1>3 DEF vars, Store!vars, phase
<1>4. SessionInv /\ SessionInv' /\ [Next]_vars => [Store!Next]_Store!vars
  BY <1>2, <1>3
<1> QED
  BY <1>1, <1>4, SessionCorrect, PTL DEF Spec, Store!Safe
=============================================================================
