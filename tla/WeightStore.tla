----------------------------- MODULE WeightStore -----------------------------
(***************************************************************************)
(* What the checker relies on from Statistics: once open, a query is       *)
(* answered with the rows the database has for it, or with none. An answer *)
(* is never another query's, nor part of its own.                          *)
(***************************************************************************)
CONSTANTS Query,
          Truth      \* the set of rows that answers each query

VARIABLES state,     \* "opening", "idle", "asked" or "shut"
          query,     \* the query last asked
          answer     \* its answer; {} stands for nullopt and false

vars == <<state, query, answer>>

Init ==
    /\ state = "opening"
    /\ query \in Query
    /\ answer = {}

Open ==
    /\ state = "opening"
    /\ state' = "idle"
    /\ UNCHANGED <<query, answer>>

Ask ==
    /\ state = "idle"
    /\ state' = "asked"
    /\ query' \in Query
    /\ answer' = {}

Reply ==
    /\ state = "asked"
    /\ state' = "idle"
    /\ answer' \in {Truth[query], {}}
    /\ UNCHANGED query

Shut ==
    /\ state \in {"opening", "idle"}
    /\ state' = "shut"
    /\ UNCHANGED <<query, answer>>

Next == Open \/ Ask \/ Reply \/ Shut

Safe == Init /\ [][Next]_vars

Spec == Safe /\ WF_vars(Reply)
=============================================================================
