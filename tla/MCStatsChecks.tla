---------------------------- MODULE MCStatsChecks ----------------------------
(***************************************************************************)
(* Call sites and databases for the runs with statistics.                  *)
(***************************************************************************)
EXTENDS MCSwappedArgChecker

\* One position's weights, in quarters, for x, y and z.
Row(x, y, z) ==
    [m \in MCMorpheme |-> CASE m = "x" -> x [] m = "y" -> y [] m = "z" -> z
                            [] OTHER -> NoRow]
Absent == Row(NoRow, NoRow, NoRow)
Shares == {Absent, Row(4, NoRow, NoRow), Row(NoRow, 4, NoRow), Row(3, 1, NoRow),
           Row(1, 3, NoRow), Row(2, 2, NoRow), Row(2, 1, 1), Row(NoRow, 1, 3),
           Row(4, 0, NoRow)}
\* Rows that do not add up to one, which the schema does not exclude.
Skewed == {Row(4, 4, NoRow), Row(0, 4, NoRow), Row(4, 4, 4)}

Tables(rows) == [Position -> rows]

TwoArgSites ==
    LET N == {"x", "y", "x_z", "y_w"}
    IN  {Site(Named(a), p) : a \in TupleOf(N, 2),
            p \in {<<>>, <<"x", "y">>, <<"y", "x">>, <<"x_z", "y_w">>, <<"_", "x">>}}

\* Rows for the first two positions and none for others, or no database.
TwoPositionTables ==
    {[p \in Position |-> IF p <= 1 THEN t[p] ELSE Absent] : t \in [0 .. 1 -> Shares \cup Skewed]}
TwoArgDatabases == TwoPositionTables \cup {NoStats}

FaultSites ==
    {Site(Named(a), p) :
        a \in {<<"x", "y">>, <<"y", "x">>, <<"x_z", "y_w">>, <<"y_w", "x_z">>},
        p \in {<<>>, <<"x", "y">>, <<"y_w", "x_z">>}}
FaultDatabases == Tables(Shares)

\* A name at home in one position, and now and then in the other.
ConfidenceDatabases == Tables({Row(4, NoRow, NoRow), Row(1, 3, NoRow)})

\* Three arguments, so three pairs, against five rows for each position.
ThreeArgSites ==
    LET N == {"x", "y", "z"}
    IN  {Site(Named(a), p) : a \in TupleOf(N, 3),
            p \in {<<>>, <<"x", "y", "z">>, <<"y", "x">>, <<"_", "z", "y">>}}
ThreeArgDatabases ==
    Tables({Absent, Row(4, NoRow, NoRow), Row(NoRow, 4, NoRow), Row(NoRow, NoRow, 4),
            Row(1, 3, NoRow)})

StatsSites == TwoArgSites \cup ThreeArgSites
StatsDatabases == TwoArgDatabases \cup ThreeArgDatabases

AllChecks == {"All", "CoverBased", "StatsBased"}

\* The calls of two arguments go with the rows for two positions and every value of
\* whichCheck, those of three with the rows for three.
StatsInit ==
    /\ Init
    /\ \/ site \in TwoArgSites /\ stats \in TwoArgDatabases
       \/ site \in ThreeArgSites /\ stats \in ThreeArgDatabases /\ whichCheck = "All"

StatsSpec == StatsInit /\ [][Next]_vars
=============================================================================
