----------------------------- MODULE MCStatistics -----------------------------
(***************************************************************************)
(* Two callees, two positions and two morphemes against a table in which   *)
(* one position has two rows, one a single row, and the others none.       *)
(***************************************************************************)
EXTENDS Statistics

MCRows ==
    << [func |-> "f", arg |-> "0", morpheme |-> "x", value |-> 3],
       [func |-> "g", arg |-> "0", morpheme |-> "x", value |-> 4],
       [func |-> "f", arg |-> "0", morpheme |-> "y", value |-> 1],
       [func |-> "f", arg |-> "1", morpheme |-> "y", value |-> 4] >>
=============================================================================
