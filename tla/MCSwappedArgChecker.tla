------------------------- MODULE MCSwappedArgChecker -------------------------
(***************************************************************************)
(* Names for the runs of SwappedArgChecker. A name is written as the       *)
(* program would see it; its morphemes, its stem and its digit are what    *)
(* split(), substr() and isdigit() make of it.                             *)
(***************************************************************************)
EXTENDS SwappedArgChecker, SequencesExt

MCMorpheme == {"x", "y", "z", "w", "item", "item1", "item2", "7"}

\* name |-> <<morphemes, name without its last character>>
MCNames ==
    [n \in {"", "_", "x", "y", "z", "x_w", "y_w", "z_w", "x_y", "x_z",
            "item", "item1", "item2", "item_", "7"} |->
        CASE n = "x_w"    -> <<{"x", "w"}, "x_">>
          [] n = "y_w"    -> <<{"y", "w"}, "y_">>
          [] n = "z_w"    -> <<{"z", "w"}, "z_">>
          [] n = "x_y"    -> <<{"x", "y"}, "x_">>
          [] n = "x_z"    -> <<{"x", "z"}, "x_">>
          [] n = "item"   -> <<{"item"}, "ite">>
          [] n = "item_"  -> <<{"item"}, "item">>
          [] n = "item1"  -> <<{"item1"}, "item">>
          [] n = "item2"  -> <<{"item2"}, "item">>
          [] n \in {"", "_"} -> <<{}, "">>
          [] OTHER        -> <<{n}, "">>]

MCName == DOMAIN MCNames
MCSplit == [n \in MCName |-> MCNames[n][1]]
MCStem == [n \in MCName |-> MCNames[n][2]]
MCDigitSuffix == {"item1", "item2", "7"}

Site(args, params) == [args |-> args, params |-> params]
Named(ns) == [k \in DOMAIN ns |-> <<ns[k]>>]
=============================================================================
