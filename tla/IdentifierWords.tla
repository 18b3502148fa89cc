--------------------------- MODULE IdentifierWords ---------------------------
(***************************************************************************)
(* What IdentifierSplitter::split promises, stated without a scan: which   *)
(* stretches of an identifier are words, and which morphemes they give.    *)
(* Positions are offsets from input.data(), as in the code: offset i names *)
(* the character input[i + 1], and a stretch runs from offset s up to but  *)
(* not including offset e.                                                 *)
(*                                                                         *)
(* std::islower, std::isupper and std::tolower depend on the C locale, so  *)
(* the character classes are parameters.                                   *)
(***************************************************************************)
EXTENDS Naturals, Sequences

CONSTANTS Char,        \* the characters of identifiers
          Lower,       \* those islower() accepts
          Upper,       \* those isupper() accepts
          Underscore,  \* the hard word boundary
          ToLower      \* tolower(), as a function on Char

ASSUME CharClasses ==
    /\ Lower \subseteq Char
    /\ Upper \subseteq Char
    /\ Lower \cap Upper = {}
    /\ Underscore \in Char \ (Lower \cup Upper)

ASSUME ToLowerAssumption ==
    /\ ToLower \in [Char -> Char \ Upper]
    /\ \A c \in Char : (ToLower[c] = Underscore) <=> (c = Underscore)
    /\ \A c \in Char \ Upper : ToLower[c] = c

\* A mistake: the stretch is copied, its case kept.
CaseKept(str, s, e) == [i \in 1 .. (e - s) |-> str[s + i]]

\* The lower-cased stretch of str from offset s to offset e.
lower(str, s, e) == [i \in 1 .. (e - s) |-> ToLower[str[s + i]]]

\* A transition from lowercase to uppercase at offset i.
Transition(str, i) ==
    /\ i \in 1 .. (Len(str) - 1)
    /\ str[i] \in Lower
    /\ str[i + 1] \in Upper

StartsWord(str, s) ==
    \/ s = 0
    \/ str[s] = Underscore
    \/ Transition(str, s)

EndsWord(str, e) ==
    \/ e = Len(str)
    \/ str[e + 1] = Underscore
    \/ Transition(str, e)

\* No boundary lies inside the stretch.
Unbroken(str, s, e) ==
    /\ \A i \in (s + 1) .. e : str[i] # Underscore
    /\ \A i \in (s + 1) .. (e - 1) : ~Transition(str, i)

IsWord(str, s, e) ==
    /\ s < e
    /\ StartsWord(str, s)
    /\ Unbroken(str, s, e)
    /\ EndsWord(str, e)

Words(str) ==
    {w \in (0 .. Len(str)) \X (0 .. Len(str)) : IsWord(str, w[1], w[2])}

\* The set that split(str) returns.
Morphemes(str) == {lower(str, w[1], w[2]) : w \in Words(str)}
=============================================================================
