------------------------- MODULE IdentifierSplitting -------------------------
(***************************************************************************)
(* IdentifierSplitter::split, one step per iteration of its loop: a single *)
(* scan that remembers where the current word began and whether the        *)
(* previous character was lower case.                                      *)
(***************************************************************************)
EXTENDS IdentifierWords

CONSTANT Inputs        \* the identifiers split() is called with

ASSUME InputsAssumption == Inputs \subseteq Seq(Char)

VARIABLES input,             \* the argument
          wordStart,         \* offset of the current word
          curLoc,            \* offset of the scan
          prevCharWasLower,
          ret,               \* the morphemes collected so far
          pc                 \* "scan" in the loop, "done" after the return

vars == <<input, wordStart, curLoc, prevCharWasLower, ret, pc>>

\* data() of an empty string points at the terminating NUL, not lower case.
Init ==
    /\ input \in Inputs
    /\ wordStart = 0
    /\ curLoc = 0
    /\ prevCharWasLower = (input # <<>> /\ input[1] \in Lower)
    /\ ret = {}
    /\ pc = "scan"

InLoop == pc = "scan" /\ curLoc < Len(input)

Current == input[curLoc + 1]

\* A mistake: prevCharWasLower keeps the value it had for the first character.
StaleCase ==
    /\ UNCHANGED prevCharWasLower
    /\ curLoc' = curLoc + 1
    /\ UNCHANGED <<input, pc>>

\* The end of every iteration: prevCharWasLower is refreshed, curLoc advances.
Advance ==
    /\ prevCharWasLower' = (Current \in Lower)
    /\ curLoc' = curLoc + 1
    /\ UNCHANGED <<input, pc>>

\* A mistake: the word is added without testing that there is one.
UntestedWord ==
    /\ InLoop
    /\ Current = Underscore
    /\ ret' = ret \cup {lower(input, wordStart, curLoc)}
    /\ wordStart' = curLoc + 1
    /\ Advance

\* A mistake: the iteration is left before the scan advances.
NoAdvance ==
    /\ InLoop
    /\ Current = Underscore
    /\ ret' = ret \cup {lower(input, wordStart, curLoc)}
    /\ wordStart' = curLoc
    /\ UNCHANGED <<input, curLoc, prevCharWasLower, pc>>

\* "_" ends the word, if there is one, and the next word starts after it.
HardBoundary ==
    /\ InLoop
    /\ Current = Underscore
    /\ ret' = IF wordStart # curLoc
              THEN ret \cup {lower(input, wordStart, curLoc)}
              ELSE ret
    /\ wordStart' = curLoc + 1
    /\ Advance

IsHump == Current \in Upper /\ prevCharWasLower

\* A capital after a lower-case character ends the word and starts the next.
\* The word is inserted without testing that it has a character.
CamelBoundary ==
    /\ InLoop
    /\ Current # Underscore
    /\ IsHump
    /\ ret' = ret \cup {lower(input, wordStart, curLoc)}
    /\ wordStart' = curLoc
    /\ Advance

WithinWord ==
    /\ InLoop
    /\ Current # Underscore
    /\ ~IsHump
    /\ UNCHANGED <<ret, wordStart>>
    /\ Advance

\* A mistake: only the words that a boundary ends are added.
LastWordLost ==
    /\ pc = "scan"
    /\ curLoc = Len(input)
    /\ pc' = "done"
    /\ UNCHANGED <<input, wordStart, curLoc, prevCharWasLower, ret>>

\* After the loop the last part of the string, if any, is added.
Return ==
    /\ pc = "scan"
    /\ curLoc = Len(input)
    /\ ret' = IF wordStart # Len(input)
              THEN ret \cup {lower(input, wordStart, Len(input))}
              ELSE ret
    /\ pc' = "done"
    /\ UNCHANGED <<input, wordStart, curLoc, prevCharWasLower>>

Next == HardBoundary \/ CamelBoundary \/ WithinWord \/ Return

Spec == Init /\ [][Next]_vars

\* The function is called and runs to its return: its only step stays enabled
\* until then.
FairSpec == Spec /\ WF_vars(Next)

-----------------------------------------------------------------------------
(* Properties *)

\* The scan's variables stay in range: the word under construction begins at
\* or before the scan, which never passes the end of the input.
TypeOK ==
    /\ input \in Seq(Char)
    /\ curLoc \in 0 .. Len(input)
    /\ wordStart \in 0 .. curLoc
    /\ prevCharWasLower \in BOOLEAN
    /\ ret \subseteq Seq(Char)
    /\ pc \in {"scan", "done"}

\* What split() returns is exactly the morphemes of its input: no word is lost
\* at the end of the string, split in two, or run together with its neighbour.
SplitIsMorphemes == pc = "done" => ret = Morphemes(input)

\* The empty string is never a morpheme, although the insertion at a
\* lower-to-upper transition does not test for it: prevCharWasLower is about
\* the previous character and never about one before the word's start.
NoEmptyMorpheme == \A m \in ret : Len(m) > 0

\* Morphemes are case-insensitive and atomic: they hold no capital, and
\* splitting one again gives it back unchanged, so comparing them for equality
\* (anyAreSynonyms, similarity) compares words.
MorphemesAreAtomic ==
    \A m \in ret : m \in Seq(Char \ Upper) /\ Morphemes(m) = {m}

\* Only names made of underscores have no morphemes; CheckSite drops a whole
\* pair of arguments when a set comes back empty.
OnlyUnderscoresVanish ==
    pc = "done" =>
        (ret = {} <=>
            \A i \in 1 .. Len(input) : input[i] = Underscore)

\* split() returns.
Terminates == <>(pc = "done")

-----------------------------------------------------------------------------
(* The inductive invariant behind the first three *)

\* prevCharWasLower is islower() of the character before the scan (of the
\* first character, before the first iteration).
PrevCharInv ==
    prevCharWasLower =
        IF curLoc = 0 THEN input # <<>> /\ input[1] \in Lower
                      ELSE input[curLoc] \in Lower

\* The word under construction starts at a boundary and holds none. It has no
\* character yet only at the start of the input or just after an underscore,
\* which is why a transition never closes an empty word.
CurrentWordInv ==
    /\ StartsWord(input, wordStart)
    /\ Unbroken(input, wordStart, curLoc)
    /\ wordStart = curLoc => curLoc = 0 \/ input[curLoc] = Underscore

\* The words that end by wordStart have been collected, and nothing else.
CollectedInv ==
    pc = "scan" =>
        ret = {lower(input, w[1], w[2]) :
                   w \in {v \in Words(input) : v[2] <= wordStart}}

\* A character that is not an underscore is in a collected word or in the
\* word under construction.
SomethingKeptInv ==
    /\ \A i \in 1 .. curLoc :
           input[i] # Underscore => ret # {} \/ wordStart < curLoc
    /\ pc = "done" => curLoc = Len(input)

\* The scan is sound at every step.
ScanInv ==
    TypeOK /\ PrevCharInv /\ CurrentWordInv /\ CollectedInv /\ SomethingKeptInv
=============================================================================
