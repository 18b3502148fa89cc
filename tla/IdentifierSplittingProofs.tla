---------------------- MODULE IdentifierSplittingProofs ----------------------
(***************************************************************************)
(* split() returns the morphemes of its input, for every input and every   *)
(* locale: the scan invariant is inductive, and at the return it says that *)
(* the words collected are all the words there are.                        *)
(***************************************************************************)
EXTENDS IdentifierSplitting, TLAPS

\* A stretch of an identifier, lower-cased, is a string.
LEMMA LowerType ==
    ASSUME NEW str \in Seq(Char), NEW s \in Nat, NEW e \in Nat, e <= Len(str)
    PROVE  /\ lower(str, s, e) \in Seq(Char)
           /\ s <= e => Len(lower(str, s, e)) = e - s
<1>1. CASE s <= e
  <2> DEFINE n == e - s
  <2>1. n \in Nat
    BY <1>1
  <2>2. \A i \in 1 .. n : s + i \in 1 .. Len(str)
    BY <1>1
  <2>3. \A i \in 1 .. n : ToLower[str[s + i]] \in Char
    BY <2>2, ToLowerAssumption
  <2>4. lower(str, s, e) \in [1 .. n -> Char]
    BY <2>3 DEF lower
  <2>5. lower(str, s, e) \in Seq(Char)
    BY <2>1, <2>4
  <2>6. Len(lower(str, s, e)) = n
    BY <2>1, <2>4, <2>5
  <2> QED
    BY <2>5, <2>6
<1>2. CASE ~(s <= e)
  <2>1. 1 .. (e - s) = 1 .. 0
    BY <1>2
  <2>2. lower(str, s, e) \in [1 .. 0 -> Char]
    BY <2>1 DEF lower
  <2> QED
    BY <1>2, <2>2
<1> QED
  BY <1>1, <1>2

\* The only word that ends after the start w of an unbroken stretch and not
\* after its end c is that stretch: boundaries leave no room for another.
LEMMA OneWordPerStretch ==
    ASSUME NEW str \in Seq(Char), NEW w \in Nat, NEW c \in Nat,
           c <= Len(str), StartsWord(str, w), Unbroken(str, w, c),
           NEW s \in Nat, NEW e \in Nat,
           IsWord(str, s, e), w < e, e <= c
    PROVE  s = w /\ e = c
<1>1. e = c
  <2> SUFFICES ASSUME e < c
               PROVE  FALSE
    OBVIOUS
  <2>1. str[e + 1] # Underscore /\ ~Transition(str, e) /\ e # Len(str)
    BY DEF Unbroken
  <2> QED
    BY <2>1 DEF IsWord, EndsWord
<1>2. ~(s < w)
  <2> SUFFICES ASSUME s < w
               PROVE  FALSE
    OBVIOUS
  <2>1. str[w] # Underscore /\ ~Transition(str, w) /\ w # 0
    BY DEF IsWord, Unbroken
  <2> QED
    BY <2>1 DEF StartsWord
<1>3. ~(w < s)
  <2> SUFFICES ASSUME w < s
               PROVE  FALSE
    OBVIOUS
  <2>1. s < c
    BY DEF IsWord
  <2>2. str[s] # Underscore /\ ~Transition(str, s) /\ s # 0
    BY <2>1 DEF Unbroken
  <2> QED
    BY <2>2 DEF IsWord, StartsWord
<1> QED
  BY <1>1, <1>2, <1>3

\* The words of str that end by offset c, lower-cased.
WordsBy(str, c) ==
    {lower(str, w[1], w[2]) : w \in {v \in Words(str) : v[2] <= c}}

\* Moving the start of the current word to the boundary c that ends it adds
\* that one word, or none when the stretch is empty.
LEMMA CollectWord ==
    ASSUME NEW str \in Seq(Char), NEW w \in Nat, NEW c \in Nat,
           w <= c, c <= Len(str),
           StartsWord(str, w), Unbroken(str, w, c), EndsWord(str, c)
    PROVE  WordsBy(str, c) =
               WordsBy(str, w) \cup (IF w # c THEN {lower(str, w, c)} ELSE {})
<1> DEFINE Done(v) == {u \in Words(str) : u[2] <= v}
<1>1. \A u \in Words(str) : /\ u = <<u[1], u[2]>>
                            /\ u[1] \in Nat /\ u[2] \in Nat
                            /\ IsWord(str, u[1], u[2])
  BY DEF Words
<1>2. CASE w = c
  BY <1>2 DEF WordsBy
<1>3. CASE w # c
  <2>1. <<w, c>> \in Done(c)
    BY <1>3 DEF Words, IsWord
  <2>2. \A u \in Done(c) : u \in Done(w) \/ u = <<w, c>>
    <3> SUFFICES ASSUME NEW u \in Done(c), u \notin Done(w)
                 PROVE  u = <<w, c>>
      OBVIOUS
    <3>1. w < u[2] /\ u[2] <= c
      BY <1>1
    <3>2. u[1] = w /\ u[2] = c
      BY <1>1, <3>1, OneWordPerStretch
    <3> QED
      BY <1>1, <3>2
  <2>3. Done(w) \subseteq Done(c)
    BY <1>1
  <2>4. Done(c) = Done(w) \cup {<<w, c>>}
    BY <2>1, <2>2, <2>3
  <2> HIDE DEF Done
  <2>5. {lower(str, u[1], u[2]) : u \in Done(w) \cup {<<w, c>>}}
          = {lower(str, u[1], u[2]) : u \in Done(w)} \cup {lower(str, w, c)}
    <3> DEFINE p == <<w, c>>
               F(u) == lower(str, u[1], u[2])
    <3>1. F(p) = lower(str, w, c)
      OBVIOUS
    <3> HIDE DEF F, p
    <3>2. {F(u) : u \in Done(w) \cup {p}} = {F(u) : u \in Done(w)} \cup {F(p)}
      OBVIOUS
    <3> QED
      BY <3>1, <3>2 DEF F, p
  <2> QED
    BY <1>3, <2>4, <2>5 DEF WordsBy, Done
<1> QED
  BY <1>2, <1>3

-----------------------------------------------------------------------------

\* The word just ended is behind the scan: CollectedInv, read with WordsBy.
LEMMA CollectedIsWordsBy ==
    CollectedInv <=> (pc = "scan" => ret = WordsBy(input, wordStart))
BY DEF CollectedInv, WordsBy

\* No word ends inside the empty stretch at the start of the input.
LEMMA NoWordsAtStart == ASSUME NEW str \in Seq(Char) PROVE WordsBy(str, 0) = {}
<1> SUFFICES ASSUME NEW w \in Words(str), w[2] <= 0
             PROVE  FALSE
  BY DEF WordsBy
<1> QED
  BY DEF Words, IsWord

\* No word ends just after an underscore.
LEMMA SkipUnderscore ==
    ASSUME NEW str \in Seq(Char), NEW c \in Nat, c < Len(str),
           str[c + 1] = Underscore
    PROVE  WordsBy(str, c + 1) = WordsBy(str, c)
<1>1. \A w \in Words(str) : w[2] # c + 1
  <2> SUFFICES ASSUME NEW w \in Words(str), w[2] = c + 1
               PROVE  FALSE
    OBVIOUS
  <2> QED
    BY DEF Words, IsWord, Unbroken
<1>2. \A w \in Words(str) : w[2] <= c + 1 <=> w[2] <= c
  BY <1>1 DEF Words
<1> QED
  BY <1>2 DEF WordsBy

\* The scan starts with nothing collected and an empty word.
LEMMA ScanInit == Init => ScanInv
<1> SUFFICES ASSUME Init
             PROVE  ScanInv
  OBVIOUS
<1> USE DEF Init
<1>1. input \in Seq(Char)
  BY InputsAssumption
<1>2. TypeOK
  BY <1>1 DEF TypeOK
<1>3. PrevCharInv
  BY DEF PrevCharInv
<1>4. CurrentWordInv
  BY DEF CurrentWordInv, StartsWord, Unbroken
<1>5. CollectedInv
  BY <1>1, NoWordsAtStart, CollectedIsWordsBy
<1> QED
  BY <1>2, <1>3, <1>4, <1>5 DEF ScanInv, SomethingKeptInv

\* Every way through the loop body sets the case flag to a Boolean.
LEMMA AdvanceType == Advance => prevCharWasLower' \in BOOLEAN
<1>1. (Current \in Lower) \in BOOLEAN
  OBVIOUS
<1> QED
  BY <1>1, Zenon DEF Advance

\* Every step of the scan keeps it: an iteration either closes the current
\* word at a boundary or extends it by a character that is none.
LEMMA ScanStep == ScanInv /\ [Next]_vars => ScanInv'
<1> SUFFICES ASSUME ScanInv, [Next]_vars
             PROVE  ScanInv'
  OBVIOUS
<1>0. /\ input \in Seq(Char) /\ Len(input) \in Nat
      /\ curLoc \in Nat /\ curLoc <= Len(input)
      /\ wordStart \in Nat /\ wordStart <= curLoc
      /\ ret \subseteq Seq(Char)
      /\ StartsWord(input, wordStart) /\ Unbroken(input, wordStart, curLoc)
  BY InputsAssumption DEF ScanInv, TypeOK, CurrentWordInv
<1>1. CASE HardBoundary
  <2>1. TypeOK'
    <3>1. prevCharWasLower' \in BOOLEAN
      BY <1>1, AdvanceType DEF HardBoundary
    <3>2. ret' \subseteq Seq(Char)
      BY <1>0, <1>1, LowerType DEF HardBoundary
    <3>3. input' \in Seq(Char) /\ input' = input /\ pc' \in {"scan", "done"}
      BY <1>1 DEF ScanInv, TypeOK, HardBoundary, Advance
    <3>4. curLoc' \in 0 .. Len(input) /\ wordStart' \in 0 .. curLoc'
      BY <1>0, <1>1 DEF HardBoundary, InLoop, Advance
    <3> QED
      BY <3>1, <3>2, <3>3, <3>4 DEF TypeOK
  <2>2. PrevCharInv'
    BY <1>0, <1>1 DEF PrevCharInv, HardBoundary, Advance, Current
  <2>3. CurrentWordInv'
    BY <1>0, <1>1
       DEF CurrentWordInv, HardBoundary, InLoop, Advance, Current, StartsWord, Unbroken
  <2>4. CollectedInv'
    <3>1. EndsWord(input, curLoc)
      BY <1>0, <1>1 DEF EndsWord, HardBoundary, Current
    <3>2. ret = WordsBy(input, wordStart)
      BY <1>1, CollectedIsWordsBy DEF ScanInv, HardBoundary, InLoop
    <3>3. ret' = WordsBy(input, curLoc)
      BY <1>0, <1>1, <3>1, <3>2, CollectWord DEF HardBoundary
    <3>4. WordsBy(input, curLoc + 1) = WordsBy(input, curLoc)
      BY <1>0, <1>1, SkipUnderscore DEF HardBoundary, InLoop, Current
    <3> QED
      BY <1>1, <3>3, <3>4 DEF HardBoundary, Advance, CollectedInv, WordsBy
  <2>5. SomethingKeptInv'
    <3>1. /\ input' = input /\ pc' = pc /\ pc = "scan"
          /\ curLoc' = curLoc + 1 /\ input[curLoc + 1] = Underscore
      BY <1>1 DEF HardBoundary, InLoop, Advance, Current
    <3>2. wordStart < curLoc \/ ret # {} => ret' # {}
      BY <1>0, <1>1 DEF HardBoundary
    <3>3. \A i \in 1 .. (curLoc + 1) : input[i] # Underscore => i \in 1 .. curLoc
      BY <1>0, <3>1
    <3>4. \A i \in 1 .. (curLoc + 1) : input[i] # Underscore => ret' # {}
      BY <3>2, <3>3 DEF ScanInv, SomethingKeptInv
    <3> QED
      BY <3>1, <3>4 DEF SomethingKeptInv
  <2> QED
    BY <2>1, <2>2, <2>3, <2>4, <2>5 DEF ScanInv
<1>2. CASE CamelBoundary
  <2>1. TypeOK'
    <3>1. prevCharWasLower' \in BOOLEAN
      BY <1>2, AdvanceType DEF CamelBoundary
    <3>2. ret' \subseteq Seq(Char)
      BY <1>0, <1>2, LowerType DEF CamelBoundary
    <3>3. input' \in Seq(Char) /\ input' = input /\ pc' \in {"scan", "done"}
      BY <1>2 DEF ScanInv, TypeOK, CamelBoundary, Advance
    <3>4. curLoc' \in 0 .. Len(input) /\ wordStart' \in 0 .. curLoc'
      BY <1>0, <1>2 DEF CamelBoundary, InLoop, Advance
    <3> QED
      BY <3>1, <3>2, <3>3, <3>4 DEF TypeOK
  <2>2. PrevCharInv'
    BY <1>0, <1>2 DEF PrevCharInv, CamelBoundary, Advance, Current
  <2>3. curLoc # 0 /\ Transition(input, curLoc)
    <3>1. CASE curLoc = 0
      <4>1. input[1] \in Lower /\ input[1] \in Upper
        <5>1. input[0 + 1] \in Upper /\ prevCharWasLower
          BY <1>2, <3>1, Zenon DEF CamelBoundary, IsHump, Current
        <5>2. input[1] \in Lower
          BY <3>1, <5>1, Zenon DEF ScanInv, PrevCharInv
        <5> QED
          BY <5>1, <5>2
      <4> QED
        BY <4>1, CharClasses
    <3>2. CASE curLoc # 0
      <4>1. input[curLoc + 1] \in Upper /\ input[curLoc] \in Lower
        BY <1>2, <3>2, Zenon
           DEF CamelBoundary, IsHump, Current, ScanInv, PrevCharInv
      <4> QED
        BY <1>0, <1>2, <3>2, <4>1 DEF CamelBoundary, InLoop, Transition
    <3> QED
      BY <3>1, <3>2
  <2>4. CurrentWordInv'
    BY <1>0, <1>2, <2>3
       DEF CurrentWordInv, CamelBoundary, InLoop, Advance, Current, StartsWord, Unbroken
  <2>5. CollectedInv'
    <3>1. wordStart # curLoc
      BY <2>3, CharClasses DEF ScanInv, CurrentWordInv, Transition
    <3>2. ret = WordsBy(input, wordStart)
      BY <1>2, CollectedIsWordsBy DEF ScanInv, CamelBoundary, InLoop
    <3>3. ret' = WordsBy(input, curLoc)
      BY <1>0, <1>2, <2>3, <3>1, <3>2, CollectWord DEF CamelBoundary, EndsWord
    <3> QED
      BY <1>2, <3>3 DEF CamelBoundary, Advance, CollectedInv, WordsBy
  <2>6. SomethingKeptInv'
    BY <1>0, <1>2 DEF SomethingKeptInv, CamelBoundary, InLoop, Advance
  <2> QED
    BY <2>1, <2>2, <2>4, <2>5, <2>6 DEF ScanInv
<1>3. CASE WithinWord
  <2>1. TypeOK'
    <3>1. prevCharWasLower' \in BOOLEAN
      BY <1>3, AdvanceType DEF WithinWord
    <3> QED
      BY <1>0, <1>3, <3>1 DEF ScanInv, TypeOK, WithinWord, InLoop, Advance
  <2>2. PrevCharInv'
    BY <1>0, <1>3 DEF PrevCharInv, WithinWord, Advance, Current
  <2>3. CurrentWordInv'
    <3>1. ~Transition(input, curLoc)
      <4>1. CASE curLoc = 0
        BY <4>1 DEF Transition
      <4>2. CASE curLoc # 0
        BY <1>3, <4>2, Zenon
           DEF ScanInv, PrevCharInv, WithinWord, IsHump, Current, Transition
      <4> QED
        BY <4>1, <4>2
    <3>2. Unbroken(input, wordStart, curLoc + 1)
      BY <1>0, <1>3, <3>1 DEF WithinWord, InLoop, Current, Unbroken
    <3> QED
      BY <1>0, <1>3, <3>2
         DEF CurrentWordInv, WithinWord, InLoop, Advance, Current
  <2>4. CollectedInv'
    BY <1>3 DEF ScanInv, CollectedInv, WithinWord, Advance
  <2>5. SomethingKeptInv'
    BY <1>0, <1>3 DEF SomethingKeptInv, WithinWord, InLoop, Advance
  <2> QED
    BY <2>1, <2>2, <2>3, <2>4, <2>5 DEF ScanInv
<1>4. CASE Return
  <2>1. TypeOK'
    BY <1>0, <1>4, LowerType DEF ScanInv, TypeOK, Return
  <2>2. PrevCharInv' /\ CurrentWordInv' /\ CollectedInv'
    BY <1>4 DEF ScanInv, PrevCharInv, CurrentWordInv, CollectedInv, Return
  <2>3. SomethingKeptInv'
    BY <1>0, <1>4 DEF ScanInv, SomethingKeptInv, Return
  <2> QED
    BY <2>1, <2>2, <2>3 DEF ScanInv
<1>5. CASE UNCHANGED vars
  BY <1>5 DEF vars, ScanInv, TypeOK, PrevCharInv, CurrentWordInv, CollectedInv,
              SomethingKeptInv
<1> QED
  BY <1>1, <1>2, <1>3, <1>4, <1>5 DEF Next

-----------------------------------------------------------------------------

\* The invariant, with what it gives at the return.
IInv == ScanInv /\ SplitIsMorphemes

\* The loop's invariant holds at every character.
LEMMA Inductive == Spec => []IInv
<1>1. Init => IInv
  BY ScanInit DEF IInv, Init, SplitIsMorphemes
<1>2. IInv /\ [Next]_vars => IInv'
  <2> SUFFICES ASSUME IInv, [Next]_vars
               PROVE  SplitIsMorphemes'
    BY ScanStep DEF IInv
  <2>1. CASE Return
    <3>1. /\ input \in Seq(Char)
          /\ wordStart \in Nat /\ wordStart <= Len(input)
          /\ StartsWord(input, wordStart)
          /\ Unbroken(input, wordStart, Len(input))
      BY <2>1, InputsAssumption
         DEF IInv, ScanInv, TypeOK, CurrentWordInv, Return
    <3>2. ret = WordsBy(input, wordStart)
      BY <2>1, CollectedIsWordsBy DEF IInv, ScanInv, Return
    <3>3. ret' = WordsBy(input, Len(input))
      BY <2>1, <3>1, <3>2, CollectWord DEF Return, EndsWord
    <3>4. WordsBy(input, Len(input)) = Morphemes(input)
      <4>1. \A w \in Words(input) : w[2] <= Len(input)
        BY <3>1 DEF Words
      <4>2. {v \in Words(input) : v[2] <= Len(input)} = Words(input)
        BY <4>1
      <4> QED
        BY <4>2 DEF WordsBy, Morphemes
    <3> QED
      BY <2>1, <3>3, <3>4 DEF Return, SplitIsMorphemes
  <2>2. CASE HardBoundary \/ CamelBoundary \/ WithinWord
    BY <2>2
       DEF HardBoundary, CamelBoundary, WithinWord, InLoop, Advance, SplitIsMorphemes
  <2>3. CASE UNCHANGED vars
    BY <2>3 DEF IInv, vars, SplitIsMorphemes
  <2> QED
    BY <2>1, <2>2, <2>3 DEF Next
<1> QED
  BY <1>1, <1>2, PTL DEF Spec

\* The scan keeps its variables in range.
THEOREM TypeCorrect == Spec => []TypeOK
<1>1. IInv => TypeOK
  BY DEF IInv, ScanInv
<1> QED
  BY <1>1, Inductive, PTL

\* At every step of the scan the words behind it are collected, the word it is in
\* is unbroken, and the previous character is the one before it.
THEOREM ScanCorrect == Spec => []ScanInv
<1>1. IInv => ScanInv
  BY DEF IInv
<1> QED
  BY <1>1, Inductive, PTL

\* The result of split() is the set of morphemes of its input, whatever the
\* input, the character classes and the case mapping.
THEOREM SplitCorrect == Spec => []SplitIsMorphemes
<1>1. IInv => SplitIsMorphemes
  BY DEF IInv
<1> QED
  BY <1>1, Inductive, PTL

\* Everything collected is a lower-cased word of the input.
LEMMA RetAreWords ==
    ASSUME IInv, NEW m \in ret
    PROVE  /\ input \in Seq(Char)
           /\ \E s, e \in 0 .. Len(input) :
                  IsWord(input, s, e) /\ m = lower(input, s, e)
<1>1. input \in Seq(Char)
  BY InputsAssumption DEF IInv, ScanInv, TypeOK
<1>2. ret \subseteq Morphemes(input)
  <2>1. CASE pc = "scan"
    BY <2>1 DEF IInv, ScanInv, CollectedInv, Morphemes
  <2>2. CASE pc = "done"
    BY <2>2 DEF IInv, SplitIsMorphemes
  <2> QED
    BY <2>1, <2>2 DEF IInv, ScanInv, TypeOK
<1>3. PICK w \in Words(input) : m = lower(input, w[1], w[2])
  BY <1>2 DEF Morphemes
<1> QED
  BY <1>1, <1>3 DEF Words

\* split() never inserts the empty string.
THEOREM NeverEmpty == Spec => []NoEmptyMorpheme
<1>1. IInv => NoEmptyMorpheme
  <2> SUFFICES ASSUME IInv, NEW m \in ret
               PROVE  Len(m) > 0
    BY DEF NoEmptyMorpheme
  <2>1. PICK s \in 0 .. Len(input), e \in 0 .. Len(input) :
            IsWord(input, s, e) /\ m = lower(input, s, e)
    BY RetAreWords
  <2>2. input \in Seq(Char) /\ s < e
    BY <2>1, RetAreWords DEF IsWord
  <2>3. s \in Nat /\ e \in Nat /\ e <= Len(input) /\ s <= e
    BY <2>2
  <2>4. Len(lower(input, s, e)) = e - s
    BY <2>2, <2>3, LowerType
  <2> QED
    BY <2>1, <2>2, <2>3, <2>4
<1> QED
  BY <1>1, Inductive, PTL

\* A pair of arguments is dropped for want of morphemes only when a name is
\* made of underscores alone.
THEOREM UnderscoresVanish == Spec => []OnlyUnderscoresVanish
<1>1. IInv /\ pc = "done" /\ ret = {} =>
          \A i \in 1 .. Len(input) : input[i] = Underscore
  <2> SUFFICES ASSUME IInv, pc = "done", ret = {}, NEW i \in 1 .. Len(input),
                      input[i] # Underscore
               PROVE  FALSE
    OBVIOUS
  <2>1. /\ input \in Seq(Char) /\ curLoc = Len(input)
        /\ wordStart \in Nat /\ wordStart < curLoc
    BY InputsAssumption DEF IInv, ScanInv, TypeOK, SomethingKeptInv
  <2>2. IsWord(input, wordStart, curLoc)
    BY <2>1 DEF IInv, ScanInv, CurrentWordInv, IsWord, EndsWord
  <2>3. <<wordStart, curLoc>> \in Words(input)
    BY <2>1, <2>2 DEF Words
  <2>4. lower(input, wordStart, curLoc) \in Morphemes(input)
    BY <2>3 DEF Morphemes
  <2> QED
    BY <2>4 DEF IInv, SplitIsMorphemes
<1>2. IInv /\ (\A i \in 1 .. Len(input) : input[i] = Underscore) => ret = {}
  <2> SUFFICES ASSUME IInv, \A i \in 1 .. Len(input) : input[i] = Underscore,
                      NEW m \in ret
               PROVE  FALSE
    OBVIOUS
  <2>1. PICK s \in 0 .. Len(input), e \in 0 .. Len(input) : IsWord(input, s, e)
    BY RetAreWords
  <2>2. input \in Seq(Char)
    BY RetAreWords
  <2>3. e \in 1 .. Len(input) /\ input[e] # Underscore
    BY <2>1, <2>2 DEF IsWord, Unbroken
  <2> QED
    BY <2>3
<1>3. IInv => OnlyUnderscoresVanish
  BY <1>1, <1>2 DEF OnlyUnderscoresVanish
<1> QED
  BY <1>3, Inductive, PTL

\* A string without capitals and underscores is its own only morpheme.
LEMMA PlainIsAtomic ==
    ASSUME NEW m \in Seq(Char \ Upper), Len(m) > 0,
           \A i \in 1 .. Len(m) : m[i] # Underscore
    PROVE  Morphemes(m) = {m}
<1> DEFINE n == Len(m)
<1>1. m \in Seq(Char) /\ n \in Nat /\ \A i \in 1 .. n : m[i] \in Char \ Upper
  OBVIOUS
<1>2. \A i \in Nat : ~Transition(m, i)
  BY <1>1 DEF Transition
<1>3. StartsWord(m, 0) /\ Unbroken(m, 0, n) /\ EndsWord(m, n)
  BY <1>1, <1>2 DEF StartsWord, Unbroken, EndsWord
<1>4. \A w \in Words(m) : w = <<0, n>>
  <2> SUFFICES ASSUME NEW w \in Words(m)
               PROVE  w = <<0, n>>
    OBVIOUS
  <2>1. /\ w = <<w[1], w[2]>> /\ w[1] \in Nat /\ w[2] \in Nat
        /\ IsWord(m, w[1], w[2]) /\ w[2] <= n
    BY <1>1 DEF Words
  <2>2. 0 < w[2]
    BY <2>1 DEF IsWord
  <2> QED
    BY <1>1, <1>3, <2>1, <2>2, OneWordPerStretch
<1>5. <<0, n>> \in Words(m)
  BY <1>1, <1>3 DEF Words, IsWord
<1>6. lower(m, 0, n) = m
  <2>1. \A i \in 1 .. n : ToLower[m[0 + i]] = m[i]
    BY <1>1, ToLowerAssumption
  <2>2. m = [i \in 1 .. n |-> m[i]]
    OBVIOUS
  <2> QED
    BY <1>1, <2>1, <2>2 DEF lower
<1>7. Words(m) = {<<0, n>>}
  BY <1>4, <1>5
<1> QED
  BY <1>6, <1>7 DEF Morphemes

\* Splitting a morpheme gives it back: equality of morphemes is equality of
\* words, whatever case the names were written in.
THEOREM MorphemesAtomic == Spec => []MorphemesAreAtomic
<1>1. IInv => MorphemesAreAtomic
  <2> SUFFICES ASSUME IInv, NEW m \in ret
               PROVE  m \in Seq(Char \ Upper) /\ Morphemes(m) = {m}
    BY DEF MorphemesAreAtomic
  <2>1. PICK s \in 0 .. Len(input), e \in 0 .. Len(input) :
            IsWord(input, s, e) /\ m = lower(input, s, e)
    BY RetAreWords
  <2>2. /\ input \in Seq(Char) /\ s \in Nat /\ e \in Nat /\ s < e
        /\ e <= Len(input) /\ e - s \in Nat
        /\ \A i \in 1 .. (e - s) : s + i \in (s + 1) .. e
    BY <2>1, RetAreWords DEF IsWord
  <2>3. \A i \in 1 .. (e - s) : input[s + i] \in Char \ {Underscore}
    BY <2>1, <2>2 DEF IsWord, Unbroken
  <2>4. \A i \in 1 .. (e - s) :
            ToLower[input[s + i]] \in (Char \ Upper) \ {Underscore}
    BY <2>3, ToLowerAssumption
  <2>5. m \in [1 .. (e - s) -> Char \ Upper]
    BY <2>1, <2>4 DEF lower
  <2>6. m \in Seq(Char \ Upper)
    BY <2>2, <2>5
  <2>7. Len(m) = e - s
    BY <2>2, <2>5, <2>6
  <2>8. \A i \in 1 .. Len(m) : m[i] # Underscore
    BY <2>1, <2>4, <2>7 DEF lower
  <2> QED
    BY <2>2, <2>6, <2>7, <2>8, PlainIsAtomic
<1> QED
  BY <1>1, Inductive, PTL
=============================================================================
