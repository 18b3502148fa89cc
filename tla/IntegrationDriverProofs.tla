----------------------- MODULE IntegrationDriverProofs -----------------------
(***************************************************************************)
(* The driver reads every well-formed command line as it is given, but for *)
(* the options that --params makes it step over. It answers with its usage *)
(* when the function or the file is missing from what it reads, and its    *)
(* exit status is a success when it does not and the call has no swap.     *)
(***************************************************************************)
EXTENDS IntegrationDriver, CheckerClientProofs

LEMMA ArgvType ==
    ASSUME TypeOK
    PROVE  /\ argv \in Seq(Token) /\ argc \in Nat
           /\ \A k \in 1 .. argc : argv[k] \in Token
           /\ Options \subseteq Dashed
<1>1. argv \in Seq(Token)
  BY DriverAssumption DEF TypeOK, Token
<1> QED
  BY <1>1, DriverAssumption DEF argc

\* getArgs takes the tokens up to the next one that begins with "--".
LEMMA GetArgsIs ==
    ASSUME TypeOK, NEW idx \in 1 .. (argc + 1)
    PROVE  /\ getArgs(idx) \in Seq(Token)
           /\ idx + Len(getArgs(idx)) \in idx .. (argc + 1)
           /\ \A k \in idx .. (idx + Len(getArgs(idx)) - 1) : argv[k] \notin Dashed
           /\ \A k \in 1 .. Len(getArgs(idx)) : getArgs(idx)[k] = argv[idx + k - 1]
<1> DEFINE stops == {k \in idx .. argc : argv[k] \in Dashed}
           last == IF stops = {} THEN argc ELSE Smallest(stops) - 1
<1>1. argv \in Seq(Token) /\ argc \in Nat /\ argc = Len(argv) /\ idx \in Nat
  BY ArgvType DEF argc
<1>2. /\ last \in (idx - 1) .. argc
      /\ \A k \in idx .. last : argv[k] \notin Dashed
  <2>1. CASE stops = {}
    BY <1>1, <2>1
  <2>2. CASE stops # {}
    <3>1. stops \in SUBSET Nat
      BY <1>1
    <3>2. Smallest(stops) \in stops /\ \A y \in stops : Smallest(stops) <= y
      <4> HIDE DEF stops
      <4> QED
        BY <2>2, <3>1, SmallestExists
    <3>3. last = Smallest(stops) - 1 /\ Smallest(stops) \in idx .. argc
      BY <2>2, <3>2
    <3>4. ASSUME NEW k \in idx .. last PROVE argv[k] \notin Dashed
      <4>1. k \in idx .. argc /\ ~(Smallest(stops) <= k)
        BY <1>1, <3>3, <3>4
      <4> QED
        BY <3>2, <4>1
    <3> QED
      BY <1>1, <3>3, <3>4
  <2> QED
    BY <2>1, <2>2
<1>3. getArgs(idx) = SubSeq(argv, idx, last)
  BY DEF getArgs
<1> HIDE DEF last
<1>4. last \in Int /\ idx - 1 <= last /\ last <= Len(argv) /\ idx >= 1
  BY <1>1, <1>2
<1>5. /\ SubSeq(argv, idx, last) \in Seq(Token)
      /\ Len(SubSeq(argv, idx, last)) = last - idx + 1
      /\ \A k \in 1 .. (last - idx + 1) : SubSeq(argv, idx, last)[k] = argv[idx + k - 1]
  BY <1>1, <1>4
<1>6. idx + Len(getArgs(idx)) = last + 1
  BY <1>1, <1>3, <1>4, <1>5
<1>7. idx + Len(getArgs(idx)) - 1 = last /\ Len(getArgs(idx)) = last - idx + 1
  BY <1>1, <1>4, <1>3, <1>5
<1> QED
  BY <1>1, <1>2, <1>3, <1>4, <1>5, <1>6, <1>7

\* An option that is there at most once is where it is.
LEMMA OneOccurrence ==
    ASSUME TypeOK, NEW o, Cardinality(At(o)) <= 1, NEW k \in At(o)
    PROVE  At(o) = {k} /\ Smallest(At(o)) = k /\ k \in 1 .. argc
<1>1. argc \in Nat
  BY ArgvType
<1>2. At(o) \subseteq 1 .. argc
  BY DEF At
<1>3. IsFiniteSet(At(o))
  BY <1>1, <1>2, FS_Interval, FS_Subset
<1>4. ASSUME NEW l \in At(o), l # k PROVE FALSE
  <2>1. IsFiniteSet({k}) /\ Cardinality({k}) = 1
    BY FS_Singleton
  <2>2. Cardinality({k} \cup {l}) = 2
    BY <1>4, <2>1, FS_AddElement
  <2>3. {k} \cup {l} \subseteq At(o)
    BY <1>4
  <2>4. Cardinality({k} \cup {l}) <= Cardinality(At(o))
    BY <1>3, <2>3, FS_Subset
  <2>5. Cardinality(At(o)) \in Nat
    BY <1>3, FS_CardinalityType
  <2> QED
    BY <2>2, <2>4, <2>5
<1>5. At(o) = {k}
  BY <1>4
<1>6. Smallest({k}) = k
  <2>1. k \in Int
    BY <1>1, <1>2
  <2>2. {k} \in SUBSET Int /\ k \in {k} /\ \A y \in {k} : k <= y
    BY <2>1
  <2> QED
    BY <2>2, SmallestIs
<1> QED
  BY <1>2, <1>5, <1>6

\* What is given after an option is what getArgs takes there.
LEMMA GivenIsGetArgs ==
    ASSUME TypeOK, WellFormed, NEW o \in Options, NEW k \in At(o)
    PROVE  Given(o) = getArgs(k + 1) /\ At(o) = {k} /\ k \in 1 .. argc
<1>1. At(o) = {k} /\ Smallest(At(o)) = k /\ k \in 1 .. argc
  BY OneOccurrence DEF WellFormed
<1> QED
  BY <1>1 DEF Given, getArgs

LEMMA GivenType ==
    ASSUME TypeOK, WellFormed, NEW o \in Options, NEW k \in At(o)
    PROVE  Len(Given(o)) \in Nat
<1>1. Given(o) = getArgs(k + 1) /\ k + 1 \in 1 .. (argc + 1)
  BY GivenIsGetArgs, ArgvType
<1>2. getArgs(k + 1) \in Seq(Token)
  BY <1>1, GetArgsIs
<1> QED
  BY <1>1, <1>2

\* Nothing steps over the two lists themselves.
LEMMA ListsNotSteppedOver ==
    ASSUME TypeOK, WellFormed
    PROVE  ~SteppedOver("--args") /\ ~SteppedOver("--params")
<1>1. ASSUME NEW a \in At("--args"), NEW p \in At("--params"), a < p
      PROVE  /\ At("--args") = {a} /\ At("--params") = {p}
             /\ ~(p < a) /\ ~(p < p)
  <2>1. /\ At("--args") = {a} /\ At("--params") = {p}
        /\ a \in 1 .. argc /\ p \in 1 .. argc
    BY GivenIsGetArgs DEF Options, ListOptions
  <2>2. argc \in Nat
    BY ArgvType
  <2> QED
    BY <1>1, <2>1, <2>2
<1> QED
  BY <1>1 DEF SteppedOver

-----------------------------------------------------------------------------
(* The loop *)

LEMMA DriverInit == Init => DriverInv
<1> SUFFICES ASSUME Init PROVE DriverInv
  OBVIOUS
<1>1. TypeOK
  <2>1. usage \in BOOLEAN
    BY Zenon DEF Init
  <2> QED
    BY <2>1 DEF Init, TypeOK, Unset
<1>2. PassedAreRead
  <2> SUFFICES ASSUME NEW o \in Options
               PROVE  opts[o] = Unset /\ \A k \in At(o) : ~(k < i)
    BY DEF PassedAreRead
  <2>1. argc \in Nat
    BY <1>1, ArgvType
  <2> QED
    BY <2>1 DEF Init, At
<1>3. ResumesAfter
  <2>1. argc \in Nat
    BY <1>1, ArgvType
  <2>2. \A p \in At("--params") : ~(p < i)
    BY <2>1 DEF Init, At
  <2> QED
    BY <2>2 DEF ResumesAfter
<1>4. ExitIsVerdict
  BY DEF Init, ExitIsVerdict
<1> QED
  BY <1>1, <1>2, <1>3, <1>4 DEF DriverInv

\* The command line stays, and so does what is said about it.
LEMMA LineKept ==
    ASSUME argv' = argv
    PROVE  /\ argc' = argc
           /\ \A o : At(o)' = At(o) /\ Given(o)' = Given(o)
           /\ \A o : SteppedOver(o)' = SteppedOver(o) /\ ReadFor(o)' = ReadFor(o)
           /\ WellFormed' = WellFormed
<1>1. argc' = argc
  BY DEF argc
<1>2. \A o : At(o)' = At(o)
  BY <1>1 DEF At
<1>3. \A o : Given(o)' = Given(o)
  BY <1>1, <1>2 DEF Given
<1>4. \A o : SteppedOver(o)' = SteppedOver(o)
  BY <1>2, <1>3 DEF SteppedOver
<1>5. \A o : ReadFor(o)' = ReadFor(o)
  BY <1>3, <1>4 DEF ReadFor
<1> QED
  BY <1>1, <1>2, <1>3, <1>4, <1>5 DEF WellFormed

\* One pass of the loop, in general: it reads the option at i, if there is one,
\* as it is given, and goes on. The options it steps over are those that
\* SteppedOver tells.
LEMMA LoopPass ==
    ASSUME TypeOK, PassedAreRead, ResumesAfter, argv' = argv, i <= argc,
           NEW n \in Nat, i' = i + n + 1,
           WellFormed =>
              /\ \A k \in (i + 1) .. (i + n) :
                    k <= argc => \/ argv[k] \notin Options
                                 \/ argv[i] = "--params" /\ SteppedOver(argv[k])
              /\ argv[i] = "--params" =>
                    \A a \in At("--args") : a < i => n = Len(Given("--args"))
              /\ opts' = IF argv[i] \in Options
                         THEN [opts EXCEPT ![argv[i]] = getArgs(i + 1)] ELSE opts
    PROVE  PassedAreRead' /\ ResumesAfter'
<1> SUFFICES ASSUME WellFormed
             PROVE  /\ \A o \in Options :
                         opts'[o] = IF \E k \in At(o) : k < i' THEN ReadFor(o) ELSE Unset
                    /\ \A a \in At("--args"), p \in At("--params") :
                         a < p /\ p < i' => i' > p + Len(Given("--args"))
  BY LineKept DEF PassedAreRead, ResumesAfter
<1>1. /\ argc \in Nat /\ i \in 1 .. argc /\ i \in Nat
      /\ opts \in [Options -> Seq(Token)]
  BY ArgvType DEF TypeOK
<1>2. \A o : \A k \in At(o) : k \in 1 .. argc /\ argv[k] = o
  BY DEF At
<1>3. ~(\E a \in At("--args"), p \in At("--params") :
            a < p /\ p < i /\ i <= p + Len(Given("--args")))
  <2> SUFFICES ASSUME NEW a \in At("--args"), NEW p \in At("--params"), a < p, p < i
               PROVE  ~(i <= p + Len(Given("--args")))
    OBVIOUS
  <2>1. Len(Given("--args")) \in Nat
    BY GivenType DEF Options, ListOptions
  <2>2. i > p + Len(Given("--args"))
    BY DEF ResumesAfter
  <2> QED
    BY <1>1, <1>2, <2>1, <2>2
<1>4. ASSUME NEW o \in Options
      PROVE  opts'[o] = IF \E k \in At(o) : k < i' THEN ReadFor(o) ELSE Unset
  <2>1. CASE argv[i] = o
    <3>1. i \in At(o) /\ i < i'
      BY <1>1, <2>1 DEF At
    <3>2. Given(o) = getArgs(i + 1) /\ At(o) = {i}
      BY <3>1, GivenIsGetArgs
    <3>3. ~SteppedOver(o)
      BY <1>3, <3>2 DEF SteppedOver
    <3>4. opts'[o] = getArgs(i + 1)
      BY <1>1, <2>1
    <3> QED
      BY <3>1, <3>2, <3>3, <3>4 DEF ReadFor
  <2>2. CASE argv[i] # o
    <3>1. opts'[o] = opts[o]
      BY <1>1, <2>2
    <3>2. opts[o] = IF \E k \in At(o) : k < i THEN ReadFor(o) ELSE Unset
      BY DEF PassedAreRead
    <3>3. CASE \E k \in At(o) : k < i
      BY <1>1, <1>2, <3>1, <3>2, <3>3
    <3>4. CASE ~\E k \in At(o) : k < i
      <4>1. ASSUME NEW k \in At(o), k < i' PROVE SteppedOver(o)
        <5>1. k # i /\ k \in 1 .. argc /\ argv[k] = o /\ ~(k < i)
          BY <1>2, <2>2, <3>4
        <5>2. k \in (i + 1) .. (i + n) /\ k <= argc
          BY <1>1, <4>1, <5>1
        <5> QED
          BY <5>1, <5>2
      <4> QED
        BY <3>1, <3>2, <3>4, <4>1 DEF ReadFor
    <3> QED
      BY <3>3, <3>4
  <2> QED
    BY <2>1, <2>2
<1>5. ASSUME NEW a \in At("--args"), NEW p \in At("--params"), a < p, p < i'
      PROVE  i' > p + Len(Given("--args"))
  <2>1. /\ Len(Given("--args")) \in Nat
        /\ At("--params") = {p}
        /\ "--params" \in Options
    BY GivenType, GivenIsGetArgs DEF Options, ListOptions
  <2>2. p \in 1 .. argc /\ argv[p] = "--params" /\ p \in Nat
    BY <1>1, <1>2
  <2>3. CASE p < i
    <3>1. i > p + Len(Given("--args"))
      BY <1>5, <2>3 DEF ResumesAfter
    <3> QED
      BY <1>1, <2>1, <2>2, <3>1
  <2>4. CASE p = i
    <3>1. n = Len(Given("--args"))
      BY <1>5, <2>2, <2>4
    <3> QED
      BY <1>1, <2>4, <3>1
  <2>5. ASSUME p > i PROVE FALSE
    <3>1. p \in (i + 1) .. (i + n) /\ p <= argc
      BY <1>1, <1>5, <2>2, <2>5
    <3>2. argv[i] = "--params"
      BY <2>1, <2>2, <3>1
    <3>3. i \in At("--params")
      BY <1>1, <3>2 DEF At
    <3> QED
      BY <1>1, <2>1, <2>5, <3>3
  <2> QED
    BY <1>1, <2>2, <2>3, <2>4, <2>5
<1> QED
  BY <1>4, <1>5

\* An option that takes one value has it after it.
LEMMA OneValue ==
    ASSUME TypeOK, WellFormed, i <= argc, argv[i] \in SingleOptions \cup LineOptions
    PROVE  /\ getArg(i + 1) = argv[i + 1] /\ i + 1 \in 1 .. argc
           /\ argv[i + 1] \notin Dashed
           /\ getArgs(i + 1) = <<argv[i + 1]>>
           /\ argv[i] \in LineOptions => argv[i + 1] \in Number
<1> DEFINE o == argv[i]
           g == getArgs(i + 1)
<1>1. argc \in Nat /\ i \in 1 .. argc /\ o \in Options
  BY ArgvType DEF TypeOK, Options
<1>2. i \in At(o)
  BY <1>1 DEF At
<1>3. Given(o) = g
  BY <1>1, <1>2, GivenIsGetArgs
<1>4. Len(g) = 1 /\ (o \in LineOptions => g[1] \in Number)
  BY <1>2, <1>3 DEF WellFormed
<1>5. i + 1 \in 1 .. (argc + 1)
  BY <1>1
<1> HIDE DEF g, o
<1>6. /\ g \in Seq(Token)
      /\ i + 1 + Len(g) \in (i + 1) .. (argc + 1)
      /\ \A k \in (i + 1) .. (i + 1 + Len(g) - 1) : argv[k] \notin Dashed
      /\ \A k \in 1 .. Len(g) : g[k] = argv[i + 1 + k - 1]
  BY <1>5, GetArgsIs DEF g
<1>7. i + 1 \in 1 .. argc /\ argv[i + 1] \notin Dashed
  BY <1>1, <1>4, <1>6
<1>8. g[1] = argv[i + 1]
  <2>1. i + 1 + 1 - 1 = i + 1
    BY <1>1
  <2> QED
    BY <1>4, <1>6, <2>1
<1>9. g = <<g[1]>>
  BY <1>4, <1>6
<1>10. getArg(i + 1) = argv[i + 1]
  BY <1>1, <1>7 DEF getArg
<1> QED
  BY <1>4, <1>7, <1>8, <1>9, <1>10 DEF g, o

LEMMA GetArgType ==
    ASSUME TypeOK, NEW idx \in Nat \ {0}
    PROVE  getArg(idx) \in Token
BY ArgvType, NamesAssumption DEF getArg, Token

LEMMA TypeStep ==
    ASSUME TypeOK, Next
    PROVE  TypeOK' /\ argv' = argv
<1>1. /\ argc \in Nat /\ i \in Nat \ {0} /\ opts \in [Options -> Seq(Token)]
      /\ argv \in Argvs /\ "--args" \in Options /\ "--params" \in Options
  BY ArgvType DEF TypeOK, Options, ListOptions
<1>2. CASE ReadSingle
  <2>1. getArg(i + 1) \in Token
    BY <1>1, GetArgType
  <2>2. <<getArg(i + 1)>> \in Seq(Token)
    BY <2>1
  <2>3. opts' = [opts EXCEPT ![argv[i]] = <<getArg(i + 1)>>]
    BY <1>2 DEF ReadSingle
  <2>4. opts' \in [Options -> Seq(Token)]
    BY <1>1, <2>2, <2>3
  <2> QED
    BY <1>1, <1>2, <2>4 DEF ReadSingle, TypeOK
<1>3. CASE ReadArgs
  <2>1. i + 1 \in 1 .. (argc + 1)
    BY <1>1, <1>3 DEF ReadArgs, AtOption
  <2>2. getArgs(i + 1) \in Seq(Token)
    BY <2>1, GetArgsIs
  <2>3. Len(getArgs(i + 1)) \in Nat
    BY <2>2
  <2> QED
    BY <1>1, <1>3, <2>2, <2>3 DEF ReadArgs, TypeOK
<1>4. CASE ReadParams
  <2>1. i + 1 \in 1 .. (argc + 1)
    BY <1>1, <1>4 DEF ReadParams, AtOption
  <2>2. getArgs(i + 1) \in Seq(Token)
    BY <2>1, GetArgsIs
  <2>3. Len(opts["--args"]) \in Nat
    BY <1>1
  <2> QED
    BY <1>1, <1>4, <2>2, <2>3 DEF ReadParams, TypeOK
<1>5. CASE ReadLine
  <2>1. <<getArg(i + 1)>> \in Seq(Token)
    BY <1>1, GetArgType
  <2>2. /\ opts' = opts \/ opts' = [opts EXCEPT ![argv[i]] = <<getArg(i + 1)>>]
        /\ i' = i \/ i' = i + 2
        /\ exit' = exit \/ exit' = "aborted"
        /\ argv' = argv /\ usage' = usage
    BY <1>5 DEF ReadLine
  <2>3. opts' \in [Options -> Seq(Token)]
    BY <1>1, <2>1, <2>2
  <2> QED
    BY <1>1, <2>2, <2>3 DEF TypeOK
<1>6. CASE SkipToken
  BY <1>1, <1>6 DEF SkipToken, TypeOK
<1>7. CASE PrintUsage
  BY <1>1, <1>7 DEF PrintUsage, TypeOK
<1>8. CASE runCheck
  BY <1>1, <1>8 DEF runCheck, TypeOK
<1> QED
  BY <1>2, <1>3, <1>4, <1>5, <1>6, <1>7, <1>8 DEF Next

\* Each step of the loop is such a pass, and what follows the loop reads nothing.
LEMMA PassedStep ==
    ASSUME TypeOK, PassedAreRead, ResumesAfter, Next
    PROVE  PassedAreRead' /\ ResumesAfter'
<1>1. argv' = argv
  BY TypeStep
<1>2. argc \in Nat /\ i \in Nat \ {0} /\ Options \subseteq Dashed
  BY ArgvType DEF TypeOK
<1>3. ASSUME i' = i, opts' = opts PROVE PassedAreRead' /\ ResumesAfter'
  BY <1>1, <1>3, LineKept DEF PassedAreRead, ResumesAfter
<1>4. CASE ReadSingle
  <2>1. /\ i <= argc /\ argv[i] \in SingleOptions \cup LineOptions /\ argv[i] \in Options
        /\ argv[i] # "--params"
    BY <1>4 DEF ReadSingle, AtOption, Options, SingleOptions
  <2>2. WellFormed => /\ getArgs(i + 1) = <<getArg(i + 1)>>
                    /\ argv[i + 1] \notin Options
    BY <1>2, <2>1, OneValue
  <2>3. i' = i + 1 + 1
    BY <1>2, <1>4 DEF ReadSingle
  <2>4. opts' = [opts EXCEPT ![argv[i]] = <<getArg(i + 1)>>]
    BY <1>4 DEF ReadSingle
  <2>5. \A k \in (i + 1) .. (i + 1) : k = i + 1
    BY <1>2
  <2> QED
    BY <1>1, <2>1, <2>2, <2>3, <2>4, <2>5, LoopPass
<1>5. CASE ReadArgs
  <2> DEFINE n == Len(getArgs(i + 1))
  <2>1. i <= argc /\ argv[i] = "--args" /\ argv[i] \in Options /\ argv[i] # "--params"
    BY <1>5 DEF ReadArgs, AtOption, Options, ListOptions
  <2>2. i + 1 \in 1 .. (argc + 1)
    BY <1>2, <2>1
  <2>3. n \in Nat /\ \A k \in (i + 1) .. (i + 1 + n - 1) : argv[k] \notin Dashed
    <3>1. getArgs(i + 1) \in Seq(Token)
      BY <2>2, GetArgsIs
    <3>2. \A k \in (i + 1) .. (i + 1 + Len(getArgs(i + 1)) - 1) : argv[k] \notin Dashed
      BY <2>2, GetArgsIs
    <3> QED
      BY <3>1, <3>2
  <2>4. i + 1 + n - 1 = i + n /\ i' = i + n + 1
    BY <1>2, <1>5, <2>3 DEF ReadArgs
  <2>5. \A k \in (i + 1) .. (i + n) : argv[k] \notin Options
    BY <1>2, <2>3, <2>4
  <2>6. opts' = [opts EXCEPT ![argv[i]] = getArgs(i + 1)]
    BY <1>5, <2>1 DEF ReadArgs
  <2> HIDE DEF n
  <2> QED
    BY <1>1, <2>1, <2>3, <2>4, <2>5, <2>6, LoopPass
<1>6. CASE ReadParams
  <2> DEFINE n == Len(opts["--args"])
  <2>1. /\ i <= argc /\ argv[i] = "--params" /\ argv[i] \in Options /\ "--args" \in Options
    BY <1>6 DEF ReadParams, AtOption, Options, ListOptions
  <2>2. i \in At("--params")
    BY <1>2, <2>1 DEF At
  <2>3. n \in Nat /\ i' = i + n + 1
    BY <1>6, <2>1 DEF ReadParams, TypeOK
  <2>4. opts' = [opts EXCEPT ![argv[i]] = getArgs(i + 1)]
    BY <1>6, <2>1 DEF ReadParams
  <2>5. ASSUME WellFormed, NEW a \in At("--args"), a < i PROVE n = Len(Given("--args"))
    <3>1. opts["--args"] = ReadFor("--args")
      BY <2>1, <2>5 DEF PassedAreRead
    <3> QED
      BY <2>5, <3>1, ListsNotSteppedOver DEF ReadFor
  <2>6. ASSUME WellFormed, NEW k \in (i + 1) .. (i + n), k <= argc, argv[k] \in Options
        PROVE  SteppedOver(argv[k])
    <3>1. k \in At(argv[k]) /\ i < k /\ k <= i + n
      BY <1>2, <2>3, <2>6 DEF At
    <3>2. \E a \in At("--args") : a < i
      <4>1. SUFFICES ASSUME ~\E a \in At("--args") : a < i PROVE FALSE
        OBVIOUS
      <4>2. opts["--args"] = Unset
        BY <2>1, <2>6, <4>1 DEF PassedAreRead
      <4>3. n = 0
        BY <4>2 DEF Unset
      <4> QED
        BY <1>2, <2>6, <4>3
    <3>3. PICK a \in At("--args") : a < i
      BY <3>2
    <3>4. n = Len(Given("--args"))
      BY <2>5, <2>6, <3>3
    <3> QED
      BY <2>2, <3>1, <3>3, <3>4 DEF SteppedOver
  <2> HIDE DEF n
  <2> QED
    BY <1>1, <2>1, <2>3, <2>4, <2>5, <2>6, LoopPass
<1>7. CASE ReadLine
  <2>1. /\ i <= argc /\ argv[i] \in SingleOptions \cup LineOptions /\ argv[i] \in Options
        /\ argv[i] \in LineOptions /\ argv[i] # "--params"
    BY <1>7 DEF ReadLine, AtOption, Options, LineOptions
  <2>2. WellFormed => /\ getArgs(i + 1) = <<getArg(i + 1)>>
                    /\ argv[i + 1] \notin Options
                    /\ getArg(i + 1) \in Number /\ getArg(i + 1) # EmptyName
    BY <1>2, <2>1, OneValue, DriverAssumption
  <2>3. CASE getArg(i + 1) \in Number \cup {EmptyName}
    <3>1. i' = i + 1 + 1
      BY <1>2, <1>7, <2>3 DEF ReadLine
    <3>2. WellFormed => opts' = [opts EXCEPT ![argv[i]] = <<getArg(i + 1)>>]
      BY <1>7, <2>2, <2>3 DEF ReadLine
    <3>3. \A k \in (i + 1) .. (i + 1) : k = i + 1
      BY <1>2
    <3> QED
      BY <1>1, <2>1, <2>2, <3>1, <3>2, <3>3, LoopPass
  <2>4. CASE getArg(i + 1) \notin Number \cup {EmptyName}
    <3>1. i' = i /\ opts' = opts
      BY <1>7, <2>4 DEF ReadLine
    <3> QED
      BY <1>3, <3>1
  <2> QED
    BY <2>3, <2>4
<1>8. CASE SkipToken
  <2>1. /\ i <= argc /\ argv[i] \notin Options /\ i' = i + 0 + 1 /\ opts' = opts
        /\ argv[i] # "--params"
    BY <1>2, <1>8 DEF SkipToken, Options, ListOptions
  <2>2. (i + 1) .. (i + 0) = {}
    BY <1>2
  <2> QED
    BY <1>1, <2>1, <2>2, LoopPass
<1>9. CASE PrintUsage \/ runCheck
  BY <1>3, <1>9 DEF PrintUsage, runCheck
<1> QED
  BY <1>4, <1>5, <1>6, <1>7, <1>8, <1>9 DEF Next

LEMMA ExitStep ==
    ASSUME TypeOK, ExitIsVerdict, Next
    PROVE  ExitIsVerdict'
<1>1. argc' = argc
  BY TypeStep, LineKept
<1>2. exit = "running" /\ ~usage
  BY DEF Next, ReadSingle, ReadArgs, ReadParams, ReadLine, AtOption, SkipToken, PrintUsage,
         runCheck, ExitIsVerdict
<1>3. CASE PrintUsage
  <2>1. /\ i' = i /\ i > argc /\ opts' = opts /\ \E o \in Required : Missing(o)
        /\ usage' /\ exit' = "failure"
    BY <1>3 DEF PrintUsage
  <2> QED
    BY <1>1, <2>1 DEF ExitIsVerdict, Missing
<1>4. CASE runCheck
  <2>1. /\ i' = i /\ i > argc /\ opts' = opts /\ usage' = usage
        /\ \A o \in Required : ~Missing(o)
        /\ exit' = IF CheckSite(ExplodedSite(opts["--args"], opts["--params"]), NoStats) = <<>>
                   THEN "success" ELSE "failure"
    BY <1>4 DEF runCheck
  <2>2. exit' = "failure" <=>
          CheckSite(ExplodedSite(opts["--args"], opts["--params"]), NoStats) # <<>>
    BY <2>1
  <2> QED
    BY <1>1, <1>2, <2>1, <2>2 DEF ExitIsVerdict, Missing
<1>5. CASE ~PrintUsage /\ ~runCheck
  <2>1. exit' \notin {"success", "failure"} /\ usage' = usage
    BY <1>2, <1>5 DEF Next, ReadSingle, ReadArgs, ReadParams, ReadLine, SkipToken
  <2> QED
    BY <1>2, <2>1 DEF ExitIsVerdict
<1> QED
  BY <1>3, <1>4, <1>5

-----------------------------------------------------------------------------
(* The theorems *)

\* On any command line, as far as the loop has come, what it has passed is read,
\* unless it was stepped over, and an exit status is that of the usage or of the
\* check of what was read.
THEOREM DriverInvariant == Spec => []DriverInv
<1>1. DriverInv /\ [Next]_vars => DriverInv'
  <2> SUFFICES ASSUME DriverInv, [Next]_vars PROVE DriverInv'
    OBVIOUS
  <2>1. CASE Next
    BY <2>1, TypeStep, PassedStep, ExitStep DEF DriverInv
  <2>2. CASE UNCHANGED vars
    <3>1. argv' = argv /\ i' = i /\ opts' = opts /\ usage' = usage /\ exit' = exit
      BY <2>2 DEF vars
    <3> QED
      BY <3>1, LineKept DEF DriverInv, TypeOK, PassedAreRead, ResumesAfter, ExitIsVerdict, Missing
  <2> QED
    BY <2>1, <2>2
<1> QED
  BY <1>1, DriverInit, PTL DEF Spec

LEMMA AllRead == DriverInv => OptionsReadAsGiven
<1> SUFFICES ASSUME DriverInv, i > argc, WellFormed, NEW o \in Options
             PROVE  opts[o] = ReadFor(o)
  BY DEF OptionsReadAsGiven
<1>1. argc \in Nat /\ i \in Nat
  BY ArgvType DEF DriverInv, TypeOK
<1>2. \A k \in At(o) : k < i
  BY <1>1 DEF At
<1>3. opts[o] = IF \E k \in At(o) : k < i THEN ReadFor(o) ELSE Unset
  BY DEF DriverInv, PassedAreRead
<1>4. At(o) = {} => ReadFor(o) = Unset
  BY DEF ReadFor, Given
<1> QED
  BY <1>2, <1>3, <1>4

\* Whatever the order of the options, each is read as it is given when the loop
\* ends, but for those that "--params" makes it step over, which are left unset, on
\* every command line that has each option at most once and with its values.
THEOREM ReadAsGiven == Spec => []OptionsReadAsGiven
BY DriverInvariant, AllRead, PTL

\* Without statistics the verdict is the cover-based one.
LEMMA NoStatsVerdict ==
    ASSUME NEW s, NEW a, NEW b
    PROVE  Verdict(s, "All", NoStats, a, b) # "none" <=> CoverVerdict(s, "All", NoStats, a, b)
<1>1. ~StatsVerdict(s, "All", NoStats, a, b)
  BY DEF StatsVerdict
<1> QED
  BY <1>1 DEF Verdict

LEMMA ExitTells == DriverInv => ExitTellsSwap
<1> DEFINE named == SiteOf(Given("--args"), Given("--params"))
           swap == \E p \in PairsOf(named) : CoverVerdict(named, "All", NoStats, p[1], p[2])
<1> SUFFICES ASSUME DriverInv, exit \in {"success", "failure"}, WellFormed
             PROVE  /\ usage <=> \E o \in Required : ReadFor(o) \in {Unset, <<EmptyName>>}
                    /\ exit = "success" <=> ~usage /\ ~swap
  BY DEF ExitTellsSwap
<1>1. /\ i > argc /\ "--args" \in Options /\ "--params" \in Options /\ Required \subseteq Options
      /\ TypeOK
  BY DEF DriverInv, ExitIsVerdict, Options, ListOptions, SingleOptions, Required
<1>2. /\ \A o \in Options : opts[o] = ReadFor(o)
      /\ opts["--args"] = Given("--args") /\ opts["--params"] = Given("--params")
  BY <1>1, AllRead, ListsNotSteppedOver DEF OptionsReadAsGiven, ReadFor
<1>3. usage <=> \E o \in Required : ReadFor(o) \in {Unset, <<EmptyName>>}
  BY <1>1, <1>2 DEF DriverInv, ExitIsVerdict, Missing
<1>4. exit = "failure" <=> usage \/ CheckSite(named, NoStats) # <<>>
  BY <1>2 DEF DriverInv, ExitIsVerdict, ExplodedSite
<1>5. Len(named.args) \in Nat
  <2>1. Given("--args") \in Seq(Token)
    BY <1>1, <1>2 DEF TypeOK
  <2>2. PICK n \in Nat : DOMAIN Given("--args") = 1 .. n
    BY <2>1
  <2>3. named.args = [k \in 1 .. n |-> <<Given("--args")[k]>>]
    BY <2>2 DEF SiteOf
  <2> QED
    BY <2>3
<1> HIDE DEF named
<1>6. CheckSite(named, NoStats) # <<>> <=> Deserved(named, "All", NoStats) # {}
  BY <1>5, CheckSiteIs
<1>7. Deserved(named, "All", NoStats) # {}
        <=> \E p \in PairsOf(named) : Verdict(named, "All", NoStats, p[1], p[2]) # "none"
  BY DEF Deserved
<1>8. CheckSite(named, NoStats) # <<>> <=> swap
  BY <1>6, <1>7, NoStatsVerdict
<1> QED
  BY <1>3, <1>4, <1>8

\* On every command line that has each option at most once and with its values: the
\* driver answers with its usage exactly when the function or the file is missing,
\* empty or stepped over, and its exit status is "success" exactly when it does not
\* and no pair of the call described there has a verdict by its names.
THEOREM ExitIsTheVerdict == Spec => []ExitTellsSwap
BY DriverInvariant, ExitTells, PTL
=============================================================================
