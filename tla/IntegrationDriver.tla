-------------------------- MODULE IntegrationDriver --------------------------
(***************************************************************************)
(* main() of the integration test driver: the loop over the command line,  *)
(* the sanity check, and the check of the call it describes.               *)
(***************************************************************************)
EXTENDS CheckerClient

CONSTANTS Argvs,     \* the command lines considered
          Dashed,    \* the tokens that begin with "--"
          Number     \* the tokens std::stoull accepts

SingleOptions == {"--function", "--call_site_file", "--call_decl_file"}
LineOptions == {"--call_site_line", "--call_decl_line"}
ListOptions == {"--args", "--params"}
Options == SingleOptions \cup LineOptions \cup ListOptions

ASSUME DriverAssumption ==
    /\ Options \subseteq Dashed
    /\ Number \cap Dashed = {}
    /\ EmptyName \notin Number
    /\ Argvs \subseteq Seq(Name \cup Dashed \cup Number)

VARIABLES argv,
          i,        \* the token the loop is at, counted from one
          opts,     \* what the options read so far have been set to
          usage,    \* whether the usage has been printed
          exit      \* "running", "success", "failure" or "aborted"

vars == <<argv, i, opts, usage, exit>>

Unset == <<>>
argc == Len(argv)

\* The token at idx, or the empty string past the end.
getArg(idx) == IF idx <= argc THEN argv[idx] ELSE EmptyName

\* A mistake: the list runs on to the end of the command line.
GreedyArgs(idx) == SubSeq(argv, idx, argc)

\* The tokens from idx on, up to one that begins with "--".
getArgs(idx) ==
    SubSeq(argv, idx, LET stops == {k \in idx .. argc : argv[k] \in Dashed}
                      IN  IF stops = {} THEN argc ELSE Smallest(stops) - 1)

Init ==
    /\ argv \in Argvs
    /\ i = 1
    /\ opts = [o \in Options |-> Unset]
    /\ usage = FALSE
    /\ exit = "running"

AtOption(set) == exit = "running" /\ i <= argc /\ argv[i] \in set

ReadSingle ==
    /\ AtOption(SingleOptions)
    /\ opts' = [opts EXCEPT ![argv[i]] = <<getArg(i + 1)>>]
    /\ i' = i + 2
    /\ UNCHANGED <<argv, usage, exit>>

ReadArgs ==
    /\ AtOption({"--args"})
    /\ opts' = [opts EXCEPT !["--args"] = getArgs(i + 1)]
    /\ i' = i + Len(getArgs(i + 1)) + 1
    /\ UNCHANGED <<argv, usage, exit>>

\* It is the number of arguments that is skipped.
ReadParams ==
    /\ AtOption({"--params"})
    /\ opts' = [opts EXCEPT !["--params"] = getArgs(i + 1)]
    /\ i' = i + Len(opts["--args"]) + 1
    /\ UNCHANGED <<argv, usage, exit>>

\* std::stoull throws if there is no number, and nothing catches it.
ReadLine ==
    /\ AtOption(LineOptions)
    /\ LET line == getArg(i + 1)
       IN  IF line \in Number \cup {EmptyName}
           THEN /\ opts' = IF line = EmptyName THEN opts ELSE [opts EXCEPT ![argv[i]] = <<line>>]
                /\ i' = i + 2
                /\ UNCHANGED exit
           ELSE exit' = "aborted" /\ UNCHANGED <<opts, i>>
    /\ UNCHANGED <<argv, usage>>

SkipToken ==
    /\ exit = "running" /\ i <= argc /\ argv[i] \notin Options
    /\ i' = i + 1
    /\ UNCHANGED <<argv, opts, usage, exit>>

Missing(o) == opts[o] \in {Unset, <<EmptyName>>}

Required == {"--function", "--call_site_file"}

\* EXIT_FAILURE, as for a swap.
PrintUsage ==
    /\ exit = "running" /\ i > argc
    /\ \E o \in Required : Missing(o)
    /\ usage' = TRUE /\ exit' = "failure"
    /\ UNCHANGED <<argv, i, opts>>

\* A mistake: the names are taken for those of one argument.
AllOneArgument(args, params) == [args |-> <<args>>, params |-> params]

\* explodeCallSiteArguments: each name is an argument.
ExplodedSite(args, params) == SiteOf(args, params)

runCheck ==
    /\ exit = "running" /\ i > argc
    /\ \A o \in Required : ~Missing(o)
    /\ exit' = IF CheckSite(ExplodedSite(opts["--args"], opts["--params"]), NoStats) = <<>>
               THEN "success" ELSE "failure"
    /\ UNCHANGED <<argv, i, opts, usage>>

Next ==
    ReadSingle \/ ReadArgs \/ ReadParams \/ ReadLine \/ SkipToken \/ PrintUsage \/ runCheck

Spec == Init /\ [][Next]_vars

-----------------------------------------------------------------------------
(* Properties *)

At(o) == {k \in 1 .. argc : argv[k] = o}

\* What the command line says after option o, with options at most once each.
Given(o) ==
    IF At(o) = {} THEN Unset
    ELSE LET first == Smallest(At(o)) + 1
             next == {k \in first .. argc : argv[k] \in Dashed}
         IN  SubSeq(argv, first, IF next = {} THEN argc ELSE Smallest(next) - 1)

\* Each option is there at most once and has its values.
WellFormed ==
    /\ \A o \in Options : Cardinality(At(o)) <= 1
    /\ \A o \in SingleOptions \cup LineOptions : At(o) # {} => Len(Given(o)) = 1
    /\ \A o \in LineOptions : At(o) # {} => Given(o)[1] \in Number

\* The loop goes on after as many tokens past "--params" as "--args" before it has
\* names, whatever they are: option o is one of them.
SteppedOver(o) ==
    \E a \in At("--args"), p \in At("--params"), k \in At(o) :
        a < p /\ p < k /\ k <= p + Len(Given("--args"))

\* What the driver is to take from the command line for option o.
ReadFor(o) == IF SteppedOver(o) THEN Unset ELSE Given(o)

\* Throughout the loop: the options that the loop has passed are read, unless it
\* has stepped over them, and no other.
PassedAreRead ==
    WellFormed =>
        \A o \in Options : opts[o] = IF \E k \in At(o) : k < i THEN ReadFor(o) ELSE Unset

\* The loop never stands on a token that "--params" makes it step over.
ResumesAfter ==
    WellFormed =>
        \A a \in At("--args"), p \in At("--params") :
            a < p /\ p < i => i > p + Len(Given("--args"))

\* The exit status is that of the check of what was read, or of the usage.
ExitIsVerdict ==
    /\ exit \in {"running", "aborted"} => ~usage
    /\ exit \in {"success", "failure"} =>
        /\ i > argc
        /\ usage <=> \E o \in Required : Missing(o)
        /\ exit = "failure" <=>
              usage \/ CheckSite(ExplodedSite(opts["--args"], opts["--params"]), NoStats) # <<>>

Token == Name \cup Dashed \cup Number

TypeOK ==
    /\ argv \in Argvs
    /\ i \in Nat \ {0}
    /\ opts \in [Options -> Seq(Token)]
    /\ usage \in BOOLEAN
    /\ exit \in {"running", "success", "failure", "aborted"}

DriverInv == TypeOK /\ PassedAreRead /\ ResumesAfter /\ ExitIsVerdict

\* Every option is read as it is given, in whatever order they come, but for those
\* that "--params" makes the loop step over, which are not read at all: reading
\* one option never eats into another, and what is stepped over takes no other
\* along.
OptionsReadAsGiven ==
    i > argc /\ WellFormed => \A o \in Options : opts[o] = ReadFor(o)

\* The usage is the answer exactly to a command line of which the name of the
\* function or the file is not there, is empty, or is stepped over. The exit status
\* is the same for the usage as for a swap: it is "success" exactly if there is no
\* usage and the call on the command line deserves no report.
ExitTellsSwap ==
    exit \in {"success", "failure"} /\ WellFormed =>
        LET named == SiteOf(Given("--args"), Given("--params"))
        IN  /\ usage <=> \E o \in Required : ReadFor(o) \in {Unset, <<EmptyName>>}
            /\ exit = "success" <=>
                  /\ ~usage
                  /\ ~\E p \in PairsOf(named) : CoverVerdict(named, "All", NoStats, p[1], p[2])

\* The usage says that --call_site_file gives the name of the file, and the test
\* runner passes it on every command line: the driver does not answer with its
\* usage when it has it and the name of the function.
NoUsageForTheRunner ==
    usage /\ WellFormed => \E o \in Required : Given(o) = Unset
=============================================================================
