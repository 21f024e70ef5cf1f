------------------------ MODULE CommandLineProperties ------------------------
(***************************************************************************)
(* What the options and the positional arguments of the two programs mean, *)
(* whatever their number, order and spelling: a behaviour builds a command *)
(* line, argument by argument.                                             *)
(***************************************************************************)
EXTENDS CommandLine, FiniteSets

CONSTANTS
  CtlArguments,    \* arguments of blastguardctl
  DaemonArguments  \* arguments of blastguardd

ASSUME ArgumentsAssumption ==
  CtlArguments \subseteq Seq(STRING) /\ DaemonArguments \subseteq Seq(STRING)

VARIABLES ctl, daemon

GiveCtl    == \E arg \in CtlArguments : ctl' = Append(ctl, arg)
GiveDaemon == \E arg \in DaemonArguments : daemon' = Append(daemon, arg)

CtlSpec    == ctl = << >> /\ [][GiveCtl]_ctl
DaemonSpec == daemon = << >> /\ [][GiveDaemon]_daemon
-----------------------------------------------------------------------------
\* The arguments the loops look at: those before the first empty one.
Seen(args) == Before(args, Find(args, << >>))

\* What an option's argument is given, by itself or behind "=".
ValueAt(args, i) ==
  IF Len(args[i]) = 1 THEN IF i < Len(args) THEN args[i + 1] ELSE << >>
  ELSE SubSeq(args[i], 3, Len(args[i]))

\* The value of the last of them, or the default.
LastOf(args, options, default) ==
  IF options = {} THEN default
  ELSE ValueAt(args, CHOOSE i \in options : \A j \in options : j <= i)

\* The place of i among the members of S.
Place(i, S) == Cardinality({j \in S : j <= i})
-----------------------------------------------------------------------------
(* blastguardctl *)

Options(args, name) ==
  {i \in DOMAIN args :
     args[i][1] = name /\ (Len(args[i]) = 1 \/ args[i][2] = "=")}

\* An option by itself, which takes the next argument.
Bare(args) ==
  {i \in Options(args, "--format") \cup Options(args, "--fail-on") :
     Len(args[i]) = 1}

Positionals(args) ==
  {i \in DOMAIN args : args[i][1] \notin Dashed /\ i - 1 \notin Bare(args)}

\* The n-th of them, if there are as many.
Nth(args, n) ==
  LET at == {i \in Positionals(args) : Place(i, Positionals(args)) = n}
  IN  IF at = {} THEN << >> ELSE args[CHOOSE i \in at : TRUE]

\* An option without a value or with one it does not know.
CtlRefuses(args) ==
  \/ \E i \in Options(args, "--format") : ~IsWord(ValueAt(args, i), Formats)
  \/ \E i \in Options(args, "--fail-on") :
       ~IsWord(ValueAt(args, i), ToSet(SeverityWords))

\* README.md, "Subcommands": options and positional arguments of blastguardctl
\* mean the same in every order and in both spellings; the last of several
\* counts, a missing or unknown value is refused wherever it is, and a value
\* is never taken for a pid or a name (parseArgs, ctl/args.cpp:63-159).
CtlMeansWhatItSays ==
  LET args   == Seen(Tail(ctl))
      parsed == ParseCtl(ctl)
      a      == parsed.value
  IN  ctl # << >> =>
        /\ parsed.ok <=> IsWord(ctl[1], Subcommands) /\ ~CtlRefuses(args)
        /\ parsed.ok =>
             /\ <<a.format>> =
                  LastOf(args, Options(args, "--format"), <<"markdown">>)
             /\ <<SeverityToString(a.fail_on)>> =
                  LastOf(args, Options(args, "--fail-on"), <<"none">>)
             /\ ctl[1] = <<"start-phase">> =>
                  a.pid = PidOf(Nth(args, 1)) /\ a.phase = Nth(args, 2)
-----------------------------------------------------------------------------
(* blastguardd *)

Takers == {"--mode", "-a", "--allow"}

\* The options that take the next argument, unless they are taken themselves.
Taking(args) ==
  LET takes[i \in 0..Len(args)] ==
        i > 0 /\ IsWord(args[i], Takers) /\ ~takes[i - 1]
  IN  {i \in DOMAIN args : takes[i]}

ModeOptions(args)  == {i \in Taking(args) : args[i] = <<"--mode">>}
AllowOptions(args) == Taking(args) \ ModeOptions(args)

DaemonRefuses(args) ==
  \/ \E i \in ModeOptions(args) : ~IsWord(ValueAt(args, i), Modes)
  \/ \E i \in AllowOptions(args) : ValueAt(args, i) = << >>

\* README.md, "Daemon flags": the same of blastguardd; every host is allowed,
\* in the order given (parseArgs, daemon/args.cpp:56-114).
DaemonMeansWhatItSays ==
  LET args   == Seen(daemon)
      allow  == AllowOptions(args)
      parsed == ParseDaemon(daemon)
      a      == parsed.value
  IN  /\ parsed.ok <=> ~DaemonRefuses(args)
      /\ parsed.ok =>
           /\ <<a.mode>> = LastOf(args, ModeOptions(args), <<"audit">>)
           /\ Len(a.hosts) = Cardinality(allow)
           /\ \A i \in allow : a.hosts[Place(i, allow)] = ValueAt(args, i)
=============================================================================
