---------------------------- MODULE CommandLine ----------------------------
(***************************************************************************)
(* parseArgs of blastguardctl (src/src/ctl/args.cpp) and of blastguardd    *)
(* (src/src/daemon/args.cpp).  An argument is a sequence of symbols: the   *)
(* name of an option, "=", or a word; << >> is the empty argument, which   *)
(* both loops take for the end.                                            *)
(***************************************************************************)
EXTENDS Wire

CONSTANT Dashed  \* symbols that begin with "-"

ASSUME CommandLineAssumption ==
  {"--format", "--fail-on", "--mode", "-a", "--allow", "-v", "--verbose"}
    \subseteq Dashed

Subcommands == {"ping", "start-phase", "end-phase", "report", "shutdown"}
Modes == {"audit", "enforce"}

\* usage() and exit(EXIT_FAILURE)
UsageExit == Fails

\* shift(): the argument at i, empty behind the last.
Shift(args, i) == IF i \in DOMAIN args THEN args[i] ELSE << >>

IsWord(arg, words) == Len(arg) = 1 /\ Head(arg) \in words

\* Mutant of OptionValue: the value is looked at, but not shifted.
OptionValueKept(args, i, name) ==
  IF args[i] = <<name>>
  THEN [is |-> TRUE, value |-> Shift(args, i + 1), next |-> i + 1]
  ELSE [is    |-> IsPrefix(<<name, "=">>, args[i]),
        value |-> SubSeq(args[i], 3, Len(args[i])),
        next  |-> i + 1]

\* optionValue: "name value" or "name=value", and the index of what follows.
OptionValue(args, i, name) ==
  IF args[i] = <<name>>
  THEN [is |-> TRUE, value |-> Shift(args, i + 1), next |-> i + 2]
  ELSE [is    |-> IsPrefix(<<name, "=">>, args[i]),
        value |-> SubSeq(args[i], 3, Len(args[i])),
        next  |-> i + 1]

\* A positional argument means something to start-phase only; from_chars
\* leaves watch_pid alone if there is no number.
Positional(a, arg) ==
  IF a.sub # "start-phase" THEN [a EXCEPT !.pos = @ + 1]
  ELSE IF a.pos = 0 THEN [a EXCEPT !.pos = 1, !.pid = PidOf(arg)]
  ELSE IF a.pos = 1 THEN [a EXCEPT !.pos = 2, !.phase = arg]
  ELSE [a EXCEPT !.pos = @ + 1]

\* The loop before a turn: the index of the next argument and what is known.
Reads(next, a) == [ok |-> TRUE, next |-> next, ret |-> a]

CtlTurn(args, s) ==
  IF ~s.ok THEN s
  ELSE IF Shift(args, s.next) = << >> THEN s
  ELSE LET format == OptionValue(args, s.next, "--format")
           failOn == OptionValue(args, s.next, "--fail-on")
           arg    == args[s.next]
       IN  IF format.is
           THEN IF IsWord(format.value, Formats)
                THEN Reads(format.next,
                           [s.ret EXCEPT !.format = Head(format.value)])
                ELSE UsageExit
           ELSE IF failOn.is
           THEN IF IsWord(failOn.value, ToSet(SeverityWords))
                THEN Reads(failOn.next,
                           [s.ret EXCEPT !.fail_on =
                              SeverityFromWord(Head(failOn.value))])
                ELSE UsageExit
           ELSE Reads(s.next + 1, IF Head(arg) \in Dashed THEN s.ret
                                  ELSE Positional(s.ret, arg))

DefaultArgs(sub) ==
  [sub |-> sub, pid |-> 0, phase |-> << >>, format |-> "markdown",
   fail_on |-> 0, pos |-> 0]

\* A turn takes an argument or is the last: Len(args) of them are enough.
CtlLoop(args, sub) ==
  LET turn[n \in 0..Len(args)] ==
        IF n = 0 THEN Reads(1, DefaultArgs(sub)) ELSE CtlTurn(args, turn[n - 1])
  IN  turn[Len(args)]

\* What the loop ends with, in the form of the other parsers.
Outcome(s) == IF s.ok THEN Gives(s.ret) ELSE UsageExit

\* argv without the program's name.
ParseCtl(argv) ==
  IF argv = << >> THEN UsageExit
  ELSE IF ~IsWord(argv[1], Subcommands) THEN UsageExit
  ELSE Outcome(CtlLoop(Tail(argv), Head(argv[1])))
-----------------------------------------------------------------------------
\* Mutant of AllowHost: one host, the last.
AllowHostOnly(a, host) == [a EXCEPT !.hosts = <<host>>]

AllowHost(a, host) == [a EXCEPT !.hosts = Append(@, host)]

DaemonTurn(args, s) ==
  IF ~s.ok THEN s
  ELSE LET arg   == Shift(args, s.next)
           value == Shift(args, s.next + 1)
       IN  IF arg = << >> THEN s
           ELSE IF arg = <<"--mode">>
           THEN IF IsWord(value, Modes)
                THEN Reads(s.next + 2, [s.ret EXCEPT !.mode = Head(value)])
                ELSE UsageExit
           ELSE IF IsWord(arg, {"-a", "--allow"})
           THEN IF value = << >> THEN UsageExit
                ELSE Reads(s.next + 2, AllowHost(s.ret, value))
           ELSE Reads(s.next + 1, IF IsWord(arg, {"-v", "--verbose"})
                                  THEN [s.ret EXCEPT !.verbose = TRUE]
                                  ELSE s.ret)

DefaultDaemonArgs == [mode |-> "audit", hosts |-> << >>, verbose |-> FALSE]

\* argv with the program's name: the loop begins with it.
DaemonLoop(argv) ==
  LET turn[n \in 0..Len(argv)] ==
        IF n = 0 THEN Reads(1, DefaultDaemonArgs)
        ELSE DaemonTurn(argv, turn[n - 1])
  IN  turn[Len(argv)]

ParseDaemon(argv) == Outcome(DaemonLoop(argv))
=============================================================================
