---------------------------- MODULE MCFunctions ----------------------------
(***************************************************************************)
(* The functions of Wire, Attributor and CommandLine, each compared with   *)
(* what it is for, on every input up to a bound.  A behaviour builds one   *)
(* input: a text, a path, an environment or a command line.                *)
(***************************************************************************)
EXTENDS WireProperties, AttributorProperties, CommandLineProperties, TLC

CONSTANTS
  MaxText, \* bound: symbols of a text
  MaxPath, \* bound: components of a path
  MaxEnv,  \* bound: symbols of an environment
  MaxArgs  \* bound: arguments

VARIABLE
  input  \* which of the others is built

vars == <<input, text, path, env, ctl, daemon>>

MCDecimal   == 0 :> "0" @@ 7 :> "7" @@ 12 :> "12"
MCFromChars == "7" :> 7 @@ "12" :> 12 @@ "0" :> 0 @@ "7x" :> 7

MCDeleted == [n \in Names |-> IF n = "" THEN n ELSE n \o " (deleted)"]

MCSymbols == {SP, NL, ":", "ERR", "REPORT", "START-PHASE", "7x", "high", "json"}

MCCtlArguments ==
  {<<"--format">>, <<"--format", "=", "json">>, <<"--fail-on">>,
   <<"--fail-on", "=", "high">>, <<"--fail-on", "=">>, <<"--failon">>,
   <<"json">>, <<"low">>, <<"7">>, << >>}

MCDaemonArguments ==
  {<<"--mode">>, <<"-a">>, <<"--allow">>, <<"-v">>, <<"--mode", "=", "enforce">>,
   <<"enforce">>, <<"audit">>, <<"host">>, << >>}

Init ==
  /\ input \in {"text", "path", "env", "ctl", "daemon"}
  /\ text = << >> /\ path = << >> /\ env = << >>
  /\ ctl \in IF input = "ctl"
             THEN {<< <<sub>> >> : sub \in {"report", "start-phase", "stop"}}
             ELSE {<< >>}
  /\ daemon = << <<"blastguardd">> >>

AddSymbol ==
  /\ input = "text" /\ Len(text) < MaxText
  /\ GrowText
  /\ UNCHANGED <<input, path, env, ctl, daemon>>

AddComponent ==
  /\ input = "path" /\ Len(path) < MaxPath
  /\ Descend
  /\ UNCHANGED <<input, text, env, ctl, daemon>>

AddWord ==
  /\ input = "env" /\ Len(env) < MaxEnv
  /\ Extend
  /\ UNCHANGED <<input, text, path, ctl, daemon>>

AddCtl ==
  /\ input = "ctl" /\ Len(ctl) <= MaxArgs
  /\ GiveCtl
  /\ UNCHANGED <<input, text, path, env, daemon>>

AddDaemon ==
  /\ input = "daemon" /\ Len(daemon) <= MaxArgs
  /\ GiveDaemon
  /\ UNCHANGED <<input, text, path, env, ctl>>

Next == AddSymbol \/ AddComponent \/ AddWord \/ AddCtl \/ AddDaemon
Spec == Init /\ [][Next]_vars
=============================================================================
