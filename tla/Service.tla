------------------------------ MODULE Service ------------------------------
(***************************************************************************)
(* What someone who runs blastguardctl may rely on, whatever happens on    *)
(* the socket: the daemon carries a command out at most once and in one    *)
(* step, the command reports success only if that is what happened, and it *)
(* fails only if it was refused, its gate tripped or the daemon is gone.   *)
(* The daemon goes only when told to or when a client was killed.          *)
(***************************************************************************)
EXTENDS Naturals, Sequences

CONSTANTS
  Client,  \* invocations of blastguardctl
  Command  \* what they may be told to do: a request and a severity to fail on

VARIABLES
  cmd,      \* what each invocation was told to do, NoCommand before it runs
  exit,     \* how it ended: "none" as long as it runs
  outcome,  \* what the daemon answered it, Nothing as long as it did not
  session,  \* whether a phase is open, its name, the severities found
  alive     \* the daemon runs

NoCommand == [req |-> [type |-> "none"], fail_on |-> 0]
Nothing   == [type |-> "none"]
Idle      == [active |-> FALSE, phase |-> << >>, found |-> << >>]

MaxFound(s) ==
  LET all == {s.found[i] : i \in DOMAIN s.found} \cup {0}
  IN  CHOOSE m \in all : \A v \in all : v <= m

\* The body of a report: a line for each finding.
Lines(s) == [i \in DOMAIN s.found |-> "finding"]

Refused == [type |-> "error", reason |-> <<"refused">>]

Did(resp, s) == [response |-> resp, session |-> s]

\* What the handler of req may answer, and the session after it.  A pid may
\* not exist, or not be trackable once the session has been reset.
Handled(req, s) ==
  CASE req.type = "ping"     -> {Did([type |-> "pong"], s)}
    [] req.type = "shutdown" -> {Did([type |-> "ok"], s)}
    [] req.type = "end-phase" ->
         {Did([type |-> "ok"], [s EXCEPT !.active = FALSE])}
    [] req.type = "start-phase" ->
         IF s.active THEN {Did(Refused, s)}
         ELSE {Did(Refused, s), Did(Refused, Idle),
               Did([type |-> "ok"],
                   [active |-> TRUE, phase |-> req.phase, found |-> << >>])}
    [] req.type = "report" ->
         IF s.active THEN {Did(Refused, s)}
         ELSE {Did([type |-> "report", severity |-> MaxFound(s),
                    body |-> Lines(s)], s)}

\* An event of the watched tree has become a finding.
Found(s, sev) == [s EXCEPT !.found = Append(@, sev)]

ServiceInit ==
  /\ cmd = [c \in Client |-> NoCommand]
  /\ exit = [c \in Client |-> "none"]
  /\ outcome = [c \in Client |-> Nothing]
  /\ session = Idle
  /\ alive = TRUE

Invoke(c, k) ==
  /\ cmd[c] = NoCommand
  /\ cmd' = [cmd EXCEPT ![c] = k]
  /\ UNCHANGED <<exit, outcome, session, alive>>

Carry(c) ==
  /\ alive /\ cmd[c] # NoCommand /\ outcome[c] = Nothing
  /\ exit[c] \in {"none", "killed"}
  /\ \E d \in Handled(cmd[c].req, session) :
       session' = d.session /\ outcome' = [outcome EXCEPT ![c] = d.response]
  /\ UNCHANGED <<cmd, exit, alive>>

\* The client went before it had sent its command.
Turn(c) ==
  /\ exit[c] = "killed" /\ outcome[c] = Nothing
  /\ outcome' = [outcome EXCEPT ![c] = Refused]
  /\ UNCHANGED <<cmd, exit, session, alive>>

Note ==
  /\ alive /\ session.active
  /\ \E sev \in 1..3 : session' = Found(session, sev)
  /\ UNCHANGED <<cmd, exit, outcome, alive>>

Succeed(c) ==
  /\ exit[c] = "none" /\ outcome[c].type \notin {"none", "error"}
  /\ exit' = [exit EXCEPT ![c] = "ok"]
  /\ UNCHANGED <<cmd, outcome, session, alive>>

Fail(c) ==
  /\ exit[c] = "none" /\ cmd[c] # NoCommand
  /\ ~alive \/ outcome[c].type = "error" \/ cmd[c].fail_on # 0
  /\ exit' = [exit EXCEPT ![c] = "failed"]
  /\ UNCHANGED <<cmd, outcome, session, alive>>

\* A command that makes no sense is never sent.
Usage(c) ==
  /\ exit[c] = "none" /\ outcome[c] = Nothing
  /\ exit' = [exit EXCEPT ![c] = "usage"]
  /\ UNCHANGED <<cmd, outcome, session, alive>>

Kill(c) ==
  /\ exit[c] = "none"
  /\ exit' = [exit EXCEPT ![c] = "killed"]
  /\ UNCHANGED <<cmd, outcome, session, alive>>

Stop ==
  /\ alive
  /\ \E c \in Client :
       \/ exit[c] = "killed"
       \/ cmd[c].req.type = "shutdown" /\ outcome[c] # Nothing
  /\ alive' = FALSE
  /\ UNCHANGED <<cmd, exit, outcome, session>>

ServiceNext ==
  \/ Note \/ Stop
  \/ \E c \in Client :
       \/ \E k \in Command : Invoke(c, k)
       \/ Carry(c) \/ Turn(c) \/ Succeed(c) \/ Fail(c) \/ Usage(c) \/ Kill(c)

ServiceSpec ==
  ServiceInit /\ [][ServiceNext]_<<cmd, exit, outcome, session, alive>>
=============================================================================
