-------------------------------- MODULE Ipc --------------------------------
(***************************************************************************)
(* blastguardctl and the daemon's end of the socket: sendRaw and           *)
(* sendCommand (src/src/common/proto.cpp, proto.h), readLine, readAll and  *)
(* writeAll (common/io.cpp), acceptOnce and handleClient                   *)
(* (daemon/ipcserver.cpp), main and the do... functions (ctl/main.cpp).    *)
(*                                                                         *)
(* A socket is two texts, one in each direction.  The daemon serves one    *)
(* connection at a time and blocks on it: it reads symbol by symbol, and   *)
(* it writes as much as fits.  A client may be killed at any moment.  A    *)
(* line is written in one step: it fits into the socket's buffer.          *)
(***************************************************************************)
EXTENDS Wire

CONSTANTS
  Client,      \* invocations of blastguardctl
  NoClient,    \* nobody
  Command,     \* what they may be told to do: a request and a severity to fail on
  MaxLine,     \* max_line, in symbols
  ReadLimit,   \* what sendRaw gives readAll: max_line * 4
  Chunk,       \* what one read of readAll takes at most
  SockCap,     \* what the daemon can write ahead of the client
  Backlog,     \* connections that listen(fd, 8) keeps waiting
  Kills,       \* clients may be killed
  MaxFindings  \* bound: findings of a phase

\* The words of reasons and of reports stand for any.  What the client reads
\* is never less than the first line of a report.
ASSUME IpcAssumption ==
  /\ {"refused", "finding"} \subseteq Word
  /\ NoClient \notin Client
  /\ Command \subseteq [req : Request, fail_on : 0..3]
  /\ MaxLine \in Nat \ {0} /\ Backlog \in Nat
  /\ ReadLimit \in Nat /\ ReadLimit >= 5
  /\ Chunk \in Nat \ {0} /\ SockCap \in Nat \ {0}
  /\ Kills \in BOOLEAN /\ MaxFindings \in Nat

VARIABLES
  cmd,      \* the command line of each invocation
  exit,     \* how it ended
  at,       \* where it is: "idle", "start", "connected", "waiting", "closed"
  up,       \* what it has written and the daemon has not read
  down,     \* what the daemon has written and it has not read
  hungup,   \* the daemon has closed its end
  got,      \* what readAll has read
  queue,    \* connections waiting for accept4
  pc,       \* the daemon: "loop", "read", "handle", "write", "exited", "killed"
  conn,     \* the connection it serves
  line,     \* what readLine has read
  out,      \* what writeAll has still to write
  leaving,  \* m_shouldExit
  session,  \* the daemon's session, as Service sees it
  outcome   \* history: the response to each client

clientVars == <<cmd, exit, at, got>>
socketVars == <<up, down, hungup, queue>>
serverVars == <<pc, conn, line, out, leaving, session, outcome>>
vars       == <<clientVars, socketVars, serverVars>>

Alive == pc \notin {"exited", "killed"}

Svc == INSTANCE Service WITH alive <- Alive

Init ==
  /\ cmd = [c \in Client |-> Svc!NoCommand]
  /\ exit = [c \in Client |-> "none"]
  /\ at = [c \in Client |-> "idle"]
  /\ up = [c \in Client |-> << >>] /\ down = [c \in Client |-> << >>]
  /\ hungup = [c \in Client |-> FALSE]
  /\ got = [c \in Client |-> << >>]
  /\ queue = << >>
  /\ pc = "loop" /\ conn = NoClient /\ line = << >> /\ out = << >>
  /\ leaving = FALSE
  /\ session = Svc!Idle
  /\ outcome = [c \in Client |-> Svc!Nothing]
-----------------------------------------------------------------------------
(* The client. *)

Leave(c, how) ==
  /\ exit' = [exit EXCEPT ![c] = how]
  /\ at' = [at EXCEPT ![c] = "closed"]

Invoke(c, k) ==
  /\ at[c] = "idle"
  /\ cmd' = [cmd EXCEPT ![c] = k]
  /\ at' = [at EXCEPT ![c] = "start"]
  /\ UNCHANGED <<exit, got, socketVars, serverVars>>

\* doStartPhase wants a pid and a name.
Senseless(k) ==
  k.req.type = "start-phase" /\ (k.req.pid = 0 \/ k.req.phase = << >>)

Usage(c) ==
  /\ at[c] = "start" /\ Senseless(cmd[c])
  /\ Leave(c, "usage")
  /\ UNCHANGED <<cmd, got, socketVars, serverVars>>

\* connect() waits for room in the backlog.
Connect(c) ==
  /\ at[c] = "start" /\ ~Senseless(cmd[c])
  /\ Alive /\ Len(queue) < Backlog
  /\ at' = [at EXCEPT ![c] = "connected"]
  /\ queue' = Append(queue, c)
  /\ UNCHANGED <<cmd, exit, got, up, down, hungup, serverVars>>

\* Nobody listens: sendRaw returns an empty reply.
ConnectRefused(c) ==
  /\ at[c] = "start" /\ ~Senseless(cmd[c])
  /\ ~Alive
  /\ Leave(c, "failed")
  /\ UNCHANGED <<cmd, got, socketVars, serverVars>>

\* writeAll and shutdown(SHUT_WR); SIGPIPE when the daemon is gone.
WriteLine(c) ==
  /\ at[c] = "connected"
  /\ IF hungup[c]
     THEN Leave(c, "killed") /\ UNCHANGED up
     ELSE /\ at' = [at EXCEPT ![c] = "waiting"]
          /\ up' = [up EXCEPT ![c] = Append(EncodeRequest(cmd[c].req), NL)]
          /\ UNCHANGED exit
  /\ UNCHANGED <<cmd, got, down, hungup, queue, serverVars>>

Smaller(m, n) == IF m < n THEN m ELSE n

\* One read of readAll.
ReadChunk(c) ==
  LET n == Smaller(Chunk, Len(down[c]))
  IN  /\ at[c] = "waiting"
      /\ Len(got[c]) < ReadLimit
      /\ n > 0
      /\ got' = [got EXCEPT ![c] = @ \o SubSeq(down[c], 1, n)]
      /\ down' = [down EXCEPT ![c] = SubSeq(@, n + 1, Len(@))]
      /\ UNCHANGED <<cmd, exit, at, up, hungup, queue, serverVars>>

Reply(c) == DecodeReply(cmd[c].req.type, got[c])

GateTrips(k, reply) ==
  /\ reply.type = "report"
  /\ k.fail_on # 0 /\ reply.severity >= k.fail_on

\* Mutant of ExitCode: the gate asks for more than the severity.
ExitCodeAbove(k, reply) ==
  IF \/ reply.type = "error"
     \/ reply.type = "report" /\ k.fail_on # 0 /\ reply.severity > k.fail_on
  THEN "failed" ELSE "ok"

ExitCode(k, reply) ==
  IF reply.type = "error" \/ GateTrips(k, reply) THEN "failed" ELSE "ok"

\* Mutant of Finish: what has come so far is taken for all.
FinishEarly(c) ==
  /\ at[c] = "waiting"
  /\ got[c] # << >> /\ down[c] = << >>
  /\ Leave(c, ExitCode(cmd[c], Reply(c)))
  /\ UNCHANGED <<cmd, got, socketVars, serverVars>>

\* readAll returns at the end of the reply, or when it has enough of it.
Finish(c) ==
  /\ at[c] = "waiting"
  /\ \/ Len(got[c]) >= ReadLimit
     \/ hungup[c] /\ down[c] = << >>
  /\ Leave(c, ExitCode(cmd[c], Reply(c)))
  /\ UNCHANGED <<cmd, got, socketVars, serverVars>>

\* A signal ends the client and closes its socket.
Kill(c) ==
  /\ Kills
  /\ at[c] \in {"connected", "waiting"}
  /\ Leave(c, "killed")
  /\ UNCHANGED <<cmd, got, socketVars, serverVars>>
-----------------------------------------------------------------------------
(* The daemon. *)

\* An event from the ring buffer, consumed between two clients.
Observe(sev) ==
  /\ pc = "loop" /\ ~leaving
  /\ session.active /\ Len(session.found) < MaxFindings
  /\ session' = Svc!Found(session, sev)
  /\ UNCHANGED <<clientVars, socketVars, pc, conn, line, out, leaving, outcome>>

Accept ==
  /\ pc = "loop" /\ ~leaving
  /\ queue # << >>
  /\ conn' = Head(queue) /\ queue' = Tail(queue)
  /\ line' = << >>
  /\ pc' = "read"
  /\ UNCHANGED <<clientVars, up, down, hungup, out, leaving, session, outcome>>

\* One read of readLine, which takes a newline but does not keep it.
ReadSymbol ==
  /\ pc = "read"
  /\ Len(line) < MaxLine /\ up[conn] # << >>
  /\ up' = [up EXCEPT ![conn] = Tail(@)]
  /\ IF Head(up[conn]) = NL
     THEN pc' = "handle" /\ UNCHANGED line
     ELSE line' = Append(line, Head(up[conn])) /\ pc' = pc
  /\ UNCHANGED <<clientVars, down, hungup, queue, conn, out, leaving, session,
                 outcome>>

\* Mutant of ReadEnd: do not wait for a client that is slow.
ReadEndEarly ==
  /\ pc = "read"
  /\ up[conn] = << >> \/ Len(line) >= MaxLine
  /\ pc' = "handle"
  /\ UNCHANGED <<clientVars, socketVars, conn, line, out, leaving, session,
                 outcome>>

\* readLine has enough, or the client will write no more.
ReadEnd ==
  /\ pc = "read"
  /\ \/ Len(line) >= MaxLine
     \/ up[conn] = << >> /\ at[conn] # "connected"
  /\ pc' = "handle"
  /\ UNCHANGED <<clientVars, socketVars, conn, line, out, leaving, session,
                 outcome>>

Wired(resp) == Append(EncodeResponse(resp), NL)

\* decodeRequest and the handler.
Handle ==
  \E d \in {DecodeRequest(line)} :
    /\ pc = "handle"
    /\ pc' = "write"
    /\ \E r \in IF d.ok THEN Svc!Handled(d.value, session)
                ELSE {Svc!Did(Svc!Refused, session)} :
         /\ session' = r.session
         /\ out' = Wired(r.response)
         /\ outcome' = [outcome EXCEPT ![conn] = r.response]
    /\ leaving' = (leaving \/ (d.ok /\ d.value.type = "shutdown"))
    /\ UNCHANGED <<clientVars, socketVars, conn, line>>

\* Mutant of WriteSome: all at once, whatever fits.
WriteSomeMore ==
  /\ pc = "write" /\ at[conn] # "closed"
  /\ out # << >>
  /\ down' = [down EXCEPT ![conn] = @ \o out]
  /\ out' = << >>
  /\ UNCHANGED <<clientVars, up, hungup, queue, pc, conn, line, leaving,
                 session, outcome>>

\* One write of writeAll, which blocks when the client does not read.
WriteSome ==
  LET n == Smaller(SockCap - Len(down[conn]), Len(out))
  IN  /\ pc = "write" /\ at[conn] # "closed"
      /\ n > 0
      /\ down' = [down EXCEPT ![conn] = @ \o SubSeq(out, 1, n)]
      /\ out' = SubSeq(out, n + 1, Len(out))
      /\ UNCHANGED <<clientVars, up, hungup, queue, pc, conn, line, leaving,
                     session, outcome>>

HangUp(S) == hungup' = [c \in Client |-> hungup[c] \/ c \in S]

\* The client has closed the connection: SIGPIPE ends the daemon, and the
\* kernel closes all it had.
WriteToNobody ==
  /\ pc = "write" /\ at[conn] = "closed"
  /\ out # << >>
  /\ pc' = "killed"
  /\ HangUp({conn} \cup ToSet(queue))
  /\ queue' = << >>
  /\ UNCHANGED <<clientVars, up, down, conn, line, out, leaving, session,
                 outcome>>

\* Mutant of CloseClient: the descriptor is not closed.
CloseClientLeak ==
  /\ pc = "write" /\ out = << >>
  /\ pc' = "loop" /\ conn' = NoClient
  /\ UNCHANGED <<clientVars, socketVars, line, out, leaving, session, outcome>>

CloseClient ==
  /\ pc = "write" /\ out = << >>
  /\ HangUp({conn})
  /\ pc' = "loop" /\ conn' = NoClient
  /\ UNCHANGED <<clientVars, up, down, queue, line, out, leaving, session,
                 outcome>>

LeaveLoop ==
  /\ pc = "loop" /\ leaving
  /\ pc' = "exited"
  /\ HangUp(ToSet(queue))
  /\ queue' = << >>
  /\ UNCHANGED <<clientVars, up, down, conn, line, out, leaving, session,
                 outcome>>
-----------------------------------------------------------------------------
ClientStep(c) ==
  \/ Usage(c) \/ Connect(c) \/ ConnectRefused(c)
  \/ WriteLine(c) \/ ReadChunk(c) \/ Finish(c)

DaemonStep ==
  \/ Accept \/ ReadSymbol \/ ReadEnd \/ Handle
  \/ WriteSome \/ WriteToNobody \/ CloseClient \/ LeaveLoop

Next ==
  \/ \E c \in Client :
       \/ \E k \in Command : Invoke(c, k)
       \/ ClientStep(c) \/ Kill(c)
  \/ \E sev \in 1..3 : Observe(sev)
  \/ DaemonStep

Spec == Init /\ [][Next]_vars

\* The scheduler runs the daemon and every client that has not been killed;
\* nobody has to invoke one.
FairSpec ==
  /\ Spec
  /\ WF_vars(DaemonStep)
  /\ \A c \in Client : WF_vars(ClientStep(c))
-----------------------------------------------------------------------------
\* Every variable has its type; the daemon holds a connection exactly while it
\* serves it, no connection is queued twice or queued while it is served, and
\* neither buffer is ever fuller than its owner lets it get
\* (ipcserver.cpp:74-121, io.cpp:12-91).
TypeOK ==
  /\ cmd \in [Client -> Command \cup {Svc!NoCommand}]
  /\ exit \in [Client -> {"none", "ok", "failed", "usage", "killed"}]
  /\ at \in [Client -> {"idle", "start", "connected", "waiting", "closed"}]
  /\ up \in [Client -> Text] /\ down \in [Client -> Text]
  /\ hungup \in [Client -> BOOLEAN]
  /\ got \in [Client -> Text]
  /\ queue \in Seq(Client) /\ Len(queue) <= Backlog
  /\ pc \in {"loop", "read", "handle", "write", "exited", "killed"}
  /\ pc \in {"read", "handle", "write"} => conn \in Client
  /\ pc = "loop" => conn = NoClient
  /\ \A i, j \in DOMAIN queue : queue[i] = queue[j] => i = j
  /\ conn \notin ToSet(queue)
  /\ line \in Text /\ Len(line) <= MaxLine
  /\ out \in Text
  /\ \A c \in Client :
       Len(down[c]) <= SockCap /\ Len(got[c]) < ReadLimit + Chunk
  /\ leaving \in BOOLEAN
  /\ session \in [active : BOOLEAN, phase : Text, found : Seq(1..3)]
  /\ outcome \in [Client -> Response \cup {Svc!Nothing}]

\* Whatever happens on the socket, the daemon is the service of module
\* Service: a command is carried out once, in one step, as it was given, and
\* its client learns what came of it (proto.cpp:92-299, proto.h:116-132,
\* io.cpp:12-91, ipcserver.cpp:74-121, ctl/main.cpp:13-93).
ServiceImplemented == Svc!ServiceSpec

\* README.md, "Subcommands": a report command with a gate succeeds exactly if
\* the highest severity of the findings it is about stays below the gate; a
\* cut or late reply does not change that (proto.cpp:241-264,
\* ctl/main.cpp:65-78).
GateHolds ==
  \A c \in Client :
    /\ exit[c] \in {"ok", "failed"}
    /\ outcome[c].type = "report" /\ cmd[c].fail_on # 0
    => (exit[c] = "ok" <=> outcome[c].severity < cmd[c].fail_on)

\* Every command that has been started ends, even if the daemon is shut down
\* or killed meanwhile, as long as each client goes on: one that connects and
\* sends nothing holds all others up (ipcserver.cpp:94, io.cpp:64-91).
EveryCommandEnds ==
  \A c \in Client : (at[c] = "start") ~> (at[c] = "closed")

\* README.md, "Subcommands": shutdown "tells the daemon to stop"; nothing else
\* does, not a client that has stopped reading either (io.cpp:12-37).
OnlyShutdownStops ==
  ~Alive => \E c \in Client : /\ cmd[c].req.type = "shutdown"
                              /\ outcome[c].type = "ok"

\* README.md, "Subcommands": report "writes the report to stdout": all of it, in
\* whatever pieces it comes, if it fits into what the client reads
\* (io.cpp:39-62, proto.cpp:266-299, ctl/main.cpp:73-77).
ReportWhole ==
  \A c \in Client :
    /\ exit[c] = "ok" /\ outcome[c].type = "report"
    /\ Len(Wired(outcome[c])) <= ReadLimit
    => got[c] = Wired(outcome[c])
=============================================================================
