------------------------------- MODULE Daemon -------------------------------
(***************************************************************************)
(* blastguardd (src/src/daemon): one thread that waits with epoll for the  *)
(* control socket and the ring buffer, serves one request or drains the    *)
(* ring buffer, and waits again.  Composed with the processes, the eBPF    *)
(* programs (module Kernel) and the blastguardctl clients.                 *)
(*                                                                         *)
(* The control state pc is the place in Daemon::exec:                      *)
(*   "loop"     before epoll_wait, or between two of the fds it returned   *)
(*   "track"    in onStartPhaseRequest, before m_mgr.trackPid              *)
(*   "clear"    in clearTrackedPids                                        *)
(*   "consume"  in ring_buffer__consume, between two events                *)
(*   "lookup"   in an event handler, before a setPackageForPid             *)
(*   "write"    in setPackageForPid, between its lookup and its update     *)
(*   "exited"   out of the loop                                            *)
(* A step is what happens between two of the daemon's system calls that    *)
(* matter: the session is private to the daemon and changes atomically.    *)
(***************************************************************************)
EXTENDS Kernel

CONSTANTS
  Requests,     \* the requests clients may send
  PathPackage,  \* packageFromPath, for the paths processes open
  Backlog,      \* connections listen() keeps waiting
  MaxRequests,  \* bound: requests in a behaviour
  MaxStarts     \* bound: start-phase requests among them

StartRequest == [type : {"start-phase"}, pid : Pid]
OtherRequest == [type : {"ping", "end-phase", "report", "shutdown"}]

ASSUME DaemonAssumption ==
  /\ Requests \subseteq StartRequest \cup OtherRequest
  /\ PathPackage \in [Path -> Package \cup {NoPackage}]
  /\ Backlog \in Nat /\ MaxRequests \in Nat /\ MaxStarts \in Nat

VARIABLES
  pc,        \* see above
  ready,     \* the fds of the last epoll_wait not looked at yet
  backlog,   \* requests of clients that wait to be accepted
  request,   \* the request being served
  session,   \* m_session
  pushes,    \* setPackageForPid calls the current handler still makes
  reply,     \* the last reply: "none", "ok" or "error"
  report,    \* the last report a client received
  sent,      \* history: requests sent,
  starts,    \*          start-phase requests among them,
  answered,  \*          requests answered
  due,       \* history: events in the ring when the client ended the phase
  missed     \* history: those whose finding was dropped

daemonVars == <<pc, ready, backlog, request, session, pushes, reply, report,
                sent, starts, answered, due, missed>>
asked      == <<sent, starts, due>>
clientVars == <<backlog, asked>>
vars       == <<kernelVars, daemonVars>>

NoRequest == [type |-> "none"]
NoReport  == [phase |-> 0, body |-> Rendered(EmptySession)]

Init ==
  /\ KernelInit
  /\ pc = "loop"
  /\ ready = {}
  /\ backlog = << >>
  /\ request = NoRequest
  /\ session = EmptySession
  /\ pushes = << >>
  /\ reply = "none"
  /\ report = NoReport
  /\ sent = 0 /\ starts = 0 /\ answered = 0
  /\ due = {} /\ missed = {}
-----------------------------------------------------------------------------
(* Clients: sendCommand connects, writes one line and waits for a reply. *)

Send(r) ==
  /\ pc # "exited"
  /\ sent < MaxRequests /\ Len(backlog) < Backlog
  /\ r.type = "start-phase" => starts < MaxStarts
  /\ backlog' = Append(backlog, r)
  /\ sent' = sent + 1
  /\ starts' = IF r.type = "start-phase" THEN starts + 1 ELSE starts
  /\ due' = IF r.type = "end-phase" /\ session.active
            THEN due \cup {events[i].id : i \in DOMAIN events} ELSE due
  /\ UNCHANGED <<kernelVars, pc, ready, request, session, pushes, reply,
                 report, answered, missed>>
-----------------------------------------------------------------------------
(* The event loop. *)

\* Level triggered: every fd that has something to read is returned.
Readable ==
  (IF backlog # << >> THEN {"ipc"} ELSE {})
    \cup (IF events # << >> THEN {"ring"} ELSE {})

EpollWait ==
  /\ pc = "loop" /\ ready = {}
  /\ request.type # "shutdown"
  /\ Readable # {}
  /\ ready' = Readable
  /\ UNCHANGED <<kernelVars, clientVars, pc, request, session, pushes, reply,
                 report, answered, missed>>

\* m_shouldExit is read only here: the rest of the batch is still served.
LeaveLoop ==
  /\ pc = "loop" /\ ready = {}
  /\ request.type = "shutdown"
  /\ pc' = "exited"
  /\ UNCHANGED <<kernelVars, clientVars, ready, request, session, pushes,
                 reply, report, answered, missed>>

Reply(r) == reply' = r /\ answered' = answered + 1

\* accept4, readLine and decodeRequest, with the handler to follow.
Accept(type) ==
  /\ pc = "loop" /\ "ipc" \in ready
  /\ Head(backlog).type = type
  /\ ready' = ready \ {"ipc"}
  /\ backlog' = Tail(backlog)
  /\ request' = Head(backlog)

Ping ==
  /\ Accept("ping")
  /\ Reply("ok")
  /\ UNCHANGED <<kernelVars, pc, session, pushes, report, asked, missed>>

Shutdown ==
  /\ Accept("shutdown")
  /\ Reply("ok")
  /\ UNCHANGED <<kernelVars, pc, session, pushes, report, asked, missed>>
-----------------------------------------------------------------------------
(* onStartPhaseRequest *)

StartRefused ==
  /\ Accept("start-phase")
  /\ session.active \/ ~PidExists(Head(backlog).pid)
  /\ Reply("error")
  /\ UNCHANGED <<kernelVars, pc, session, pushes, report, asked, missed>>

StartReset ==
  /\ Accept("start-phase")
  /\ ~session.active
  /\ PidExists(Head(backlog).pid)
  /\ session' = Reset(session)
  /\ pc' = "track"
  /\ UNCHANGED <<kernelVars, pushes, reply, report, asked, answered, missed>>

\* trackPid inserts with BPF_NOEXIST; on success the phase begins.
Track(p) ==
  /\ pc = "track"
  /\ p = request.pid
  /\ p \notin Tracked /\ Cardinality(Tracked) < MaxTracked
  /\ tracked_pids' = [tracked_pids EXCEPT ![p] = 0]
  /\ session' = StartPhase(session, p)
  /\ pc' = "loop"
  /\ Reply("ok")
  /\ window' = [no |-> window.no + 1, open |-> TRUE]
  /\ watched' = IF p \in Living THEN {p} ELSE {}
  /\ due' = {} /\ missed' = {}
  /\ UNCHANGED <<proc, prog, events, acts, past, connected, backlog, sent,
                 starts, ready, request, pushes, report>>

TrackFailed(p) ==
  /\ pc = "track"
  /\ p = request.pid
  /\ p \in Tracked \/ Cardinality(Tracked) >= MaxTracked
  /\ pc' = "loop"
  /\ Reply("error")
  /\ UNCHANGED <<kernelVars, clientVars, ready, request, session, pushes,
                 report, missed>>
-----------------------------------------------------------------------------
(* onEndPhaseRequest *)

EndPhaseRequest ==
  /\ Accept("end-phase")
  /\ session' = EndPhase(session)
  /\ pc' = "clear"
  /\ window' = [window EXCEPT !.open = FALSE]
  /\ watched' = {}
  /\ UNCHANGED <<proc, prog, tracked_pids, events, acts, past, connected,
                 pushes, reply, report, asked, answered, missed>>

\* Mutant of ClearOne: pids that are gone are not worth deleting.
ClearOneLiving(p) ==
  /\ pc = "clear"
  /\ p \in Tracked \cap Living
  /\ tracked_pids' = [tracked_pids EXCEPT ![p] = Absent]
  /\ prog' = Recycle(p)
  /\ UNCHANGED <<proc, events, acts, window, watched, past, connected,
                 daemonVars>>

\* bpf_map_get_next_key(NULL) returns some key, which is then deleted.
ClearOne(p) ==
  /\ pc = "clear"
  /\ p \in Tracked
  /\ tracked_pids' = [tracked_pids EXCEPT ![p] = Absent]
  /\ prog' = Recycle(p)
  /\ UNCHANGED <<proc, events, acts, window, watched, past, connected,
                 daemonVars>>

ClearDone ==
  /\ pc = "clear"
  /\ Tracked = {}
  /\ pc' = "loop"
  /\ Reply("ok")
  /\ UNCHANGED <<kernelVars, clientVars, ready, request, session, pushes,
                 report, missed>>
-----------------------------------------------------------------------------
(* onReportRequest *)

ReportRefused ==
  /\ Accept("report")
  /\ session.active
  /\ Reply("error")
  /\ UNCHANGED <<kernelVars, pc, session, pushes, report, asked, missed>>

ReportRendered ==
  /\ Accept("report")
  /\ ~session.active
  /\ report' = [phase |-> window.no, body |-> Rendered(session)]
  /\ Reply("ok")
  /\ UNCHANGED <<kernelVars, pc, session, pushes, asked, missed>>
-----------------------------------------------------------------------------
(* The event handlers, from a session to the session after them; ToPush    *)
(* lists the package ids they hand to the kernel.                          *)

\* The id of an event's process: the daemon's own, or else the kernel's.
KnownId(s, e) == IF s.pidPackage[e.pid] # 0 THEN s.pidPackage[e.pid] ELSE e.pkg

Attributable(s, e) == KnownId(s, e) = 0 /\ CwdPackage(e.pid) # NoPackage

\* The session after a fork or exec has looked at the working directory.
Attributed(s, e) ==
  IF Attributable(s, e)
  THEN LET t == InternPackage(s, CwdPackage(e.pid))
       IN  SetPidPackage(t, e.pid, PackageId(t, CwdPackage(e.pid)))
  ELSE s

\* Mutant of HandleFork: the child gets the id the parent had when it forked.
HandleForkThen(s, e) == SetPidPackage(Attributed(s, e), e.act.child, e.pkg)

\* Mutant of HandleFork: it looks where the child is.
HandleForkChild(s, e) ==
  LET home == CwdPackage(e.act.child)
      t    == InternPackage(s, home)
      id   == PackageId(t, home)
  IN  IF KnownId(s, e) # 0 \/ home = NoPackage
      THEN SetPidPackage(s, e.act.child, KnownId(s, e))
      ELSE SetPidPackage(SetPidPackage(t, e.pid, id), e.act.child, id)

HandleFork(s, e) ==
  LET t == Attributed(s, e)
  IN  SetPidPackage(t, e.act.child, KnownId(t, e))

HandleConnect(s, e) ==
  OnConnect(s, e, KnownId(s, e), PackageName(s, KnownId(s, e)))

\* Mutant of HandleOpen: a package is unpacked whenever its files are written.
HandleOpenAnyTime(s, e) ==
  LET t == OnOpen(s, e, KnownId(s, e), PackageName(s, KnownId(s, e)))
      x == PathPackage[e.act.path]
  IN  IF Writable(e.act) /\ x # NoPackage THEN MarkExtracted(t, x) ELSE t

HandleOpen(s, e) ==
  LET t == OnOpen(s, e, KnownId(s, e), PackageName(s, KnownId(s, e)))
      x == PathPackage[e.act.path]
  IN  IF Writable(e.act) /\ t.active /\ x # NoPackage
      THEN MarkExtracted(t, x) ELSE t

HandleExec(s, e) ==
  LET t == Attributed(SetPidTokens(s, e.pid, e.act.scanned), e)
  IN  OnExec(t, e, KnownId(t, e), PackageName(t, KnownId(t, e)))

Handle(s, e) ==
  CASE e.act.type = "fork"    -> HandleFork(s, e)
    [] e.act.type = "connect" -> HandleConnect(s, e)
    [] e.act.type = "open"    -> HandleOpen(s, e)
    [] e.act.type = "exec"    -> HandleExec(s, e)

ToPush(s, e) ==
  LET id  == KnownId(Attributed(s, e), e)
      own == IF Attributable(s, e) THEN <<[pid |-> e.pid, id |-> id]>>
                                   ELSE << >>
  IN  CASE e.act.type = "fork" /\ id # 0 ->
             Append(own, [pid |-> e.act.child, id |-> id])
        [] e.act.type = "exec" -> own
        [] OTHER -> << >>

\* Would an open session have recorded a finding for e?
FindingDropped(s, e) ==
  ~s.active /\ Handle([s EXCEPT !.active = TRUE], e).findings # s.findings
-----------------------------------------------------------------------------
(* ring_buffer__consume: handle the oldest event, release its space, repeat
   until the ring is empty. *)

\* Mutant of StartConsume: nothing to record, so why look.
StartConsumeIfActive ==
  /\ pc = "loop" /\ "ring" \in ready
  /\ session.active
  /\ ready' = ready \ {"ring"}
  /\ pc' = "consume"
  /\ UNCHANGED <<kernelVars, clientVars, request, session, pushes, reply,
                 report, answered, missed>>

StartConsume ==
  /\ pc = "loop" /\ "ring" \in ready
  /\ ready' = ready \ {"ring"}
  /\ pc' = "consume"
  /\ UNCHANGED <<kernelVars, clientVars, request, session, pushes, reply,
                 report, answered, missed>>

HandleEvent ==
  LET e == Head(events)
  IN  /\ pc = "consume"
      /\ events # << >>
      /\ session' = Handle(session, e)
      /\ pushes' = ToPush(session, e)
      /\ missed' = IF /\ FindingDropped(session, e)
                    /\ e.id \in due /\ e.phase = window.no
                   THEN missed \cup {e.id} ELSE missed
      /\ IF pushes' = << >>
         THEN events' = Tail(events) /\ pc' = pc
         ELSE pc' = "lookup" /\ UNCHANGED events
      /\ UNCHANGED <<proc, prog, tracked_pids, acts, window, watched, past,
                     connected, clientVars, ready, request, reply, report,
                     answered>>

EndConsume ==
  /\ pc = "consume"
  /\ events = << >>
  /\ pc' = "loop"
  /\ UNCHANGED <<kernelVars, clientVars, ready, request, session, pushes,
                 reply, report, answered, missed>>

\* Mutant of NextPush: the event is released with the first push.
NextPushReleasing ==
  /\ pushes' = Tail(pushes)
  /\ pc' = IF Tail(pushes) = << >> THEN "consume" ELSE "lookup"
  /\ events' = Tail(events)

\* The handler goes on to its next push, or is done with the event.
NextPush ==
  /\ pushes' = Tail(pushes)
  /\ IF Tail(pushes) = << >>
     THEN pc' = "consume" /\ events' = Tail(events)
     ELSE pc' = "lookup" /\ UNCHANGED events

\* setPackageForPid: its lookup decides if there is an entry to change,
LookupPush ==
  LET p == Head(pushes).pid
  IN  /\ pc = "lookup"
      /\ \/ /\ p \in Tracked
            /\ pc' = "write"
            /\ UNCHANGED <<events, pushes>>
         \/ /\ p \notin Tracked
            /\ NextPush
      /\ UNCHANGED <<proc, prog, tracked_pids, acts, window, watched, past,
                     connected, clientVars, ready, request, session, reply,
                     report, answered, missed>>

\* Mutant of WritePush: BPF_ANY.
WritePushAny ==
  LET p == Head(pushes).pid
  IN  /\ pc = "write"
      /\ tracked_pids' = [tracked_pids EXCEPT ![p] = Head(pushes).id]
      /\ prog' = Recycle(p)
      /\ NextPush
      /\ UNCHANGED <<proc, acts, window, watched, past, connected, clientVars,
                     ready, request, session, reply, report, answered, missed>>

\* and its update (BPF_EXIST) replaces an entry that is still there.
WritePush ==
  LET p == Head(pushes).pid
  IN  /\ pc = "write"
      /\ \/ /\ p \in Tracked
            /\ tracked_pids' = [tracked_pids EXCEPT ![p] = Head(pushes).id]
            /\ prog' = Recycle(p)
         \/ /\ p \notin Tracked
            /\ UNCHANGED <<tracked_pids, prog>>
      /\ NextPush
      /\ UNCHANGED <<proc, acts, window, watched, past, connected, clientVars,
                     ready, request, session, reply, report, answered, missed>>
-----------------------------------------------------------------------------
Serve ==
  \/ Ping \/ Shutdown
  \/ StartRefused \/ StartReset
  \/ \E p \in Pid : Track(p) \/ TrackFailed(p)
  \/ EndPhaseRequest \/ (\E p \in Pid : ClearOne(p)) \/ ClearDone
  \/ ReportRefused \/ ReportRendered

Drain ==
  \/ StartConsume \/ HandleEvent \/ EndConsume \/ LookupPush \/ WritePush

\* The programs and maps go when the daemon's process ends.
Attached == pc # "exited" /\ UNCHANGED daemonVars

DaemonStep == EpollWait \/ LeaveLoop \/ Serve \/ Drain

Next ==
  \/ DaemonStep
  \/ \E r \in Requests : Send(r)
  \/ \E p \in Pid : Activity(p) /\ Attached
  \/ \E p \in Pid : Program(p) /\ Attached

Spec == Init /\ [][Next]_vars

\* The scheduler runs the daemon, and an eBPF program runs to its end; no
\* process and no client has to do anything.
FairSpec ==
  /\ Spec
  /\ WF_vars(DaemonStep)
  /\ \A p \in Pid : WF_vars(Program(p) /\ Attached)
-----------------------------------------------------------------------------
(* Type correctness. *)

FindingSet ==
  [rule : RuleId, severity : Severity, pid : Pid,
   package : Package \cup {NoPackage}, tokens : SUBSET Token,
   blocked : BOOLEAN, cause : Event]

SessionSet ==
  [active : BOOLEAN, watchedPid : Pid \cup {NoPid}, findings : Seq(FindingSet),
   packages : Seq(Package), pidPackage : [Pid -> Nat],
   pidTokens : [Pid -> SUBSET Token], extracted : SUBSET Package]

ReportSet ==
  [phase : Nat,
   body : [severity : Severity, rotate : SUBSET Token,
           suppressed : SUBSET Package, findings : Seq(FindingSet)]]

PushSet == [pid : Pid, id : Nat]

DaemonTypeOK ==
  /\ pc \in {"loop", "track", "clear", "consume", "lookup", "write", "exited"}
  /\ ready \subseteq {"ipc", "ring"}
  /\ backlog \in Seq(Requests)
  /\ request \in Requests \cup {NoRequest}
  /\ session \in SessionSet
  /\ pushes \in Seq(PushSet)
  /\ reply \in {"none", "ok", "error"}
  /\ report \in ReportSet
  /\ sent \in Nat /\ starts \in Nat /\ answered \in Nat
  /\ due \subseteq Nat /\ missed \subseteq Nat
  /\ pc = "track" => request \in StartRequest
  /\ "ipc" \in ready => backlog # << >>
  /\ pushes # << >> <=> pc \in {"lookup", "write"}
  /\ pushes # << >> => events # << >>

\* Every variable has its type; no request or event is taken from an empty
\* queue, trackPid only ever gets the pid of a start-phase, and package ids
\* are pushed exactly while the event they come from is being handled, its
\* space in the ring not yet released (daemon.cpp:192-276, 404-423).
TypeOK == KernelTypeOK /\ DaemonTypeOK
-----------------------------------------------------------------------------
(* What the daemon promises: see PhaseLog. *)

Log == INSTANCE PhaseLog WITH
         Record <- FindingSet,
         open   <- session.active,
         log    <- session.findings,
         answer <- report.body.findings

\* The daemon implements PhaseLog: however end-phase, start-phase and report
\* requests interleave with events still in the ring, with forks in flight
\* and with half-done package updates, a closed phase's findings stay as they
\* are until the next start-phase, a failed start-phase included, and every
\* report is a copy of a closed phase's findings (daemon.cpp:229-445,
\* rules.cpp:196-308).
PhaseLogRefined == Log!LogSpec

\* What the refinement rests on: between the reset of a start-phase and its
\* trackPid nothing touches the session (daemon.cpp:413-418).
ResetUntilTracked == pc = "track" => session = EmptySession

\* What the safety properties below rest on.

Forking(p)   == prog[p] # Idle /\ prog[p].event.act.type = "fork"
ForkChild(p) == prog[p].event.act.child

\* A process does nothing else while it is in a program, a forked child does
\* not run before its parent's program has ended, and it has one parent
\* (blastguard.bpf.c:50-79).
ForksInFlight ==
  /\ \A p \in Pid : prog[p] # Idle => proc[p].life = "running"
  /\ \A p \in Pid : prog[p].pc = "update" => Forking(p)
  /\ \A p \in Pid : Forking(p) =>
       \/ ForkChild(p) = p /\ Threads
       \/ proc[ForkChild(p)].life = "new"
  /\ \A p, q \in Pid :
       Forking(p) /\ Forking(q) /\ ForkChild(p) = ForkChild(q) => p = q

\* A tree is watched only while a phase is open, and the map is cleared only
\* when none is (daemon.cpp:413-428).
PhaseMarks ==
  /\ watched # {} => session.active
  /\ pc = "clear" => ~session.active

\* A watched process the programs do not see yet is a child that does not run,
\* and on_fork has not come to its event (blastguard.bpf.c:62-64).
Unseen == watched \ Tracked

TreeSeen ==
  /\ \A p \in Unseen : proc[p].life = "new"
  /\ \A p \in Pid :
       Forking(p) /\ prog[p].pc = "emit" => ForkChild(p) \notin Unseen

\* A connection that is not blocked is to an address in the kernel's
\* allowlist, or the mode is not enforce (blastguard.bpf.c:163-167).
ConnectJudged ==
  \A p \in Pid :
    prog[p] # Idle /\ prog[p].event.act.type = "connect" /\ Enforce
      => prog[p].event.blocked \/ prog[p].event.act.addr \in Loaded
-----------------------------------------------------------------------------
(* Safety. *)

\* Every living process of the watched tree is in tracked_pids as long as the
\* phase is open, so that on_openat, on_exec, on_connect4/6 see all it does;
\* a child is entered before it runs (blastguard.bpf.c:50-79).  It holds when
\* the map has room for the tree and no process outlives its group leader.
WatchedTracked ==
  session.active =>
    \A p \in watched : proc[p].life = "running" => p \in Tracked

\* A pid whose process is gone is in tracked_pids only if the daemon itself
\* put it there: it is the pid of a start-phase whose process exited around
\* trackPid.  Neither a late setPackageForPid nor a fork in flight brings an
\* entry back after on_exit deleted it (blastguard.bpf.c:81-93,
\* ebpfmanager.cpp:113-159, daemon.cpp:404-423).
DeadTrackedIsRoot ==
  \A p \in Tracked \ Living :
    p = session.watchedPid /\ (session.active \/ pc = "clear")

Causes == [i \in DOMAIN session.findings |-> session.findings[i].cause]

\* An act leads to at most one finding, and the findings about one process
\* are in the order it acted, across the ring buffer and the two handlers
\* of a path (rules.cpp:196-308, blastguard.bpf.c:95-296).
OneFindingPerActInOrder ==
  \A i, j \in DOMAIN Causes :
    i < j => /\ Causes[i].id # Causes[j].id
             /\ Causes[i].pid = Causes[j].pid => Causes[i].id < Causes[j].id

\* README.md:49-50, "Things happening elsewhere on the machine are ignored": no
\* finding is about an act of a process outside the watched tree, not even of
\* one that the root forked while the phase was being started
\* (blastguard.bpf.c:50-296, daemon.cpp:404-423).  Without pid reuse.
ElsewhereIgnored ==
  \A i \in DOMAIN session.findings : session.findings[i].cause.watched

\* The packages a process or one of its ancestors has ever been in.
LineageHomes(p) == UNION {past[q].homes : q \in past[p].parents}

\* A finding blames a package that the process or one of its ancestors has
\* worked in by now: ids passed through the kernel map, copied at forks and
\* read back from events never name somebody else's package
\* (daemon.cpp:253-388, session.cpp:61-80).  Within one phase and without pid
\* reuse.
BlameStaysInLineage ==
  \A i \in DOMAIN session.findings :
    LET f == session.findings[i]
    IN  f.package \in LineageHomes(f.pid)

\* The daemon's map from pids to packages and the copy it keeps in the kernel
\* never disagree about a process, although the copy is written later, in two
\* system calls, and inherited by children in between (daemon.cpp:253-276,
\* ebpfmanager.cpp:139-159, blastguard.bpf.c:54-62).  Within one phase and
\* without pid reuse.
KernelAgrees ==
  session.active =>
    \A p \in Tracked :
      /\ tracked_pids[p] <= Len(session.packages)
      /\ tracked_pids[p] # 0 /\ session.pidPackage[p] # 0
           => tracked_pids[p] = session.pidPackage[p]

\* In enforce mode no process of the watched tree ever gets connected to an
\* address that is not in the allowlist, even when the ring buffer is full,
\* when the connection raced an end-phase or when it came from a process
\* forked a moment ago (blastguard.bpf.c:142-235).
EnforceBlocks == Enforce => connected \subseteq Loaded

\* The list of packages without observed scripts (report.cpp:50-61) gets no
\* longer after end-phase: two reports of one phase may differ, for fork and
\* exec events that come late still show scripts, but what the second accuses
\* the first did too (daemon.cpp:303-388, 425-445).
SuppressedOnlyShrinks ==
  [][~session.active
     => SuppressedPackages(session') \subseteq SuppressedPackages(session)]_session
-----------------------------------------------------------------------------
(* Liveness. *)

\* Every request is answered, unless the daemon was shut down before: the ring
\* buffer does not starve the control socket and clearTrackedPids ends
\* (daemon.cpp:192-220, ebpfmanager.cpp:108-137).
EveryRequestAnswered ==
  \A n \in 1..MaxRequests :
    (sent >= n) ~> (answered >= n \/ pc = "exited")

\* Every event in the ring buffer is handled in the end, unless the daemon was
\* shut down before: requests do not starve the ring buffer.
RingDrained == (events # << >>) ~> (events = << >> \/ pc = "exited")
-----------------------------------------------------------------------------
(* What the documentation says and the code does not do. *)

\* README.md:41-43: the report covers "what happened in between" the start and
\* the end of the phase: no finding was dropped that is about an act recorded
\* before the client even asked for the end (daemon.cpp:208-216, 425-433).
ReportCoversPhase ==
  report.phase = window.no => missed = {}

\* README.md:42-44: the report tells phases apart: a finding is about an act
\* of the phase it is reported in.
NoStaleEvidence ==
  \A i \in DOMAIN session.findings :
    session.findings[i].cause.phase = window.no

\* README.md:7-8: the report says whether "secret tokens were in the
\* environment at the time": a package's connection made with a token in the
\* environment is a high finding that names it.
TokensAtTheTime ==
  \A i \in DOMAIN session.findings :
    LET f == session.findings[i]
    IN  f.rule = "NonAllowlistedHost" /\ HasNonGithubToken(f.cause.env)
          => f.severity = High /\ f.tokens = f.cause.env
=============================================================================
