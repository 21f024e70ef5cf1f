----------------------------- MODULE TreeProofs -----------------------------
(***************************************************************************)
(* Theorems about the tree of watched processes: who is in tracked_pids,   *)
(* and what enforce mode blocks.  They rest on what is true of the eBPF    *)
(* programs in flight whatever the daemon does to the map meanwhile.       *)
(***************************************************************************)
EXTENDS DaemonProofs

\* The step leaves every program in flight where it was.
FlightsKept ==
  \A p \in Pid :
    /\ prog'[p] = Idle <=> prog[p] = Idle
    /\ prog[p] # Idle =>
         prog'[p].event = prog[p].event /\ prog'[p].pc = prog[p].pc

LEMMA RecycleKeeps ==
  ASSUME KernelTypeOK, NEW p \in Pid, prog' = Recycle(p)
  PROVE  FlightsKept
<1> SUFFICES ASSUME NEW q \in Pid
             PROVE  /\ prog'[q] = Idle <=> prog[q] = Idle
                    /\ prog[q] # Idle => /\ prog'[q].event = prog[q].event
                                         /\ prog'[q].pc = prog[q].pc
  BY DEF FlightsKept
<1>1. prog \in [Pid -> Prog]
  BY DEF KernelTypeOK
<1>2. CASE q # p \/ prog[q] = Idle
  BY <1>1, <1>2 DEF Recycle
<1>3. CASE q = p /\ prog[q] # Idle
  <2>1. prog[q] \in [pc : {"update", "emit"}, event : Event, fresh : BOOLEAN]
    BY <1>3, ProgramOf
  <2>2. prog'[q] = [prog[q] EXCEPT !.fresh = FALSE]
    BY <1>1, <1>3 DEF Recycle
  <2>3. /\ prog'[q].pc = prog[q].pc /\ prog'[q].event = prog[q].event
        /\ prog'[q].pc # "idle"
    BY <2>1, <2>2
  <2> QED BY <1>3, <2>3 DEF Idle
<1> QED BY <1>2, <1>3

LEMMA SameKeeps ==
  ASSUME prog' = prog
  PROVE  FlightsKept
BY DEF FlightsKept

\* Neither the daemon nor a client touches processes or programs.
LEMMA DaemonKeeps ==
  ASSUME TypeOK,
         DaemonStep \/ (\E r \in Requests : Send(r)) \/ UNCHANGED vars
  PROVE  FlightsKept /\ UNCHANGED <<proc, acts, connected>>
<1>0. KernelTypeOK
  BY DEF TypeOK
<1>1. CASE EpollWait \/ LeaveLoop \/ Ping \/ Shutdown \/ StartRefused
           \/ StartReset \/ ClearDone \/ ReportRefused \/ ReportRendered
           \/ StartConsume \/ EndConsume
  BY <1>1, SameKeeps
     DEF EpollWait, LeaveLoop, Ping, Shutdown, StartRefused, StartReset,
         ClearDone, ReportRefused, ReportRendered, StartConsume, EndConsume,
         kernelVars
<1>2. CASE \E p \in Pid : Track(p) \/ TrackFailed(p)
  BY <1>2, SameKeeps DEF Track, TrackFailed, kernelVars
<1>3. CASE EndPhaseRequest \/ HandleEvent \/ LookupPush
  BY <1>3, SameKeeps DEF EndPhaseRequest, HandleEvent, LookupPush
<1>4. CASE \E p \in Pid : ClearOne(p)
  BY <1>0, <1>4, RecycleKeeps DEF ClearOne
<1>5. CASE WritePush
  <2>1. Head(pushes).pid \in Pid
    <3>1. pushes # << >> /\ pushes \in Seq(PushSet)
      BY <1>5 DEF WritePush, TypeOK, DaemonTypeOK
    <3>2. Head(pushes) \in PushSet
      BY <3>1
    <3> QED BY <3>2 DEF PushSet
  <2>2. prog' = Recycle(Head(pushes).pid) \/ prog' = prog
    BY <1>5 DEF WritePush
  <2> QED BY <1>0, <1>5, <2>1, <2>2, RecycleKeeps, SameKeeps DEF WritePush
<1>6. CASE \E r \in Requests : Send(r)
  BY <1>6, SameKeeps DEF Send, kernelVars
<1>7. CASE UNCHANGED vars
  BY <1>7, SameKeeps DEF vars, kernelVars
<1> QED BY <1>1, <1>2, <1>3, <1>4, <1>5, <1>6, <1>7
        DEF DaemonStep, Serve, Drain

LEMMA ForkingType ==
  ASSUME KernelTypeOK, NEW p \in Pid, Forking(p)
  PROVE  ForkChild(p) \in Pid
<1>1. prog[p].event.act \in Act
  BY ProgramOf DEF Forking, Event
<1> QED BY <1>1 DEF Forking, ForkChild, Act, ExecAct, OpenAct, ConnectAct,
                    ForkAct
-----------------------------------------------------------------------------
(* Forks in flight. *)

\* The step leaves them alone, and kills neither parents nor children.
LEMMA FlightsKeptForks ==
  ASSUME KernelTypeOK, ForksInFlight, FlightsKept,
         \A q \in Pid : proc[q].life = "running" /\ prog[q] # Idle
                          => proc'[q].life = "running",
         \A q \in Pid : proc[q].life = "new" => proc'[q].life = "new"
  PROVE  ForksInFlight'
<1>1. ASSUME NEW p \in Pid
      PROVE  /\ Forking(p)' <=> Forking(p)
             /\ Forking(p) => ForkChild(p)' = ForkChild(p)
  BY DEF FlightsKept, Forking, ForkChild
<1>2. \A p \in Pid : prog'[p] # Idle => proc'[p].life = "running"
  BY DEF FlightsKept, ForksInFlight
<1>3. ASSUME NEW p \in Pid, Forking(p)'
      PROVE  \/ ForkChild(p)' = p /\ Threads
             \/ proc'[ForkChild(p)'].life = "new"
  <2>1. Forking(p) /\ ForkChild(p)' = ForkChild(p)
    BY <1>1, <1>3
  <2>2. ForkChild(p) \in Pid
    BY <2>1, ForkingType
  <2> QED BY <2>1, <2>2 DEF ForksInFlight
<1>4. ASSUME NEW p \in Pid, NEW q \in Pid, Forking(p)', Forking(q)',
             ForkChild(p)' = ForkChild(q)'
      PROVE  p = q
  BY <1>1, <1>4 DEF ForksInFlight
<1>5. ASSUME NEW p \in Pid, prog'[p].pc = "update"
      PROVE  Forking(p)'
  BY <1>1, <1>5 DEF FlightsKept, ForksInFlight, Idle
<1> QED BY <1>2, <1>3, <1>4, <1>5 DEF ForksInFlight

\* A process starts a program that is not a fork's.
LEMMA OtherStartForks ==
  ASSUME KernelTypeOK, ForksInFlight, NEW p \in Pid,
         prog[p] = Idle, proc[p].life = "running",
         NEW x, prog' = [prog EXCEPT ![p] = x],
         x.pc = "emit", x.event.act.type # "fork",
         \A q \in Pid : proc'[q].life = proc[q].life
  PROVE  ForksInFlight'
<1>0. prog \in [Pid -> Prog]
  BY DEF KernelTypeOK
<1>1. ASSUME NEW q \in Pid, Forking(q)'
      PROVE  q # p /\ Forking(q) /\ ForkChild(q)' = ForkChild(q)
  BY <1>0, <1>1 DEF Forking, ForkChild
<1>2. \A q \in Pid : prog'[q] # Idle => proc'[q].life = "running"
  BY <1>0 DEF ForksInFlight
<1>3. ASSUME NEW q \in Pid, Forking(q)'
      PROVE  \/ ForkChild(q)' = q /\ Threads
             \/ proc'[ForkChild(q)'].life = "new"
  <2>1. ForkChild(q) \in Pid
    BY <1>1, <1>3, ForkingType
  <2> QED BY <1>1, <1>3, <2>1 DEF ForksInFlight
<1>4. ASSUME NEW q \in Pid, NEW r \in Pid, Forking(q)', Forking(r)',
             ForkChild(q)' = ForkChild(r)'
      PROVE  q = r
  BY <1>1, <1>4 DEF ForksInFlight
<1>5. ASSUME NEW q \in Pid, prog'[q].pc = "update"
      PROVE  Forking(q)'
  BY <1>0, <1>5 DEF ForksInFlight, Forking
<1> QED BY <1>2, <1>3, <1>4, <1>5 DEF ForksInFlight

\* A process starts a fork of c, which is no other fork's child.
LEMMA ForkStartForks ==
  ASSUME KernelTypeOK, ForksInFlight, NEW p \in Pid, NEW c \in Pid,
         prog[p] = Idle, proc[p].life = "running",
         NEW x, prog' = [prog EXCEPT ![p] = x],
         x.pc # "idle", x.event.act.type = "fork", x.event.act.child = c,
         \A q \in Pid : q # c => proc'[q].life = proc[q].life,
         \/ c = p /\ Threads /\ proc'[p].life = "running"
         \/ proc[c].life = "free" /\ proc'[c].life = "new"
  PROVE  ForksInFlight'
<1>0. prog \in [Pid -> Prog]
  BY DEF KernelTypeOK
<1>1. ASSUME NEW q \in Pid, q # p, Forking(q)'
      PROVE  /\ Forking(q) /\ ForkChild(q)' = ForkChild(q)
             /\ ForkChild(q) \in Pid /\ ForkChild(q) # c
  <2>1. Forking(q) /\ ForkChild(q)' = ForkChild(q)
    BY <1>0, <1>1 DEF Forking, ForkChild
  <2>2. ForkChild(q) \in Pid
    BY <2>1, ForkingType
  <2>3. proc[q].life = "running"
    BY <2>1 DEF ForksInFlight, Forking
  <2>4. ForkChild(q) # c
    BY <1>1, <2>1, <2>3 DEF ForksInFlight
  <2> QED BY <2>1, <2>2, <2>4
<1>2. ForkChild(p)' = c
  BY <1>0 DEF ForkChild
<1>3. ASSUME NEW q \in Pid, prog'[q] # Idle
      PROVE  proc'[q].life = "running"
  BY <1>0, <1>3 DEF ForksInFlight
<1>4. ASSUME NEW q \in Pid, Forking(q)'
      PROVE  \/ ForkChild(q)' = q /\ Threads
             \/ proc'[ForkChild(q)'].life = "new"
  <2>1. CASE q = p
    BY <1>2, <2>1
  <2>2. CASE q # p
    BY <1>1, <1>4, <2>2 DEF ForksInFlight
  <2> QED BY <2>1, <2>2
<1>5. ASSUME NEW q \in Pid, NEW r \in Pid, Forking(q)', Forking(r)',
             ForkChild(q)' = ForkChild(r)'
      PROVE  q = r
  BY <1>1, <1>2, <1>5 DEF ForksInFlight
<1>6. ASSUME NEW q \in Pid, prog'[q].pc = "update"
      PROVE  Forking(q)'
  BY <1>0, <1>6 DEF ForksInFlight, Forking, Idle
<1> QED BY <1>3, <1>4, <1>5, <1>6 DEF ForksInFlight

LEMMA ForksInit == Init => ForksInFlight
BY DEF Init, KernelInit, ForksInFlight, Forking, Idle

LEMMA ForksActivity ==
  ASSUME KernelTypeOK, ForksInFlight, NEW p \in Pid, Activity(p)
  PROVE  ForksInFlight'
<1>0. /\ prog \in [Pid -> Prog]
      /\ proc \in [Pid -> [life : {"free", "new", "running", "zombie"},
                           cwd  : Package \cup {NoPackage},
                           env  : SUBSET Token]]
  BY DEF KernelTypeOK
<1>1. ASSUME NEW c \in Pid, ForkUntracked(p, c)
      PROVE  ForksInFlight'
  <2>1. /\ proc[c].life = "free" /\ prog' = prog
        /\ proc' = [proc EXCEPT ![c] = [proc[p] EXCEPT !.life = "running"]]
    BY <1>1 DEF ForkUntracked, Child
  <2>2. \A q \in Pid : q # c => proc'[q] = proc[q]
    BY <1>0, <2>1
  <2> QED BY <2>1, <2>2, SameKeeps, FlightsKeptForks
<1>2. ASSUME NEW c \in Pid, ForkLookup(p, c)
      PROVE  ForksInFlight'
  <2> DEFINE act == [type |-> "fork", child |-> c]
             x == [pc |-> "update", event |-> EventOf(p, act), fresh |-> TRUE]
  <2>1. /\ proc[c].life = "free" /\ prog' = [prog EXCEPT ![p] = x]
        /\ proc' = [proc EXCEPT ![c] = [proc[p] EXCEPT !.life = "new"]]
    BY <1>2 DEF ForkLookup, Child, Run
  <2>2. x.pc # "idle" /\ x.event.act.type = "fork" /\ x.event.act.child = c
    BY DEF EventOf
  <2>3. prog[p] = Idle /\ proc[p].life = "running"
    BY <1>2 DEF ForkLookup, Ready
  <2>4. proc'[c].life = "new"
    BY <1>0, <2>1
  <2>5. \A q \in Pid : q # c => proc'[q].life = proc[q].life
    BY <1>0, <2>1
  <2> HIDE DEF x
  <2> QED BY <2>1, <2>2, <2>3, <2>4, <2>5, ForkStartForks
<1>3. CASE CloneLookup(p)
  <2> DEFINE act == [type |-> "fork", child |-> p]
             x == [pc |-> "update", event |-> EventOf(p, act), fresh |-> TRUE]
  <2>1. prog' = [prog EXCEPT ![p] = x] /\ proc' = proc /\ Threads
    BY <1>3 DEF CloneLookup, Run
  <2>2. x.pc # "idle" /\ x.event.act.type = "fork" /\ x.event.act.child = p
    BY DEF EventOf
  <2>3. prog[p] = Idle /\ proc[p].life = "running"
    BY <1>3 DEF CloneLookup, Ready
  <2> HIDE DEF x
  <2> QED BY <2>1, <2>2, <2>3, ForkStartForks
<1>4. ASSUME NEW act \in Syscalls, SyscallLookup(p, act)
      PROVE  ForksInFlight'
  <2> DEFINE x == [pc |-> "emit", event |-> EventOf(p, act), fresh |-> TRUE]
  <2>1. prog' = [prog EXCEPT ![p] = x] /\ proc' = proc
    BY <1>4 DEF SyscallLookup, Run
  <2>2. x.pc = "emit" /\ x.event.act.type # "fork"
    BY KernelAssumption DEF EventOf, ExecAct, OpenAct, ConnectAct
  <2>3. prog[p] = Idle /\ proc[p].life = "running"
    BY <1>4 DEF SyscallLookup, Ready
  <2> HIDE DEF x
  <2> QED BY <2>1, <2>2, <2>3, OtherStartForks
<1>5. ASSUME NEW act \in Syscalls, ExecLookup(p, act)
      PROVE  ForksInFlight'
  <2> DEFINE x == [pc |-> "emit", fresh |-> TRUE,
                   event |-> [EventOf(p, act) EXCEPT !.env = act.env]]
  <2>1. /\ prog' = [prog EXCEPT ![p] = x]
        /\ proc' = [proc EXCEPT ![p].env = act.env]
    BY <1>5 DEF ExecLookup
  <2>2. x.pc = "emit" /\ x.event.act.type # "fork"
    BY <1>5 DEF EventOf, ExecLookup
  <2>3. prog[p] = Idle /\ proc[p].life = "running"
    BY <1>5 DEF ExecLookup, Ready
  <2>4. \A q \in Pid : proc'[q].life = proc[q].life
    BY <1>0, <2>1
  <2> HIDE DEF x
  <2> QED BY <2>1, <2>2, <2>3, <2>4, OtherStartForks
<1>6. ASSUME NEW act \in Syscalls, SyscallUntracked(p, act)
      PROVE  ForksInFlight'
  <2>1. prog' = prog
    BY <1>6 DEF SyscallUntracked
  <2>2. \A q \in Pid : proc'[q].life = proc[q].life
    BY <1>0, <1>6 DEF SyscallUntracked
  <2> QED BY <2>1, <2>2, SameKeeps, FlightsKeptForks
<1>7. ASSUME NEW d \in Package \cup {NoPackage}, Chdir(p, d)
      PROVE  ForksInFlight'
  <2>1. prog' = prog
    BY <1>7 DEF Chdir
  <2>2. \A q \in Pid : proc'[q].life = proc[q].life
    BY <1>0, <1>7 DEF Chdir
  <2> QED BY <2>1, <2>2, SameKeeps, FlightsKeptForks
<1>8. CASE Exit(p) \/ Reap(p)
  <2>1. /\ prog' = prog
        /\ \/ proc[p].life = "running" /\ prog[p] = Idle
           \/ proc[p].life = "zombie"
    BY <1>8 DEF Exit, Reap
  <2>2. \A q \in Pid : q # p => proc'[q] = proc[q]
    BY <1>0, <1>8 DEF Exit, Reap
  <2> QED BY <2>1, <2>2, SameKeeps, FlightsKeptForks
<1>9. CASE LeaderExit(p)
  BY <1>9, SameKeeps, FlightsKeptForks DEF LeaderExit
<1> QED BY <1>1, <1>2, <1>3, <1>4, <1>5, <1>6, <1>7, <1>8, <1>9 DEF Activity

\* The end of a program, and of the fork it belongs to.
LEMMA ForksProgram ==
  ASSUME KernelTypeOK, ForksInFlight, NEW p \in Pid, Program(p)
  PROVE  ForksInFlight'
<1>0. /\ prog \in [Pid -> Prog]
      /\ proc \in [Pid -> [life : {"free", "new", "running", "zombie"},
                           cwd  : Package \cup {NoPackage},
                           env  : SUBSET Token]]
  BY DEF KernelTypeOK
<1>a. prog[p] # Idle
  BY DEF Program, UpdateChild, Emit, Idle
<1>b. prog[p] \in [pc : {"update", "emit"}, event : Event, fresh : BOOLEAN]
  BY <1>a, ProgramOf
<1>1. CASE UpdateChild(p)
  <2>1. prog' = [prog EXCEPT ![p].pc = "emit"] /\ proc' = proc
    BY <1>1 DEF UpdateChild
  <2>2. \A q \in Pid : /\ prog'[q] = Idle <=> prog[q] = Idle
                       /\ prog[q] # Idle => prog'[q].event = prog[q].event
    BY <1>0, <1>a, <1>b, <2>1 DEF Idle
  <2>3. \A q \in Pid : /\ Forking(q)' <=> Forking(q)
                       /\ Forking(q) => ForkChild(q)' = ForkChild(q)
    BY <2>2 DEF Forking, ForkChild
  <2>4. \A q \in Pid : q # p => prog'[q].pc = prog[q].pc
    BY <1>0, <2>1
  <2>5. Forking(p)
    BY <1>1 DEF UpdateChild, ForksInFlight
  <2>6. \A q \in Pid : prog'[q].pc = "update" => Forking(q)'
    BY <2>3, <2>4, <2>5 DEF ForksInFlight
  <2> QED BY <2>1, <2>2, <2>3, <2>6 DEF ForksInFlight
<1>2. CASE Emit(p)
  <2>1. prog' = [prog EXCEPT ![p] = Idle]
    BY <1>2 DEF Emit
  <2>2. ASSUME NEW q \in Pid, prog'[q] # Idle
        PROVE  q # p /\ prog[q] # Idle /\ prog'[q] = prog[q]
    BY <1>0, <2>1, <2>2
  <2>3. ASSUME NEW q \in Pid, Forking(q)'
        PROVE  /\ q # p /\ Forking(q) /\ ForkChild(q)' = ForkChild(q)
               /\ ForkChild(q) \in Pid
    <3>1. q # p /\ Forking(q) /\ ForkChild(q)' = ForkChild(q)
      BY <2>2, <2>3 DEF Forking, ForkChild
    <3> QED BY <3>1, ForkingType
  <2>4. \A q \in Pid :
          \/ proc'[q].life = proc[q].life
          \/ Forking(p) /\ q = ForkChild(p) /\ proc'[q].life = "running"
    <3> DEFINE c == ForkChild(p)
    <3>1. CASE Forking(p)
      <4>1. c \in Pid
        BY <3>1, ForkingType
      <4>2. proc' = [proc EXCEPT ![c].life = "running"]
        BY <1>2, <3>1 DEF Emit, Forking, ForkChild
      <4> HIDE DEF c
      <4>3. proc'[c].life = "running"
        <5>1. proc'[c] = [proc[c] EXCEPT !.life = "running"]
          BY <1>0, <4>1, <4>2
        <5> QED BY <1>0, <4>1, <5>1
      <4>4. \A q \in Pid : q # c => proc'[q] = proc[q]
        BY <1>0, <4>2
      <4> QED BY <3>1, <4>3, <4>4 DEF c
    <3>2. CASE ~Forking(p)
      BY <1>2, <1>a, <3>2 DEF Emit, Forking
    <3> QED BY <3>1, <3>2
  <2>5. \A q \in Pid : prog'[q] # Idle => proc'[q].life = "running"
    BY <2>2, <2>4 DEF ForksInFlight
  <2>6. ASSUME NEW q \in Pid, Forking(q)'
        PROVE  \/ ForkChild(q)' = q /\ Threads
               \/ proc'[ForkChild(q)'].life = "new"
    BY <2>3, <2>4, <2>6 DEF ForksInFlight
  <2>7. ASSUME NEW q \in Pid, NEW r \in Pid, Forking(q)', Forking(r)',
               ForkChild(q)' = ForkChild(r)'
        PROVE  q = r
    BY <2>3, <2>7 DEF ForksInFlight
  <2>8. ASSUME NEW q \in Pid, prog'[q].pc = "update"
        PROVE  Forking(q)'
    <3>1. prog'[q] # Idle
      BY <2>8 DEF Idle
    <3> QED BY <2>2, <2>8, <3>1 DEF ForksInFlight, Forking
  <2> QED BY <2>5, <2>6, <2>7, <2>8 DEF ForksInFlight
<1> QED BY <1>1, <1>2 DEF Program

LEMMA ForksStep == TypeOK /\ ForksInFlight /\ [Next]_vars => ForksInFlight'
<1> SUFFICES ASSUME TypeOK, ForksInFlight, [Next]_vars
             PROVE  ForksInFlight'
  OBVIOUS
<1>0. KernelTypeOK
  BY DEF TypeOK
<1>1. CASE DaemonStep \/ (\E r \in Requests : Send(r)) \/ UNCHANGED vars
  BY <1>0, <1>1, DaemonKeeps, FlightsKeptForks
<1>2. ASSUME NEW p \in Pid, Activity(p)
      PROVE  ForksInFlight'
  BY <1>0, <1>2, ForksActivity
<1>3. ASSUME NEW p \in Pid, Program(p)
      PROVE  ForksInFlight'
  BY <1>0, <1>3, ForksProgram
<1> QED BY <1>1, <1>2, <1>3 DEF Next

\* Whatever the daemon does to tracked_pids meanwhile, a forked child does not
\* run before its parent's program is done, and it has one parent.
THEOREM ForksCorrect == Spec => []ForksInFlight
BY ForksInit, ForksStep, TypeCorrect, PTL DEF Spec
-----------------------------------------------------------------------------
(* Phases: a tree is watched, and the map cleared, at the right time. *)

LEMMA HandleKeepsPid ==
  ASSUME KernelTypeOK, NEW s \in SessionSet, NEW e \in Event
  PROVE  Handle(s, e).watchedPid = s.watchedPid
<1>0. e.pid \in Pid /\ e.act \in Act
  BY DEF Event
<1>1. \A t \in SessionSet : Attributed(t, e).watchedPid = t.watchedPid
  BY DEF Attributed, SetPidPackage, InternPackage, SessionSet
<1>2. CASE e.act \in ForkAct
  <2>1. Handle(s, e) = HandleFork(s, e)
    BY <1>2 DEF ForkAct, Handle
  <2>2. Attributed(s, e) \in SessionSet
    BY AttributedType
  <2> QED BY <1>1, <2>1, <2>2 DEF HandleFork, SetPidPackage, SessionSet
<1>3. CASE e.act \in ConnectAct
  BY <1>3 DEF ConnectAct, Handle, HandleConnect, OnConnect, AddFinding,
              SessionSet
<1>4. CASE e.act \in OpenAct
  <2> DEFINE t == OnOpen(s, e, KnownId(s, e), PackageName(s, KnownId(s, e)))
  <2>1. \/ Handle(s, e) = t
        \/ Handle(s, e) = MarkExtracted(t, PathPackage[e.act.path])
    BY <1>4 DEF OpenAct, Handle, HandleOpen
  <2>2. t \in SessionSet
    BY PackageNameType, OnOpenType
  <2>3. t.watchedPid = s.watchedPid
    BY DEF OnOpen, AddFinding, SessionSet
  <2> HIDE DEF t
  <2> QED BY <2>1, <2>2, <2>3 DEF MarkExtracted, SessionSet
<1>5. CASE e.act \in ExecAct
  <2> DEFINE u == SetPidTokens(s, e.pid, e.act.scanned)
             t == Attributed(u, e)
  <2>1. Handle(s, e) =
          OnExec(t, e, KnownId(t, e), PackageName(t, KnownId(t, e)))
    BY <1>5 DEF ExecAct, Handle, HandleExec
  <2>2. u \in SessionSet /\ u.watchedPid = s.watchedPid
    BY <1>0, <1>5, SetPidTokensType DEF SetPidTokens, SessionSet, ExecAct
  <2>3. t \in SessionSet /\ t.watchedPid = s.watchedPid
    <3> HIDE DEF u
    <3> QED BY <1>1, <2>2, AttributedType
  <2> HIDE DEF t
  <2> QED BY <2>1, <2>3 DEF OnExec, AddFinding, SessionSet
<1> QED BY <1>0, <1>2, <1>3, <1>4, <1>5 DEF Act

\* What a step of consume changes of the phase: nothing.
LEMMA HandleEventKeeps ==
  ASSUME TypeOK, HandleEvent
  PROVE  /\ session'.active = session.active
         /\ session'.watchedPid = session.watchedPid
<1>1. KernelTypeOK /\ session \in SessionSet
  BY DEF TypeOK, DaemonTypeOK
<1>2. Head(events) \in Event
  BY <1>1 DEF HandleEvent, KernelTypeOK
<1> QED BY <1>1, <1>2, HandleRecorded, HandleKeepsPid DEF HandleEvent, Recorded

LEMMA MarksInit == Init => PhaseMarks
BY DEF Init, KernelInit, PhaseMarks

LEMMA MarksStep == TypeOK /\ PhaseMarks /\ [Next]_vars => PhaseMarks'
<1> SUFFICES ASSUME TypeOK, PhaseMarks, [Next]_vars
             PROVE  PhaseMarks'
  OBVIOUS
<1> USE DEF PhaseMarks
<1>0. session \in SessionSet
  BY DEF TypeOK, DaemonTypeOK
<1>1. CASE EpollWait \/ LeaveLoop \/ Ping \/ Shutdown \/ StartRefused
           \/ ClearDone \/ ReportRefused \/ ReportRendered
           \/ StartConsume \/ EndConsume
  BY <1>1
     DEF EpollWait, LeaveLoop, Ping, Shutdown, StartRefused, ClearDone,
         ReportRefused, ReportRendered, StartConsume, EndConsume, kernelVars
<1>2. CASE StartReset
  BY <1>2 DEF StartReset, kernelVars
<1>3. CASE \E p \in Pid : Track(p)
  <2>1. session'.active = TRUE /\ pc' = "loop"
    BY <1>0, <1>3 DEF Track, StartPhase, SessionSet
  <2> QED BY <2>1
<1>4. CASE \E p \in Pid : TrackFailed(p)
  BY <1>4 DEF TrackFailed, kernelVars
<1>5. CASE EndPhaseRequest
  <2>1. session'.active = FALSE /\ watched' = {}
    BY <1>0, <1>5 DEF EndPhaseRequest, EndPhase, SessionSet
  <2> QED BY <2>1
<1>6. CASE \E p \in Pid : ClearOne(p)
  BY <1>6 DEF ClearOne, daemonVars
<1>7. CASE HandleEvent
  BY <1>7, HandleEventKeeps DEF HandleEvent
<1>8. CASE LookupPush \/ WritePush
  BY <1>8 DEF LookupPush, WritePush, NextPush
<1>9. CASE \E r \in Requests : Send(r)
  BY <1>9 DEF Send, kernelVars
<1>10. ASSUME NEW p \in Pid, Activity(p), Attached
       PROVE  PhaseMarks'
  <2>1. watched' # {} => watched # {}
    BY <1>10 DEF Activity, ForkUntracked, ForkLookup, Child, SyscallUntracked,
                 SyscallLookup, ExecLookup, Chdir, CloneLookup, Exit,
                 LeaderExit, Reap
  <2> QED BY <1>10, <2>1 DEF Attached, daemonVars
<1>11. ASSUME NEW p \in Pid, Program(p), Attached
       PROVE  PhaseMarks'
  BY <1>11 DEF Program, UpdateChild, Emit, Attached, daemonVars
<1>12. CASE UNCHANGED vars
  BY <1>12 DEF vars, kernelVars, daemonVars
<1> QED BY <1>1, <1>2, <1>3, <1>4, <1>5, <1>6, <1>7, <1>8, <1>9, <1>10, <1>11,
           <1>12
        DEF Next, DaemonStep, Serve, Drain
-----------------------------------------------------------------------------
(* Nothing dead stays in tracked_pids but the root. *)

LEMMA DeadInit == Init => DeadTrackedIsRoot
<1> SUFFICES ASSUME Init
             PROVE  Tracked = {}
  BY DEF DeadTrackedIsRoot
<1> QED BY DEF Init, KernelInit, Tracked

\* What processes do on their own adds no entry and leaves none behind.
LEMMA DeadActivity ==
  ASSUME KernelTypeOK, NEW p \in Pid, Activity(p)
  PROVE  (Tracked \ Living)' \subseteq Tracked \ Living
<1>0. /\ tracked_pids \in [Pid -> Nat \cup {Absent}]
      /\ proc \in [Pid -> [life : {"free", "new", "running", "zombie"},
                           cwd  : Package \cup {NoPackage},
                           env  : SUBSET Token]]
  BY DEF KernelTypeOK
<1> USE DEF Tracked, Living
<1>1. ASSUME NEW c \in Pid, ForkUntracked(p, c) \/ ForkLookup(p, c)
      PROVE  (Tracked \ Living)' \subseteq Tracked \ Living
  <2>1. tracked_pids' = tracked_pids
    BY <1>1 DEF ForkUntracked, ForkLookup
  <2>2. proc'[c].life \in {"new", "running"}
        /\ \A q \in Pid : q # c => proc'[q] = proc[q]
    BY <1>0, <1>1 DEF ForkUntracked, ForkLookup
  <2> QED BY <2>1, <2>2
<1>2. ASSUME NEW act \in Syscalls,
             \/ SyscallUntracked(p, act) \/ SyscallLookup(p, act)
             \/ ExecLookup(p, act)
      PROVE  (Tracked \ Living)' \subseteq Tracked \ Living
  <2>1. tracked_pids' = tracked_pids
    BY <1>2 DEF SyscallUntracked, SyscallLookup, ExecLookup
  <2>2. \A q \in Pid : proc'[q].life = proc[q].life
    BY <1>0, <1>2 DEF SyscallUntracked, SyscallLookup, ExecLookup
  <2> QED BY <2>1, <2>2
<1>3. ASSUME NEW d \in Package \cup {NoPackage}, Chdir(p, d)
      PROVE  (Tracked \ Living)' \subseteq Tracked \ Living
  <2>1. \A q \in Pid : proc'[q].life = proc[q].life
    BY <1>0, <1>3 DEF Chdir
  <2> QED BY <1>3, <2>1 DEF Chdir
<1>4. CASE CloneLookup(p)
  BY <1>4 DEF CloneLookup
<1>5. CASE Exit(p)
  <2>1. tracked_pids'[p] = Absent
    BY <1>0, <1>5 DEF Exit
  <2>2. \A q \in Pid : q # p => /\ proc'[q] = proc[q]
                               /\ tracked_pids'[q] = tracked_pids[q]
    BY <1>0, <1>5 DEF Exit
  <2> QED BY <2>1, <2>2
<1>6. CASE LeaderExit(p)
  BY <1>0, <1>6 DEF LeaderExit
<1>7. CASE Reap(p)
  <2>1. tracked_pids' = tracked_pids /\ proc[p].life = "zombie"
    BY <1>7 DEF Reap
  <2>2. \A q \in Pid : q # p => proc'[q] = proc[q]
    BY <1>0, <1>7 DEF Reap
  <2> QED BY <2>1, <2>2
<1> QED BY <1>1, <1>2, <1>3, <1>4, <1>5, <1>6, <1>7 DEF Activity

\* A program adds at most the child of a fork in flight, which is alive.
LEMMA DeadProgram ==
  ASSUME KernelTypeOK, ForksInFlight, NEW p \in Pid, Program(p)
  PROVE  (Tracked \ Living)' \subseteq Tracked \ Living
<1>0. /\ tracked_pids \in [Pid -> Nat \cup {Absent}]
      /\ proc \in [Pid -> [life : {"free", "new", "running", "zombie"},
                           cwd  : Package \cup {NoPackage},
                           env  : SUBSET Token]]
  BY DEF KernelTypeOK
<1>a. prog[p] # Idle
  BY DEF Program, UpdateChild, Emit, Idle
<1>b. prog[p].event.act \in Act
  BY <1>a, ProgramOf DEF Event
<1> USE DEF Tracked, Living
<1>1. CASE UpdateChild(p)
  <2> DEFINE c == prog[p].event.act.child
  <2>1. proc' = proc
    BY <1>1 DEF UpdateChild
  <2>2. \/ tracked_pids' = tracked_pids
        \/ tracked_pids' = [tracked_pids EXCEPT ![c] = prog[p].event.pkg]
    BY <1>1 DEF UpdateChild
  <2>3. proc[c].life \in {"new", "running"}
    BY <1>1 DEF UpdateChild, ForksInFlight, ForkChild, Forking
  <2> HIDE DEF c
  <2> QED BY <1>0, <2>1, <2>2, <2>3
<1>2. CASE Emit(p)
  <2>1. tracked_pids' = tracked_pids
    BY <1>2 DEF Emit
  <2>2. \A q \in Living : q \in Living'
    <3>1. CASE prog[p].event.act.type # "fork"
      BY <1>2, <3>1 DEF Emit
    <3>2. CASE prog[p].event.act.type = "fork"
      <4> DEFINE c == prog[p].event.act.child
      <4>1. proc' = [proc EXCEPT ![c].life = "running"]
        BY <1>2, <3>2 DEF Emit
      <4> HIDE DEF c
      <4>2. ASSUME NEW q \in Pid, q = c
            PROVE  proc'[q].life = "running"
        <5>1. proc'[q] = [proc[q] EXCEPT !.life = "running"]
          BY <1>0, <4>1, <4>2
        <5> QED BY <1>0, <5>1
      <4> QED BY <1>0, <4>1, <4>2
    <3> QED BY <3>1, <3>2
  <2> QED BY <2>1, <2>2
<1> QED BY <1>1, <1>2 DEF Program

LEMMA DeadStep ==
  TypeOK /\ ForksInFlight /\ ResetUntilTracked /\ PhaseMarks
    /\ DeadTrackedIsRoot /\ [Next]_vars => DeadTrackedIsRoot'
<1> SUFFICES ASSUME TypeOK, ForksInFlight, ResetUntilTracked, PhaseMarks,
                    DeadTrackedIsRoot, [Next]_vars
             PROVE  DeadTrackedIsRoot'
  OBVIOUS
<1>0. /\ KernelTypeOK /\ session \in SessionSet
      /\ tracked_pids \in [Pid -> Nat \cup {Absent}]
  BY DEF TypeOK, KernelTypeOK, DaemonTypeOK
<1> USE DEF DeadTrackedIsRoot
<1>1. CASE EpollWait \/ LeaveLoop \/ Ping \/ Shutdown \/ StartRefused
           \/ ReportRefused \/ ReportRendered \/ StartConsume \/ EndConsume
  BY <1>1
     DEF EpollWait, LeaveLoop, Ping, Shutdown, StartRefused, Accept,
         ReportRefused, ReportRendered, StartConsume, EndConsume, kernelVars,
         Tracked, Living
<1>2. CASE StartReset
  <2>1. Tracked \ Living = {}
    BY <1>2 DEF StartReset, Accept
  <2>2. (Tracked \ Living)' = Tracked \ Living
    BY <1>2 DEF StartReset, kernelVars, Tracked, Living
  <2> QED BY <2>1, <2>2
<1>3. ASSUME NEW p \in Pid, Track(p)
      PROVE  DeadTrackedIsRoot'
  <2>1. Tracked \ Living = {}
    BY <1>3 DEF Track, ResetUntilTracked, EmptySession
  <2>2. session'.active = TRUE /\ session'.watchedPid = p
    BY <1>0, <1>3 DEF Track, StartPhase, SessionSet
  <2>3. Tracked' \subseteq Tracked \cup {p} /\ Living' = Living
    BY <1>0, <1>3 DEF Track, Tracked, Living
  <2> QED BY <2>1, <2>2, <2>3
<1>4. CASE \E p \in Pid : TrackFailed(p)
  BY <1>4 DEF TrackFailed, kernelVars, Tracked, Living
<1>5. CASE EndPhaseRequest
  <2>1. session'.watchedPid = session.watchedPid /\ pc' = "clear"
    BY <1>0, <1>5 DEF EndPhaseRequest, EndPhase, SessionSet
  <2>2. Tracked' = Tracked /\ Living' = Living
    BY <1>5 DEF EndPhaseRequest, Tracked, Living
  <2> QED BY <2>1, <2>2
<1>6. CASE \E p \in Pid : ClearOne(p)
  <2>1. Tracked' \subseteq Tracked /\ Living' = Living
    BY <1>0, <1>6 DEF ClearOne, Tracked, Living
  <2> QED BY <1>6, <2>1 DEF ClearOne, daemonVars
<1>7. CASE ClearDone
  <2>1. Tracked' = {}
    BY <1>7 DEF ClearDone, kernelVars, Tracked
  <2> QED BY <2>1
<1>8. CASE HandleEvent
  <2>1. Tracked' = Tracked /\ Living' = Living
    BY <1>8 DEF HandleEvent, Tracked, Living
  <2> QED BY <1>8, <2>1, HandleEventKeeps DEF HandleEvent
<1>9. CASE LookupPush
  <2>1. Tracked' = Tracked /\ Living' = Living
    BY <1>9 DEF LookupPush, Tracked, Living
  <2> QED BY <1>9, <2>1 DEF LookupPush
<1>10. CASE WritePush
  <2>1. Tracked' \subseteq Tracked /\ Living' = Living
    BY <1>0, <1>10 DEF WritePush, Tracked, Living
  <2> QED BY <1>10, <2>1 DEF WritePush
<1>11. CASE \E r \in Requests : Send(r)
  BY <1>11 DEF Send, kernelVars, Tracked, Living
<1>12. ASSUME NEW p \in Pid, Activity(p) \/ Program(p), Attached
       PROVE  DeadTrackedIsRoot'
  <2>1. (Tracked \ Living)' \subseteq Tracked \ Living
    BY <1>0, <1>12, DeadActivity, DeadProgram
  <2> QED BY <1>12, <2>1 DEF Attached, daemonVars
<1>13. CASE UNCHANGED vars
  BY <1>13 DEF vars, kernelVars, daemonVars, Tracked, Living
<1> QED BY <1>1, <1>2, <1>3, <1>4, <1>5, <1>6, <1>7, <1>8, <1>9, <1>10, <1>11,
           <1>12, <1>13
        DEF Next, DaemonStep, Serve, Drain

LEMMA MarksCorrect == Spec => [](ResetUntilTracked /\ PhaseMarks)
BY ResetUntilTrackedInit, ResetUntilTrackedStep, MarksInit, MarksStep,
   TypeCorrect, PTL DEF Spec

\* A pid whose process is gone is in tracked_pids only as the root of the phase:
\* no late setPackageForPid and no fork in flight resurrects an entry.
THEOREM DeadTrackedCorrect == Spec => []DeadTrackedIsRoot
BY DeadInit, DeadStep, MarksCorrect, ForksCorrect, TypeCorrect, PTL DEF Spec
-----------------------------------------------------------------------------
(* The watched tree is tracked. *)

\* An insertion into tracked_pids does not fail for want of room.
MapHasRoom == Tracked # Pid => Cardinality(Tracked) < MaxTracked

\* So it is when there are no more processes than the map has entries.
LEMMA FewProcesses ==
  ASSUME IsFiniteSet(Pid), Cardinality(Pid) <= MaxTracked
  PROVE  MapHasRoom
<1>1. Tracked \subseteq Pid
  BY DEF Tracked
<1>2. Cardinality(Pid) \in Nat
  BY FS_CardinalityType
<1>3. ASSUME Tracked # Pid
      PROVE  Cardinality(Tracked) < MaxTracked
  <2>1. /\ Cardinality(Tracked) \in Nat
        /\ Cardinality(Tracked) < Cardinality(Pid)
    BY <1>1, <1>3, FS_Subset, FS_CardinalityType
  <2> QED BY <1>2, <2>1, KernelAssumption
<1> QED BY <1>3 DEF MapHasRoom

\* The daemon makes no process of the tree unseen.
LEMMA DaemonSees ==
  ASSUME TypeOK, PhaseMarks,
         DaemonStep \/ (\E r \in Requests : Send(r)) \/ UNCHANGED vars
  PROVE  Unseen' \subseteq Unseen
<1>0. tracked_pids \in [Pid -> Nat \cup {Absent}]
  BY DEF TypeOK, KernelTypeOK
<1> USE DEF Unseen, Tracked
<1>1. CASE EpollWait \/ LeaveLoop \/ Ping \/ Shutdown \/ StartRefused
           \/ StartReset \/ ClearDone \/ ReportRefused \/ ReportRendered
           \/ StartConsume \/ EndConsume
  BY <1>1
     DEF EpollWait, LeaveLoop, Ping, Shutdown, StartRefused, StartReset,
         ClearDone, ReportRefused, ReportRendered, StartConsume, EndConsume,
         kernelVars
<1>2. ASSUME NEW p \in Pid, Track(p)
      PROVE  Unseen' = {}
  <2>1. watched' \subseteq {p} /\ tracked_pids'[p] = 0
    BY <1>0, <1>2 DEF Track
  <2> QED BY <2>1 DEF Absent
<1>3. CASE \E p \in Pid : TrackFailed(p)
  BY <1>3 DEF TrackFailed, kernelVars
<1>4. CASE EndPhaseRequest
  BY <1>4 DEF EndPhaseRequest
<1>5. CASE \E p \in Pid : ClearOne(p)
  BY <1>5 DEF ClearOne, PhaseMarks
<1>6. CASE HandleEvent \/ LookupPush
  BY <1>6 DEF HandleEvent, LookupPush
<1>7. CASE WritePush
  <2> DEFINE p == Head(pushes).pid
             n == Head(pushes).id
  <2>1. p \in Pid /\ n \in Nat
    <3>1. pushes # << >> /\ pushes \in Seq(PushSet)
      BY <1>7 DEF WritePush, TypeOK, DaemonTypeOK
    <3>2. Head(pushes) \in PushSet
      BY <3>1
    <3> QED BY <3>2 DEF PushSet
  <2>2. /\ watched' = watched
        /\ \/ tracked_pids' = [tracked_pids EXCEPT ![p] = n]
           \/ tracked_pids' = tracked_pids
    BY <1>7 DEF WritePush
  <2> HIDE DEF p, n
  <2>3. \A q \in Pid : tracked_pids[q] # Absent => tracked_pids'[q] # Absent
    BY <1>0, <2>1, <2>2 DEF Absent
  <2> QED BY <2>2, <2>3
<1>8. CASE \E r \in Requests : Send(r)
  BY <1>8 DEF Send, kernelVars
<1>9. CASE UNCHANGED vars
  BY <1>9 DEF vars, kernelVars
<1> QED BY <1>1, <1>2, <1>3, <1>4, <1>5, <1>6, <1>7, <1>8, <1>9
        DEF DaemonStep, Serve, Drain

LEMMA SeenInit == Init => TreeSeen
BY DEF Init, KernelInit, TreeSeen, Unseen, Forking

LEMMA SeenActivity ==
  ASSUME ~Threads, KernelTypeOK, ForksInFlight, TreeSeen,
         NEW p \in Pid, Activity(p)
  PROVE  TreeSeen'
<1>0. /\ tracked_pids \in [Pid -> Nat \cup {Absent}]
      /\ prog \in [Pid -> Prog]
      /\ proc \in [Pid -> [life : {"free", "new", "running", "zombie"},
                           cwd  : Package \cup {NoPackage},
                           env  : SUBSET Token]]
  BY DEF KernelTypeOK
\* Programs in the middle of on_fork are those of before the step.
<1>1. \A q \in Pid : Forking(q)' /\ prog'[q].pc = "emit"
        => /\ Forking(q) /\ prog[q].pc = "emit"
           /\ ForkChild(q)' = ForkChild(q) /\ ForkChild(q) \in Pid
  <2>1. ASSUME NEW q \in Pid, prog'[q] # prog[q]
        PROVE  ~(Forking(q)' /\ prog'[q].pc = "emit")
    <3>1. CASE \E c \in Pid : ForkLookup(p, c)
      BY <1>0, <2>1, <3>1 DEF ForkLookup, Run
    <3>2. CASE CloneLookup(p)
      BY <3>2 DEF CloneLookup
    <3>3. ASSUME NEW act \in Syscalls, SyscallLookup(p, act)
          PROVE  ~Forking(q)'
      <4>1. act.type # "fork"
        BY KernelAssumption DEF ExecAct, OpenAct, ConnectAct
      <4> QED BY <1>0, <2>1, <3>3, <4>1
              DEF SyscallLookup, Run, EventOf, Forking
    <3>4. ASSUME NEW act \in Syscalls, ExecLookup(p, act)
          PROVE  ~Forking(q)'
      BY <1>0, <2>1, <3>4 DEF ExecLookup, EventOf, Forking
    <3>5. CASE UNCHANGED prog
      BY <2>1, <3>5
    <3> QED BY <3>1, <3>2, <3>3, <3>4, <3>5
            DEF Activity, ForkUntracked, SyscallUntracked, Chdir, Exit,
                LeaderExit, Reap
  <2> QED BY <2>1, ForkingType DEF Forking, ForkChild
<1>2. ASSUME NEW c \in Pid, ForkUntracked(p, c) \/ ForkLookup(p, c)
      PROVE  TreeSeen'
  <2>1. /\ proc[c].life = "free" /\ tracked_pids' = tracked_pids
        /\ proc[p].life = "running"
        /\ watched' = IF p \in watched THEN watched \cup {c} ELSE watched
    BY <1>2 DEF ForkUntracked, ForkLookup, Child, Ready
  <2>2. \A q \in Pid : q # c => proc'[q] = proc[q]
    BY <1>0, <1>2 DEF ForkUntracked, ForkLookup
  <2>3. c \in Unseen' /\ c \notin Unseen => proc'[c].life = "new"
    <3>1. CASE ForkUntracked(p, c)
      BY <2>1, <3>1 DEF ForkUntracked, TreeSeen, Unseen, Tracked
    <3>2. CASE ForkLookup(p, c)
      BY <1>0, <3>2 DEF ForkLookup
    <3> QED BY <1>2, <3>1, <3>2
  <2>4. c \notin Unseen
    BY <2>1 DEF TreeSeen
  <2>5. \A q \in Unseen' : proc'[q].life = "new"
    BY <2>1, <2>2, <2>3, <2>4 DEF TreeSeen, Unseen, Tracked, KernelTypeOK
  <2>6. \A q \in Pid : Forking(q) => ForkChild(q) # c
    BY <2>1 DEF ForksInFlight
  <2> QED BY <1>1, <2>1, <2>5, <2>6 DEF TreeSeen, Unseen, Tracked
<1>3. CASE Exit(p)
  <2>1. /\ watched' = watched \ {p}
        /\ \A q \in Pid : q # p => /\ proc'[q] = proc[q]
                                  /\ tracked_pids'[q] = tracked_pids[q]
    BY <1>0, <1>3 DEF Exit
  <2>2. Unseen' \subseteq Unseen /\ p \notin Unseen'
    BY <2>1 DEF Unseen, Tracked
  <2>3. Unseen' \subseteq Pid
    BY <2>1 DEF Unseen, KernelTypeOK
  <2> QED BY <1>1, <2>1, <2>2, <2>3 DEF TreeSeen
<1>4. CASE LeaderExit(p)
  BY <1>4 DEF LeaderExit
<1>5. CASE Reap(p)
  <2>1. Unseen' = Unseen /\ Unseen \subseteq Pid
    BY <1>5 DEF Reap, Unseen, Tracked, KernelTypeOK
  <2>2. \A q \in Pid : proc[q].life = "new" => proc'[q].life = "new"
    BY <1>0, <1>5 DEF Reap
  <2> QED BY <1>1, <2>1, <2>2 DEF TreeSeen
<1>6. ASSUME NEW act \in Syscalls,
             \/ SyscallUntracked(p, act) \/ SyscallLookup(p, act)
             \/ ExecLookup(p, act)
      PROVE  TreeSeen'
  <2>1. Unseen' = Unseen /\ Unseen \subseteq Pid
    BY <1>6 DEF SyscallUntracked, SyscallLookup, ExecLookup, Unseen, Tracked,
                KernelTypeOK
  <2>2. \A q \in Pid : proc'[q].life = proc[q].life
    BY <1>0, <1>6 DEF SyscallUntracked, SyscallLookup, ExecLookup
  <2> QED BY <1>1, <2>1, <2>2 DEF TreeSeen
<1>7. ASSUME NEW d \in Package \cup {NoPackage}, Chdir(p, d)
      PROVE  TreeSeen'
  <2>1. Unseen' = Unseen /\ Unseen \subseteq Pid
    BY <1>7 DEF Chdir, Unseen, Tracked, KernelTypeOK
  <2>2. \A q \in Pid : proc'[q].life = proc[q].life
    BY <1>0, <1>7 DEF Chdir
  <2> QED BY <1>1, <2>1, <2>2 DEF TreeSeen
<1>8. CASE CloneLookup(p)
  BY <1>8 DEF CloneLookup
<1> QED BY <1>2, <1>3, <1>4, <1>5, <1>6, <1>7, <1>8 DEF Activity

\* on_fork inserts the child, and only then lets it run.
LEMMA SeenProgram ==
  ASSUME MapHasRoom, KernelTypeOK, ForksInFlight, TreeSeen,
         NEW p \in Pid, Program(p)
  PROVE  TreeSeen'
<1>0. /\ tracked_pids \in [Pid -> Nat \cup {Absent}]
      /\ prog \in [Pid -> Prog]
      /\ proc \in [Pid -> [life : {"free", "new", "running", "zombie"},
                           cwd  : Package \cup {NoPackage},
                           env  : SUBSET Token]]
      /\ watched \subseteq Pid
  BY DEF KernelTypeOK
<1>a. prog[p] # Idle /\ watched' = watched
  BY DEF Program, UpdateChild, Emit, Idle
<1>b. prog[p] \in [pc : {"update", "emit"}, event : Event, fresh : BOOLEAN]
  BY <1>a, ProgramOf
<1>1. CASE UpdateChild(p)
  <2> DEFINE c == ForkChild(p)
             n == prog[p].event.pkg
  <2>1. Forking(p)
    BY <1>1 DEF UpdateChild, ForksInFlight
  <2>2. c \in Pid /\ n \in Nat
    BY <1>b, <2>1, ForkingType DEF Event
  <2>3. tracked_pids' = IF c \notin Tracked
                        THEN [tracked_pids EXCEPT ![c] = n]
                        ELSE tracked_pids
    BY <1>1, <2>2 DEF UpdateChild, ForkChild, MapHasRoom
  <2>4. proc' = proc /\ prog' = [prog EXCEPT ![p].pc = "emit"]
    BY <1>1 DEF UpdateChild
  <2>5. \A q \in Pid : ForkChild(q)' = ForkChild(q) /\ Forking(q)' => Forking(q)
    BY <1>0, <1>b, <2>1, <2>4 DEF Forking, ForkChild
  <2>6. ForkChild(p)' = c
    BY <1>0, <1>b, <2>4 DEF ForkChild
  <2>7. \A q \in Pid : q # p => prog'[q] = prog[q]
    BY <1>0, <2>4
  <2> HIDE DEF c, n
  <2>8. Unseen' \subseteq Unseen /\ c \notin Unseen'
    BY <1>0, <1>a, <2>2, <2>3 DEF Unseen, Tracked, Absent
  <2>9. ASSUME NEW q \in Pid, Forking(q)', prog'[q].pc = "emit"
        PROVE  ForkChild(q)' \notin Unseen'
    <3>1. CASE q = p
      BY <2>6, <2>8, <3>1
    <3>2. CASE q # p
      BY <2>7, <2>8, <2>9, <3>2 DEF TreeSeen, Forking, ForkChild
    <3> QED BY <3>1, <3>2
  <2> QED BY <2>4, <2>8, <2>9 DEF TreeSeen
<1>2. CASE Emit(p)
  <2>1. Unseen' = Unseen /\ Unseen \subseteq Pid
    BY <1>0, <1>a, <1>2 DEF Emit, Unseen, Tracked
  <2>2. prog' = [prog EXCEPT ![p] = Idle] /\ prog[p].pc = "emit"
    BY <1>2 DEF Emit
  <2>3. \A q \in Unseen : proc'[q].life = "new"
    <3>1. CASE Forking(p)
      <4> DEFINE c == ForkChild(p)
      <4>1. proc' = [proc EXCEPT ![c].life = "running"]
        BY <1>2, <3>1 DEF Emit, Forking, ForkChild
      <4>2. c \notin Unseen
        BY <2>2, <3>1 DEF TreeSeen
      <4> HIDE DEF c
      <4> QED BY <1>0, <2>1, <4>1, <4>2 DEF TreeSeen
    <3>2. CASE ~Forking(p)
      BY <1>2, <1>a, <3>2 DEF Emit, Forking, TreeSeen
    <3> QED BY <3>1, <3>2
  <2>4. ASSUME NEW q \in Pid, Forking(q)', prog'[q].pc = "emit"
        PROVE  ForkChild(q)' \notin Unseen'
    <3>1. q # p /\ prog'[q] = prog[q]
      BY <1>0, <2>2, <2>4 DEF Forking
    <3> QED BY <2>1, <2>4, <3>1 DEF TreeSeen, Forking, ForkChild
  <2> QED BY <2>1, <2>3, <2>4 DEF TreeSeen
<1> QED BY <1>1, <1>2 DEF Program

LEMMA SeenStep ==
  ASSUME ~Threads
  PROVE  TypeOK /\ ForksInFlight /\ PhaseMarks /\ MapHasRoom /\ TreeSeen
           /\ [Next]_vars => TreeSeen'
<1> SUFFICES ASSUME TypeOK, ForksInFlight, PhaseMarks, MapHasRoom, TreeSeen,
                    [Next]_vars
             PROVE  TreeSeen'
  OBVIOUS
<1>0. KernelTypeOK
  BY DEF TypeOK
<1>1. CASE DaemonStep \/ (\E r \in Requests : Send(r)) \/ UNCHANGED vars
  <2>1. FlightsKept /\ proc' = proc /\ Unseen' \subseteq Unseen
    BY <1>1, DaemonKeeps, DaemonSees
  <2>2. ASSUME NEW p \in Pid, Forking(p)', prog'[p].pc = "emit"
        PROVE  ForkChild(p)' \notin Unseen'
    BY <2>1, <2>2 DEF FlightsKept, Forking, ForkChild, TreeSeen
  <2> QED BY <2>1, <2>2 DEF TreeSeen
<1>2. ASSUME NEW p \in Pid, Activity(p)
      PROVE  TreeSeen'
  BY <1>0, <1>2, SeenActivity
<1>3. ASSUME NEW p \in Pid, Program(p)
      PROVE  TreeSeen'
  BY <1>0, <1>3, SeenProgram
<1> QED BY <1>1, <1>2, <1>3 DEF Next

LEMMA TreeSeenCorrect ==
  ASSUME ~Threads
  PROVE  Spec /\ []MapHasRoom => []TreeSeen
BY SeenInit, SeenStep, MarksCorrect, ForksCorrect, TypeCorrect, PTL DEF Spec

\* As long as the map has room, and if no process outlives its group leader,
\* every running process of the watched tree is in tracked_pids.
THEOREM WatchedTrackedCorrect ==
  ASSUME ~Threads
  PROVE  Spec /\ []MapHasRoom => []WatchedTracked
<1>1. TreeSeen => WatchedTracked
  BY DEF TreeSeen, Unseen, WatchedTracked
<1> QED BY <1>1, TreeSeenCorrect, PTL
-----------------------------------------------------------------------------
(* Enforce mode blocks. *)

LEMMA JudgedInit == Init => ConnectJudged
BY DEF Init, KernelInit, ConnectJudged

LEMMA JudgedStep == TypeOK /\ ConnectJudged /\ [Next]_vars => ConnectJudged'
<1> SUFFICES ASSUME TypeOK, ConnectJudged, [Next]_vars
             PROVE  ConnectJudged'
  OBVIOUS
<1>0. KernelTypeOK /\ prog \in [Pid -> Prog]
  BY DEF TypeOK, KernelTypeOK
<1> USE DEF ConnectJudged
<1>1. CASE DaemonStep \/ (\E r \in Requests : Send(r)) \/ UNCHANGED vars
  BY <1>1, DaemonKeeps DEF FlightsKept
<1>2. ASSUME NEW p \in Pid, Activity(p)
      PROVE  ConnectJudged'
  <2>1. CASE UNCHANGED prog
    BY <2>1
  <2>2. ASSUME NEW at, NEW act, Run(p, at, act)
        PROVE  ConnectJudged'
    BY <1>0, <2>2 DEF Run, EventOf
  <2>3. ASSUME NEW act \in Syscalls, ExecLookup(p, act)
        PROVE  ConnectJudged'
    BY <1>0, <2>3 DEF ExecLookup, EventOf
  <2> QED BY <1>2, <2>1, <2>2, <2>3
          DEF Activity, ForkUntracked, ForkLookup, SyscallUntracked,
              SyscallLookup, Chdir, CloneLookup, Exit, LeaderExit, Reap
<1>3. ASSUME NEW p \in Pid, Program(p)
      PROVE  ConnectJudged'
  <2>1. CASE UpdateChild(p)
    <3>1. prog[p] \in [pc : {"update", "emit"}, event : Event, fresh : BOOLEAN]
      BY <1>0, <2>1, ProgramOf DEF UpdateChild, Idle
    <3>2. prog[p] # Idle /\ prog' = [prog EXCEPT ![p].pc = "emit"]
      BY <2>1 DEF UpdateChild, Idle
    <3>3. \A q \in Pid : prog'[q] # Idle
            => prog[q] # Idle /\ prog'[q].event = prog[q].event
      BY <1>0, <3>1, <3>2
    <3> QED BY <3>3
  <2>2. CASE Emit(p)
    BY <1>0, <2>2 DEF Emit
  <2> QED BY <1>3, <2>1, <2>2 DEF Program
<1> QED BY <1>1, <1>2, <1>3 DEF Next

LEMMA BlocksStep ==
  TypeOK /\ PhaseMarks /\ WatchedTracked /\ ConnectJudged /\ EnforceBlocks
    /\ [Next]_vars => EnforceBlocks'
<1> SUFFICES ASSUME TypeOK, PhaseMarks, WatchedTracked, ConnectJudged,
                    EnforceBlocks, [Next]_vars
             PROVE  EnforceBlocks'
  OBVIOUS
<1> USE DEF EnforceBlocks
<1>1. CASE DaemonStep \/ (\E r \in Requests : Send(r)) \/ UNCHANGED vars
  BY <1>1, DaemonKeeps
<1>2. ASSUME NEW p \in Pid, Activity(p)
      PROVE  EnforceBlocks'
  <2>1. CASE UNCHANGED connected
    BY <2>1
  <2>2. ASSUME NEW act \in Syscalls, SyscallUntracked(p, act)
        PROVE  EnforceBlocks'
    <3>1. p \notin watched
      BY <2>2 DEF SyscallUntracked, Ready, PhaseMarks, WatchedTracked
    <3> QED BY <2>2, <3>1 DEF SyscallUntracked
  <2> QED BY <1>2, <2>1, <2>2
          DEF Activity, ForkUntracked, ForkLookup, SyscallLookup, ExecLookup,
              Chdir, CloneLookup, Exit, LeaderExit, Reap
<1>3. ASSUME NEW p \in Pid, Program(p)
      PROVE  EnforceBlocks'
  <2>1. CASE UpdateChild(p)
    BY <2>1 DEF UpdateChild
  <2>2. CASE Emit(p)
    <3>1. Enforce /\ Verdict(p) => prog[p].event.act.addr \in Loaded
      BY <2>2 DEF Emit, Verdict, ConnectJudged, Idle
    <3> QED BY <2>2, <3>1 DEF Emit
  <2> QED BY <1>3, <2>1, <2>2 DEF Program
<1> QED BY <1>1, <1>2, <1>3 DEF Next

\* As long as the map has room, and if no process outlives its group leader,
\* enforce mode lets no process of the watched tree connect to an address
\* outside the kernel's allowlist, whatever happens to the ring buffer.
THEOREM EnforceCorrect ==
  ASSUME ~Threads
  PROVE  Spec /\ []MapHasRoom => []EnforceBlocks
<1>1. Init => EnforceBlocks
  BY DEF Init, KernelInit, EnforceBlocks
<1>2. Spec => []ConnectJudged
  BY JudgedInit, JudgedStep, TypeCorrect, PTL DEF Spec
<1> QED BY <1>1, <1>2, BlocksStep, WatchedTrackedCorrect, MarksCorrect,
           TypeCorrect, PTL DEF Spec

\* Both hold without further ado where there are no more processes than the map
\* has entries, as in the instances that are model-checked.
COROLLARY FewProcessesEnforced ==
  ASSUME ~Threads, IsFiniteSet(Pid), Cardinality(Pid) <= MaxTracked
  PROVE  Spec => [](WatchedTracked /\ EnforceBlocks)
BY FewProcesses, WatchedTrackedCorrect, EnforceCorrect, PTL
=============================================================================
