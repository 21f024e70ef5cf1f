---------------------------- MODULE DaemonProofs ----------------------------
(***************************************************************************)
(* Theorems about Daemon, for every set of processes, packages, paths and  *)
(* requests, every size of the map and of the ring buffer, and every bound.*)
(***************************************************************************)
EXTENDS Daemon, TLAPS, FiniteSetTheorems

-----------------------------------------------------------------------------
(* The operators on sessions keep a session a session. *)

\* Every session has a highest severity, None if it has no finding.
LEMMA MaxSeverityType ==
  ASSUME NEW s \in SessionSet
  PROVE  MaxSeverity(s) \in Severity
<1> DEFINE S == Severities(s) \cup {None}
<1>1. S \subseteq Severity /\ None \in S
  <2>1. ASSUME NEW i \in DOMAIN s.findings
        PROVE  s.findings[i].severity \in Severity
    <3>1. s.findings \in Seq(FindingSet)
      BY DEF SessionSet
    <3>2. s.findings[i] \in FindingSet
      BY <3>1
    <3> QED BY <3>2 DEF FindingSet
  <2> QED BY <2>1 DEF Severities, Severity
<1>2. \E m \in S : \A v \in S : v <= m
  <2>1. CASE High \in S
    BY <1>1, <2>1 DEF Severity, None, Low, Medium, High
  <2>2. CASE High \notin S /\ Medium \in S
    BY <1>1, <2>2 DEF Severity, None, Low, Medium, High
  <2>3. CASE High \notin S /\ Medium \notin S /\ Low \in S
    BY <1>1, <2>3 DEF Severity, None, Low, Medium, High
  <2>4. CASE High \notin S /\ Medium \notin S /\ Low \notin S
    BY <1>1, <2>4 DEF Severity, None, Low, Medium, High
  <2> QED BY <2>1, <2>2, <2>3, <2>4
<1>3. MaxSeverity(s) \in S
  BY <1>2 DEF MaxSeverity
<1> QED BY <1>1, <1>3

LEMMA EmptySessionType == EmptySession \in SessionSet
BY DEF EmptySession, SessionSet

LEMMA RenderedType ==
  ASSUME NEW s \in SessionSet
  PROVE  Rendered(s) \in [severity : Severity, rotate : SUBSET Token,
                          suppressed : SUBSET Package,
                          findings : Seq(FindingSet)]
<1>1. s.findings \in Seq(FindingSet) /\ s.extracted \subseteq Package
  BY DEF SessionSet
<1>2. \A f \in FindingsOf(s) : f.tokens \subseteq Token
  <2>1. ASSUME NEW i \in DOMAIN s.findings
        PROVE  s.findings[i].tokens \subseteq Token
    <3>1. s.findings[i] \in FindingSet
      BY <1>1
    <3> QED BY <3>1 DEF FindingSet
  <2> QED BY <2>1 DEF FindingsOf
<1>3. RotationTokens(s) \subseteq Token
  BY <1>2 DEF RotationTokens
<1>4. SuppressedPackages(s) \subseteq Package
  BY <1>1 DEF SuppressedPackages
<1> QED BY <1>1, <1>3, <1>4, MaxSeverityType DEF Rendered

LEMMA AddFindingType ==
  ASSUME NEW s \in SessionSet, NEW f \in FindingSet
  PROVE  AddFinding(s, f) \in SessionSet
<1>1. Append(s.findings, f) \in Seq(FindingSet)
  BY DEF SessionSet
<1>2. AddFinding(s, f) = [s EXCEPT !.findings = Append(s.findings, f)]
  BY DEF AddFinding
<1> HIDE DEF FindingSet
<1> QED BY <1>1, <1>2 DEF SessionSet

LEMMA FindingType ==
  ASSUME NEW e \in Event, NEW rule \in RuleId, NEW severity \in Severity,
         NEW package \in Package \cup {NoPackage}, NEW tokens \in SUBSET Token
  PROVE  /\ Finding(e, rule, severity, package, tokens) \in FindingSet
         /\ Finding(e, rule, severity, package, tokens).cause = e
BY DEF Finding, FindingSet, Event

LEMMA PackageNameType ==
  ASSUME NEW s \in SessionSet, NEW id
  PROVE  PackageName(s, id) \in Package \cup {NoPackage}
BY DEF PackageName, SessionSet

\* An interned name has an id, and it is the name's index plus one.
LEMMA InternPackageType ==
  ASSUME NEW s \in SessionSet, NEW name \in Package
  PROVE  /\ InternPackage(s, name) \in SessionSet
         /\ PackageId(InternPackage(s, name), name) \in Nat \ {0}
         /\ PackageName(InternPackage(s, name),
                        PackageId(InternPackage(s, name), name)) = name
<1> DEFINE t == InternPackage(s, name)
<1>1. s.packages \in Seq(Package)
  BY DEF SessionSet
<1>2. t \in SessionSet
  <2>1. Append(s.packages, name) \in Seq(Package)
    BY <1>1
  <2>2. [s EXCEPT !.packages = Append(s.packages, name)] \in SessionSet
    BY <2>1 DEF SessionSet
  <2> QED BY <2>2 DEF InternPackage
<1>3. \E i \in DOMAIN t.packages : t.packages[i] = name
  <2>1. CASE name \in Interned(s)
    BY <2>1 DEF InternPackage, Interned
  <2>2. CASE name \notin Interned(s)
    <3>1. t.packages = Append(s.packages, name)
      BY <2>2 DEF InternPackage, SessionSet
    <3>2. Len(s.packages) + 1 \in DOMAIN t.packages
      BY <1>1, <3>1
    <3>3. t.packages[Len(s.packages) + 1] = name
      BY <1>1, <3>1
    <3> QED BY <3>2, <3>3
  <2> QED BY <2>1, <2>2
<1>4. /\ PackageId(t, name) \in DOMAIN t.packages
      /\ t.packages[PackageId(t, name)] = name
  BY <1>3 DEF PackageId
<1>5. t.packages \in Seq(Package)
  BY <1>2 DEF SessionSet
<1>6. PackageId(t, name) \in Nat \ {0}
  BY <1>4, <1>5
<1> QED BY <1>2, <1>4, <1>6 DEF PackageName
-----------------------------------------------------------------------------
(* The event handlers keep a session a session. *)

LEMMA SetPidPackageType ==
  ASSUME NEW s \in SessionSet, NEW p \in Pid, NEW id \in Nat
  PROVE  SetPidPackage(s, p, id) \in SessionSet
<1>1. s.pidPackage \in [Pid -> Nat]
  BY DEF SessionSet
<1>2. [s.pidPackage EXCEPT ![p] = id] \in [Pid -> Nat]
  BY <1>1
<1> QED BY <1>2 DEF SetPidPackage, SessionSet

LEMMA SetPidTokensType ==
  ASSUME NEW s \in SessionSet, NEW p \in Pid, NEW tokens \in SUBSET Token
  PROVE  SetPidTokens(s, p, tokens) \in SessionSet
<1>1. s.pidTokens \in [Pid -> SUBSET Token]
  BY DEF SessionSet
<1>2. [s.pidTokens EXCEPT ![p] = tokens] \in [Pid -> SUBSET Token]
  BY <1>1
<1> QED BY <1>2 DEF SetPidTokens, SessionSet

LEMMA CwdPackageType ==
  ASSUME KernelTypeOK, NEW p \in Pid
  PROVE  CwdPackage(p) \in Package \cup {NoPackage}
BY DEF CwdPackage, KernelTypeOK

LEMMA KnownIdType ==
  ASSUME NEW s \in SessionSet, NEW e \in Event
  PROVE  KnownId(s, e) \in Nat
BY DEF KnownId, SessionSet, Event

LEMMA AttributedType ==
  ASSUME KernelTypeOK, NEW s \in SessionSet, NEW e \in Event
  PROVE  Attributed(s, e) \in SessionSet
<1>1. CASE ~Attributable(s, e)
  BY <1>1 DEF Attributed
<1>2. CASE Attributable(s, e)
  <2> DEFINE name == CwdPackage(e.pid)
             t    == InternPackage(s, name)
  <2>1. e.pid \in Pid
    BY DEF Event
  <2>2. name \in Package
    BY <1>2, <2>1, CwdPackageType DEF Attributable
  <2>3. t \in SessionSet /\ PackageId(t, name) \in Nat
    BY <2>2, InternPackageType
  <2>4. Attributed(s, e) = SetPidPackage(t, e.pid, PackageId(t, name))
    BY <1>2 DEF Attributed
  <2> QED BY <2>1, <2>3, <2>4, SetPidPackageType
<1> QED BY <1>1, <1>2

LEMMA OnExecType ==
  ASSUME NEW s \in SessionSet, NEW e \in Event, e.act.scanned \subseteq Token,
         NEW id, NEW package \in Package \cup {NoPackage}
  PROVE  OnExec(s, e, id, package) \in SessionSet
<1>1. /\ Finding(e, "TokenBearingDownloader", High, package, e.act.scanned)
            \in FindingSet
      /\ Finding(e, "UnexpectedBinary", High, package, {}) \in FindingSet
  <2>1. e.act.scanned \in SUBSET Token /\ {} \in SUBSET Token
    OBVIOUS
  <2>2. High \in Severity
    BY DEF Severity
  <2>3. /\ "TokenBearingDownloader" \in RuleId
        /\ "UnexpectedBinary" \in RuleId
    BY DEF RuleId
  <2> QED BY <2>1, <2>2, <2>3, FindingType
<1> QED BY <1>1, AddFindingType DEF OnExec

LEMMA OnConnectType ==
  ASSUME NEW s \in SessionSet, NEW e \in Event,
         NEW id, NEW package \in Package \cup {NoPackage}
  PROVE  OnConnect(s, e, id, package) \in SessionSet
<1>1. s.pidTokens[e.pid] \subseteq Token
  BY DEF SessionSet, Event
<1>2. \A severity \in Severity :
        Finding(e, "NonAllowlistedHost", severity, package, s.pidTokens[e.pid])
          \in FindingSet
  <2>1. "NonAllowlistedHost" \in RuleId
    BY DEF RuleId
  <2> QED BY <1>1, <2>1, FindingType
<1> QED BY <1>2, AddFindingType DEF OnConnect, Severity

LEMMA OnOpenType ==
  ASSUME NEW s \in SessionSet, NEW e \in Event,
         NEW id, NEW package \in Package \cup {NoPackage}
  PROVE  OnOpen(s, e, id, package) \in SessionSet
<1>1. /\ Finding(e, "SensitiveFileWrite", High, package, {}) \in FindingSet
      /\ Finding(e, "SensitiveFileRead", High, package, {}) \in FindingSet
  <2>1. {} \in SUBSET Token
    OBVIOUS
  <2>2. High \in Severity
    BY DEF Severity
  <2>3. "SensitiveFileWrite" \in RuleId /\ "SensitiveFileRead" \in RuleId
    BY DEF RuleId
  <2> QED BY <2>1, <2>2, <2>3, FindingType
<1> QED BY <1>1, AddFindingType DEF OnOpen

LEMMA HandleType ==
  ASSUME KernelTypeOK, NEW s \in SessionSet, NEW e \in Event
  PROVE  Handle(s, e) \in SessionSet
<1>1. e.pid \in Pid /\ e.act \in Act
  BY DEF Event
<1>2. CASE e.act \in ForkAct
  <2>1. e.act.child \in Pid /\ Handle(s, e) = HandleFork(s, e)
    BY <1>2 DEF ForkAct, Handle
  <2> QED BY <2>1, AttributedType, KnownIdType, SetPidPackageType
          DEF HandleFork
<1>3. CASE e.act \in ConnectAct
  <2>1. Handle(s, e) = HandleConnect(s, e)
    BY <1>3 DEF ConnectAct, Handle
  <2> QED BY <2>1, OnConnectType, PackageNameType DEF HandleConnect
<1>4. CASE e.act \in OpenAct
  <2> DEFINE t == OnOpen(s, e, KnownId(s, e), PackageName(s, KnownId(s, e)))
             x == PathPackage[e.act.path]
  <2>1. Handle(s, e) = HandleOpen(s, e) /\ e.act.path \in Path
    BY <1>4 DEF OpenAct, Handle
  <2>2. t \in SessionSet
    BY OnOpenType, PackageNameType
  <2>3. x # NoPackage => x \in Package
    BY <2>1, DaemonAssumption
  <2>4. x \in Package => MarkExtracted(t, x) \in SessionSet
    <3> HIDE DEF t, x
    <3> QED BY <2>2 DEF MarkExtracted, SessionSet
  <2> QED BY <2>1, <2>2, <2>3, <2>4 DEF HandleOpen
<1>5. CASE e.act \in ExecAct
  <2> DEFINE t == Attributed(SetPidTokens(s, e.pid, e.act.scanned), e)
  <2>1. Handle(s, e) = HandleExec(s, e) /\ e.act.scanned \subseteq Token
    BY <1>5 DEF ExecAct, Handle
  <2>2. t \in SessionSet
    BY <1>1, <2>1, SetPidTokensType, AttributedType
  <2>3. Handle(s, e) =
          OnExec(t, e, KnownId(t, e), PackageName(t, KnownId(t, e)))
    BY <2>1 DEF HandleExec
  <2> HIDE DEF t
  <2> QED BY <2>1, <2>2, <2>3, OnExecType, PackageNameType
<1> QED BY <1>1, <1>2, <1>3, <1>4, <1>5 DEF Act

LEMMA ToPushType ==
  ASSUME KernelTypeOK, NEW s \in SessionSet, NEW e \in Event
  PROVE  ToPush(s, e) \in Seq(PushSet)
<1> DEFINE id  == KnownId(Attributed(s, e), e)
           own == IF Attributable(s, e) THEN <<[pid |-> e.pid, id |-> id]>>
                                        ELSE << >>
<1>1. e.pid \in Pid /\ id \in Nat
  BY AttributedType, KnownIdType DEF Event
<1>2. own \in Seq(PushSet)
  <2> HIDE DEF id
  <2>1. [pid |-> e.pid, id |-> id] \in PushSet
    BY <1>1 DEF PushSet
  <2> QED BY <2>1
<1>3. CASE e.act.type = "fork"
  <2>1. e.act.child \in Pid
    BY <1>3 DEF Event, Act, ForkAct, ExecAct, OpenAct, ConnectAct
  <2>2. [pid |-> e.act.child, id |-> id] \in PushSet
    BY <1>1, <2>1 DEF PushSet
  <2>3. Append(own, [pid |-> e.act.child, id |-> id]) \in Seq(PushSet)
    BY <1>2, <2>2
  <2>4. ToPush(s, e) \in {Append(own, [pid |-> e.act.child, id |-> id]), << >>}
    BY <1>3 DEF ToPush
  <2>5. << >> \in Seq(PushSet)
    OBVIOUS
  <2> HIDE DEF own, id
  <2> QED BY <2>3, <2>4, <2>5
<1>4. CASE e.act.type # "fork"
  <2>1. ToPush(s, e) \in {own, << >>}
    BY <1>4 DEF ToPush
  <2>2. << >> \in Seq(PushSet)
    OBVIOUS
  <2> HIDE DEF own
  <2> QED BY <1>2, <2>1, <2>2
<1> QED BY <1>3, <1>4
-----------------------------------------------------------------------------
(* Steps of processes and eBPF programs keep the kernel's variables typed. *)

LEMMA EventOfType ==
  ASSUME KernelTypeOK, NEW p \in Tracked, NEW act \in Act
  PROVE  EventOf(p, act) \in Event
<1>1. p \in Pid /\ tracked_pids[p] \in Nat /\ acts + 1 \in Nat
  BY DEF Tracked, KernelTypeOK
<1>2. proc[p].env \subseteq Token /\ past[p].homes \subseteq Package
  BY <1>1 DEF KernelTypeOK
<1>3. (IF window.open THEN window.no ELSE 0) \in Nat
  BY DEF KernelTypeOK
<1>4. (act.type = "connect" /\ Enforce /\ act.addr \notin Loaded) \in BOOLEAN
  OBVIOUS
<1>5. (p \in watched) \in BOOLEAN
  OBVIOUS
<1> QED BY <1>1, <1>2, <1>3, <1>4, <1>5 DEF EventOf, Event

LEMMA ProgramOf ==
  ASSUME KernelTypeOK, NEW p \in Pid, prog[p] # Idle
  PROVE  /\ prog[p] \in [pc : {"update", "emit"}, event : Event,
                         fresh : BOOLEAN]
         /\ prog[p].event \in Event
BY DEF KernelTypeOK, Prog, Idle

LEMMA ProgType ==
  ASSUME KernelTypeOK, NEW p \in Pid, NEW e \in Event,
         NEW at \in {"update", "emit"}, NEW f \in BOOLEAN
  PROVE  [prog EXCEPT ![p] = [pc |-> at, event |-> e, fresh |-> f]]
           \in [Pid -> Prog]
<1>1. [pc |-> at, event |-> e, fresh |-> f] \in Prog
  BY DEF Prog
<1>2. prog \in [Pid -> Prog]
  BY DEF KernelTypeOK
<1> QED BY <1>1, <1>2

LEMMA RecycleType ==
  ASSUME KernelTypeOK, NEW p \in Pid
  PROVE  Recycle(p) \in [Pid -> Prog]
<1>1. prog \in [Pid -> Prog]
  BY DEF KernelTypeOK
<1>2. CASE prog[p] = Idle
  BY <1>1, <1>2 DEF Recycle
<1>3. CASE prog[p] # Idle
  <2>1. [prog[p] EXCEPT !.fresh = FALSE] \in Prog
    BY <1>3, ProgramOf DEF Prog
  <2> QED BY <1>1, <1>3, <2>1 DEF Recycle
<1> QED BY <1>2, <1>3

LEMMA EventPkgsType ==
  ASSUME KernelTypeOK, NEW p \in Pid, prog[p] # Idle
  PROVE  EventPkgs(p) \subseteq Nat
<1>1. prog[p].event.pkg \in Nat
  BY ProgramOf DEF Event
<1>2. OtherIds \subseteq Nat
  BY DEF OtherIds, Tracked, KernelTypeOK
<1> QED BY <1>1, <1>2 DEF EventPkgs

\* Every act a process may perform is an act.
LEMMA SyscallType ==
  ASSUME NEW act \in Syscalls
  PROVE  act \in Act /\ (act.type = "exec" => act.env \subseteq Token)
<1>1. act \in ExecAct \cup OpenAct \cup ConnectAct
  BY KernelAssumption
<1> QED BY <1>1 DEF Act, ExecAct, OpenAct, ConnectAct

LEMMA KernelTypeInit ==
  ASSUME KernelInit
  PROVE  KernelTypeOK
<1> USE DEF KernelInit, KernelTypeOK
<1>1. proc \in [Pid -> [life : {"free", "new", "running", "zombie"},
                       cwd  : Package \cup {NoPackage},
                       env  : SUBSET Token]]
  BY KernelAssumption
<1>2. prog \in [Pid -> Prog]
  BY DEF Prog, Idle
<1>3. tracked_pids \in [Pid -> Nat \cup {Absent}]
  OBVIOUS
<1>4. past \in [Pid -> [homes : SUBSET Package, parents : SUBSET Pid]]
  OBVIOUS
<1> QED BY <1>1, <1>2, <1>3, <1>4

LEMMA ChildType ==
  ASSUME KernelTypeOK, NEW p \in Pid, NEW c \in Pid, Child(p, c)
  PROVE  /\ watched' \subseteq Pid
         /\ past' \in [Pid -> [homes : SUBSET Package, parents : SUBSET Pid]]
BY DEF Child, KernelTypeOK

LEMMA ActivityType ==
  ASSUME KernelTypeOK, NEW p \in Pid, Activity(p)
  PROVE  KernelTypeOK' /\ events' = events
<1> DEFINE ProcType == [life : {"free", "new", "running", "zombie"},
                        cwd  : Package \cup {NoPackage}, env : SUBSET Token]
<1>0. proc \in [Pid -> ProcType]
  BY DEF KernelTypeOK
<1>1. ASSUME NEW c \in Pid, ForkUntracked(p, c)
      PROVE  KernelTypeOK' /\ events' = events
  <2>1. [proc[p] EXCEPT !.life = "running"] \in ProcType
    BY <1>0
  <2>2. proc' \in [Pid -> ProcType]
    BY <1>0, <1>1, <2>1 DEF ForkUntracked
  <2>3. Child(p, c) /\ acts' = acts + 1
    BY <1>1 DEF ForkUntracked
  <2>4. UNCHANGED <<prog, tracked_pids, events, window, connected>>
    BY <1>1 DEF ForkUntracked
  <2> QED BY <2>2, <2>3, <2>4, ChildType DEF KernelTypeOK
<1>2. ASSUME NEW c \in Pid, ForkLookup(p, c)
      PROVE  KernelTypeOK' /\ events' = events
  <2> DEFINE act == [type |-> "fork", child |-> c]
  <2>1. [proc[p] EXCEPT !.life = "new"] \in ProcType
    BY <1>0
  <2>2. proc' \in [Pid -> ProcType]
    BY <1>0, <1>2, <2>1 DEF ForkLookup
  <2>3. act \in Act /\ p \in Tracked
    BY <1>2 DEF Act, ForkAct, ForkLookup
  <2>4. prog' \in [Pid -> Prog]
    BY <1>2, <2>3, EventOfType, ProgType DEF ForkLookup, Run
  <2>5. Child(p, c) /\ acts' = acts + 1
    BY <1>2 DEF ForkLookup
  <2>6. UNCHANGED <<tracked_pids, events, window, connected>>
    BY <1>2 DEF ForkLookup
  <2> QED BY <2>2, <2>4, <2>5, <2>6, ChildType DEF KernelTypeOK
<1>3. ASSUME NEW act \in Syscalls, SyscallUntracked(p, act)
      PROVE  KernelTypeOK' /\ events' = events
  <2>1. proc' \in [Pid -> ProcType]
    BY <1>0, <1>3, SyscallType DEF SyscallUntracked
  <2>2. act.type = "connect" => act.addr \in Addr
    BY KernelAssumption DEF ExecAct, OpenAct, ConnectAct
  <2>3. connected' \subseteq Addr
    BY <1>3, <2>2 DEF SyscallUntracked, KernelTypeOK
  <2> QED BY <1>3, <2>1, <2>3 DEF SyscallUntracked, KernelTypeOK
<1>4. ASSUME NEW act \in Syscalls, SyscallLookup(p, act)
      PROVE  KernelTypeOK' /\ events' = events
  <2>1. prog' \in [Pid -> Prog]
    BY <1>4, SyscallType, EventOfType, ProgType DEF SyscallLookup, Run
  <2> QED BY <1>4, <2>1 DEF SyscallLookup, KernelTypeOK
<1>5. ASSUME NEW act \in Syscalls, ExecLookup(p, act)
      PROVE  KernelTypeOK' /\ events' = events
  <2>1. act.env \subseteq Token /\ act \in Act /\ p \in Tracked
    BY <1>5, SyscallType DEF ExecLookup
  <2>2. proc' \in [Pid -> ProcType]
    BY <1>0, <1>5, <2>1 DEF ExecLookup
  <2>3. [EventOf(p, act) EXCEPT !.env = act.env] \in Event
    BY <2>1, EventOfType DEF Event
  <2>4. prog' \in [Pid -> Prog]
    BY <1>5, <2>3, ProgType DEF ExecLookup
  <2> QED BY <1>5, <2>2, <2>4 DEF ExecLookup, KernelTypeOK
<1>6. ASSUME NEW d \in Package \cup {NoPackage}, Chdir(p, d)
      PROVE  KernelTypeOK' /\ events' = events
  <2>1. proc' \in [Pid -> ProcType]
    BY <1>0, <1>6 DEF Chdir
  <2>2. past' \in [Pid -> [homes : SUBSET Package, parents : SUBSET Pid]]
    BY <1>6 DEF Chdir, KernelTypeOK
  <2>3. /\ acts' = acts + 1
        /\ UNCHANGED <<prog, tracked_pids, events, window, watched, connected>>
    BY <1>6 DEF Chdir
  <2> QED BY <2>1, <2>2, <2>3 DEF KernelTypeOK
<1>7. CASE CloneLookup(p)
  <2>1. [type |-> "fork", child |-> p] \in Act /\ p \in Tracked
    BY <1>7 DEF Act, ForkAct, CloneLookup
  <2>2. prog' \in [Pid -> Prog]
    BY <1>7, <2>1, EventOfType, ProgType DEF CloneLookup, Run
  <2> QED BY <1>7, <2>2 DEF CloneLookup, KernelTypeOK
<1>8. CASE Exit(p)
  <2>1. proc' \in [Pid -> ProcType]
    BY <1>0, <1>8 DEF Exit
  <2> QED BY <1>8, <2>1 DEF Exit, KernelTypeOK
<1>9. CASE LeaderExit(p)
  BY <1>9 DEF LeaderExit, KernelTypeOK
<1>10. CASE Reap(p)
  <2>1. proc' \in [Pid -> ProcType]
    BY <1>0, <1>10 DEF Reap
  <2> QED BY <1>10, <2>1 DEF Reap, KernelTypeOK
<1> QED BY <1>1, <1>2, <1>3, <1>4, <1>5, <1>6, <1>7, <1>8, <1>9, <1>10
        DEF Activity

\* A program only ever adds to the ring buffer.
LEMMA ProgramType ==
  ASSUME KernelTypeOK, NEW p \in Pid, Program(p)
  PROVE  /\ KernelTypeOK'
         /\ events' = events \/ \E e \in Event : events' = Append(events, e)
<1>0. prog[p] # Idle
  BY DEF Program, UpdateChild, Emit, Idle
<1> DEFINE e == prog[p].event
<1>a. e \in Event /\ e.act \in Act
  BY <1>0, ProgramOf DEF Event
<1>1. CASE UpdateChild(p)
  <2>1. e.pkg \in Nat
    BY <1>a DEF Event
  <2>2. tracked_pids' \in [Pid -> Nat \cup {Absent}]
    BY <1>1, <2>1 DEF UpdateChild, KernelTypeOK
  <2>3. [prog[p] EXCEPT !.pc = "emit"] \in Prog
    BY <1>0, ProgramOf DEF Prog
  <2>4. prog' \in [Pid -> Prog]
    BY <1>1, <2>3 DEF UpdateChild, KernelTypeOK
  <2> QED BY <1>1, <2>2, <2>4 DEF UpdateChild, KernelTypeOK
<1>2. CASE Emit(p)
  <2>1. \/ events' = events
        \/ \E n \in EventPkgs(p) : events' = Append(events, [e EXCEPT !.pkg = n])
    BY <1>2 DEF Emit
  <2>2. \A n \in EventPkgs(p) : [e EXCEPT !.pkg = n] \in Event
    BY <1>0, <1>a, EventPkgsType DEF Event
  <2>3. events' = events \/ \E x \in Event : events' = Append(events, x)
    BY <2>1, <2>2
  <2>4. events' \in Seq(Event)
    <3>1. events \in Seq(Event)
      BY DEF KernelTypeOK
    <3> QED BY <2>3, <3>1
  <2>5. prog' \in [Pid -> Prog]
    BY <1>2 DEF Emit, KernelTypeOK, Prog, Idle
  <2>6. proc' \in [Pid -> [life : {"free", "new", "running", "zombie"},
                          cwd  : Package \cup {NoPackage}, env : SUBSET Token]]
    <3>1. CASE e.act.type = "fork"
      <4>1. e.act.child \in Pid
        BY <1>a, <3>1 DEF Act, ExecAct, OpenAct, ConnectAct, ForkAct
      <4>2. proc' = [proc EXCEPT ![e.act.child].life = "running"]
        BY <1>2, <3>1 DEF Emit
      <4> DEFINE ProcType == [life : {"free", "new", "running", "zombie"},
                              cwd  : Package \cup {NoPackage},
                              env  : SUBSET Token]
                 child == e.act.child
      <4>3. proc \in [Pid -> ProcType] /\ child \in Pid
        BY <4>1 DEF KernelTypeOK
      <4>4. proc' = [proc EXCEPT ![child].life = "running"]
        BY <4>2
      <4> HIDE DEF child
      <4>5. [proc[child] EXCEPT !.life = "running"] \in ProcType
        BY <4>3
      <4> QED BY <4>3, <4>4, <4>5
    <3>2. CASE e.act.type # "fork"
      BY <1>2, <3>2 DEF Emit, KernelTypeOK
    <3> QED BY <3>1, <3>2
  <2>7. e.act.type = "connect" => e.act.addr \in Addr
    BY <1>a DEF Act, ExecAct, OpenAct, ConnectAct, ForkAct
  <2>8. connected' \subseteq Addr
    BY <1>2, <2>7 DEF Emit, Verdict, KernelTypeOK
  <2> QED BY <1>2, <2>3, <2>4, <2>5, <2>6, <2>8 DEF Emit, KernelTypeOK
<1> QED BY <1>1, <1>2 DEF Program
-----------------------------------------------------------------------------
(* Type correctness. *)

LEMMA TypeInit == Init => TypeOK
<1> SUFFICES ASSUME Init
             PROVE  TypeOK
  OBVIOUS
<1>1. KernelTypeOK
  BY KernelTypeInit DEF Init
<1>2. session \in SessionSet /\ report \in ReportSet
  BY EmptySessionType, RenderedType DEF Init, NoReport, ReportSet
<1> QED BY <1>1, <1>2 DEF Init, TypeOK, DaemonTypeOK, NoRequest

\* What serving a request leaves behind, whatever the request.
LEMMA AcceptType ==
  ASSUME TypeOK, NEW type, Accept(type)
  PROVE  /\ backlog # << >>
         /\ Head(backlog) \in Requests /\ request' \in Requests
         /\ backlog' \in Seq(Requests)
         /\ ready' \subseteq {"ipc", "ring"} /\ "ipc" \notin ready'
         /\ pc = "loop" /\ pushes = << >>
BY DEF TypeOK, DaemonTypeOK, Accept

LEMMA NextPushType ==
  ASSUME TypeOK, pushes # << >>, NextPush
  PROVE  /\ events' \in Seq(Event) /\ pushes' \in Seq(PushSet)
         /\ pushes' # << >> <=> pc' \in {"lookup", "write"}
         /\ pushes' # << >> => events' # << >>
         /\ pc' \in {"consume", "lookup"}
<1>1. /\ pushes \in Seq(PushSet)
      /\ events \in Seq(Event) /\ events # << >>
  BY DEF TypeOK, KernelTypeOK, DaemonTypeOK
<1>2. Tail(pushes) \in Seq(PushSet) /\ Tail(events) \in Seq(Event)
  BY <1>1
<1> QED BY <1>1, <1>2 DEF NextPush

LEMMA TypeStep == TypeOK /\ [Next]_vars => TypeOK'
<1> SUFFICES ASSUME TypeOK, [Next]_vars
             PROVE  TypeOK'
  OBVIOUS
<1>0. KernelTypeOK /\ DaemonTypeOK
  BY DEF TypeOK
<1> USE DEF daemonVars, clientVars, asked
<1>1. CASE EpollWait
  BY <1>0, <1>1 DEF EpollWait, Readable, TypeOK, DaemonTypeOK, KernelTypeOK,
                    kernelVars
<1>2. CASE LeaveLoop
  BY <1>0, <1>2 DEF LeaveLoop, TypeOK, DaemonTypeOK, KernelTypeOK, kernelVars
<1>3. CASE Ping
  BY <1>0, <1>3, AcceptType DEF Ping, Reply, TypeOK, DaemonTypeOK,
                                KernelTypeOK, kernelVars
<1>4. CASE Shutdown
  BY <1>0, <1>4, AcceptType DEF Shutdown, Reply, TypeOK, DaemonTypeOK,
                                KernelTypeOK, kernelVars
<1>5. CASE StartRefused
  BY <1>0, <1>5, AcceptType DEF StartRefused, Reply, TypeOK, DaemonTypeOK,
                                KernelTypeOK, kernelVars
<1>6. CASE StartReset
  <2>1. /\ Accept("start-phase") /\ session' = EmptySession /\ pc' = "track"
        /\ UNCHANGED <<kernelVars, pushes, reply, report, asked, answered,
                       missed>>
    BY <1>6 DEF StartReset, Reset
  <2>2. request' \in StartRequest
    <3>1. request' \in Requests /\ request'.type = "start-phase"
      BY <2>1, AcceptType DEF Accept
    <3> QED BY <3>1, DaemonAssumption DEF StartRequest, OtherRequest
  <2> QED BY <1>0, <2>1, <2>2, AcceptType, EmptySessionType
          DEF TypeOK, DaemonTypeOK, KernelTypeOK, kernelVars
<1>7. ASSUME NEW p \in Pid, Track(p)
      PROVE  TypeOK'
  <2>1. session' \in SessionSet
    BY <1>0, <1>7 DEF Track, StartPhase, DaemonTypeOK, SessionSet
  <2>2. tracked_pids' \in [Pid -> Nat \cup {Absent}]
    BY <1>0, <1>7 DEF Track, KernelTypeOK
  <2>3. window' \in [no : Nat, open : BOOLEAN] /\ watched' \subseteq Pid
    BY <1>0, <1>7 DEF Track, KernelTypeOK
  <2>4. KernelTypeOK'
    BY <1>0, <1>7, <2>2, <2>3 DEF Track, KernelTypeOK
  <2> QED BY <1>0, <1>7, <2>1, <2>4 DEF Track, Reply, TypeOK, DaemonTypeOK
<1>8. ASSUME NEW p \in Pid, TrackFailed(p)
      PROVE  TypeOK'
  BY <1>0, <1>8 DEF TrackFailed, Reply, TypeOK, DaemonTypeOK, KernelTypeOK,
                    kernelVars
<1>9. CASE EndPhaseRequest
  <2>1. session' \in SessionSet
    BY <1>0, <1>9 DEF EndPhaseRequest, EndPhase, DaemonTypeOK, SessionSet
  <2>2. KernelTypeOK'
    BY <1>0, <1>9 DEF EndPhaseRequest, KernelTypeOK
  <2> QED BY <1>0, <1>9, <2>1, <2>2, AcceptType
          DEF EndPhaseRequest, TypeOK, DaemonTypeOK
<1>10. ASSUME NEW p \in Pid, ClearOne(p)
       PROVE  TypeOK'
  <2>1. KernelTypeOK'
    BY <1>0, <1>10, RecycleType DEF ClearOne, KernelTypeOK
  <2> QED BY <1>0, <1>10, <2>1 DEF ClearOne, TypeOK, DaemonTypeOK
<1>11. CASE ClearDone
  BY <1>0, <1>11 DEF ClearDone, Reply, TypeOK, DaemonTypeOK, KernelTypeOK,
                     kernelVars
<1>12. CASE ReportRefused
  BY <1>0, <1>12, AcceptType DEF ReportRefused, Reply, TypeOK, DaemonTypeOK,
                                 KernelTypeOK, kernelVars
<1>13. CASE ReportRendered
  <2>1. report' \in ReportSet
    BY <1>0, <1>13, RenderedType
       DEF ReportRendered, ReportSet, DaemonTypeOK, KernelTypeOK
  <2> QED BY <1>0, <1>13, <2>1, AcceptType
          DEF ReportRendered, Reply, TypeOK, DaemonTypeOK, KernelTypeOK,
              kernelVars
<1>14. CASE StartConsume
  BY <1>0, <1>14 DEF StartConsume, TypeOK, DaemonTypeOK, KernelTypeOK,
                     kernelVars
<1>15. CASE HandleEvent
  <2> DEFINE e == Head(events)
  <2>1. events # << >> /\ e \in Event /\ Tail(events) \in Seq(Event)
    BY <1>0, <1>15 DEF HandleEvent, KernelTypeOK
  <2>2. session' \in SessionSet /\ pushes' \in Seq(PushSet)
    BY <1>0, <1>15, <2>1, HandleType, ToPushType DEF HandleEvent, DaemonTypeOK
  <2>3. missed' \subseteq Nat
    BY <1>0, <1>15, <2>1 DEF HandleEvent, DaemonTypeOK, Event
  <2>4. KernelTypeOK'
    BY <1>0, <1>15, <2>1 DEF HandleEvent, KernelTypeOK
  <2>5. \/ pushes' = << >> /\ pc' = "consume"
        \/ pushes' # << >> /\ pc' = "lookup" /\ events' # << >>
    BY <1>15, <2>1 DEF HandleEvent
  <2>6. UNCHANGED <<clientVars, ready, request, reply, report, answered>>
    BY <1>15 DEF HandleEvent
  <2>7. pc = "consume"
    BY <1>15 DEF HandleEvent
  <2> QED BY <1>0, <2>2, <2>3, <2>4, <2>5, <2>6, <2>7
          DEF TypeOK, DaemonTypeOK
<1>16. CASE EndConsume
  BY <1>0, <1>16 DEF EndConsume, TypeOK, DaemonTypeOK, KernelTypeOK,
                     kernelVars
<1>17. CASE LookupPush
  <2>1. pushes # << >> /\ events # << >> /\ pc = "lookup"
    BY <1>0, <1>17 DEF LookupPush, DaemonTypeOK
  <2>2. \/ pc' = "write" /\ UNCHANGED <<events, pushes>>
        \/ NextPush
    BY <1>17 DEF LookupPush
  <2>3. /\ events' \in Seq(Event) /\ pushes' \in Seq(PushSet)
        /\ pushes' # << >> <=> pc' \in {"lookup", "write"}
        /\ pushes' # << >> => events' # << >>
        /\ pc' \in {"write", "consume", "lookup"}
    <3>1. CASE pc' = "write" /\ UNCHANGED <<events, pushes>>
      BY <1>0, <2>1, <3>1 DEF KernelTypeOK, DaemonTypeOK
    <3>2. CASE NextPush
      BY <1>0, <2>1, <3>2, NextPushType
    <3> QED BY <2>2, <3>1, <3>2
  <2>4. KernelTypeOK'
    BY <1>0, <1>17, <2>3 DEF LookupPush, KernelTypeOK
  <2>5. UNCHANGED <<clientVars, ready, request, session, reply, report,
                    answered, missed>>
    BY <1>17 DEF LookupPush
  <2> QED BY <1>0, <2>1, <2>3, <2>4, <2>5 DEF TypeOK, DaemonTypeOK
<1>18. CASE WritePush
  <2>1. pushes # << >> /\ Head(pushes) \in PushSet /\ events # << >>
    BY <1>0, <1>18 DEF WritePush, DaemonTypeOK
  <2>2. prog' \in [Pid -> Prog]
    BY <1>0, <1>18, <2>1, RecycleType DEF WritePush, PushSet, KernelTypeOK
  <2>3. tracked_pids' \in [Pid -> Nat \cup {Absent}]
    BY <1>0, <1>18, <2>1 DEF WritePush, PushSet, KernelTypeOK
  <2>4. /\ events' \in Seq(Event) /\ pushes' \in Seq(PushSet)
        /\ pushes' # << >> <=> pc' \in {"lookup", "write"}
        /\ pushes' # << >> => events' # << >>
        /\ pc' \in {"consume", "lookup"}
    BY <1>0, <1>18, <2>1, NextPushType DEF WritePush
  <2>5. UNCHANGED <<clientVars, ready, request, session, reply, report,
                    answered, missed>> /\ pc = "write"
    BY <1>18 DEF WritePush
  <2>6. KernelTypeOK'
    BY <1>0, <1>18, <2>2, <2>3, <2>4 DEF WritePush, KernelTypeOK
  <2> QED BY <1>0, <2>4, <2>5, <2>6 DEF TypeOK, DaemonTypeOK
<1>19. ASSUME NEW r \in Requests, Send(r)
       PROVE  TypeOK'
  <2>1. due' \subseteq Nat
    <3>1. \A i \in DOMAIN events : events[i].id \in Nat
      <4>1. events \in Seq(Event)
        BY <1>0 DEF KernelTypeOK
      <4>2. ASSUME NEW i \in DOMAIN events
            PROVE  events[i] \in Event
        BY <4>1
      <4> QED BY <4>2 DEF Event
    <3> QED BY <1>0, <1>19, <3>1 DEF Send, DaemonTypeOK
  <2>2. backlog' \in Seq(Requests) /\ backlog' # << >>
    BY <1>0, <1>19 DEF Send, DaemonTypeOK
  <2>3. KernelTypeOK' /\ events' = events
    BY <1>0, <1>19 DEF Send, KernelTypeOK, kernelVars
  <2>4. /\ sent' \in Nat /\ starts' \in Nat
        /\ UNCHANGED <<pc, ready, request, session, pushes, reply, report,
                       answered, missed>>
    BY <1>0, <1>19 DEF Send, DaemonTypeOK
  <2> QED BY <1>0, <2>1, <2>2, <2>3, <2>4 DEF TypeOK, DaemonTypeOK
<1>20. ASSUME NEW p \in Pid, Activity(p), Attached
       PROVE  TypeOK'
  BY <1>0, <1>20, ActivityType DEF Attached, TypeOK, DaemonTypeOK
<1>21. ASSUME NEW p \in Pid, Program(p), Attached
       PROVE  TypeOK'
  <2>1. KernelTypeOK'
    BY <1>0, <1>21, ProgramType
  <2>2. events # << >> => events' # << >>
    BY <1>0, <1>21, ProgramType DEF KernelTypeOK
  <2> QED BY <1>0, <1>21, <2>1, <2>2 DEF Attached, TypeOK, DaemonTypeOK
<1>22. CASE UNCHANGED vars
  BY <1>0, <1>22 DEF vars, kernelVars, TypeOK, DaemonTypeOK, KernelTypeOK
<1> QED BY <1>1, <1>2, <1>3, <1>4, <1>5, <1>6, <1>7, <1>8, <1>9, <1>10, <1>11,
           <1>12, <1>13, <1>14, <1>15, <1>16, <1>17, <1>18, <1>19, <1>20,
           <1>21, <1>22
        DEF Next, DaemonStep, Serve, Drain

\* TypeOK holds in every reachable state.
THEOREM TypeCorrect == Spec => []TypeOK
BY TypeInit, TypeStep, PTL DEF Spec
-----------------------------------------------------------------------------
(* The daemon implements PhaseLog. *)

\* A rule adds at most one finding, about the event, and only to an open
\* session.
Recorded(s, t, e) ==
  /\ t.active = s.active
  /\ \/ t.findings = s.findings
     \/ /\ s.active
        /\ \E f \in FindingSet :
             f.cause = e /\ t.findings = Append(s.findings, f)

LEMMA AddFindingRecorded ==
  ASSUME NEW s \in SessionSet, NEW f \in FindingSet, s.active
  PROVE  Recorded(s, AddFinding(s, f), f.cause)
BY DEF Recorded, AddFinding, SessionSet

LEMMA SameRecorded ==
  ASSUME NEW s \in SessionSet, NEW e
  PROVE  Recorded(s, s, e)
BY DEF Recorded

\* Attribution changes neither the findings nor whether the phase is open.
LEMMA AttributedKeepsLog ==
  ASSUME NEW s \in SessionSet, NEW e \in Event
  PROVE  /\ Attributed(s, e).active = s.active
         /\ Attributed(s, e).findings = s.findings
BY DEF Attributed, SetPidPackage, InternPackage, SessionSet

LEMMA HandleRecorded ==
  ASSUME KernelTypeOK, NEW s \in SessionSet, NEW e \in Event
  PROVE  Recorded(s, Handle(s, e), e)
<1>1. e.pid \in Pid /\ e.act \in Act
  BY DEF Event
<1>2. CASE e.act \in ForkAct
  <2>1. Handle(s, e) = HandleFork(s, e)
    BY <1>2 DEF ForkAct, Handle
  <2>2. Attributed(s, e) \in SessionSet
    BY AttributedType
  <2> QED BY <2>1, <2>2, AttributedKeepsLog
          DEF HandleFork, SetPidPackage, Recorded, SessionSet
<1>3. CASE e.act \in ConnectAct
  <2> DEFINE id == KnownId(s, e)
             package == PackageName(s, id)
  <2>1. Handle(s, e) = OnConnect(s, e, id, package)
    BY <1>3 DEF ConnectAct, Handle, HandleConnect
  <2>2. package \in Package \cup {NoPackage}
    BY PackageNameType
  <2>3. "NonAllowlistedHost" \in RuleId
    BY DEF RuleId
  <2>4. s.pidTokens[e.pid] \in SUBSET Token
    BY <1>1 DEF SessionSet
  <2> HIDE DEF id, package
  <2>5. \A severity \in Severity :
          LET f == Finding(e, "NonAllowlistedHost", severity, package,
                           s.pidTokens[e.pid])
          IN  f \in FindingSet /\ f.cause = e
    BY <2>2, <2>3, <2>4, FindingType
  <2> QED BY <2>1, <2>5, AddFindingRecorded, SameRecorded
          DEF OnConnect, Severity
<1>4. CASE e.act \in OpenAct
  <2> DEFINE id == KnownId(s, e)
             package == PackageName(s, id)
             t == OnOpen(s, e, id, package)
  <2>1. \/ Handle(s, e) = t
        \/ Handle(s, e) = MarkExtracted(t, PathPackage[e.act.path])
    BY <1>4 DEF OpenAct, Handle, HandleOpen
  <2>2. package \in Package \cup {NoPackage}
    BY PackageNameType
  <2>3. t \in SessionSet
    BY <2>2, OnOpenType
  <2>4. /\ "SensitiveFileWrite" \in RuleId /\ "SensitiveFileRead" \in RuleId
        /\ High \in Severity /\ {} \in SUBSET Token
    BY DEF RuleId, Severity
  <2>5. \A rule \in {"SensitiveFileWrite", "SensitiveFileRead"} :
          LET f == Finding(e, rule, High, package, {})
          IN  f \in FindingSet /\ f.cause = e
    BY <2>2, <2>4, FindingType
  <2>6. Recorded(s, t, e)
    BY <2>5, AddFindingRecorded, SameRecorded DEF OnOpen
  <2>7. /\ MarkExtracted(t, PathPackage[e.act.path]).active = t.active
        /\ MarkExtracted(t, PathPackage[e.act.path]).findings = t.findings
    <3> HIDE DEF t
    <3> QED BY <2>3 DEF MarkExtracted, SessionSet
  <2> HIDE DEF t
  <2> QED BY <2>1, <2>6, <2>7 DEF Recorded
<1>5. CASE e.act \in ExecAct
  <2> DEFINE u == SetPidTokens(s, e.pid, e.act.scanned)
             t == Attributed(u, e)
             id == KnownId(t, e)
             package == PackageName(t, id)
  <2>1. Handle(s, e) = OnExec(t, e, id, package)
    BY <1>5 DEF ExecAct, Handle, HandleExec
  <2>2. e.act.scanned \in SUBSET Token
    BY <1>5 DEF ExecAct
  <2>3. u \in SessionSet /\ u.active = s.active /\ u.findings = s.findings
    BY <1>1, <2>2, SetPidTokensType DEF SetPidTokens, SessionSet
  <2>4. t \in SessionSet /\ t.active = s.active /\ t.findings = s.findings
    <3> HIDE DEF u
    <3> QED BY <2>3, AttributedType, AttributedKeepsLog
  <2>5. package \in Package \cup {NoPackage}
    BY <2>4, PackageNameType
  <2>6. /\ "TokenBearingDownloader" \in RuleId /\ "UnexpectedBinary" \in RuleId
        /\ High \in Severity /\ {} \in SUBSET Token
    BY DEF RuleId, Severity
  <2> HIDE DEF t, id, package
  <2>7. \A rule \in {"TokenBearingDownloader", "UnexpectedBinary"},
           tokens \in {e.act.scanned, {}} :
          LET f == Finding(e, rule, High, package, tokens)
          IN  f \in FindingSet /\ f.cause = e
    BY <2>2, <2>5, <2>6, FindingType
  <2>8. Recorded(t, OnExec(t, e, id, package), e)
    BY <2>4, <2>7, AddFindingRecorded, SameRecorded DEF OnExec
  <2> QED BY <2>1, <2>4, <2>8 DEF Recorded
<1> QED BY <1>1, <1>2, <1>3, <1>4, <1>5 DEF Act

LEMMA ResetUntilTrackedInit == Init => ResetUntilTracked
BY DEF Init, ResetUntilTracked

LEMMA ResetUntilTrackedStep ==
  TypeOK /\ ResetUntilTracked /\ [Next]_vars => ResetUntilTracked'
<1> SUFFICES ASSUME TypeOK, ResetUntilTracked, [Next]_vars
             PROVE  ResetUntilTracked'
  OBVIOUS
<1> USE DEF ResetUntilTracked
<1>1. CASE EpollWait \/ LeaveLoop
  BY <1>1 DEF EpollWait, LeaveLoop
<1>2. CASE Ping \/ Shutdown \/ StartRefused \/ ReportRefused \/ ReportRendered
  BY <1>2 DEF Ping, Shutdown, StartRefused, ReportRefused, ReportRendered,
              Accept
<1>3. CASE StartReset
  BY <1>3 DEF StartReset, Reset
<1>4. CASE \E p \in Pid : Track(p) \/ TrackFailed(p)
  BY <1>4 DEF Track, TrackFailed
<1>5. CASE EndPhaseRequest \/ ClearDone
  BY <1>5 DEF EndPhaseRequest, ClearDone
<1>6. CASE \E p \in Pid : ClearOne(p)
  BY <1>6 DEF ClearOne, daemonVars
<1>7. CASE Drain
  BY <1>7 DEF Drain, StartConsume, HandleEvent, EndConsume, LookupPush,
              WritePush, NextPush
<1>8. CASE \E r \in Requests : Send(r)
  BY <1>8 DEF Send
<1>9. CASE Attached
  BY <1>9 DEF Attached, daemonVars
<1>10. CASE UNCHANGED vars
  BY <1>10 DEF vars, daemonVars
<1> QED BY <1>1, <1>2, <1>3, <1>4, <1>5, <1>6, <1>7, <1>8, <1>9, <1>10
        DEF Next, DaemonStep, Serve

LEMMA PhaseLogInit == Init => Log!LogInit
BY DEF Init, Log!LogInit, EmptySession, NoReport, Rendered

LEMMA PhaseLogStep ==
  TypeOK /\ ResetUntilTracked /\ [Next]_vars => [Log!LogNext]_(Log!logVars)
<1> SUFFICES ASSUME TypeOK, ResetUntilTracked, [Next]_vars
             PROVE  [Log!LogNext]_(Log!logVars)
  OBVIOUS
<1>0. KernelTypeOK /\ session \in SessionSet /\ events \in Seq(Event)
  BY DEF TypeOK, KernelTypeOK, DaemonTypeOK
<1> USE DEF Log!logVars
<1>1. CASE EpollWait \/ LeaveLoop
  BY <1>1 DEF EpollWait, LeaveLoop
<1>2. CASE Ping \/ Shutdown \/ StartRefused \/ ReportRefused
  BY <1>2 DEF Ping, Shutdown, StartRefused, ReportRefused
<1>3. CASE StartReset
  <2>1. ~session.active /\ session' = EmptySession /\ report' = report
    BY <1>3 DEF StartReset, Reset
  <2>2. session.active = FALSE
    BY <1>0, <2>1 DEF SessionSet
  <2>3. session'.active = FALSE /\ session'.findings = << >>
    BY <2>1 DEF EmptySession
  <2>4. Log!Discard
    BY <2>1, <2>2, <2>3 DEF Log!Discard
  <2> QED BY <2>4 DEF Log!LogNext
<1>4. ASSUME NEW p \in Pid, Track(p)
      PROVE  [Log!LogNext]_(Log!logVars)
  <2>1. /\ session = EmptySession /\ report' = report
        /\ session' = StartPhase(session, p)
    BY <1>4 DEF Track, ResetUntilTracked
  <2>2. Log!Open
    BY <2>1 DEF Log!Open, EmptySession, StartPhase
  <2> QED BY <2>2 DEF Log!LogNext
<1>5. CASE \E p \in Pid : TrackFailed(p)
  BY <1>5 DEF TrackFailed
<1>6. CASE EndPhaseRequest
  <2>1. session' = EndPhase(session) /\ report' = report
    BY <1>6 DEF EndPhaseRequest
  <2>2. session'.active = FALSE /\ session'.findings = session.findings
    BY <1>0, <2>1 DEF EndPhase, SessionSet
  <2>3. session.active \in BOOLEAN
    BY <1>0 DEF SessionSet
  <2> QED BY <2>1, <2>2, <2>3 DEF Log!LogNext, Log!Close
<1>7. CASE ClearDone \/ \E p \in Pid : ClearOne(p)
  BY <1>7 DEF ClearDone, ClearOne, daemonVars
<1>8. CASE ReportRendered
  <2>1. /\ ~session.active /\ session' = session
        /\ report'.body.findings = session.findings
    BY <1>8 DEF ReportRendered, Rendered
  <2>2. Log!Answer
    BY <2>1 DEF Log!Answer
  <2> QED BY <2>2 DEF Log!LogNext
<1>9. CASE HandleEvent
  <2>1. Head(events) \in Event
    BY <1>0, <1>9 DEF HandleEvent
  <2>2. session' = Handle(session, Head(events)) /\ report' = report
    BY <1>9 DEF HandleEvent
  <2>3. Recorded(session, session', Head(events))
    BY <1>0, <2>1, <2>2, HandleRecorded
  <2>4. CASE session'.findings = session.findings
    BY <2>2, <2>3, <2>4 DEF Recorded
  <2>5. ASSUME NEW f \in FindingSet, session.active,
               session'.findings = Append(session.findings, f)
        PROVE  Log!Grow
    <3>1. session.findings \in Seq(FindingSet)
      BY <1>0 DEF SessionSet
    <3> DEFINE old == session.findings
               new == session'.findings
    <3>2. old \in Seq(FindingSet) /\ new = Append(old, f)
      BY <2>5, <3>1
    <3> HIDE DEF old, new
    <3>3. new # << >> /\ Len(new) = Len(old) + 1 /\ new[Len(new)] = f
      BY <3>2
    <3>4. new # << >> /\ new[Len(new)] \in FindingSet
          /\ new = Append(old, new[Len(new)])
      BY <3>2, <3>3
    <3> QED BY <2>2, <2>3, <2>5, <3>4 DEF Log!Grow, Recorded, old, new
  <2> QED BY <2>3, <2>4, <2>5 DEF Recorded, Log!LogNext
<1>10. CASE StartConsume \/ EndConsume \/ LookupPush \/ WritePush
  BY <1>10 DEF StartConsume, EndConsume, LookupPush, WritePush
<1>11. CASE \E r \in Requests : Send(r)
  BY <1>11 DEF Send
<1>12. CASE Attached
  BY <1>12 DEF Attached, daemonVars
<1>13. CASE UNCHANGED vars
  BY <1>13 DEF vars, daemonVars
<1> QED BY <1>1, <1>2, <1>3, <1>4, <1>5, <1>6, <1>7, <1>8, <1>9, <1>10, <1>11,
           <1>12, <1>13
        DEF Next, DaemonStep, Serve, Drain

\* Every behaviour of the daemon is, seen through its findings and reports, a
\* behaviour of PhaseLog.
THEOREM PhaseLogImplemented == Spec => PhaseLogRefined
<1>1. Spec => []ResetUntilTracked
  BY ResetUntilTrackedInit, ResetUntilTrackedStep, TypeCorrect, PTL DEF Spec
<1> QED BY <1>1, PhaseLogInit, PhaseLogStep, TypeCorrect, PTL
        DEF Spec, PhaseLogRefined, Log!LogSpec
=============================================================================
