---------------------------- MODULE BlameProofs ----------------------------
(***************************************************************************)
(* Theorems about who is blamed, in phases that start with nothing left of *)
(* an earlier one: the daemon and the kernel agree on the package of a     *)
(* process, a finding names a package of the process's lineage, and what   *)
(* happens outside the watched tree leads to no finding.  They rest on the *)
(* package ids that are on their way from the kernel to the daemon, in     *)
(* programs in flight and in the ring buffer.  The last section says what  *)
(* a report may hold of another phase, and what it leaves out of its own.  *)
(***************************************************************************)
EXTENDS FindingProofs

(* Lives: without pid reuse a process lives once. *)

Ran(p) == proc[p].life \in {"running", "zombie"}

\* The event of a fork that made a process, not a thread.
Born(e) == e.act.type = "fork" /\ e.act.child # e.pid

\* trackPid only ever gets the pid of a process there has been.
Rooted == pc = "track" => proc[request.pid].life # "free"

\* The daemon and the kernel know nothing of a process that is yet to come.
FreeUnknown ==
  \A p \in Pid : proc[p].life = "free" =>
    p \notin Tracked /\ session.pidPackage[p] = 0

\* The ring buffer tells of a process's birth before it tells of its acts.
BirthsFirst ==
  /\ \A i \in DOMAIN events :
       /\ Ran(events[i].pid)
       /\ Born(events[i]) => Ran(events[i].act.child)
  /\ \A i, j \in DOMAIN events : i < j /\ Born(events[j]) =>
       /\ events[j].act.child # events[i].pid
       /\ Born(events[i]) => events[j].act.child # events[i].act.child

\* No process becomes a pid that is free again, or one that has not run yet.
Ageing ==
  \A p \in Pid : /\ proc'[p].life = "free" => proc[p].life = "free"
                 /\ Ran(p) => Ran(p)'

LEMMA AgeingActivity ==
  ASSUME ~PidReuse, KernelTypeOK, NEW p \in Pid, Activity(p)
  PROVE  Ageing
<1>0. proc \in [Pid -> [life : {"free", "new", "running", "zombie"},
                        cwd  : Package \cup {NoPackage},
                        env  : SUBSET Token]]
  BY DEF KernelTypeOK
<1> USE DEF Ageing, Ran
<1>1. ASSUME NEW c \in Pid, ForkUntracked(p, c) \/ ForkLookup(p, c)
      PROVE  Ageing
  BY <1>0, <1>1 DEF ForkUntracked, ForkLookup, Child
<1>2. ASSUME NEW act \in Syscalls,
             \/ SyscallUntracked(p, act) \/ SyscallLookup(p, act)
             \/ ExecLookup(p, act)
      PROVE  Ageing
  BY <1>0, <1>2 DEF SyscallUntracked, SyscallLookup, ExecLookup
<1>3. ASSUME NEW d \in Package \cup {NoPackage}, Chdir(p, d)
      PROVE  Ageing
  BY <1>0, <1>3 DEF Chdir
<1>4. CASE CloneLookup(p) \/ Exit(p) \/ LeaderExit(p)
  BY <1>0, <1>4 DEF CloneLookup, Exit, LeaderExit
<1> QED BY <1>1, <1>2, <1>3, <1>4 DEF Activity, Reap

LEMMA AgeingProgram ==
  ASSUME KernelTypeOK, NEW p \in Pid, Program(p)
  PROVE  Ageing
<1>0. proc \in [Pid -> [life : {"free", "new", "running", "zombie"},
                        cwd  : Package \cup {NoPackage},
                        env  : SUBSET Token]]
  BY DEF KernelTypeOK
<1>1. \/ proc' = proc
      \/ proc' = [proc EXCEPT ![ForkChild(p)].life = "running"]
  BY DEF Program, UpdateChild, Emit, ForkChild
<1>2. ASSUME NEW c, proc' = [proc EXCEPT ![c].life = "running"]
      PROVE  Ageing
  BY <1>0, <1>2 DEF Ageing, Ran
<1> QED BY <1>1, <1>2 DEF Ageing, Ran

LEMMA AgeingStep ==
  ASSUME ~PidReuse, TypeOK, [Next]_vars
  PROVE  Ageing
<1>0. KernelTypeOK
  BY DEF TypeOK
<1>1. CASE DaemonStep \/ (\E r \in Requests : Send(r)) \/ UNCHANGED vars
  BY <1>1, DaemonKeeps DEF Ageing, Ran
<1>2. ASSUME NEW p \in Pid, Activity(p) \/ Program(p)
      PROVE  Ageing
  BY <1>0, <1>2, AgeingActivity, AgeingProgram
<1> QED BY <1>1, <1>2 DEF Next

LEMMA RootedStep ==
  ASSUME ~PidReuse, TypeOK, Rooted, [Next]_vars
  PROVE  Rooted'
<1>0. Ageing
  BY AgeingStep
<1>1. CASE StartReset
  <2>1. /\ request' = Head(backlog) /\ Head(backlog) \in Requests
        /\ Head(backlog).type = "start-phase"
    BY <1>1, AcceptType DEF StartReset, Accept
  <2>2. Head(backlog).pid \in Pid
    BY <2>1, DaemonAssumption DEF StartRequest, OtherRequest
  <2>3. proc' = proc /\ proc[Head(backlog).pid].life # "free"
    BY <1>1 DEF StartReset, PidExists, kernelVars
  <2> QED BY <2>1, <2>2, <2>3 DEF Rooted
<1>2. CASE pc' # "track"
  BY <1>2 DEF Rooted
<1>3. CASE UNCHANGED <<pc, request>>
  <2>1. pc = "track" => request.pid \in Pid
    BY DEF TypeOK, DaemonTypeOK, StartRequest
  <2> QED BY <1>0, <1>3, <2>1 DEF Rooted, Ageing
<1>4. CASE EpollWait \/ LeaveLoop \/ Ping \/ Shutdown \/ StartRefused
           \/ ReportRefused \/ ReportRendered \/ EndPhaseRequest \/ ClearDone
           \/ (\E p \in Pid : Track(p) \/ TrackFailed(p)) \/ StartConsume
           \/ HandleEvent \/ EndConsume \/ LookupPush \/ WritePush
  <2>1. pc' # "track"
    BY <1>4 DEF EpollWait, LeaveLoop, Ping, Shutdown, StartRefused,
                ReportRefused, ReportRendered, EndPhaseRequest, ClearDone,
                Track, TrackFailed, StartConsume, HandleEvent, EndConsume,
                LookupPush, WritePush, NextPush, Accept
  <2> QED BY <1>2, <2>1
<1>5. CASE (\E p \in Pid : ClearOne(p)) \/ (\E r \in Requests : Send(r))
           \/ Attached \/ UNCHANGED vars
  BY <1>3, <1>5 DEF ClearOne, Send, Attached, vars, daemonVars
<1> QED BY <1>1, <1>4, <1>5 DEF Next, DaemonStep, Serve, Drain
-----------------------------------------------------------------------------
(* What a handler learns from an event. *)

Origin(e) == e.act.type \in {"fork", "exec"}

\* Names keep their ids.
Grows(s, t) ==
  /\ DOMAIN s.packages \subseteq DOMAIN t.packages
  /\ \A i \in DOMAIN s.packages : t.packages[i] = s.packages[i]

LEMMA InternPackageKeeps ==
  ASSUME NEW s \in SessionSet, NEW name \in Package
  PROVE  /\ Grows(s, InternPackage(s, name))
         /\ InternPackage(s, name).pidPackage = s.pidPackage
<1>1. CASE name \in Interned(s)
  BY <1>1 DEF InternPackage, Grows
<1>2. CASE name \notin Interned(s)
  <2> DEFINE old == s.packages
             new == Append(old, name)
  <2>1. old \in Seq(Package)
    BY DEF SessionSet
  <2>2. InternPackage(s, name) = [s EXCEPT !.packages = new]
    BY <1>2 DEF InternPackage
  <2>3. /\ InternPackage(s, name).packages = new
        /\ InternPackage(s, name).pidPackage = s.pidPackage
    BY <2>2 DEF SessionSet
  <2> HIDE DEF old
  <2>4. DOMAIN old \subseteq DOMAIN new /\ \A i \in DOMAIN old : new[i] = old[i]
    BY <2>1
  <2> HIDE DEF new
  <2> QED BY <2>3, <2>4 DEF Grows, old
<1> QED BY <1>1, <1>2

\* Process p has got the name of the directory it is in.
Settled(t, p) ==
  /\ CwdPackage(p) # NoPackage
  /\ t.pidPackage[p] \in DOMAIN t.packages \ {0}
  /\ t.packages[t.pidPackage[p]] = CwdPackage(p)

LEMMA AttributedLearns ==
  ASSUME KernelTypeOK, NEW s \in SessionSet, NEW e \in Event,
         NEW t, t = Attributed(s, e)
  PROVE  /\ Grows(s, t)
         /\ \A p \in Pid \ {e.pid} : t.pidPackage[p] = s.pidPackage[p]
         /\ IF Attributable(s, e)
            THEN Settled(t, e.pid)
            ELSE t = s
<1>0. e.pid \in Pid /\ s.pidPackage \in [Pid -> Nat]
  BY DEF Event, SessionSet
<1>1. CASE ~Attributable(s, e)
  BY <1>1 DEF Attributed, Grows
<1>2. CASE Attributable(s, e)
  <2> DEFINE name == CwdPackage(e.pid)
             u    == InternPackage(s, name)
             id   == PackageId(u, name)
  <2>1. name \in Package
    BY <1>0, <1>2, CwdPackageType DEF Attributable
  <2>2. /\ Grows(s, u) /\ u.pidPackage = s.pidPackage
        /\ u \in SessionSet /\ id \in Nat \ {0} /\ PackageName(u, id) = name
    BY <2>1, InternPackageKeeps, InternPackageType
  <2>3. id \in DOMAIN u.packages /\ u.packages[id] = name
    BY <2>1, <2>2, NoneAssumption DEF PackageName
  <2>4. t = SetPidPackage(u, e.pid, id)
    BY <1>2 DEF Attributed
  <2> HIDE DEF u, id
  <2>5. /\ t.packages = u.packages
        /\ t.pidPackage = [s.pidPackage EXCEPT ![e.pid] = id]
    BY <2>2, <2>4 DEF SetPidPackage, SessionSet
  <2>6. /\ t.pidPackage[e.pid] = id
        /\ \A p \in Pid \ {e.pid} : t.pidPackage[p] = s.pidPackage[p]
    BY <1>0, <2>5
  <2> QED BY <1>2, <2>1, <2>2, <2>3, <2>5, <2>6, NoneAssumption
          DEF Grows, Settled
<1> QED BY <1>1, <1>2

\* The id of e's process after e has been handled, and who gets it.
Learnt(s, t, e) ==
  LET p == e.pid
  IN  /\ Grows(s, t)
      /\ s.pidPackage[p] # 0 => t.pidPackage[p] = s.pidPackage[p]
      /\ s.pidPackage[p] = 0 =>
           \/ t.pidPackage[p] = 0
           \/ /\ Origin(e)
              /\ t.pidPackage[p] = e.pkg \/ (e.pkg = 0 /\ Settled(t, p))
      /\ Born(e) => t.pidPackage[e.act.child] = KnownId(t, e)
      /\ \A q \in Pid \ {p} : ~(Born(e) /\ q = e.act.child)
           => t.pidPackage[q] = s.pidPackage[q]

\* A finding about e names the package e's process has after that.
Blamed(s, t, e) ==
  \/ t.findings = s.findings
  \/ /\ s.active /\ KnownId(t, e) # 0
     /\ \E f \in FindingSet :
          /\ t.findings = Append(s.findings, f)
          /\ f.cause = e /\ f.pid = e.pid
          /\ f.package = PackageName(t, KnownId(t, e))

LEMMA AddFindingBlames ==
  ASSUME NEW s \in SessionSet, NEW e \in Event, NEW f \in FindingSet,
         s.active, KnownId(s, e) # 0, f.cause = e, f.pid = e.pid,
         f.package = PackageName(s, KnownId(s, e)),
         NEW t, t = AddFinding(s, f)
  PROVE  /\ t.pidPackage = s.pidPackage /\ t.packages = s.packages
         /\ Blamed(s, t, e)
<1>1. /\ t.pidPackage = s.pidPackage /\ t.packages = s.packages
      /\ t.findings = Append(s.findings, f)
  BY DEF AddFinding, SessionSet
<1>2. /\ KnownId(t, e) = KnownId(s, e)
      /\ PackageName(t, KnownId(t, e)) = PackageName(s, KnownId(s, e))
  BY <1>1 DEF KnownId, PackageName
<1> QED BY <1>1, <1>2 DEF Blamed

LEMMA OnExecBlames ==
  ASSUME NEW s \in SessionSet, NEW e \in Event, e.act.scanned \subseteq Token,
         NEW t, t = OnExec(s, e, KnownId(s, e), PackageName(s, KnownId(s, e)))
  PROVE  /\ t.pidPackage = s.pidPackage /\ t.packages = s.packages
         /\ Blamed(s, t, e)
<1> DEFINE name == PackageName(s, KnownId(s, e))
           f1 == Finding(e, "TokenBearingDownloader", High, name, e.act.scanned)
           f2 == Finding(e, "UnexpectedBinary", High, name, {})
<1>1. /\ name \in Package \cup {NoPackage} /\ {} \in SUBSET Token
      /\ High \in Severity
      /\ "TokenBearingDownloader" \in RuleId /\ "UnexpectedBinary" \in RuleId
  BY PackageNameType DEF Severity, RuleId
<1>2. /\ f1 \in FindingSet /\ f1.cause = e /\ f1.pid = e.pid
      /\ f1.package = name
      /\ f2 \in FindingSet /\ f2.cause = e /\ f2.pid = e.pid
      /\ f2.package = name
  BY <1>1, FindingType DEF Finding
<1>3. \/ t = s
      \/ /\ s.active /\ KnownId(s, e) # 0
         /\ t = AddFinding(s, f1) \/ t = AddFinding(s, f2)
  BY DEF OnExec
<1> HIDE DEF name, f1, f2
<1>4. CASE t = s
  BY <1>4 DEF Blamed
<1> QED BY <1>2, <1>3, <1>4, AddFindingBlames DEF name

LEMMA OnConnectBlames ==
  ASSUME NEW s \in SessionSet, NEW e \in Event,
         NEW t, t = OnConnect(s, e, KnownId(s, e),
                              PackageName(s, KnownId(s, e)))
  PROVE  /\ t.pidPackage = s.pidPackage /\ t.packages = s.packages
         /\ Blamed(s, t, e)
<1> DEFINE name == PackageName(s, KnownId(s, e))
           f(sev) == Finding(e, "NonAllowlistedHost", sev, name,
                             s.pidTokens[e.pid])
<1>1. /\ name \in Package \cup {NoPackage} /\ {High, Medium} \subseteq Severity
      /\ "NonAllowlistedHost" \in RuleId
      /\ s.pidTokens[e.pid] \in SUBSET Token
  BY PackageNameType DEF Severity, RuleId, SessionSet, Event
<1>2. \A sev \in {High, Medium} :
        /\ f(sev) \in FindingSet /\ f(sev).cause = e /\ f(sev).pid = e.pid
        /\ f(sev).package = name
  BY <1>1, FindingType DEF Finding
<1>3. \/ t = s
      \/ /\ s.active /\ KnownId(s, e) # 0
         /\ \E sev \in {High, Medium} : t = AddFinding(s, f(sev))
  BY DEF OnConnect
<1> HIDE DEF name, f
<1>4. CASE t = s
  BY <1>4 DEF Blamed
<1> QED BY <1>2, <1>3, <1>4, AddFindingBlames DEF name

LEMMA OnOpenBlames ==
  ASSUME NEW s \in SessionSet, NEW e \in Event,
         NEW t, t = OnOpen(s, e, KnownId(s, e), PackageName(s, KnownId(s, e)))
  PROVE  /\ t.pidPackage = s.pidPackage /\ t.packages = s.packages
         /\ Blamed(s, t, e)
<1> DEFINE name == PackageName(s, KnownId(s, e))
           f1 == Finding(e, "SensitiveFileWrite", High, name, {})
           f2 == Finding(e, "SensitiveFileRead", High, name, {})
<1>1. /\ name \in Package \cup {NoPackage} /\ {} \in SUBSET Token
      /\ High \in Severity
      /\ "SensitiveFileWrite" \in RuleId /\ "SensitiveFileRead" \in RuleId
  BY PackageNameType DEF Severity, RuleId
<1>2. /\ f1 \in FindingSet /\ f1.cause = e /\ f1.pid = e.pid
      /\ f1.package = name
      /\ f2 \in FindingSet /\ f2.cause = e /\ f2.pid = e.pid
      /\ f2.package = name
  BY <1>1, FindingType DEF Finding
<1>3. \/ t = s
      \/ /\ s.active /\ KnownId(s, e) # 0
         /\ t = AddFinding(s, f1) \/ t = AddFinding(s, f2)
  BY DEF OnOpen
<1> HIDE DEF name, f1, f2
<1>4. CASE t = s
  BY <1>4 DEF Blamed
<1> QED BY <1>2, <1>3, <1>4, AddFindingBlames DEF name

LEMMA HandleLearns ==
  ASSUME KernelTypeOK, NEW s \in SessionSet, NEW e \in Event,
         NEW t, t = Handle(s, e)
  PROVE  Learnt(s, t, e) /\ Blamed(s, t, e)
<1>0. /\ e.pid \in Pid /\ e.act \in Act /\ e.pkg \in Nat
      /\ s.pidPackage \in [Pid -> Nat]
  BY DEF Event, SessionSet
<1>1. CASE e.act \in ForkAct
  <2> DEFINE u == Attributed(s, e)
             c == e.act.child
             k == KnownId(u, e)
  <2>1. t = SetPidPackage(u, c, k) /\ c \in Pid /\ Origin(e)
    BY <1>1 DEF ForkAct, Handle, HandleFork, Origin
  <2>2. /\ u \in SessionSet /\ k \in Nat /\ u.findings = s.findings
        /\ u.pidPackage \in [Pid -> Nat]
    BY AttributedType, KnownIdType, AttributedKeepsLog DEF SessionSet
  <2>3. /\ Grows(s, u)
        /\ \A p \in Pid \ {e.pid} : u.pidPackage[p] = s.pidPackage[p]
        /\ IF Attributable(s, e) THEN Settled(u, e.pid) ELSE u = s
    BY AttributedLearns
  <2>4. k = IF u.pidPackage[e.pid] # 0 THEN u.pidPackage[e.pid] ELSE e.pkg
    BY DEF KnownId
  <2> HIDE DEF u, c, k
  <2>5. /\ t.packages = u.packages /\ t.findings = u.findings
        /\ t.pidPackage = [u.pidPackage EXCEPT ![c] = k]
    BY <2>1, <2>2 DEF SetPidPackage, SessionSet
  <2>6. /\ t.pidPackage[c] = k
        /\ \A p \in Pid \ {c} : t.pidPackage[p] = u.pidPackage[p]
    BY <2>1, <2>2, <2>5
  <2>7. Grows(s, t)
    BY <2>3, <2>5 DEF Grows
  <2>8. \A q \in Pid \ {e.pid} : ~(Born(e) /\ q = c)
          => t.pidPackage[q] = s.pidPackage[q]
    <3>1. e.act.type = "fork"
      BY <1>1 DEF ForkAct
    <3> QED BY <2>3, <2>6, <3>1 DEF Born, c
  <2>9. CASE Attributable(s, e)
    <3>1. /\ s.pidPackage[e.pid] = 0 /\ e.pkg = 0
          /\ u.pidPackage[e.pid] # 0 /\ k = u.pidPackage[e.pid]
      BY <1>0, <2>3, <2>4, <2>9 DEF Attributable, KnownId, Settled
    <3>2. t.pidPackage[e.pid] = u.pidPackage[e.pid]
      BY <1>0, <2>6, <3>1
    <3>3. Settled(t, e.pid)
      BY <2>3, <2>5, <2>9, <3>2 DEF Settled
    <3>4. KnownId(t, e) = k
      BY <3>1, <3>2 DEF KnownId
    <3> QED BY <2>1, <2>2, <2>5, <2>6, <2>7, <2>8, <3>1, <3>3, <3>4
            DEF Learnt, Blamed, c
  <2>10. CASE ~Attributable(s, e)
    <3>1. /\ u = s
          /\ k = IF s.pidPackage[e.pid] # 0 THEN s.pidPackage[e.pid] ELSE e.pkg
      BY <2>3, <2>4, <2>10
    <3>2. t.pidPackage[e.pid] = IF c = e.pid THEN k ELSE s.pidPackage[e.pid]
      BY <1>0, <2>6, <3>1
    <3>3. KnownId(t, e) = k
      BY <3>1, <3>2 DEF KnownId
    <3>4. /\ s.pidPackage[e.pid] # 0 => t.pidPackage[e.pid] = s.pidPackage[e.pid]
          /\ s.pidPackage[e.pid] = 0 => t.pidPackage[e.pid] \in {0, e.pkg}
      BY <3>1, <3>2
    <3>5. Born(e) => t.pidPackage[e.act.child] = KnownId(t, e)
      BY <2>6, <3>3 DEF c
    <3>6. Learnt(s, t, e)
      BY <2>1, <2>7, <2>8, <3>4, <3>5 DEF Learnt, c
    <3> QED BY <2>2, <2>5, <3>6 DEF Blamed
  <2> QED BY <2>9, <2>10
<1>2. ASSUME e.act \notin ForkAct, t.pidPackage = s.pidPackage,
             t.packages = s.packages
      PROVE  Learnt(s, t, e)
  <2>1. ~Born(e)
    BY <1>0, <1>2 DEF Born, Act, ExecAct, OpenAct, ConnectAct
  <2>2. Grows(s, t)
    BY <1>2 DEF Grows
  <2> QED BY <1>2, <2>1, <2>2 DEF Learnt
<1>3. CASE e.act \in ConnectAct
  <2>1. t = OnConnect(s, e, KnownId(s, e), PackageName(s, KnownId(s, e)))
        /\ e.act \notin ForkAct
    BY <1>3 DEF ConnectAct, ForkAct, Handle, HandleConnect
  <2> QED BY <1>2, <2>1, OnConnectBlames
<1>4. CASE e.act \in OpenAct
  <2> DEFINE u == OnOpen(s, e, KnownId(s, e), PackageName(s, KnownId(s, e)))
  <2>1. /\ t = u \/ \E x : t = MarkExtracted(u, x)
        /\ e.act \notin ForkAct
    BY <1>4 DEF OpenAct, ForkAct, Handle, HandleOpen
  <2>2. /\ u.pidPackage = s.pidPackage /\ u.packages = s.packages
        /\ Blamed(s, u, e) /\ u \in SessionSet
    BY OnOpenBlames, OnOpenType, PackageNameType
  <2> HIDE DEF u
  <2>3. /\ t.pidPackage = u.pidPackage /\ t.packages = u.packages
        /\ t.findings = u.findings
    BY <2>1, <2>2 DEF MarkExtracted, SessionSet
  <2>4. Blamed(s, t, e)
    BY <2>2, <2>3 DEF Blamed, KnownId, PackageName
  <2> QED BY <1>2, <2>1, <2>2, <2>3, <2>4
<1>5. CASE e.act \in ExecAct
  <2> DEFINE v == SetPidTokens(s, e.pid, e.act.scanned)
             u == Attributed(v, e)
  <2>1. /\ t = OnExec(u, e, KnownId(u, e), PackageName(u, KnownId(u, e)))
        /\ e.act.scanned \in SUBSET Token /\ e.act \notin ForkAct /\ Origin(e)
    BY <1>5 DEF ExecAct, ForkAct, Handle, HandleExec, Origin
  <2>2. /\ v \in SessionSet /\ v.pidPackage = s.pidPackage
        /\ v.packages = s.packages /\ v.findings = s.findings
        /\ v.active = s.active
    BY <1>0, <2>1, SetPidTokensType DEF SetPidTokens, SessionSet
  <2> HIDE DEF v
  <2>3. /\ u \in SessionSet /\ u.findings = v.findings /\ u.active = v.active
    BY <2>2, AttributedType, AttributedKeepsLog
  <2>4. /\ Grows(v, u)
        /\ \A p \in Pid \ {e.pid} : u.pidPackage[p] = v.pidPackage[p]
        /\ IF Attributable(v, e) THEN Settled(u, e.pid) ELSE u = v
    BY <2>2, AttributedLearns
  <2> HIDE DEF u
  <2>5. /\ t.pidPackage = u.pidPackage /\ t.packages = u.packages
        /\ Blamed(u, t, e)
    BY <2>1, <2>3, OnExecBlames
  <2>6. ~Born(e)
    BY <2>1, <1>0, <1>5 DEF Born, ExecAct
  <2>7. Attributable(v, e) => s.pidPackage[e.pid] = 0 /\ e.pkg = 0
    BY <1>0, <2>2 DEF Attributable, KnownId
  <2>8. Settled(u, e.pid) => Settled(t, e.pid) /\ t.pidPackage[e.pid] # 0
    BY <2>5 DEF Settled
  <2>9. Learnt(s, t, e)
    BY <1>0, <2>1, <2>2, <2>4, <2>5, <2>6, <2>7, <2>8 DEF Learnt, Grows
  <2>10. Blamed(s, t, e)
    BY <2>2, <2>3, <2>5 DEF Blamed
  <2> QED BY <2>9, <2>10
<1> QED BY <1>0, <1>1, <1>3, <1>4, <1>5 DEF Act

\* What is pushed to the kernel is what the session says.
LEMMA ToPushLearns ==
  ASSUME KernelTypeOK, NEW s \in SessionSet, NEW e \in Event,
         NEW i \in DOMAIN ToPush(s, e)
  PROVE  /\ ToPush(s, e)[i].id # 0
         /\ Handle(s, e).pidPackage[ToPush(s, e)[i].pid] = ToPush(s, e)[i].id
<1> DEFINE u   == Attributed(s, e)
           id  == KnownId(u, e)
           own == IF Attributable(s, e) THEN <<[pid |-> e.pid, id |-> id]>>
                                        ELSE << >>
           ok(x) == x.id # 0 /\ Handle(s, e).pidPackage[x.pid] = x.id
<1>0. /\ e.pid \in Pid /\ e.act \in Act /\ u \in SessionSet
      /\ u.pidPackage \in [Pid -> Nat]
  BY AttributedType DEF Event, SessionSet
<1>1. CASE Attributable(s, e)
  <2>1. u.pidPackage[e.pid] # 0 /\ id = u.pidPackage[e.pid]
    BY <1>1, AttributedLearns DEF Settled, KnownId
  <2>2. own = <<[pid |-> e.pid, id |-> id]>>
    BY <1>1
  <2>3. CASE e.act \in ExecAct
    <3> DEFINE v == SetPidTokens(s, e.pid, e.act.scanned)
               w == Attributed(v, e)
    <3>1. /\ Handle(s, e) = OnExec(w, e, KnownId(w, e),
                                   PackageName(w, KnownId(w, e)))
          /\ e.act.scanned \in SUBSET Token
      BY <2>3 DEF ExecAct, Handle, HandleExec
    <3>2. /\ v \in SessionSet /\ v.pidPackage = s.pidPackage
          /\ v.packages = s.packages
      BY <1>0, <3>1, SetPidTokensType DEF SetPidTokens, SessionSet
    <3>3. w \in SessionSet
      BY <3>2, AttributedType
    <3>4. w.pidPackage = u.pidPackage
      <4> DEFINE name == CwdPackage(e.pid)
                 x == InternPackage(s, name)
                 y == InternPackage(v, name)
      <4>1. /\ v = [s EXCEPT !.pidTokens[e.pid] = e.act.scanned]
            /\ name \in Package
        BY <1>0, <1>1, CwdPackageType DEF SetPidTokens, Attributable
      <4>2. /\ y.pidPackage = s.pidPackage /\ x.pidPackage = s.pidPackage
            /\ x \in SessionSet /\ y \in SessionSet
        BY <3>2, <4>1, InternPackageKeeps, InternPackageType
      <4>5. \A z \in SessionSet :
              InternPackage(z, name).packages =
                IF name \in Interned(z) THEN z.packages
                ELSE Append(z.packages, name)
        BY DEF InternPackage, SessionSet
      <4>6. y.packages = x.packages
        BY <3>2, <4>5 DEF Interned
      <4>3. PackageId(y, name) = PackageId(x, name)
        BY <4>6 DEF PackageId
      <4>4. /\ u = SetPidPackage(x, e.pid, PackageId(x, name))
            /\ w = SetPidPackage(y, e.pid, PackageId(y, name))
        BY <1>1, <3>2 DEF Attributed, Attributable, KnownId
      <4> HIDE DEF x, y
      <4> QED BY <4>2, <4>3, <4>4 DEF SetPidPackage, SessionSet
    <3> HIDE DEF w
    <3>5. Handle(s, e).pidPackage = u.pidPackage
      BY <3>1, <3>3, <3>4, OnExecBlames
    <3>6. ToPush(s, e) = own
      BY <2>3 DEF ToPush, ExecAct
    <3> QED BY <2>1, <2>2, <3>5, <3>6
  <2>4. CASE e.act \in ForkAct
    <3> DEFINE c == e.act.child
    <3>1. /\ Handle(s, e).pidPackage = [u.pidPackage EXCEPT ![c] = id]
          /\ c \in Pid
      BY <1>0, <2>4 DEF ForkAct, Handle, HandleFork, SetPidPackage, SessionSet
    <3>2. ToPush(s, e) = Append(own, [pid |-> c, id |-> id])
      BY <2>1, <2>4 DEF ToPush, ForkAct
    <3> HIDE DEF u, id, c
    <3>3. ToPush(s, e)[i] \in {[pid |-> e.pid, id |-> id], [pid |-> c, id |-> id]}
      BY <2>2, <3>2
    <3> QED BY <1>0, <2>1, <3>1, <3>3
  <2>5. CASE e.act \in OpenAct \cup ConnectAct
    BY <2>5 DEF ToPush, OpenAct, ConnectAct
  <2> QED BY <1>0, <2>3, <2>4, <2>5 DEF Act
<1>2. CASE ~Attributable(s, e)
  <2>1. own = << >>
    BY <1>2
  <2>2. CASE e.act \in ForkAct
    <3> DEFINE c == e.act.child
    <3>1. /\ Handle(s, e).pidPackage = [u.pidPackage EXCEPT ![c] = id]
          /\ c \in Pid
      BY <1>0, <2>2 DEF ForkAct, Handle, HandleFork, SetPidPackage, SessionSet
    <3>2. ToPush(s, e) = IF id # 0 THEN Append(own, [pid |-> c, id |-> id])
                         ELSE << >>
      BY <2>2 DEF ToPush, ForkAct
    <3> HIDE DEF u, id, c, own
    <3>3. id # 0 /\ ToPush(s, e)[i] = [pid |-> c, id |-> id]
      BY <2>1, <3>2
    <3> QED BY <1>0, <3>1, <3>3
  <2>3. CASE e.act \in ExecAct \cup OpenAct \cup ConnectAct
    BY <2>1, <2>3 DEF ToPush, ExecAct, OpenAct, ConnectAct
  <2> QED BY <1>0, <2>2, <2>3 DEF Act
<1> QED BY <1>1, <1>2
-----------------------------------------------------------------------------
(* The ring buffer tells of births first. *)

\* What becomes of the ring buffer.
LEMMA RingMoves ==
  ASSUME TypeOK, [Next]_vars
  PROVE  \/ events' = events
         \/ events # << >> /\ events' = Tail(events)
         \/ \E p \in Pid : Emit(p) /\ Attached
<1>1. CASE EpollWait \/ LeaveLoop \/ Ping \/ Shutdown \/ StartRefused
           \/ StartReset \/ ClearDone \/ ReportRefused \/ ReportRendered
           \/ StartConsume \/ EndConsume
  BY <1>1
     DEF EpollWait, LeaveLoop, Ping, Shutdown, StartRefused, StartReset,
         ClearDone, ReportRefused, ReportRendered, StartConsume, EndConsume,
         kernelVars
<1>2. CASE \E p \in Pid : Track(p) \/ TrackFailed(p) \/ ClearOne(p)
  BY <1>2 DEF Track, TrackFailed, ClearOne, kernelVars
<1>3. CASE EndPhaseRequest \/ HandleEvent
  BY <1>3 DEF EndPhaseRequest, HandleEvent
<1>4. CASE LookupPush \/ WritePush
  BY <1>4 DEF LookupPush, WritePush, NextPush, TypeOK, DaemonTypeOK
<1>5. CASE (\E r \in Requests : Send(r)) \/ UNCHANGED vars
  BY <1>5 DEF Send, vars, kernelVars
<1>6. ASSUME NEW p \in Pid, Activity(p)
      PROVE  events' = events
  BY <1>6, ActivityType DEF TypeOK
<1>7. ASSUME NEW p \in Pid, Program(p), Attached
      PROVE  events' = events \/ Emit(p)
  BY <1>7 DEF Program, UpdateChild
<1> QED BY <1>1, <1>2, <1>3, <1>4, <1>5, <1>6, <1>7
        DEF Next, DaemonStep, Serve, Drain

\* The event p's program leaves behind, if it leaves one.
Left(p, f) ==
  /\ f \in Event
  /\ \E n \in EventPkgs(p) : f = [prog[p].event EXCEPT !.pkg = n]
  /\ events' = Append(events, f)

LEMMA EmitMoves ==
  ASSUME KernelTypeOK, FlightOrder, NEW p \in Pid, Emit(p)
  PROVE  /\ prog[p] # Idle /\ prog' = [prog EXCEPT ![p] = Idle]
         /\ events' = events \/ \E f \in Event : Left(p, f)
         /\ \A f \in Event : Left(p, f) =>
              /\ f.pid = p /\ f.act = prog[p].event.act
              /\ f.watched = prog[p].event.watched
              /\ f.pkg \in EventPkgs(p)
<1>1. prog[p] # Idle /\ prog' = [prog EXCEPT ![p] = Idle]
  BY DEF Emit, Idle
<1> DEFINE e == prog[p].event
<1>2. e \in Event /\ EventPkgs(p) \subseteq Nat /\ e.pid = p
  BY <1>1, ProgramOf, EventPkgsType DEF FlightOrder
<1>3. \/ events' = events
      \/ \E n \in EventPkgs(p) : events' = Append(events, [e EXCEPT !.pkg = n])
  BY DEF Emit
<1> HIDE DEF e
<1>4. ASSUME NEW n \in EventPkgs(p)
      PROVE  LET f == [e EXCEPT !.pkg = n]
             IN  /\ f \in Event /\ f.pid = p /\ f.act = e.act
                 /\ f.watched = e.watched /\ f.pkg = n
  BY <1>2 DEF Event
<1> QED BY <1>1, <1>3, <1>4 DEF Left, e

LEMMA RingEvent ==
  ASSUME KernelTypeOK, NEW i \in DOMAIN events
  PROVE  /\ events[i] \in Event /\ events[i].pid \in Pid
         /\ Born(events[i]) => events[i].act.child \in Pid
<1>1. events[i] \in Event
  BY DEF KernelTypeOK
<1>2. events[i].pid \in Pid /\ events[i].act \in Act
  BY <1>1 DEF Event
<1> QED BY <1>1, <1>2 DEF Born, Act, ExecAct, OpenAct, ConnectAct, ForkAct

LEMMA BirthsKept ==
  ASSUME KernelTypeOK, BirthsFirst, Ageing,
         events' = events \/ (events # << >> /\ events' = Tail(events))
  PROVE  BirthsFirst'
<1>0. events \in Seq(Event)
  BY DEF KernelTypeOK
<1>1. \A i \in DOMAIN events :
        events[i].pid \in Pid /\ (Born(events[i]) => events[i].act.child \in Pid)
  BY RingEvent
<1>2. CASE events' = events
  <2>1. \A i \in DOMAIN events' :
          Ran(events[i].pid)' /\ (Born(events[i])' => Ran(events[i].act.child)')
    BY <1>1, <1>2 DEF BirthsFirst, Ageing, Born, Ran
  <2> QED BY <1>2, <2>1 DEF BirthsFirst, Born
<1>3. CASE events # << >> /\ events' = Tail(events)
  <2>1. \A j \in DOMAIN events' : /\ j \in Nat /\ j + 1 \in DOMAIN events
                                  /\ events'[j] = events[j + 1]
    BY <1>0, <1>3, TailIndices
  <2>2. ASSUME NEW j \in DOMAIN events'
        PROVE  /\ Ran(events[j].pid)'
               /\ Born(events[j])' => Ran(events[j].act.child)'
    BY <1>1, <2>1 DEF BirthsFirst, Ageing, Born, Ran
  <2>3. ASSUME NEW i \in DOMAIN events', NEW j \in DOMAIN events', i < j,
               Born(events'[j])
        PROVE  /\ events'[j].act.child # events'[i].pid
               /\ Born(events'[i]) => events'[j].act.child # events'[i].act.child
    <3>1. i + 1 < j + 1
      BY <2>1, <2>3
    <3> QED BY <2>1, <2>3, <3>1 DEF BirthsFirst
  <2> QED BY <2>2, <2>3 DEF BirthsFirst, Born
<1> QED BY <1>2, <1>3

LEMMA BirthsStep ==
  ASSUME ~PidReuse, TypeOK, ForksInFlight, FlightOrder, BirthsFirst,
         [Next]_vars
  PROVE  BirthsFirst'
<1>0. KernelTypeOK /\ Ageing /\ events \in Seq(Event)
  BY AgeingStep DEF TypeOK, KernelTypeOK
<1>1. ASSUME NEW p \in Pid, NEW f \in Event, Emit(p), Left(p, f)
      PROVE  BirthsFirst'
  <2> DEFINE n == Len(events) + 1
  <2>1. /\ prog[p] # Idle /\ f.pid = p /\ f.act = prog[p].event.act
        /\ prog[p].event.pid = p
    BY <1>0, <1>1, EmitMoves DEF FlightOrder
  <2>2. proc[p].life = "running" /\ Ran(p)'
    BY <1>0, <2>1 DEF ForksInFlight, Ageing, Ran
  <2>3. Born(f) => /\ f.act.child \in Pid /\ proc[f.act.child].life = "new"
                   /\ Ran(f.act.child)'
    <3>1. ASSUME Born(f)
          PROVE  Forking(p) /\ ForkChild(p) = f.act.child /\ f.act.child # p
      BY <2>1, <3>1 DEF Born, Forking, ForkChild
    <3>2. ASSUME Born(f)
          PROVE  f.act.child \in Pid /\ proc[f.act.child].life = "new"
      BY <1>0, <3>1, <3>2, ForkingType DEF ForksInFlight
    <3>3. ASSUME Born(f)
          PROVE  Ran(f.act.child)'
      <4>1. proc' = [proc EXCEPT ![f.act.child].life = "running"]
        BY <1>1, <3>1, <3>3 DEF Emit, Forking, ForkChild
      <4> QED BY <1>0, <3>2, <3>3, <4>1 DEF KernelTypeOK, Ran
    <3> QED BY <3>2, <3>3
  <2>4. /\ DOMAIN events' = DOMAIN events \cup {n}
        /\ events'[n] = f
        /\ \A i \in DOMAIN events : events'[i] = events[i] /\ i < n /\ i \in Nat
    BY <1>0, <1>1 DEF Left
  <2> HIDE DEF n
  <2>5. \A i \in DOMAIN events : /\ events[i].pid \in Pid
                                 /\ Born(events[i]) => events[i].act.child \in Pid
    BY <1>0, RingEvent
  <2>6. ASSUME NEW i \in DOMAIN events'
        PROVE  /\ Ran(events[i].pid)'
               /\ Born(events[i])' => Ran(events[i].act.child)'
    <3>1. CASE i = n
      BY <2>1, <2>2, <2>3, <2>4, <3>1 DEF Born, Ran
    <3>2. CASE i \in DOMAIN events
      BY <1>0, <2>4, <2>5, <3>2 DEF BirthsFirst, Born, Ageing, Ran
    <3> QED BY <2>4, <3>1, <3>2
  <2>7. ASSUME NEW i \in DOMAIN events', NEW j \in DOMAIN events', i < j,
               Born(events'[j])
        PROVE  /\ events'[j].act.child # events'[i].pid
               /\ Born(events'[i]) => events'[j].act.child # events'[i].act.child
    <3>1. i \in DOMAIN events
      <4>1. n \in Nat
        BY <1>0 DEF n
      <4> QED BY <2>4, <2>7, <4>1
    <3>2. CASE j \in DOMAIN events
      BY <2>4, <2>7, <3>1, <3>2 DEF BirthsFirst
    <3>3. CASE j = n
      BY <2>3, <2>4, <2>7, <3>1, <3>3 DEF BirthsFirst, Ran
    <3> QED BY <2>4, <3>2, <3>3
  <2> QED BY <2>6, <2>7 DEF BirthsFirst, Born
<1> QED BY <1>0, <1>1, RingMoves, BirthsKept, EmitMoves

\* What becomes of the session's map and of the kernel's.
LEMMA FreeStep ==
  ASSUME ~PidReuse, TypeOK, ForksInFlight, Rooted, BirthsFirst, FreeUnknown,
         [Next]_vars
  PROVE  FreeUnknown'
<1>0. /\ KernelTypeOK /\ session \in SessionSet /\ Ageing
      /\ tracked_pids \in [Pid -> Nat \cup {Absent}]
      /\ session.pidPackage \in [Pid -> Nat]
  BY AgeingStep DEF TypeOK, KernelTypeOK, DaemonTypeOK, SessionSet
<1> DEFINE Fewer == \A p \in Pid : proc[p].life = "free" /\ p \notin Tracked
                      => p \notin Tracked'
           Same  == \A p \in Pid : proc[p].life = "free" /\ session.pidPackage[p] = 0
                      => session'.pidPackage[p] = 0
<1>1. Fewer /\ Same => FreeUnknown'
  BY <1>0 DEF FreeUnknown, Ageing
<1> USE DEF Tracked
<1>2. CASE EpollWait \/ LeaveLoop \/ Ping \/ Shutdown \/ StartRefused
           \/ ClearDone \/ ReportRefused \/ ReportRendered
           \/ StartConsume \/ EndConsume \/ LookupPush
           \/ (\E p \in Pid : TrackFailed(p))
           \/ (\E r \in Requests : Send(r)) \/ UNCHANGED vars
  BY <1>1, <1>2 DEF EpollWait, LeaveLoop, Ping, Shutdown, StartRefused,
                    ClearDone, ReportRefused, ReportRendered, StartConsume,
                    EndConsume, LookupPush, TrackFailed, Send, vars, kernelVars,
                    daemonVars
<1>3. CASE StartReset
  <2>1. Same
    BY <1>3 DEF StartReset, Reset, EmptySession
  <2> QED BY <1>1, <1>3, <2>1 DEF StartReset, kernelVars
<1>4. CASE EndPhaseRequest
  <2>1. Same
    BY <1>0, <1>4 DEF EndPhaseRequest, EndPhase, SessionSet
  <2> QED BY <1>1, <1>4, <2>1 DEF EndPhaseRequest
<1>5. ASSUME NEW p \in Pid, Track(p)
      PROVE  FreeUnknown'
  <2>1. Same
    BY <1>0, <1>5 DEF Track, StartPhase, SessionSet
  <2>2. Fewer
    BY <1>0, <1>5 DEF Track, Rooted
  <2> QED BY <1>1, <2>1, <2>2
<1>6. ASSUME NEW p \in Pid, ClearOne(p)
      PROVE  FreeUnknown'
  BY <1>0, <1>1, <1>6 DEF ClearOne, daemonVars
<1>7. CASE HandleEvent
  <2> DEFINE e == Head(events)
  <2>1. /\ e \in Event /\ e = events[1] /\ 1 \in DOMAIN events
        /\ session' = Handle(session, e) /\ tracked_pids' = tracked_pids
    BY <1>0, <1>7 DEF HandleEvent, KernelTypeOK
  <2> HIDE DEF e
  <2>2. Learnt(session, session', e)
    BY <1>0, <2>1, HandleLearns
  <2>3. Ran(e.pid) /\ (Born(e) => Ran(e.act.child))
    BY <2>1 DEF BirthsFirst
  <2>4. Same
    BY <2>2, <2>3 DEF Learnt, Ran
  <2> QED BY <1>1, <2>1, <2>4
<1>8. CASE WritePush
  <2>1. session' = session /\ Fewer
    BY <1>0, <1>8 DEF WritePush
  <2> QED BY <1>1, <2>1
<1>9. ASSUME NEW p \in Pid, Activity(p), Attached
      PROVE  FreeUnknown'
  <2>1. \A q \in Pid : tracked_pids'[q] \in {tracked_pids[q], Absent}
    BY <1>0, <1>9 DEF Activity, ForkUntracked, ForkLookup, SyscallUntracked,
                      SyscallLookup, ExecLookup, Chdir, CloneLookup, Exit,
                      LeaderExit, Reap
  <2> QED BY <1>1, <1>9, <2>1 DEF Attached, daemonVars
<1>10. ASSUME NEW p \in Pid, Program(p), Attached
       PROVE  FreeUnknown'
  <2>1. CASE UpdateChild(p)
    <3> DEFINE c == ForkChild(p)
    <3>1. Forking(p)
      BY <2>1 DEF UpdateChild, ForksInFlight
    <3>2. c \in Pid /\ proc[c].life # "free"
      BY <1>0, <3>1, ForkingType DEF ForksInFlight, Forking
    <3>3. \/ tracked_pids' = tracked_pids
          \/ tracked_pids' = [tracked_pids EXCEPT ![c] = prog[p].event.pkg]
      BY <2>1 DEF UpdateChild, ForkChild
    <3> HIDE DEF c
    <3> QED BY <1>0, <1>1, <1>10, <3>2, <3>3 DEF Attached, daemonVars
  <2>2. CASE Emit(p)
    BY <1>1, <1>10, <2>2 DEF Emit, Attached, daemonVars
  <2> QED BY <1>10, <2>1, <2>2 DEF Program
<1> QED BY <1>2, <1>3, <1>4, <1>5, <1>6, <1>7, <1>8, <1>9, <1>10
        DEF Next, DaemonStep, Serve, Drain
-----------------------------------------------------------------------------
(* Package ids on their way: the events that have not been handled yet, in *)
(* programs in flight and in the ring buffer, and where steps take them.   *)

InFlight == {prog[p].event : p \in {q \in Pid : prog[q] # Idle}}
Unread   == {events[i] : i \in {j \in DOMAIN events : j > Handled}}
Pending  == InFlight \cup Unread

Forked(e) == e.act.type = "fork"

\* The programs that may read another process's id, for their own entry in
\* the map was replaced or removed under them, are of processes the daemon
\* has an id of its own for.
StaleKnown == session.active =>
  \A p \in Pid : prog[p] # Idle /\ ~prog[p].fresh
    => session.pidPackage[p] # 0

LEMMA FlightEvent ==
  ASSUME KernelTypeOK, ForksInFlight, FlightOrder, NEW p \in Pid,
         prog[p] # Idle
  PROVE  /\ prog[p].event \in Event /\ prog[p].event.pid = p
         /\ proc[p].life = "running"
         /\ Forked(prog[p].event) =>
              Forking(p) /\ ForkChild(p) = prog[p].event.act.child
         /\ Born(prog[p].event) =>
              /\ Forking(p) /\ ForkChild(p) = prog[p].event.act.child
              /\ proc[prog[p].event.act.child].life = "new"
BY ProgramOf DEF FlightOrder, ForksInFlight, Born, Forked, Forking, ForkChild

\* A pending event is about a process that has run, and a fork in it about a
\* child there has been.
LEMMA PendingEvent ==
  ASSUME KernelTypeOK, ForksInFlight, FlightOrder, BirthsFirst,
         NEW e \in Pending
  PROVE  /\ e \in Event /\ e.pid \in Pid /\ e.pkg \in Nat /\ Ran(e.pid)
         /\ Forked(e) =>
              e.act.child \in Pid /\ proc[e.act.child].life # "free"
<1>1. ASSUME NEW p \in Pid, prog[p] # Idle, e = prog[p].event
      PROVE  /\ e \in Event /\ e.pid = p /\ proc[p].life = "running"
             /\ Forked(e) =>
                  e.act.child \in Pid /\ proc[e.act.child].life # "free"
  BY <1>1, FlightEvent, ForkingType DEF ForksInFlight
<1>2. ASSUME NEW i \in DOMAIN events, e = events[i]
      PROVE  /\ e \in Event /\ Ran(e.pid)
             /\ Forked(e) =>
                  e.act.child \in Pid /\ proc[e.act.child].life # "free"
  <2>1. e \in Event /\ e.act \in Act /\ Ran(e.pid)
    BY <1>2, RingEvent DEF BirthsFirst, Event
  <2>2. Forked(e) => e.act.child \in Pid
    BY <2>1 DEF Forked, Act, ExecAct, OpenAct, ConnectAct, ForkAct
  <2>3. Forked(e) => e.act.child = e.pid \/ Born(e)
    BY DEF Forked, Born
  <2> QED BY <1>2, <2>1, <2>2, <2>3 DEF BirthsFirst, Ran
<1>3. e \in Event /\ Ran(e.pid)
      /\ (Forked(e) => e.act.child \in Pid /\ proc[e.act.child].life # "free")
  BY <1>1, <1>2 DEF Pending, InFlight, Unread, Ran
<1> QED BY <1>3 DEF Event

\* A process is born once, and before the daemon is told what it did.
LEMMA OneBirth ==
  ASSUME KernelTypeOK, ForksInFlight, FlightOrder, BirthsFirst,
         NEW e \in Pending, NEW f \in Pending, Born(e), Born(f),
         e.act.child = f.act.child
  PROVE  e = f
<1>1. ASSUME NEW p \in Pid, prog[p] # Idle, e = prog[p].event,
             NEW q \in Pid, prog[q] # Idle, f = prog[q].event
      PROVE  e = f
  BY <1>1, FlightEvent DEF ForksInFlight
<1>2. ASSUME NEW p \in Pid, prog[p] # Idle, NEW i \in DOMAIN events
      PROVE  /\ e = prog[p].event => f # events[i]
             /\ f = prog[p].event => e # events[i]
  BY <1>2, FlightEvent DEF BirthsFirst, Ran
<1>3. ASSUME NEW i \in DOMAIN events, NEW j \in DOMAIN events,
             e = events[i], f = events[j]
      PROVE  e = f
  <2>1. i \in Nat /\ j \in Nat
    BY DEF KernelTypeOK
  <2>2. ~(i < j) /\ ~(j < i)
    BY <1>3 DEF BirthsFirst
  <2> QED BY <1>3, <2>1, <2>2
<1> QED BY <1>1, <1>2, <1>3 DEF Pending, InFlight, Unread

\* When the daemon handles an event, the births still pending are not of the
\* processes this event is about.
LEMMA HeadBefore ==
  ASSUME TypeOK, ForksInFlight, FlightOrder, BirthsFirst, HandleEvent,
         NEW g \in Pending'
  PROVE  /\ g \in Pending
         /\ Born(g) =>
              /\ g.act.child # Head(events).pid
              /\ Born(Head(events)) => g.act.child # Head(events).act.child
<1> DEFINE e == Head(events)
           Apart == Born(g) => /\ g.act.child # e.pid
                               /\ Born(e) => g.act.child # e.act.child
<1>1. /\ events \in Seq(Event) /\ events # << >> /\ prog' = prog
      /\ pushes = << >> /\ Handled = 0 /\ KernelTypeOK
  BY DEF TypeOK, KernelTypeOK, DaemonTypeOK, HandleEvent, Handled
<1>2. e = events[1] /\ 1 \in DOMAIN events
  BY <1>1
<1>3. \/ events' = Tail(events) /\ Handled' = 0
      \/ events' = events /\ Handled' = 1
  BY <1>1 DEF HandleEvent, Handled
<1> HIDE DEF e
<1>4. ASSUME NEW i \in DOMAIN events', i > Handled'
      PROVE  \E j \in DOMAIN events : 1 < j /\ j > 0 /\ events'[i] = events[j]
  <2>1. CASE events' = Tail(events) /\ Handled' = 0
    <3>1. i \in Nat \ {0} /\ i + 1 \in DOMAIN events /\ events'[i] = events[i + 1]
      BY <1>1, <2>1, TailIndices
    <3>2. 1 < i + 1 /\ i + 1 > 0
      BY <3>1
    <3> QED BY <3>1, <3>2
  <2>2. CASE events' = events /\ Handled' = 1
    BY <1>1, <1>4, <2>2
  <2> QED BY <1>3, <2>1, <2>2
<1>5. ASSUME NEW j \in DOMAIN events, 1 < j, j > 0, g = events[j]
      PROVE  g \in Pending /\ Apart
  BY <1>1, <1>2, <1>5 DEF BirthsFirst, Pending, Unread
<1>6. ASSUME NEW p \in Pid, prog[p] # Idle, g = prog[p].event
      PROVE  g \in Pending /\ Apart
  <2>1. Born(g) => proc[g.act.child].life = "new"
    BY <1>1, <1>6, FlightEvent
  <2> QED BY <1>2, <1>6, <2>1 DEF BirthsFirst, Ran, Pending, InFlight
<1>7. \/ \E i \in DOMAIN events' : i > Handled' /\ g = events'[i]
      \/ \E p \in Pid : prog[p] # Idle /\ g = prog[p].event
  BY <1>1 DEF Pending, InFlight, Unread
<1> QED BY <1>4, <1>5, <1>6, <1>7 DEF e

\* e goes on as g: only an open's or a connect's id is read late, and may
\* then be somebody else's.
Carried(e, g) ==
  /\ g.pid = e.pid /\ g.act = e.act /\ g.watched = e.watched
  /\ \/ g.pkg = e.pkg
     \/ ~Origin(e) /\ session.pidPackage[e.pid] # 0 /\ g.pkg \in OtherIds

\* g is the event of a program that starts with this step.
Met(g) ==
  /\ g.pid \in Tracked /\ g.pkg = tracked_pids[g.pid]
  /\ proc[g.pid].life = "running"
  /\ g.watched <=> g.pid \in watched
  /\ Forked(g) => g.act.child \in Pid /\ (g.watched => g.act.child \in watched')
  /\ Born(g) => /\ proc[g.act.child].life = "free"
                /\ past'[g.act.child].parents
                     = past[g.pid].parents \cup {g.act.child}

\* The id of q in the map, if changed, is the one the daemon knows, or that of
\* the parent, with a fork in flight.
Handed(q) ==
  \/ tracked_pids'[q] \in {tracked_pids[q], Absent}
  \/ /\ q \in Tracked /\ session.pidPackage[q] # 0
     /\ tracked_pids'[q] = session.pidPackage[q]
  \/ \E e \in Pending :
       Forked(e) /\ e.act.child = q /\ tracked_pids'[q] = e.pkg

\* A step of a phase that adds nothing to what the daemon knows.
Flow ==
  /\ session' = session
  /\ \A i \in DOMAIN pushes' : \E j \in DOMAIN pushes : pushes'[i] = pushes[j]
  /\ \A g \in Pending' : Met(g) \/ \E e \in Pending : Carried(e, g)
  /\ \A q \in Pid : Handed(q)
  /\ \A p \in Pid : prog'[p] # Idle /\ ~prog'[p].fresh
       => \/ prog[p] # Idle /\ ~prog[p].fresh
          \/ session.pidPackage[p] # 0

\* An id that is about to be written to the map is the one the daemon knows.
PushesKnown == session.active =>
  \A i \in DOMAIN pushes :
    pushes[i].id # 0 /\ session.pidPackage[pushes[i].pid] = pushes[i].id

LEMMA SamePending ==
  ASSUME FlightsKept, Unread' \subseteq Unread
  PROVE  \A g \in Pending' : g \in Pending /\ Carried(g, g)
<1>1. InFlight' \subseteq InFlight
  BY DEF FlightsKept, InFlight
<1> QED BY <1>1 DEF Pending, Carried

LEMMA NextPushFlow ==
  ASSUME TypeOK, pc \in {"lookup", "write"}, NextPush
  PROVE  /\ Unread' \subseteq Unread
         /\ \A i \in DOMAIN pushes' :
              \E j \in DOMAIN pushes : pushes'[i] = pushes[j]
<1>1. /\ events \in Seq(Event) /\ pushes \in Seq(PushSet)
      /\ pushes # << >> /\ events # << >>
      /\ pushes' = Tail(pushes)
      /\ IF pushes' = << >> THEN events' = Tail(events) ELSE events' = events
  BY DEF TypeOK, KernelTypeOK, DaemonTypeOK, NextPush
<1>2. ASSUME NEW i \in DOMAIN events', i > Handled'
      PROVE  \E j \in DOMAIN events : j > Handled /\ events'[i] = events[j]
  <2>1. CASE events' = Tail(events)
    <3>1. i \in Nat \ {0} /\ i + 1 \in DOMAIN events /\ events'[i] = events[i + 1]
      BY <1>1, <2>1, TailIndices
    <3>2. i + 1 > 1
      BY <3>1
    <3> QED BY <1>1, <3>1, <3>2 DEF Handled
  <2>2. CASE events' = events /\ pushes' # << >>
    BY <1>1, <1>2, <2>2 DEF Handled
  <2> QED BY <1>1, <2>1, <2>2
<1>3. Unread' \subseteq Unread
  BY <1>2 DEF Unread
<1> QED BY <1>1, <1>3, TailIndices

LEMMA LookupFlow ==
  ASSUME TypeOK, LookupPush
  PROVE  Flow
<1>1. /\ session' = session /\ prog' = prog /\ tracked_pids' = tracked_pids
      /\ pc \in {"lookup", "write"}
  BY DEF LookupPush
<1>2. CASE NextPush
  BY <1>1, <1>2, NextPushFlow, SameKeeps, SamePending DEF Flow, Handed
<1>3. CASE UNCHANGED <<events, pushes>>
  <2>1. Unread' \subseteq Unread
    BY <1>3 DEF Unread, Handled
  <2> QED BY <1>1, <1>3, <2>1, SameKeeps, SamePending DEF Flow, Handed
<1> QED BY <1>2, <1>3 DEF LookupPush

LEMMA WriteFlow ==
  ASSUME TypeOK, PushesKnown, session.active, WritePush
  PROVE  Flow
<1> DEFINE p  == Head(pushes).pid
           id == Head(pushes).id
<1>1. /\ session' = session /\ pc = "write" /\ NextPush
      /\ \/ /\ p \in Tracked
            /\ tracked_pids' = [tracked_pids EXCEPT ![p] = id]
            /\ prog' = Recycle(p)
         \/ UNCHANGED <<tracked_pids, prog>>
  BY DEF WritePush
<1>2. KernelTypeOK /\ pushes \in Seq(PushSet) /\ pushes # << >>
  BY <1>1 DEF TypeOK, DaemonTypeOK
<1>3. Head(pushes) = pushes[1] /\ 1 \in DOMAIN pushes
  BY <1>2
<1>4. id # 0 /\ session.pidPackage[p] = id
  BY <1>3 DEF PushesKnown
<1>5. FlightsKept
  BY <1>1, <1>2, RecycleKeeps, SameKeeps DEF Tracked
<1> HIDE DEF p, id
<1>6. \A q \in Pid : Handed(q)
  BY <1>1, <1>2, <1>4 DEF Handed, KernelTypeOK
<1>7. ASSUME NEW q \in Pid, prog'[q] # Idle, ~prog'[q].fresh, q # p
      PROVE  prog[q] # Idle /\ ~prog[q].fresh
  BY <1>1, <1>2, <1>7 DEF Recycle, KernelTypeOK
<1> QED BY <1>1, <1>4, <1>5, <1>6, <1>7, NextPushFlow, SamePending DEF Flow

LEMMA QuietFlow ==
  ASSUME KernelTypeOK, prog' = prog,
         UNCHANGED <<events, session, pushes>>,
         \A q \in Pid : tracked_pids'[q] \in {tracked_pids[q], Absent}
  PROVE  Flow
<1>1. Unread' \subseteq Unread
  BY DEF Unread, Handled
<1> QED BY <1>1, SameKeeps, SamePending DEF Flow, Handed

LEMMA StartFlow ==
  ASSUME KernelTypeOK, NEW p \in Pid, NEW x, prog' = [prog EXCEPT ![p] = x],
         x.fresh, Met(x.event),
         UNCHANGED <<tracked_pids, events, session, pushes>>
  PROVE  Flow
<1>1. /\ prog'[p] = x
      /\ \A q \in Pid \ {p} : prog'[q] = prog[q]
  BY DEF KernelTypeOK
<1>2. Unread' = Unread
  BY DEF Unread, Handled
<1>3. InFlight' \subseteq InFlight \cup {x.event}
  BY <1>1 DEF InFlight
<1>4. \A g \in Pending' : g = x.event \/ (g \in Pending /\ Carried(g, g))
  BY <1>2, <1>3 DEF Pending, Carried
<1> QED BY <1>1, <1>4 DEF Flow, Handed

LEMMA ActivityFlow ==
  ASSUME KernelTypeOK, NEW p \in Pid, Activity(p),
         UNCHANGED <<session, pushes>>
  PROVE  Flow
<1>0. /\ prog \in [Pid -> Prog]
      /\ tracked_pids \in [Pid -> Nat \cup {Absent}]
      /\ past \in [Pid -> [homes : SUBSET Package, parents : SUBSET Pid]]
  BY DEF KernelTypeOK
<1> DEFINE started(x, act) ==
             /\ p \in Tracked /\ Ready(p)
             /\ prog' = [prog EXCEPT ![p] = x] /\ x.fresh
             /\ x.event.pid = p /\ x.event.pkg = tracked_pids[p]
             /\ x.event.act = act /\ (x.event.watched <=> p \in watched)
             /\ UNCHANGED <<tracked_pids, events, session, pushes>>
<1>1. ASSUME NEW act \in Act, act.type # "fork", NEW x, started(x, act)
      PROVE  Flow
  <2>1. Met(x.event)
    BY <1>1 DEF Met, Forked, Born, Ready
  <2> QED BY <1>1, <2>1, StartFlow
<1>2. ASSUME NEW c \in Pid, ForkLookup(p, c)
      PROVE  Flow
  <2> DEFINE x == [pc |-> "update", fresh |-> TRUE,
                   event |-> EventOf(p, [type |-> "fork", child |-> c])]
  <2>1. started(x, [type |-> "fork", child |-> c])
    BY <1>2 DEF ForkLookup, Run, EventOf
  <2>2. x.event.act.child = c
    BY DEF EventOf
  <2> HIDE DEF x
  <2>3. /\ proc[c].life = "free"
        /\ past'[c].parents = past[p].parents \cup {c}
        /\ p \in watched => c \in watched'
    BY <1>0, <1>2 DEF ForkLookup, Child
  <2>4. Met(x.event)
    BY <2>1, <2>2, <2>3 DEF Met, Ready
  <2> QED BY <2>1, <2>4, StartFlow
<1>3. CASE CloneLookup(p)
  <2> DEFINE x == [pc |-> "update", fresh |-> TRUE,
                   event |-> EventOf(p, [type |-> "fork", child |-> p])]
  <2>1. started(x, [type |-> "fork", child |-> p]) /\ watched' = watched
    BY <1>3 DEF CloneLookup, Run, EventOf
  <2>2. x.event.act.child = p
    BY DEF EventOf
  <2> HIDE DEF x
  <2>3. Met(x.event)
    BY <2>1, <2>2 DEF Met, Ready, Born
  <2> QED BY <2>1, <2>3, StartFlow
<1>4. ASSUME NEW act \in Syscalls, act.type # "exec", SyscallLookup(p, act)
      PROVE  Flow
  <2> DEFINE x == [pc |-> "emit", fresh |-> TRUE, event |-> EventOf(p, act)]
  <2>1. started(x, act)
    BY <1>4 DEF SyscallLookup, Run, EventOf
  <2>2. act \in Act /\ act.type # "fork"
    BY KernelAssumption DEF Act, ExecAct, OpenAct, ConnectAct
  <2> QED BY <1>1, <2>1, <2>2
<1>5. ASSUME NEW act \in Syscalls, ExecLookup(p, act)
      PROVE  Flow
  <2> DEFINE x == [pc |-> "emit", fresh |-> TRUE,
                   event |-> [EventOf(p, act) EXCEPT !.env = act.env]]
  <2>1. started(x, act)
    BY <1>5 DEF ExecLookup, EventOf
  <2>2. act \in Act /\ act.type # "fork"
    BY KernelAssumption DEF Act, ExecAct, OpenAct, ConnectAct
  <2> QED BY <1>1, <2>1, <2>2
<1>6. CASE /\ prog' = prog /\ events' = events
           /\ \A q \in Pid : tracked_pids'[q] \in {tracked_pids[q], Absent}
  BY <1>6, QuietFlow
<1>7. ASSUME NEW c \in Pid, ForkUntracked(p, c)
      PROVE  Flow
  BY <1>6, <1>7 DEF ForkUntracked
<1>8. ASSUME NEW act \in Syscalls, SyscallUntracked(p, act)
      PROVE  Flow
  BY <1>6, <1>8 DEF SyscallUntracked
<1>9. ASSUME NEW d \in Package \cup {NoPackage}, Chdir(p, d)
      PROVE  Flow
  BY <1>6, <1>9 DEF Chdir
<1>10. CASE Exit(p) \/ LeaderExit(p) \/ Reap(p)
  BY <1>0, <1>6, <1>10 DEF Exit, LeaderExit, Reap
<1> QED BY <1>2, <1>3, <1>4, <1>5, <1>7, <1>8, <1>9, <1>10 DEF Activity

LEMMA UpdateFlow ==
  ASSUME KernelTypeOK, ForksInFlight, NEW p \in Pid, UpdateChild(p),
         UNCHANGED <<session, pushes>>
  PROVE  Flow
<1> DEFINE e == prog[p].event
<1>1. /\ prog[p] # Idle /\ Forked(e) /\ events' = events
      /\ prog' = [prog EXCEPT ![p].pc = "emit"]
      /\ \/ tracked_pids' = tracked_pids
         \/ tracked_pids' = [tracked_pids EXCEPT ![e.act.child] = e.pkg]
  BY DEF UpdateChild, ForksInFlight, Forking, Forked, Idle
<1>2. e \in Pending
  BY <1>1 DEF Pending, InFlight
<1>3. prog[p] \in [pc : {"update", "emit"}, event : Event, fresh : BOOLEAN]
  BY <1>1, ProgramOf
<1> HIDE DEF e
<1>4. /\ \A q \in Pid \ {p} : prog'[q] = prog[q]
      /\ prog'[p].event = prog[p].event /\ prog'[p].fresh = prog[p].fresh
  BY <1>1, <1>3 DEF KernelTypeOK
<1>5. InFlight' \subseteq InFlight /\ Unread' = Unread
  BY <1>1, <1>4 DEF InFlight, Unread, Handled
<1>6. \A g \in Pending' : g \in Pending /\ Carried(g, g)
  BY <1>5 DEF Pending, Carried
<1>7. \A q \in Pid : Handed(q)
  BY <1>1, <1>2 DEF Handed, KernelTypeOK
<1> QED BY <1>1, <1>4, <1>6, <1>7 DEF Flow

LEMMA EmitFlow ==
  ASSUME TypeOK, ForksInFlight, FlightOrder, StaleKnown, session.active,
         NEW p \in Pid, Emit(p), UNCHANGED <<session, pushes>>
  PROVE  Flow
<1>0. KernelTypeOK /\ events \in Seq(Event)
  BY DEF TypeOK, KernelTypeOK
<1> DEFINE e == prog[p].event
<1>1. /\ prog[p] # Idle /\ prog' = [prog EXCEPT ![p] = Idle]
      /\ events' = events \/ \E f \in Event : Left(p, f)
      /\ tracked_pids' = tracked_pids
  BY <1>0, EmitMoves DEF Emit
<1>2. e \in Pending /\ e.pid = p
  BY <1>1 DEF Pending, InFlight, FlightOrder
<1>3. InFlight' \subseteq InFlight
  BY <1>0, <1>1 DEF InFlight, KernelTypeOK
<1>4. ASSUME NEW f \in Event, Left(p, f)
      PROVE  Carried(e, f)
  <2>1. /\ f.pid = p /\ f.act = e.act /\ f.watched = e.watched
        /\ f.pkg \in EventPkgs(p)
    BY <1>0, <1>4, EmitMoves
  <2>2. \/ f.pkg = e.pkg
        \/ ~prog[p].fresh /\ ~Origin(e) /\ f.pkg \in OtherIds
    BY <2>1 DEF EventPkgs, Origin
  <2> QED BY <1>1, <1>2, <2>1, <2>2 DEF Carried, StaleKnown
<1>5. ASSUME NEW f \in Event, Left(p, f)
      PROVE  Unread' \subseteq Unread \cup {f}
  <2>1. events' = Append(events, f) /\ Handled' = Handled
    BY <1>5 DEF Left, Handled
  <2>2. \A i \in DOMAIN events' : \/ i \in DOMAIN events /\ events'[i] = events[i]
                                  \/ events'[i] = f
    BY <1>0, <2>1
  <2> QED BY <2>1, <2>2 DEF Unread
<1>6. events' = events => Unread' = Unread
  BY DEF Unread, Handled
<1>7. \A g \in Pending' : (g \in Pending /\ Carried(g, g)) \/ Carried(e, g)
  BY <1>1, <1>3, <1>4, <1>5, <1>6 DEF Pending, Carried
<1>8. \A q \in Pid : prog'[q] # Idle => prog'[q] = prog[q]
  BY <1>0, <1>1 DEF KernelTypeOK
<1> QED BY <1>1, <1>2, <1>7, <1>8 DEF Flow, Handed

\* Every step of an open phase is one of these.
LEMMA PhaseStep ==
  ASSUME TypeOK, ForksInFlight, FlightOrder, PhaseMarks, ResetUntilTracked,
         StaleKnown, PushesKnown, [Next]_vars, session'.active
  PROVE  \/ session.active /\ HandleEvent
         \/ session.active /\ Flow
         \/ \E p \in Pid : Track(p)
<1>0. KernelTypeOK /\ session \in SessionSet
  BY DEF TypeOK, DaemonTypeOK
<1>1. CASE StartReset \/ EndPhaseRequest
  <2>1. ~session'.active
    BY <1>0, <1>1 DEF StartReset, Reset, EmptySession, EndPhaseRequest,
                      EndPhase, SessionSet
  <2> QED BY <2>1
<1>2. CASE UNCHANGED <<prog, events, tracked_pids, session, pushes>>
  BY <1>0, <1>2, QuietFlow
<1>3. CASE EpollWait \/ LeaveLoop \/ Ping \/ Shutdown \/ StartRefused
           \/ ClearDone \/ ReportRefused \/ ReportRendered
           \/ StartConsume \/ EndConsume
           \/ (\E p \in Pid : TrackFailed(p))
           \/ (\E r \in Requests : Send(r)) \/ UNCHANGED vars
  BY <1>2, <1>3 DEF EpollWait, LeaveLoop, Ping, Shutdown, StartRefused,
                    ClearDone, ReportRefused, ReportRendered, StartConsume,
                    EndConsume, TrackFailed, Send, vars, kernelVars,
                    daemonVars
<1>4. CASE \E p \in Pid : ClearOne(p)
  BY <1>4 DEF ClearOne, PhaseMarks, daemonVars
<1>5. CASE LookupPush \/ WritePush
  <2>1. session.active
    BY <1>5 DEF LookupPush, WritePush
  <2> QED BY <1>5, <2>1, LookupFlow, WriteFlow
<1>6. CASE HandleEvent
  BY <1>6, HandleEventKeeps
<1>7. ASSUME NEW p \in Pid, Activity(p) \/ Program(p), Attached
      PROVE  session.active /\ Flow
  <2>1. UNCHANGED <<session, pushes>> /\ session.active
    BY <1>7 DEF Attached, daemonVars
  <2> QED BY <1>0, <1>7, <2>1, ActivityFlow, UpdateFlow, EmitFlow DEF Program
<1> QED BY <1>1, <1>2, <1>3, <1>4, <1>5, <1>6, <1>7
        DEF Next, DaemonStep, Serve, Drain
-----------------------------------------------------------------------------
(* The first phase starts from nothing; families only grow. *)

\* Before the first phase no program has found its process in the map.
Beginning ==
  window.no = 0 =>
    Tracked = {} /\ events = << >> /\ \A p \in Pid : prog[p] = Idle

LEMMA BeginningStep ==
  ASSUME TypeOK, Beginning, [Next]_vars
  PROVE  Beginning'
<1>0. /\ KernelTypeOK /\ window.no \in Nat
      /\ prog \in [Pid -> Prog]
      /\ tracked_pids \in [Pid -> Nat \cup {Absent}]
  BY DEF TypeOK, KernelTypeOK
<1>1. window'.no = window.no \/ \E p \in Pid : Track(p)
  BY <1>0 DEF Next, DaemonStep, Serve, Drain, EpollWait, LeaveLoop, Ping, Shutdown,
         StartRefused, StartReset, TrackFailed, ClearOne, ClearDone,
         ReportRefused, ReportRendered, StartConsume, HandleEvent, EndConsume,
         LookupPush, WritePush, Send, EndPhaseRequest, vars, kernelVars,
         Activity, ForkUntracked, ForkLookup, SyscallUntracked, SyscallLookup,
         ExecLookup, Chdir, CloneLookup, Exit, LeaderExit, Reap, Program,
         UpdateChild, Emit, KernelTypeOK
<1>2. ASSUME NEW p \in Pid, Track(p)
      PROVE  window'.no # 0
  BY <1>0, <1>2 DEF Track
<1> SUFFICES ASSUME window.no = 0, ~ \E p \in Pid : Track(p)
             PROVE  Beginning'
  BY <1>1, <1>2 DEF Beginning
<1>3. Tracked = {} /\ events = << >> /\ \A p \in Pid : prog[p] = Idle
  BY DEF Beginning
<1>4. ASSUME NEW p \in Pid
      PROVE  ~Program(p)
  BY <1>3 DEF Program, UpdateChild, Emit, Idle
<1>5. events' = << >>
  BY <1>3, <1>4, RingMoves DEF Program
<1>6. ASSUME DaemonStep \/ (\E r \in Requests : Send(r)) \/ UNCHANGED vars
      PROVE  Tracked' = {} /\ \A p \in Pid : prog'[p] = Idle
  <2>1. \A p \in Pid : prog'[p] = Idle
    BY <1>3, <1>6, DaemonKeeps DEF FlightsKept
  <2>2. tracked_pids' = tracked_pids
    <3>1. CASE WritePush
      BY <1>3, <3>1 DEF WritePush
    <3>2. CASE \E p \in Pid : ClearOne(p)
      BY <1>3, <3>2 DEF ClearOne
    <3> QED
      BY <1>6, <3>1, <3>2
         DEF DaemonStep, Serve, Drain, EpollWait, LeaveLoop, Ping, Shutdown,
             StartRefused, StartReset, TrackFailed, ClearDone, ReportRefused,
             ReportRendered, StartConsume, HandleEvent, EndConsume,
             LookupPush, Send, EndPhaseRequest, vars, kernelVars
  <2> QED BY <1>3, <2>1, <2>2 DEF Tracked
<1>7. ASSUME NEW p \in Pid, Activity(p)
      PROVE  Tracked' = {} /\ \A q \in Pid : prog'[q] = Idle
  <2>1. p \notin Tracked
    BY <1>3
  <2>2. prog' = prog /\ (tracked_pids' = tracked_pids
                        \/ tracked_pids' = [tracked_pids EXCEPT ![p] = Absent])
    BY <1>7, <2>1 DEF Activity, ForkUntracked, ForkLookup, SyscallUntracked,
                      SyscallLookup, ExecLookup, Chdir, CloneLookup, Exit,
                      LeaderExit, Reap
  <2> QED BY <1>0, <1>3, <2>2 DEF Tracked
<1> QED BY <1>4, <1>5, <1>6, <1>7 DEF Next, Beginning

\* A process is of its own lineage, and knows the directories it has been in;
\* its ancestors have lived.
PastInv ==
  \A p \in Pid :
    /\ p \in past[p].parents
    /\ proc[p].cwd \in past[p].homes \cup {NoPackage}
    /\ proc[p].life # "free" =>
         \A q \in past[p].parents : proc[q].life # "free"

\* Whoever has lived keeps its ancestors and what they have seen.
Remembering ==
  \A p \in Pid : proc[p].life # "free" =>
    /\ past'[p].parents = past[p].parents
    /\ past[p].homes \subseteq past'[p].homes

LEMMA RememberingStep ==
  ASSUME TypeOK, [Next]_vars
  PROVE  Remembering
<1>0. past \in [Pid -> [homes : SUBSET Package, parents : SUBSET Pid]]
  BY DEF TypeOK, KernelTypeOK
<1>1. CASE past' = past
  BY <1>1 DEF Remembering
<1>2. ASSUME NEW p \in Pid, NEW c \in Pid, Child(p, c)
      PROVE  Remembering
  BY <1>0, <1>2 DEF Child, Remembering
<1>3. ASSUME NEW p \in Pid, NEW d, Chdir(p, d)
      PROVE  Remembering
  BY <1>0, <1>3 DEF Chdir, Remembering
<1>4. ASSUME NEW p \in Pid, Activity(p)
      PROVE  Remembering
  BY <1>1, <1>2, <1>3, <1>4
     DEF Activity, ForkUntracked, ForkLookup, SyscallUntracked, SyscallLookup,
         ExecLookup, CloneLookup, Exit, LeaderExit, Reap
<1>5. CASE DaemonStep \/ (\E r \in Requests : Send(r)) \/ UNCHANGED vars
           \/ (\E p \in Pid : Program(p))
  BY <1>1, <1>5
     DEF DaemonStep, Serve, Drain, EpollWait, LeaveLoop, Ping, Shutdown,
         StartRefused, StartReset, Track, TrackFailed, ClearOne, ClearDone,
         ReportRefused, ReportRendered, StartConsume, HandleEvent, EndConsume,
         LookupPush, WritePush, Send, EndPhaseRequest, vars, kernelVars,
         Program, UpdateChild, Emit
<1> QED BY <1>4, <1>5 DEF Next

LEMMA PastInvStep ==
  ASSUME ~PidReuse, TypeOK, ForksInFlight, PastInv, [Next]_vars
  PROVE  PastInv'
<1>0. /\ past \in [Pid -> [homes : SUBSET Package, parents : SUBSET Pid]]
      /\ proc \in [Pid -> [life : {"free", "new", "running", "zombie"},
                           cwd  : Package \cup {NoPackage},
                           env  : SUBSET Token]]
      /\ KernelTypeOK /\ Ageing
  BY AgeingStep DEF TypeOK, KernelTypeOK
<1>1. CASE /\ past' = past
           /\ \A q \in Pid : /\ proc'[q].cwd = proc[q].cwd
                             /\ proc'[q].life # "free" => proc[q].life # "free"
  BY <1>0, <1>1 DEF PastInv, Ageing
<1>2. ASSUME NEW p \in Pid, NEW c \in Pid, Child(p, c), Ready(p),
             NEW life, life # "free",
             proc' = [proc EXCEPT ![c] = [proc[p] EXCEPT !.life = life]]
      PROVE  PastInv'
  <2>1. p # c /\ proc[p].life # "free" /\ proc[c].life = "free"
    BY <1>2 DEF Ready, Child
  <2>2. /\ past'[c].homes = past[p].homes
        /\ past'[c].parents = past[p].parents \cup {c}
        /\ proc'[c].cwd = proc[p].cwd /\ proc'[c].life # "free"
        /\ \A q \in Pid \ {c} : past'[q] = past[q] /\ proc'[q] = proc[q]
    BY <1>0, <1>2 DEF Child
  <2> QED BY <1>0, <2>1, <2>2 DEF PastInv
<1>3. ASSUME NEW p \in Pid, NEW d \in Package \cup {NoPackage}, Chdir(p, d)
      PROVE  PastInv'
  <2>1. /\ past'[p].homes = past[p].homes \cup ({d} \ {NoPackage})
        /\ \A q \in Pid : past'[q].parents = past[q].parents
                          /\ proc'[q].life = proc[q].life
        /\ proc'[p].cwd = d
        /\ \A q \in Pid \ {p} : past'[q].homes = past[q].homes
                                /\ proc'[q].cwd = proc[q].cwd
    BY <1>0, <1>3 DEF Chdir
  <2> QED BY <1>0, <2>1 DEF PastInv
<1>4. ASSUME NEW p \in Pid, Activity(p)
      PROVE  PastInv'
  <2>1. ASSUME NEW act \in Syscalls,
               \/ SyscallUntracked(p, act) \/ SyscallLookup(p, act)
               \/ ExecLookup(p, act)
        PROVE  PastInv'
    BY <1>0, <1>1, <2>1 DEF SyscallUntracked, SyscallLookup, ExecLookup
  <2>2. CASE CloneLookup(p) \/ Exit(p) \/ LeaderExit(p)
    BY <1>0, <1>1, <2>2 DEF CloneLookup, Exit, LeaderExit
  <2> QED BY <1>2, <1>3, <1>4, <2>1, <2>2
          DEF Activity, Reap, ForkUntracked, ForkLookup
<1>5. ASSUME NEW p \in Pid, Program(p)
      PROVE  PastInv'
  <2>1. /\ past' = past
        /\ \/ proc' = proc
           \/ /\ Forking(p)
              /\ proc' = [proc EXCEPT ![ForkChild(p)].life = "running"]
    BY <1>5 DEF Program, UpdateChild, Emit, Forking, ForkChild, Idle
  <2>2. Forking(p) => proc[ForkChild(p)].life # "free"
    BY DEF ForksInFlight, Forking
  <2> QED BY <1>0, <1>1, <2>1, <2>2, ForkingType
<1>6. CASE DaemonStep \/ (\E r \in Requests : Send(r)) \/ UNCHANGED vars
  <2>1. past' = past /\ proc' = proc
    BY <1>6
       DEF DaemonStep, Serve, Drain, EpollWait, LeaveLoop, Ping, Shutdown,
           StartRefused, StartReset, Track, TrackFailed, ClearOne, ClearDone,
           ReportRefused, ReportRendered, StartConsume, HandleEvent,
           EndConsume, LookupPush, WritePush, Send, EndPhaseRequest, vars,
           kernelVars
  <2> QED BY <1>1, <2>1
<1> QED BY <1>4, <1>5, <1>6 DEF Next
-----------------------------------------------------------------------------
(* One id for a process, in the map, on its way and in the session. *)

\* The ids that stand for p: its entry in the map, and what was copied from
\* there into the fork and exec events that are still pending.
Ids(p) ==
  ({tracked_pids[p]} \ {Absent})
    \cup {e.pkg : e \in {f \in Pending : Origin(f) /\ f.pid = p}}

\* They are one as long as the daemon has no id for p, which will then be that
\* one; once it has, they are that or none yet.  A child whose fork has not
\* been handled is yet to get an id from it.
IdsInv == session.active =>
  /\ \A p \in Pid :
       IF session.pidPackage[p] = 0
       THEN \A m, n \in Ids(p) : m = n
       ELSE Ids(p) \subseteq {0, session.pidPackage[p]}
  /\ \A e \in Pending : Born(e) =>
       session.pidPackage[e.act.child] = 0 /\ Ids(e.act.child) \subseteq {e.pkg}

\* A phase starts quietly when nothing is left of an earlier one: no entry in
\* the map, no event in the ring buffer, no program in flight.
QuietStart ==
  (\E p \in Pid : Track(p)) =>
    Tracked = {} /\ events = << >> /\ \A q \in Pid : prog[q] = Idle

\* What a quiet start leaves.
LEMMA TrackBegins ==
  ASSUME TypeOK, QuietStart, ResetUntilTracked, NEW p \in Pid, Track(p)
  PROVE  /\ Pending' = {} /\ pushes' = << >>
         /\ \A q \in Pid : /\ prog'[q] = Idle
                           /\ tracked_pids'[q] \in {0, Absent}
                           /\ q # p => tracked_pids'[q] = Absent
         /\ session'.pidPackage = [q \in Pid |-> 0]
         /\ session'.packages = << >>
<1>1. Tracked = {} /\ events = << >> /\ \A q \in Pid : prog[q] = Idle
  BY DEF QuietStart
<1>2. /\ prog' = prog /\ events' = events /\ pushes' = pushes /\ pushes = << >>
      /\ tracked_pids' = [tracked_pids EXCEPT ![p] = 0]
      /\ session' = StartPhase(EmptySession, p)
  BY DEF Track, ResetUntilTracked, TypeOK, DaemonTypeOK
<1>3. tracked_pids \in [Pid -> Nat \cup {Absent}]
  BY DEF TypeOK, KernelTypeOK
<1>4. Pending' = {}
  BY <1>1, <1>2 DEF Pending, InFlight, Unread
<1>5. /\ session'.pidPackage = [q \in Pid |-> 0]
      /\ session'.packages = << >>
  BY <1>2 DEF StartPhase, EmptySession
<1> QED BY <1>1, <1>2, <1>3, <1>4, <1>5 DEF Tracked

\* What handling an event does.
LEMMA HandleFacts ==
  ASSUME TypeOK, HandleEvent
  PROVE  LET e == Head(events)
         IN  /\ e \in Pending /\ e \in Event /\ e.pid \in Pid /\ e.pkg \in Nat
             /\ Learnt(session, session', e) /\ Blamed(session, session', e)
             /\ session' = Handle(session, e) /\ pushes' = ToPush(session, e)
             /\ session \in SessionSet /\ KernelTypeOK
             /\ session.pidPackage \in [Pid -> Nat]
             /\ UNCHANGED <<proc, prog, tracked_pids, past, watched>>
<1>1. /\ KernelTypeOK /\ session \in SessionSet
      /\ events \in Seq(Event) /\ events # << >> /\ pushes = << >>
  BY DEF TypeOK, KernelTypeOK, DaemonTypeOK, HandleEvent
<1> DEFINE e == Head(events)
<1>2. e = events[1] /\ 1 \in DOMAIN events /\ e \in Event
  BY <1>1
<1>3. /\ session' = Handle(session, e) /\ pushes' = ToPush(session, e)
      /\ UNCHANGED <<proc, prog, tracked_pids, past, watched>>
  BY DEF HandleEvent
<1> HIDE DEF e
<1>4. Learnt(session, session', e) /\ Blamed(session, session', e)
  BY <1>1, <1>2, <1>3, HandleLearns
<1>5. e \in Pending
  BY <1>1, <1>2 DEF Pending, Unread, Handled
<1>6. /\ session.pidPackage \in [Pid -> Nat] /\ e.pid \in Pid /\ e.pkg \in Nat
  BY <1>1, <1>2 DEF SessionSet, Event
<1> QED BY <1>1, <1>2, <1>3, <1>4, <1>5, <1>6 DEF e

LEMMA PushesStep ==
  ASSUME TypeOK, PushesKnown, session.active, HandleEvent \/ Flow
  PROVE  PushesKnown'
<1>1. CASE HandleEvent
  BY <1>1, HandleFacts, ToPushLearns DEF PushesKnown
<1>2. CASE Flow
  BY <1>2 DEF Flow, PushesKnown
<1> QED BY <1>1, <1>2

LEMMA StaleStep ==
  ASSUME TypeOK, IdsInv, StaleKnown, session.active, HandleEvent \/ Flow
  PROVE  StaleKnown'
<1>1. CASE HandleEvent
  <2> DEFINE e == Head(events)
  <2>1. \A p \in Pid : session.pidPackage[p] # 0
          => session'.pidPackage[p] = session.pidPackage[p]
    BY <1>1, HandleFacts DEF Learnt, IdsInv
  <2>2. prog' = prog
    BY <1>1, HandleFacts
  <2> QED BY <2>1, <2>2 DEF StaleKnown
<1>2. CASE Flow
  BY <1>2 DEF Flow, StaleKnown
<1> QED BY <1>1, <1>2

\* Where the ids of a process come from in a step that hands ids on.
LEMMA IdsFlow ==
  ASSUME KernelTypeOK, IdsInv, session.active, Flow, NEW p \in Pid
  PROVE  \/ Ids(p)' \subseteq Ids(p)
         \/ /\ session.pidPackage[p] # 0
            /\ Ids(p)' \subseteq Ids(p) \cup {session.pidPackage[p]}
         \/ \E e \in Pending : /\ Born(e) /\ e.act.child = p
                               /\ Ids(p)' \subseteq Ids(p) \cup {e.pkg}
<1>1. ASSUME NEW g \in Pending', Origin(g), g.pid = p
      PROVE  g.pkg \in Ids(p)
  <2>1. CASE Met(g)
    BY <1>1, <2>1 DEF Met, Ids, Tracked
  <2>2. ASSUME NEW e \in Pending, Carried(e, g)
        PROVE  g.pkg \in Ids(p)
    BY <1>1, <2>2 DEF Carried, Origin, Ids
  <2> QED BY <2>1, <2>2 DEF Flow
<1>2. Ids(p)' \subseteq Ids(p) \cup ({tracked_pids'[p]} \ {Absent})
  BY <1>1 DEF Ids, Origin
<1>3. CASE tracked_pids'[p] \in {tracked_pids[p], Absent}
  BY <1>2, <1>3 DEF Ids
<1>4. CASE session.pidPackage[p] # 0 /\ tracked_pids'[p] = session.pidPackage[p]
  BY <1>2, <1>4
<1>5. ASSUME NEW e \in Pending, Forked(e), e.act.child = p,
             tracked_pids'[p] = e.pkg
      PROVE  \/ Ids(p)' \subseteq Ids(p)
             \/ /\ Born(e) /\ e.act.child = p
                /\ Ids(p)' \subseteq Ids(p) \cup {e.pkg}
  <2>1. CASE Born(e)
    BY <1>2, <1>5, <2>1
  <2>2. CASE ~Born(e)
    <3>1. e.pid = p /\ Origin(e)
      BY <1>5, <2>2 DEF Born, Forked, Origin
    <3> QED BY <1>2, <1>5, <3>1 DEF Ids
  <2> QED BY <2>1, <2>2
<1> QED BY <1>3, <1>4, <1>5 DEF Flow, Handed

LEMMA IdsStep ==
  ASSUME TypeOK, ForksInFlight, FlightOrder, BirthsFirst, FreeUnknown, IdsInv,
         session.active, HandleEvent \/ Flow
  PROVE  IdsInv'
<1>0. KernelTypeOK /\ session \in SessionSet
      /\ session.pidPackage \in [Pid -> Nat]
  BY DEF TypeOK, DaemonTypeOK, SessionSet
<1>1. CASE HandleEvent
  <2> DEFINE e == Head(events)
  <2>1. /\ e \in Pending /\ e \in Event /\ e.pid \in Pid /\ e.pkg \in Nat
        /\ Learnt(session, session', e) /\ tracked_pids' = tracked_pids
    BY <1>1, HandleFacts
  <2>2. \A g \in Pending' :
          /\ g \in Pending
          /\ Born(g) => /\ g.act.child # e.pid
                        /\ Born(e) => g.act.child # e.act.child
    BY <1>1, HeadBefore
  <2> HIDE DEF e
  <2>3. \A q \in Pid : Ids(q)' \subseteq Ids(q)
    BY <2>1, <2>2 DEF Ids
  <2>4. \A g \in Pending : Born(g) => g.act.child \in Pid
    BY <1>0, PendingEvent DEF Born, Forked
  <2>5. e.pkg \in Ids(e.pid) \/ ~Origin(e)
    BY <2>1 DEF Ids
  <2>6. ASSUME NEW q \in Pid
        PROVE  IF session'.pidPackage[q] = 0
               THEN \A m, n \in Ids(q)' : m = n
               ELSE Ids(q)' \subseteq {0, session'.pidPackage[q]}
    <3>1. CASE session'.pidPackage[q] = session.pidPackage[q]
      BY <2>3, <3>1 DEF IdsInv
    <3>2. CASE q = e.pid /\ session'.pidPackage[q] # session.pidPackage[q]
      <4>1. /\ session.pidPackage[q] = 0 /\ session'.pidPackage[q] # 0
            /\ Origin(e)
            /\ session'.pidPackage[q] = e.pkg \/ e.pkg = 0
        BY <2>1, <3>2 DEF Learnt
      <4>2. Ids(q) \subseteq {e.pkg}
        BY <2>5, <3>2, <4>1 DEF IdsInv
      <4> QED BY <2>3, <4>1, <4>2
    <3>3. CASE Born(e) /\ q = e.act.child
      <4>1. /\ session.pidPackage[q] = 0 /\ Ids(q) \subseteq {e.pkg}
            /\ session'.pidPackage[q] = KnownId(session', e)
        BY <2>1, <3>3 DEF IdsInv, Learnt
      <4>2. e.pkg \in {0, KnownId(session', e)}
        <5>1. Origin(e)
          BY <3>3 DEF Born, Origin
        <5>2. CASE session.pidPackage[e.pid] = 0
          BY <2>1, <5>2 DEF Learnt, KnownId
        <5>3. CASE session.pidPackage[e.pid] # 0
          <6>1. e.pkg \in {0, session.pidPackage[e.pid]}
            BY <2>1, <2>5, <5>1, <5>3 DEF IdsInv
          <6> QED BY <2>1, <5>3, <6>1 DEF Learnt, KnownId
        <5> QED BY <5>2, <5>3
      <4> QED BY <2>3, <4>1, <4>2
    <3> QED BY <2>1, <3>1, <3>2, <3>3 DEF Learnt
  <2>7. ASSUME NEW g \in Pending', Born(g)
        PROVE  /\ session'.pidPackage[g.act.child] = 0
               /\ Ids(g.act.child)' \subseteq {g.pkg}
    <3>1. /\ session.pidPackage[g.act.child] = 0
          /\ Ids(g.act.child) \subseteq {g.pkg} /\ g.act.child \in Pid
      BY <2>2, <2>4, <2>7 DEF IdsInv
    <3>2. session'.pidPackage[g.act.child] = session.pidPackage[g.act.child]
      BY <2>1, <2>2, <2>7, <3>1 DEF Learnt
    <3> QED BY <2>3, <3>1, <3>2
  <2> QED BY <2>6, <2>7 DEF IdsInv, Born
<1>2. CASE Flow
  <2>1. session' = session
    BY <1>2 DEF Flow
  <2>2. ASSUME NEW q \in Pid
        PROVE  IF session.pidPackage[q] = 0
               THEN \A m, n \in Ids(q)' : m = n
               ELSE Ids(q)' \subseteq {0, session.pidPackage[q]}
    <3>1. CASE Ids(q)' \subseteq Ids(q)
      BY <3>1 DEF IdsInv
    <3>2. CASE /\ session.pidPackage[q] # 0
               /\ Ids(q)' \subseteq Ids(q) \cup {session.pidPackage[q]}
      BY <3>2 DEF IdsInv
    <3>3. ASSUME NEW e \in Pending, Born(e), e.act.child = q,
                 Ids(q)' \subseteq Ids(q) \cup {e.pkg}
          PROVE  session.pidPackage[q] = 0 /\ \A m, n \in Ids(q)' : m = n
      BY <3>3 DEF IdsInv
    <3> QED BY <1>0, <1>2, <3>1, <3>2, <3>3, IdsFlow
  <2>3. ASSUME NEW g \in Pending', Born(g)
        PROVE  /\ session.pidPackage[g.act.child] = 0
               /\ Ids(g.act.child)' \subseteq {g.pkg}
    <3> DEFINE c == g.act.child
    <3>1. CASE Met(g)
      <4>1. c \in Pid /\ proc[c].life = "free"
        BY <2>3, <3>1 DEF Met, Born, Forked
      <4>2. session.pidPackage[c] = 0 /\ tracked_pids[c] = Absent
        BY <4>1 DEF FreeUnknown, Tracked
      <4>3. \A e \in Pending : /\ e.pid # c
                               /\ Born(e) => e.act.child # c
        BY <1>0, <4>1, PendingEvent DEF Born, Forked, Ran
      <4>4. Ids(c) = {}
        BY <4>2, <4>3 DEF Ids
      <4> HIDE DEF c
      <4>5. Ids(c)' \subseteq Ids(c)
        BY <1>0, <1>2, <4>1, <4>2, <4>3, IdsFlow
      <4> QED BY <4>2, <4>4, <4>5 DEF c
    <3>2. ASSUME NEW e \in Pending, Carried(e, g)
          PROVE  session.pidPackage[c] = 0 /\ Ids(c)' \subseteq {g.pkg}
      <4>1. Born(e) /\ Origin(e) /\ e.act.child = c /\ g.pkg = e.pkg
        BY <2>3, <3>2 DEF Carried, Born, Origin
      <4>2. /\ session.pidPackage[c] = 0 /\ Ids(c) \subseteq {g.pkg}
            /\ c \in Pid
        BY <1>0, <4>1, PendingEvent DEF IdsInv, Born, Forked
      <4>3. \A f \in Pending : Born(f) /\ f.act.child = c => f.pkg = g.pkg
        BY <1>0, <4>1, OneBirth
      <4> HIDE DEF c
      <4> QED BY <1>0, <1>2, <4>2, <4>3, IdsFlow
    <3> QED BY <1>2, <3>1, <3>2 DEF Flow
  <2> QED BY <2>1, <2>2, <2>3 DEF IdsInv, Born
<1> QED BY <1>1, <1>2

\* Every id there is has a name.
Named(s, n) == n \in 0 .. Len(s.packages)

NamesInv == session.active =>
  /\ \A p \in Pid : Named(session, session.pidPackage[p])
  /\ \A p \in Tracked : Named(session, tracked_pids[p])
  /\ \A e \in Pending : Named(session, e.pkg)

LEMMA NamedDomain ==
  ASSUME NEW s \in SessionSet, NEW n
  PROVE  Named(s, n) <=> n = 0 \/ n \in DOMAIN s.packages
BY DEF Named, SessionSet

\* An id keeps its name while the phase is open.
LEMMA NamesKept ==
  ASSUME TypeOK, HandleEvent
  PROVE  /\ session' \in SessionSet
         /\ \A n : Named(session, n) => Named(session', n)
         /\ \A n : Named(session, n) /\ n # 0 =>
              session'.packages[n] = session.packages[n]
<1>1. /\ session \in SessionSet /\ session' \in SessionSet
      /\ Grows(session, session')
  BY HandleFacts, HandleType DEF Learnt
<1> QED BY <1>1, NamedDomain DEF Grows

LEMMA NamesStep ==
  ASSUME TypeOK, ForksInFlight, FlightOrder, BirthsFirst, NamesInv,
         session.active, HandleEvent \/ Flow
  PROVE  NamesInv'
<1>1. CASE HandleEvent
  <2>1. PICK e : e = Head(events)
    OBVIOUS
  <2>2. /\ e \in Pending /\ e.pid \in Pid /\ Learnt(session, session', e)
        /\ tracked_pids' = tracked_pids
    BY <1>1, <2>1, HandleFacts
  <2>3. \A g \in Pending' : g \in Pending
    BY <1>1, HeadBefore
  <2>4. \A n : Named(session, n) => Named(session', n)
    BY <1>1, NamesKept
  <2>5. Named(session', session'.pidPackage[e.pid])
    <3>1. Settled(session', e.pid) => Named(session', session'.pidPackage[e.pid])
      BY <1>1, NamesKept, NamedDomain DEF Settled
    <3>2. Named(session, 0)
      BY NamedDomain DEF TypeOK, DaemonTypeOK
    <3> QED BY <2>2, <2>4, <3>1, <3>2 DEF Learnt, NamesInv
  <2>6. Named(session', KnownId(session', e))
    BY <2>2, <2>4, <2>5 DEF KnownId, NamesInv
  <2>7. ASSUME NEW q \in Pid
        PROVE  Named(session', session'.pidPackage[q])
    <3>1. CASE Born(e) /\ q = e.act.child
      BY <2>2, <2>6, <3>1 DEF Learnt
    <3>2. CASE q # e.pid /\ ~(Born(e) /\ q = e.act.child)
      BY <2>2, <2>4, <3>2 DEF Learnt, NamesInv
    <3> QED BY <2>5, <3>1, <3>2
  <2> QED BY <2>2, <2>3, <2>4, <2>7 DEF NamesInv, Tracked
<1>2. CASE Flow
  <2>1. session' = session
    BY <1>2 DEF Flow
  <2>2. ASSUME NEW q \in Pid, tracked_pids'[q] # Absent
        PROVE  Named(session, tracked_pids'[q])
    BY <1>2, <2>2 DEF Flow, Handed, NamesInv, Tracked
  <2>3. ASSUME NEW g \in Pending'
        PROVE  Named(session, g.pkg)
    BY <1>2, <2>3 DEF Flow, Met, Carried, OtherIds, NamesInv, Tracked
  <2> QED BY <2>1, <2>2, <2>3 DEF NamesInv, Tracked
<1> QED BY <1>1, <1>2
-----------------------------------------------------------------------------
(* Who is blamed. *)

\* Package id n, if it is one, is of one of the packages "homes".
Mine(s, n, homes) == n # 0 => s.packages[n] \in homes

BlameInv == session.active =>
  /\ \A p \in Pid : Mine(session, session.pidPackage[p], LineageHomes(p))
  /\ \A p \in Tracked : session.pidPackage[p] = 0
       => Mine(session, tracked_pids[p], LineageHomes(p))
  /\ \A e \in Pending :
       /\ session.pidPackage[e.pid] = 0
            => Mine(session, e.pkg, LineageHomes(e.pid))
       /\ Born(e) => past[e.pid].parents \subseteq past[e.act.child].parents

\* The packages of a lineage only become more.
LEMMA LineageGrows ==
  ASSUME ~PidReuse, TypeOK, PastInv, [Next]_vars,
         NEW p \in Pid, proc[p].life # "free"
  PROVE  LineageHomes(p) \subseteq LineageHomes(p)'
<1>1. past[p].parents \subseteq Pid
  BY DEF TypeOK, KernelTypeOK
<1> QED BY <1>1, RememberingStep DEF Remembering, PastInv, LineageHomes

\* What the kernel says of a process whose fork or exec is pending is true,
\* whether the daemon knows it too or not.
LEMMA OriginMine ==
  ASSUME TypeOK, ForksInFlight, FlightOrder, BirthsFirst, IdsInv, BlameInv,
         session.active, NEW e \in Pending, Origin(e)
  PROVE  Mine(session, e.pkg, LineageHomes(e.pid))
<1>1. e.pid \in Pid /\ e.pkg \in Nat
  BY PendingEvent DEF TypeOK
<1>2. CASE session.pidPackage[e.pid] = 0
  BY <1>2 DEF BlameInv
<1>3. CASE session.pidPackage[e.pid] # 0
  <2>1. e.pkg \in Ids(e.pid)
    BY DEF Ids
  <2>2. e.pkg \in {0, session.pidPackage[e.pid]}
    BY <1>1, <1>3, <2>1 DEF IdsInv
  <2> QED BY <1>1, <2>2 DEF BlameInv, Mine
<1> QED BY <1>2, <1>3

\* The id an event's process has once the event is handled is its own, and is
\* its child's.
LEMMA LearntMine ==
  ASSUME TypeOK, ForksInFlight, FlightOrder, BirthsFirst, PastInv,
         NamesInv, BlameInv, session.active, HandleEvent
  PROVE  LET e == Head(events)
         IN  /\ Mine(session', session'.pidPackage[e.pid], LineageHomes(e.pid))
             /\ Mine(session', KnownId(session', e), LineageHomes(e.pid))
             /\ Born(e) => Mine(session', KnownId(session', e),
                                LineageHomes(e.act.child))
<1> DEFINE e == Head(events)
<1>1. e \in Pending /\ e.pid \in Pid /\ Learnt(session, session', e)
  BY HandleFacts
<1> HIDE DEF e
<1>2. ASSUME NEW n, NEW homes, Named(session, n), Mine(session, n, homes)
      PROVE  Mine(session', n, homes)
  BY <1>2, NamesKept DEF Mine
<1>3. ASSUME Settled(session', e.pid)
      PROVE  Mine(session', session'.pidPackage[e.pid], LineageHomes(e.pid))
  <2>1. CwdPackage(e.pid) \in past[e.pid].homes /\ e.pid \in past[e.pid].parents
    BY <1>1, <1>3 DEF Settled, PastInv, CwdPackage
  <2> QED BY <1>1, <1>3, <2>1 DEF Mine, LineageHomes, Settled
<1>4. Mine(session', session'.pidPackage[e.pid], LineageHomes(e.pid))
  <2>1. CASE session.pidPackage[e.pid] # 0
    BY <1>1, <1>2, <2>1 DEF Learnt, NamesInv, BlameInv
  <2>2. CASE session.pidPackage[e.pid] = 0
    <3>1. Mine(session', e.pkg, LineageHomes(e.pid))
      BY <1>1, <1>2, <2>2 DEF NamesInv, BlameInv
    <3> QED BY <1>1, <1>3, <2>2, <3>1 DEF Learnt, Mine
  <2> QED BY <2>1, <2>2
<1>5. Mine(session', KnownId(session', e), LineageHomes(e.pid))
  <2>1. CASE session'.pidPackage[e.pid] # 0
    BY <1>4, <2>1 DEF KnownId
  <2>2. CASE session'.pidPackage[e.pid] = 0
    <3>1. session.pidPackage[e.pid] = 0 /\ KnownId(session', e) = e.pkg
      BY <1>1, <2>2 DEF KnownId, Learnt
    <3> QED BY <1>1, <1>2, <3>1 DEF NamesInv, BlameInv
  <2> QED BY <2>1, <2>2
<1>6. ASSUME Born(e)
      PROVE  Mine(session', KnownId(session', e), LineageHomes(e.act.child))
  <2>1. past[e.pid].parents \subseteq past[e.act.child].parents
    BY <1>1, <1>6 DEF BlameInv
  <2>2. LineageHomes(e.pid) \subseteq LineageHomes(e.act.child)
    BY <2>1 DEF LineageHomes
  <2> QED BY <1>5, <2>2 DEF Mine
<1> QED BY <1>4, <1>5, <1>6 DEF e

LEMMA BlameHandle ==
  ASSUME TypeOK, ForksInFlight, FlightOrder, BirthsFirst, PastInv, IdsInv,
         NamesInv, BlameInv, session.active, HandleEvent
  PROVE  BlameInv'
<1>1. PICK e : e = Head(events)
  OBVIOUS
<1>2. /\ e \in Pending /\ e.pid \in Pid /\ Learnt(session, session', e)
      /\ UNCHANGED <<past, tracked_pids>>
  BY <1>1, HandleFacts
<1>3. ASSUME NEW g \in Pending'
      PROVE  g \in Pending /\ g.pid \in Pid
  BY HeadBefore, PendingEvent DEF TypeOK
<1>4. /\ Mine(session', session'.pidPackage[e.pid], LineageHomes(e.pid))
      /\ Born(e) => Mine(session', KnownId(session', e),
                         LineageHomes(e.act.child))
  BY <1>1, LearntMine
<1>5. ASSUME NEW n, NEW homes, Named(session, n), Mine(session, n, homes)
      PROVE  Mine(session', n, homes)
  BY <1>5, NamesKept DEF Mine
<1>6. ASSUME NEW q \in Pid
      PROVE  Mine(session', session'.pidPackage[q], LineageHomes(q))
  <2>1. CASE Born(e) /\ q = e.act.child
    BY <1>2, <1>4, <2>1 DEF Learnt
  <2>2. CASE q # e.pid /\ ~(Born(e) /\ q = e.act.child)
    BY <1>2, <1>5, <2>2 DEF Learnt, NamesInv, BlameInv
  <2> QED BY <1>4, <2>1, <2>2
<1>7. \A q \in Pid : session'.pidPackage[q] = 0 => session.pidPackage[q] = 0
  BY <1>2 DEF Learnt, IdsInv
<1>8. ASSUME NEW q \in Tracked, session'.pidPackage[q] = 0
      PROVE  Mine(session', tracked_pids[q], LineageHomes(q))
  BY <1>5, <1>7, <1>8 DEF NamesInv, BlameInv, Tracked
<1>9. ASSUME NEW g \in Pending'
      PROVE  /\ session'.pidPackage[g.pid] = 0
                  => Mine(session', g.pkg, LineageHomes(g.pid))
             /\ Born(g) => past[g.pid].parents
                             \subseteq past[g.act.child].parents
  BY <1>3, <1>5, <1>7 DEF NamesInv, BlameInv
<1>10. \A q : LineageHomes(q)' = LineageHomes(q)
  BY <1>2 DEF LineageHomes
<1> QED BY <1>2, <1>6, <1>8, <1>9, <1>10 DEF BlameInv, Tracked, Born

LEMMA BlameFlow ==
  ASSUME ~PidReuse, TypeOK, ForksInFlight, FlightOrder, BirthsFirst,
         FreeUnknown, PastInv, IdsInv, BlameInv, [Next]_vars,
         session.active, Flow
  PROVE  BlameInv'
<1>0. KernelTypeOK /\ session' = session
  BY DEF TypeOK, Flow
<1>1. ASSUME NEW q \in Pid, proc[q].life # "free",
             NEW n, Mine(session, n, LineageHomes(q))
      PROVE  Mine(session, n, LineageHomes(q)')
  BY <1>1, LineageGrows DEF Mine
<1>2. ASSUME NEW q \in Pid
      PROVE  Mine(session, session.pidPackage[q], LineageHomes(q)')
  <2>1. CASE proc[q].life # "free"
    BY <1>1, <2>1 DEF BlameInv
  <2>2. CASE proc[q].life = "free"
    BY <2>2 DEF FreeUnknown, Mine
  <2> QED BY <2>1, <2>2
<1>3. ASSUME NEW q \in Pid, tracked_pids'[q] # Absent, session.pidPackage[q] = 0
      PROVE  Mine(session, tracked_pids'[q], LineageHomes(q)')
  <2>1. CASE tracked_pids'[q] = tracked_pids[q]
    <3>1. q \in Tracked /\ proc[q].life # "free"
      BY <1>3, <2>1 DEF FreeUnknown, Tracked
    <3>2. Mine(session, tracked_pids[q], LineageHomes(q))
      BY <1>3, <3>1 DEF BlameInv
    <3> QED BY <1>1, <2>1, <3>1, <3>2
  <2>2. ASSUME NEW e \in Pending, Forked(e), e.act.child = q,
               tracked_pids'[q] = e.pkg
        PROVE  Mine(session, tracked_pids'[q], LineageHomes(q)')
    <3>1. proc[q].life # "free" /\ Origin(e)
      BY <1>0, <2>2, PendingEvent DEF Forked, Origin
    <3>2. Mine(session, e.pkg, LineageHomes(e.pid))
      BY <3>1, OriginMine
    <3>3. past[e.pid].parents \subseteq past[q].parents
      BY <2>2 DEF BlameInv, Born, Forked
    <3>4. Mine(session, e.pkg, LineageHomes(q))
      BY <3>2, <3>3 DEF Mine, LineageHomes
    <3> QED BY <1>1, <2>2, <3>1, <3>4
  <2> QED BY <1>3, <2>1, <2>2 DEF Flow, Handed
<1>4. ASSUME NEW g \in Pending', Met(g)
      PROVE  /\ session.pidPackage[g.pid] = 0
                  => Mine(session, g.pkg, LineageHomes(g.pid)')
             /\ Born(g) => past'[g.pid].parents
                             \subseteq past'[g.act.child].parents
  <2>1. /\ g.pid \in Tracked /\ g.pid \in Pid /\ proc[g.pid].life # "free"
        /\ g.pkg = tracked_pids[g.pid]
    BY <1>4 DEF Met, Tracked
  <2>2. session.pidPackage[g.pid] = 0
          => Mine(session, g.pkg, LineageHomes(g.pid)')
    BY <1>1, <2>1 DEF BlameInv
  <2>3. past'[g.pid].parents = past[g.pid].parents
    BY <2>1, RememberingStep DEF Remembering
  <2> QED BY <1>4, <2>2, <2>3 DEF Met
<1>5. ASSUME NEW g \in Pending', NEW e \in Pending, Carried(e, g)
      PROVE  /\ session.pidPackage[g.pid] = 0
                  => Mine(session, g.pkg, LineageHomes(g.pid)')
             /\ Born(g) => past'[g.pid].parents
                             \subseteq past'[g.act.child].parents
  <2>1. /\ e.pid \in Pid /\ proc[e.pid].life # "free"
        /\ Born(e) => e.act.child \in Pid /\ proc[e.act.child].life # "free"
    BY <1>0, PendingEvent DEF Ran, Born, Forked
  <2>2. /\ g.pid = e.pid /\ g.act = e.act
        /\ session.pidPackage[e.pid] = 0 => g.pkg = e.pkg
    BY <1>5 DEF Carried
  <2>3. session.pidPackage[g.pid] = 0
          => Mine(session, g.pkg, LineageHomes(g.pid)')
    BY <1>1, <2>1, <2>2 DEF BlameInv
  <2>4. Born(g) => past'[g.pid].parents
                     \subseteq past'[g.act.child].parents
    BY <2>1, <2>2, RememberingStep DEF Remembering, BlameInv, Born
  <2> QED BY <2>3, <2>4
<1>6. ASSUME NEW g \in Pending'
      PROVE  /\ session.pidPackage[g.pid] = 0
                  => Mine(session, g.pkg, LineageHomes(g.pid)')
             /\ Born(g) => past'[g.pid].parents
                             \subseteq past'[g.act.child].parents
  BY <1>4, <1>5 DEF Flow
<1> QED BY <1>0, <1>2, <1>3, <1>6 DEF BlameInv, Tracked, Born

\* Findings are about processes that have run.
FindingsRan == \A i \in DOMAIN session.findings : Ran(session.findings[i].pid)

\* A step leaves the findings alone, forgets them or handles an event.
LEMMA FindingsMove ==
  ASSUME TypeOK, [Next]_vars
  PROVE  \/ session'.findings = session.findings
         \/ session'.findings = << >>
         \/ HandleEvent
<1>0. session \in SessionSet
  BY DEF TypeOK, DaemonTypeOK
<1>1. CASE session' = session
  BY <1>1
<1>2. CASE StartReset
  BY <1>2 DEF StartReset, Reset, EmptySession
<1>3. CASE EndPhaseRequest
  BY <1>0, <1>3 DEF EndPhaseRequest, EndPhase, SessionSet
<1>4. ASSUME NEW p \in Pid, Track(p)
      PROVE  session'.findings = session.findings
  BY <1>0, <1>4 DEF Track, StartPhase, SessionSet
<1> QED
  BY <1>1, <1>2, <1>3, <1>4
     DEF Next, DaemonStep, Serve, Drain, EpollWait, LeaveLoop, Ping, Shutdown,
         StartRefused, TrackFailed, ClearOne, ClearDone, ReportRefused,
         ReportRendered, StartConsume, EndConsume, LookupPush, WritePush, Send,
         Attached, vars, daemonVars

\* The findings after an event, and what a new one says.
LEMMA FindingsHandled ==
  ASSUME TypeOK, HandleEvent, NEW e, e = Head(events),
         NEW i \in DOMAIN session'.findings
  PROVE  \/ /\ i \in DOMAIN session.findings
            /\ session'.findings[i] = session.findings[i]
         \/ /\ session.active /\ KnownId(session', e) # 0
            /\ session'.findings[i].cause = e
            /\ session'.findings[i].pid = e.pid
            /\ session'.findings[i].package
                 = PackageName(session', KnownId(session', e))
<1>1. session.findings \in Seq(FindingSet) /\ Blamed(session, session', e)
  BY HandleFacts DEF SessionSet
<1>2. CASE session'.findings = session.findings
  BY <1>2
<1>3. ASSUME NEW f \in FindingSet,
             session'.findings = Append(session.findings, f)
      PROVE  \/ /\ i \in DOMAIN session.findings
                /\ session'.findings[i] = session.findings[i]
             \/ session'.findings[i] = f
  BY <1>1, <1>3
<1> QED BY <1>1, <1>2, <1>3 DEF Blamed

LEMMA FindingPid ==
  ASSUME TypeOK, NEW i \in DOMAIN session.findings
  PROVE  session.findings[i] \in FindingSet /\ session.findings[i].pid \in Pid
<1>1. session.findings[i] \in FindingSet
  BY DEF TypeOK, DaemonTypeOK, SessionSet
<1> QED BY <1>1 DEF FindingSet

LEMMA FindingsRanStep ==
  ASSUME ~PidReuse, TypeOK, BirthsFirst, FindingsRan, [Next]_vars
  PROVE  FindingsRan'
<1>1. \A p \in Pid : Ran(p) => Ran(p)'
  BY AgeingStep DEF Ageing
<1>2. CASE session'.findings = session.findings
  <2>1. ASSUME NEW i \in DOMAIN session.findings
        PROVE  Ran(session.findings[i].pid)'
    <3>1. PICK p \in Pid : p = session.findings[i].pid
      BY FindingPid
    <3>2. Ran(p)'
      BY <1>1, <3>1 DEF FindingsRan
    <3> QED BY <1>2, <3>1, <3>2 DEF Ran
  <2> QED BY <1>2, <2>1 DEF FindingsRan
<1>3. CASE session'.findings = << >>
  BY <1>3 DEF FindingsRan
<1>4. CASE HandleEvent
  <2>1. PICK e : e = Head(events)
    OBVIOUS
  <2>2. e.pid \in Pid /\ Ran(e.pid) /\ proc' = proc
    <3>1. /\ e.pid \in Pid /\ proc' = proc
          /\ events \in Seq(Event) /\ events # << >>
      BY <1>4, <2>1, HandleFacts DEF HandleEvent, TypeOK, KernelTypeOK
    <3>2. e = events[1] /\ 1 \in DOMAIN events
      BY <2>1, <3>1
    <3> QED BY <3>1, <3>2 DEF BirthsFirst
  <2>3. ASSUME NEW i \in DOMAIN session'.findings
        PROVE  Ran(session'.findings[i].pid)
    BY <1>4, <2>1, <2>2, <2>3, FindingsHandled DEF FindingsRan
  <2> QED BY <2>2, <2>3 DEF FindingsRan, Ran
<1> QED BY <1>2, <1>3, <1>4, FindingsMove

LEMMA BlameStaysStep ==
  ASSUME ~PidReuse, TypeOK, ForksInFlight, FlightOrder, BirthsFirst, PastInv,
         NamesInv, NamesInv', BlameInv, FindingsRan, BlameStaysInLineage,
         [Next]_vars
  PROVE  BlameStaysInLineage'
<1>1. CASE session'.findings = session.findings
  <2>1. ASSUME NEW f, NEW i \in DOMAIN session.findings,
               f = session.findings[i]
        PROVE  f.package \in LineageHomes(f.pid)'
    <3>1. f.pid \in Pid /\ proc[f.pid].life # "free"
      BY <2>1, FindingPid DEF FindingsRan, Ran
    <3> QED BY <2>1, <3>1, LineageGrows DEF BlameStaysInLineage
  <2>2. ASSUME NEW i \in DOMAIN session'.findings
        PROVE  \E f : /\ f = session'.findings[i]
                      /\ f.package \in LineageHomes(f.pid)'
    BY <1>1, <2>1
  <2> QED BY <2>2 DEF BlameStaysInLineage, LineageHomes
<1>2. CASE session'.findings = << >>
  BY <1>2 DEF BlameStaysInLineage
<1>3. CASE HandleEvent
  <2>1. PICK e : e = Head(events)
    OBVIOUS
  <2>2. /\ e.pid \in Pid /\ past' = past /\ session'.active = session.active
        /\ e \in Pending /\ Learnt(session, session', e)
        /\ session' \in SessionSet
    BY <1>3, <2>1, HandleFacts, HandleEventKeeps, NamesKept
  <2>3. ASSUME NEW i \in DOMAIN session'.findings
        PROVE  session'.findings[i].package
                 \in LineageHomes(session'.findings[i].pid)
    <3>1. CASE /\ i \in DOMAIN session.findings
               /\ session'.findings[i] = session.findings[i]
      BY <3>1 DEF BlameStaysInLineage
    <3>2. CASE /\ session.active /\ KnownId(session', e) # 0
               /\ session'.findings[i].pid = e.pid
               /\ session'.findings[i].package
                    = PackageName(session', KnownId(session', e))
      <4>1. Named(session', KnownId(session', e))
        <5>1. Named(session', session'.pidPackage[e.pid])
          BY <2>2, <3>2 DEF NamesInv
        <5>2. Named(session', e.pkg)
          BY <1>3, <2>2, <3>2, NamesKept DEF NamesInv
        <5> QED BY <5>1, <5>2 DEF KnownId
      <4>2. PackageName(session', KnownId(session', e))
              = session'.packages[KnownId(session', e)]
        BY <2>2, <3>2, <4>1, NamedDomain DEF PackageName
      <4>3. Mine(session', KnownId(session', e), LineageHomes(e.pid))
        BY <1>3, <2>1, <3>2, LearntMine
      <4> QED BY <3>2, <4>2, <4>3 DEF Mine
    <3> QED BY <1>3, <2>1, <3>1, <3>2, FindingsHandled
  <2> QED BY <2>2, <2>3 DEF BlameStaysInLineage, LineageHomes
<1> QED BY <1>1, <1>2, <1>3, FindingsMove
-----------------------------------------------------------------------------
(* What happens elsewhere. *)

\* In an open phase only the watched tree is tracked, or will be, and only
\* events about it are on their way.
WatchInv == session.active =>
  /\ \A p \in Tracked : p \in Living => p \in watched
  /\ \A e \in Pending :
       /\ e.watched
       /\ Forked(e) /\ e.act.child \in Living => e.act.child \in watched

\* A living process is forgotten only at the end of the phase, and starts to
\* live by a fork.
Faithful ==
  \A p \in Pid : p \in Living' =>
    /\ p \in Living \/ proc[p].life = "free"
    /\ p \in watched => p \in watched'

LEMMA FaithfulStep ==
  ASSUME TypeOK, ForksInFlight, ResetUntilTracked, session.active, session'.active,
         [Next]_vars
  PROVE  Faithful
<1>0. /\ KernelTypeOK /\ session \in SessionSet
      /\ proc \in [Pid -> [life : {"free", "new", "running", "zombie"},
                           cwd  : Package \cup {NoPackage},
                           env  : SUBSET Token]]
  BY DEF TypeOK, KernelTypeOK, DaemonTypeOK
<1> USE DEF Faithful, Living
<1>1. CASE proc' = proc /\ watched' = watched
  BY <1>1
<1>2. ASSUME NEW p \in Pid, Activity(p)
      PROVE  Faithful
  <2>1. ASSUME NEW c \in Pid, ForkUntracked(p, c) \/ ForkLookup(p, c)
        PROVE  Faithful
    BY <1>0, <2>1 DEF ForkUntracked, ForkLookup, Child
  <2>2. CASE Exit(p)
    BY <1>0, <2>2 DEF Exit
  <2>3. CASE /\ watched' = watched
             /\ \A q \in Pid : proc'[q].life \in {proc[q].life, "free"}
    BY <2>3
  <2>4. CASE \/ \E act \in Syscalls : SyscallUntracked(p, act)
             \/ \E act \in Syscalls : SyscallLookup(p, act)
             \/ \E act \in Syscalls : ExecLookup(p, act)
             \/ \E d \in Package \cup {NoPackage} : Chdir(p, d)
             \/ CloneLookup(p) \/ LeaderExit(p) \/ Reap(p)
    BY <1>0, <2>3, <2>4 DEF SyscallUntracked, SyscallLookup, ExecLookup, Chdir,
                            CloneLookup, LeaderExit, Reap
  <2> QED BY <1>2, <2>1, <2>2, <2>4 DEF Activity
<1>3. ASSUME NEW p \in Pid, Program(p)
      PROVE  Faithful
  <2>1. /\ watched' = watched
        /\ \/ proc' = proc
           \/ /\ Forking(p)
              /\ proc' = [proc EXCEPT ![ForkChild(p)].life = "running"]
    BY <1>3 DEF Program, UpdateChild, Emit, Forking, ForkChild, Idle
  <2>2. Forking(p) => proc[ForkChild(p)].life \in {"new", "running"}
    BY DEF ForksInFlight, Forking
  <2> QED BY <1>0, <2>1, <2>2, ForkingType
<1>4. CASE StartReset \/ EndPhaseRequest
  BY <1>0, <1>4 DEF StartReset, Reset, EmptySession, EndPhaseRequest, EndPhase,
                    SessionSet
<1>5. ASSUME NEW p \in Pid, Track(p)
      PROVE  FALSE
  BY <1>5 DEF Track, ResetUntilTracked, EmptySession
<1> QED
  BY <1>1, <1>2, <1>3, <1>4, <1>5
     DEF Next, DaemonStep, Serve, Drain, EpollWait, LeaveLoop, Ping, Shutdown,
         StartRefused, TrackFailed, ClearOne, ClearDone, ReportRefused,
         ReportRendered, StartConsume, HandleEvent, EndConsume, LookupPush,
         WritePush, Send, vars, kernelVars

LEMMA WatchStep ==
  ASSUME TypeOK, ForksInFlight, FlightOrder, ResetUntilTracked, BirthsFirst,
         FreeUnknown, WatchInv, [Next]_vars, session.active, session'.active,
         HandleEvent \/ Flow
  PROVE  WatchInv'
<1>0. KernelTypeOK
  BY DEF TypeOK
<1>1. CASE HandleEvent
  <2>1. UNCHANGED <<proc, tracked_pids, watched>>
    BY <1>1, HandleFacts
  <2>2. \A g \in Pending' : g \in Pending
    BY <1>1, HeadBefore
  <2> QED BY <2>1, <2>2 DEF WatchInv, Tracked, Living, Forked
<1>2. CASE Flow
  <2>1. ASSUME NEW q \in Pid, q \in Living', q \in Tracked
        PROVE  q \in watched'
    BY <2>1, FaithfulStep DEF Faithful, FreeUnknown, WatchInv
  <2>2. ASSUME NEW e \in Pending, Forked(e), e.act.child \in Living'
        PROVE  e.act.child \in watched'
    <3>1. e.act.child \in Pid /\ proc[e.act.child].life # "free"
      BY <1>0, <2>2, PendingEvent
    <3> QED BY <2>2, <3>1, FaithfulStep DEF Faithful, WatchInv
  <2>3. ASSUME NEW q \in Pid, tracked_pids'[q] # Absent, q \in Living'
        PROVE  q \in watched'
    <3>1. CASE q \in Tracked
      BY <2>1, <2>3, <3>1
    <3>2. CASE q \notin Tracked
      BY <1>2, <2>2, <2>3, <3>2 DEF Flow, Handed, Tracked
    <3> QED BY <3>1, <3>2
  <2>4. ASSUME NEW g \in Pending', Met(g)
        PROVE  /\ g.watched
               /\ Forked(g) => g.act.child \in watched'
    BY <2>4 DEF Met, WatchInv, Living, Tracked
  <2>5. ASSUME NEW g \in Pending', NEW e \in Pending, Carried(e, g)
        PROVE  /\ g.watched
               /\ Forked(g) /\ g.act.child \in Living'
                    => g.act.child \in watched'
    BY <2>2, <2>5 DEF Carried, Forked, WatchInv
  <2>6. ASSUME NEW g \in Pending'
        PROVE  /\ g.watched
               /\ Forked(g) /\ g.act.child \in Living'
                    => g.act.child \in watched'
    BY <1>2, <2>4, <2>5 DEF Flow
  <2> QED BY <2>3, <2>6 DEF WatchInv, Tracked, Forked
<1> QED BY <1>1, <1>2

LEMMA ElsewhereStep ==
  ASSUME TypeOK, WatchInv, ElsewhereIgnored, [Next]_vars
  PROVE  ElsewhereIgnored'
<1>1. CASE session'.findings = session.findings \/ session'.findings = << >>
  BY <1>1 DEF ElsewhereIgnored
<1>2. CASE HandleEvent
  <2>1. PICK e : e = Head(events)
    OBVIOUS
  <2>2. session.active => e.watched
    BY <1>2, <2>1, HandleFacts DEF WatchInv
  <2>3. ASSUME NEW i \in DOMAIN session'.findings
        PROVE  session'.findings[i].cause.watched
    BY <1>2, <2>1, <2>2, FindingsHandled DEF ElsewhereIgnored
  <2> QED BY <2>3 DEF ElsewhereIgnored
<1> QED BY <1>1, <1>2, FindingsMove
-----------------------------------------------------------------------------
(* Together. *)

\* No second phase has begun.
FirstPhase == window.no <= 1

\* What is true whatever the ids are, without pid reuse,
Course ==
  /\ Rooted /\ FreeUnknown /\ BirthsFirst /\ Beginning /\ PastInv /\ FindingsRan

\* and of the ids in a phase that started quietly.
PhaseInv ==
  /\ PushesKnown /\ StaleKnown
  /\ IdsInv /\ NamesInv /\ BlameInv /\ WatchInv

LEMMA CourseInit == Init => Course /\ PhaseInv
<1> SUFFICES ASSUME Init
             PROVE  Course /\ PhaseInv
  OBVIOUS
<1>1. /\ pc = "loop" /\ session = EmptySession /\ Tracked = {}
      /\ events = << >> /\ \A p \in Pid : prog[p] = Idle
  BY DEF Init, KernelInit, Tracked
<1>2. Rooted /\ BirthsFirst /\ Beginning
  BY <1>1 DEF Rooted, BirthsFirst, Beginning
<1>3. FreeUnknown /\ FindingsRan
  BY <1>1 DEF FreeUnknown, FindingsRan, EmptySession
<1>4. PastInv
  BY DEF Init, KernelInit, PastInv
<1>5. ~session.active
  BY <1>1 DEF EmptySession
<1> QED BY <1>2, <1>3, <1>4, <1>5
        DEF Course, PhaseInv, PushesKnown, StaleKnown, IdsInv, NamesInv,
            BlameInv, WatchInv

LEMMA CourseStep ==
  ASSUME ~PidReuse, TypeOK, ForksInFlight, FlightOrder, Course, [Next]_vars
  PROVE  Course'
BY RootedStep, FreeStep, BirthsStep, BeginningStep, PastInvStep,
   FindingsRanStep DEF Course

LEMMA PhaseBegins ==
  ASSUME TypeOK, QuietStart, ResetUntilTracked, NEW p \in Pid, Track(p)
  PROVE  PhaseInv'
<1>1. /\ Pending' = {} /\ pushes' = << >>
      /\ \A q \in Pid : /\ prog'[q] = Idle
                        /\ tracked_pids'[q] \in {0, Absent}
                        /\ q # p => tracked_pids'[q] = Absent
      /\ session'.pidPackage = [q \in Pid |-> 0]
      /\ session'.packages = << >>
  BY TrackBegins
<1>2. p \in Living' => p \in watched'
  BY DEF Track, Living
<1>3. PushesKnown' /\ StaleKnown'
  BY <1>1 DEF PushesKnown, StaleKnown
<1>4. IdsInv'
  BY <1>1 DEF IdsInv, Ids
<1>5. NamesInv'
  BY <1>1 DEF NamesInv, Named, Tracked
<1>6. BlameInv'
  BY <1>1 DEF BlameInv, Mine, Tracked
<1>7. WatchInv'
  BY <1>1, <1>2 DEF WatchInv, Tracked
<1> QED BY <1>3, <1>4, <1>5, <1>6, <1>7 DEF PhaseInv

LEMMA PhaseInvStep ==
  ASSUME ~PidReuse, TypeOK, ForksInFlight, FlightOrder, PhaseMarks,
         ResetUntilTracked, Course, PhaseInv, [Next]_vars, [QuietStart]_vars
  PROVE  PhaseInv'
<1>1. CASE ~session'.active
  BY <1>1 DEF PhaseInv, PushesKnown, StaleKnown, IdsInv, NamesInv, BlameInv,
              WatchInv
<1>2. ASSUME NEW p \in Pid, Track(p)
      PROVE  PhaseInv'
  <2>1. vars' # vars
    <3>1. pc' # pc
      BY <1>2 DEF Track
    <3> QED BY <3>1 DEF vars, daemonVars
  <2> QED BY <1>2, <2>1, PhaseBegins
<1>3. CASE session.active /\ session'.active /\ (HandleEvent \/ Flow)
  <2> USE DEF Course, PhaseInv
  <2>1. PushesKnown' /\ StaleKnown'
    BY <1>3, PushesStep, StaleStep
  <2>2. IdsInv' /\ NamesInv'
    BY <1>3, IdsStep, NamesStep
  <2>3. BlameInv'
    BY <1>3, BlameHandle, BlameFlow
  <2>4. WatchInv'
    BY <1>3, WatchStep
  <2> QED BY <2>1, <2>2, <2>3, <2>4
<1> QED BY <1>1, <1>2, <1>3, PhaseStep DEF PhaseInv

LEMMA CourseCorrect ==
  ASSUME ~PidReuse
  PROVE  Spec => [](TypeOK /\ FlightOrder /\ Course)
<1>1. Spec => []OrderInv
  BY OrderInit, OrderStep, TypeCorrect, PTL DEF Spec
<1>2. OrderInv => FlightOrder
  BY DEF OrderInv
<1>3. TypeOK /\ ForksInFlight /\ FlightOrder /\ Course /\ [Next]_vars => Course'
  BY CourseStep
<1>4. Init => Course
  BY CourseInit
<1> QED BY <1>1, <1>2, <1>3, <1>4, TypeCorrect, ForksCorrect, PTL DEF Spec

LEMMA PhaseInvCorrect ==
  ASSUME ~PidReuse
  PROVE  Spec /\ [][QuietStart]_vars => []PhaseInv
<1>1. TypeOK /\ ForksInFlight /\ FlightOrder /\ PhaseMarks
        /\ ResetUntilTracked /\ Course /\ PhaseInv /\ [Next]_vars
        /\ [QuietStart]_vars
        => PhaseInv'
  BY PhaseInvStep
<1>2. Init => PhaseInv
  BY CourseInit
<1> QED BY <1>1, <1>2, CourseCorrect, ForksCorrect, MarksCorrect, PTL DEF Spec

\* The first phase always starts quietly: a program leaves an event or an entry
\* only of a process that the daemon has put into the map
\* (blastguard.bpf.c:54-62, ebpfmanager.cpp:139-159).
THEOREM FirstPhaseIsQuiet ==
  ASSUME ~PidReuse
  PROVE  Spec /\ []FirstPhase => [][QuietStart]_vars
<1>1. TypeOK /\ Course /\ FirstPhase' => QuietStart
  <2> SUFFICES ASSUME TypeOK, Beginning, window'.no <= 1,
                      NEW p \in Pid, Track(p)
               PROVE  window.no = 0
    BY DEF QuietStart, Course, Beginning, FirstPhase
  <2> QED BY DEF TypeOK, KernelTypeOK, Track
<1> QED BY <1>1, CourseCorrect, PTL

\* When every phase starts quietly, the map in the kernel and the daemon's own never say two
\* different things of a process, and every id in the map has a name, although
\* the daemon writes it in two system calls while processes fork, exit and
\* start programs that copy it (daemon.cpp:253-276, ebpfmanager.cpp:139-159,
\* blastguard.bpf.c:54-62).
THEOREM KernelAgreesCorrect ==
  ASSUME ~PidReuse
  PROVE  Spec /\ [][QuietStart]_vars => []KernelAgrees
<1>1. ASSUME TypeOK, PhaseInv
      PROVE  KernelAgrees
  <2> SUFFICES ASSUME session.active, NEW p \in Tracked
               PROVE  /\ tracked_pids[p] <= Len(session.packages)
                      /\ tracked_pids[p] # 0 /\ session.pidPackage[p] # 0
                           => tracked_pids[p] = session.pidPackage[p]
    BY DEF KernelAgrees
  <2>1. Named(session, tracked_pids[p])
    BY <1>1 DEF PhaseInv, NamesInv
  <2>2. session.packages \in Seq(Package)
    BY <1>1 DEF TypeOK, DaemonTypeOK, SessionSet
  <2>3. tracked_pids[p] \in Ids(p)
    BY DEF Ids, Tracked
  <2>4. session.pidPackage[p] # 0 => Ids(p) \subseteq {0, session.pidPackage[p]}
    BY <1>1 DEF PhaseInv, IdsInv, Tracked
  <2> QED BY <2>1, <2>2, <2>3, <2>4 DEF Named
<1>2. TypeOK /\ PhaseInv => KernelAgrees
  BY <1>1
<1> QED BY <1>2, PhaseInvCorrect, TypeCorrect, PTL

\* When every phase starts quietly, in each phase and its report, a finding names a package that the
\* process or one of its ancestors has worked in: an id that was copied at a
\* fork, came back in an event or was read from a recycled map entry is never
\* somebody else's (daemon.cpp:253-388, session.cpp:61-80).
THEOREM BlameCorrect ==
  ASSUME ~PidReuse
  PROVE  Spec /\ [][QuietStart]_vars => []BlameStaysInLineage
<1>1. TypeOK /\ ForksInFlight /\ FlightOrder /\ Course /\ PhaseInv
        /\ PhaseInv' /\ BlameStaysInLineage /\ [Next]_vars
        => BlameStaysInLineage'
  BY BlameStaysStep DEF Course, PhaseInv
<1>2. Init => BlameStaysInLineage
  BY DEF Init, EmptySession, BlameStaysInLineage
<1> QED BY <1>1, <1>2, PhaseInvCorrect, CourseCorrect, ForksCorrect, PTL
        DEF Spec

\* When every phase starts quietly, in each phase and its report, no finding is about an act of a
\* process outside the watched tree (blastguard.bpf.c:50-296,
\* daemon.cpp:404-423).
THEOREM ElsewhereCorrect ==
  ASSUME ~PidReuse
  PROVE  Spec /\ [][QuietStart]_vars => []ElsewhereIgnored
<1>1. TypeOK /\ PhaseInv /\ ElsewhereIgnored /\ [Next]_vars
        => ElsewhereIgnored'
  BY ElsewhereStep DEF PhaseInv
<1>2. Init => ElsewhereIgnored
  BY DEF Init, EmptySession, ElsewhereIgnored
<1> QED BY <1>1, <1>2, PhaseInvCorrect, TypeCorrect, PTL DEF Spec
-----------------------------------------------------------------------------
(* What a report leaves out, and what it says of another phase.  These hold *)
(* with reused pids, too.                                                   *)

\* Where the events of a step come from.
EventsKept ==
  /\ \A q \in Pid : prog'[q] # Idle =>
       \/ prog[q] # Idle /\ prog'[q].event = prog[q].event
       \/ /\ acts' = acts + 1 /\ prog'[q].event.id = acts + 1
          /\ prog'[q].event.phase = IF window.open THEN window.no ELSE 0
  /\ \A j \in DOMAIN events' :
       \/ \E i \in DOMAIN events : events'[j] = events[i]
       \/ \E p \in Pid : /\ prog[p] # Idle
                         /\ events'[j].id = prog[p].event.id
                         /\ events'[j].phase = prog[p].event.phase

LEMMA ActivityStamps ==
  ASSUME KernelTypeOK, NEW p \in Pid, Activity(p)
  PROVE  \A q \in Pid : prog'[q] # Idle =>
           \/ prog[q] # Idle /\ prog'[q].event = prog[q].event
           \/ /\ acts' = acts + 1 /\ prog'[q].event.id = acts + 1
              /\ prog'[q].event.phase = IF window.open THEN window.no ELSE 0
<1>0. prog \in [Pid -> Prog]
  BY DEF KernelTypeOK
<1>1. CASE prog' = prog
  BY <1>1
<1>2. ASSUME NEW x, prog' = [prog EXCEPT ![p] = x], acts' = acts + 1,
             x.event.id = acts + 1,
             x.event.phase = IF window.open THEN window.no ELSE 0
      PROVE  \A q \in Pid : prog'[q] # Idle =>
               \/ prog[q] # Idle /\ prog'[q].event = prog[q].event
               \/ /\ acts' = acts + 1 /\ prog'[q].event.id = acts + 1
                  /\ prog'[q].event.phase = IF window.open THEN window.no ELSE 0
  BY <1>0, <1>2
<1>3. ASSUME NEW act, NEW at, Run(p, at, act), acts' = acts + 1
      PROVE  \A q \in Pid : prog'[q] # Idle =>
               \/ prog[q] # Idle /\ prog'[q].event = prog[q].event
               \/ /\ acts' = acts + 1 /\ prog'[q].event.id = acts + 1
                  /\ prog'[q].event.phase = IF window.open THEN window.no ELSE 0
  <2> DEFINE x == [pc |-> at, event |-> EventOf(p, act), fresh |-> TRUE]
  <2>1. /\ x.event.id = acts + 1
        /\ x.event.phase = IF window.open THEN window.no ELSE 0
    BY DEF EventOf
  <2>2. prog' = [prog EXCEPT ![p] = x]
    BY <1>3 DEF Run
  <2> HIDE DEF x
  <2> QED BY <1>2, <1>3, <2>1, <2>2
<1>4. ASSUME NEW c \in Pid, ForkUntracked(p, c) \/ ForkLookup(p, c)
      PROVE  prog' = prog \/ \E act, at : Run(p, at, act) /\ acts' = acts + 1
  BY <1>4 DEF ForkUntracked, ForkLookup
<1>5. ASSUME NEW act \in Syscalls,
             SyscallUntracked(p, act) \/ SyscallLookup(p, act)
      PROVE  prog' = prog \/ \E a, at : Run(p, at, a) /\ acts' = acts + 1
  BY <1>5 DEF SyscallUntracked, SyscallLookup
<1>6. ASSUME NEW act \in Syscalls, ExecLookup(p, act)
      PROVE  \A q \in Pid : prog'[q] # Idle =>
               \/ prog[q] # Idle /\ prog'[q].event = prog[q].event
               \/ /\ acts' = acts + 1 /\ prog'[q].event.id = acts + 1
                  /\ prog'[q].event.phase = IF window.open THEN window.no ELSE 0
  <2> DEFINE x == [pc |-> "emit", fresh |-> TRUE,
                   event |-> [EventOf(p, act) EXCEPT !.env = act.env]]
  <2>1. /\ x.event.id = acts + 1
        /\ x.event.phase = IF window.open THEN window.no ELSE 0
    BY DEF EventOf
  <2>2. prog' = [prog EXCEPT ![p] = x] /\ acts' = acts + 1
    BY <1>6 DEF ExecLookup
  <2> HIDE DEF x
  <2> QED BY <1>2, <2>1, <2>2
<1>7. CASE CloneLookup(p)
  BY <1>3, <1>7 DEF CloneLookup
<1>8. CASE \/ \E d \in Package \cup {NoPackage} : Chdir(p, d)
           \/ Exit(p) \/ LeaderExit(p) \/ Reap(p)
  BY <1>1, <1>8 DEF Chdir, Exit, LeaderExit, Reap
<1> QED BY <1>1, <1>3, <1>4, <1>5, <1>6, <1>7, <1>8 DEF Activity

LEMMA ProgramStamps ==
  ASSUME KernelTypeOK, NEW p \in Pid, Program(p)
  PROVE  EventsKept
<1>0. prog \in [Pid -> Prog] /\ events \in Seq(Event)
  BY DEF KernelTypeOK
<1>1. prog[p] # Idle
  BY DEF Program, UpdateChild, Emit, Idle
<1>2. PICK e \in Event : e = prog[p].event
  BY <1>1, ProgramOf
<1>3. CASE UpdateChild(p)
  <2>1. prog' = [prog EXCEPT ![p].pc = "emit"] /\ events' = events
    BY <1>3 DEF UpdateChild
  <2>2. prog[p] \in [pc : {"update", "emit"}, event : Event, fresh : BOOLEAN]
    BY <1>1, ProgramOf
  <2>3. prog'[p].event = e
    BY <1>0, <1>2, <2>1, <2>2
  <2> QED BY <1>0, <1>1, <1>2, <2>1, <2>3 DEF EventsKept
<1>4. CASE Emit(p)
  <2>1. prog' = [prog EXCEPT ![p] = Idle]
    BY <1>4 DEF Emit
  <2>2. CASE events' = events
    BY <1>0, <2>1, <2>2 DEF EventsKept
  <2>3. ASSUME NEW n, events' = Append(events, [e EXCEPT !.pkg = n])
        PROVE  EventsKept
    <3>1. PICK f : f = [e EXCEPT !.pkg = n]
      OBVIOUS
    <3>2. f.id = e.id /\ f.phase = e.phase
      BY <3>1 DEF Event
    <3>3. \A j \in DOMAIN events' :
            \/ j \in DOMAIN events /\ events'[j] = events[j]
            \/ events'[j] = f
      BY <1>0, <2>3, <3>1
    <3> QED BY <1>0, <1>1, <1>2, <2>1, <3>2, <3>3 DEF EventsKept
  <2> QED BY <1>2, <1>4, <2>2, <2>3 DEF Emit
<1> QED BY <1>3, <1>4 DEF Program

LEMMA StampsStep ==
  ASSUME TypeOK, [Next]_vars
  PROVE  EventsKept
<1>0. KernelTypeOK /\ events \in Seq(Event)
  BY DEF TypeOK, KernelTypeOK
<1>1. ASSUME events' = events \/ (events # << >> /\ events' = Tail(events))
      PROVE  \A j \in DOMAIN events' :
               \E i \in DOMAIN events : events'[j] = events[i]
  BY <1>0, <1>1, TailIndices
<1>2. ASSUME NEW p \in Pid, Activity(p)
      PROVE  EventsKept
  <2>1. events' = events
    BY <1>0, <1>2, ActivityType
  <2> QED BY <1>0, <1>2, <2>1, ActivityStamps DEF EventsKept
<1>3. CASE DaemonStep \/ (\E r \in Requests : Send(r)) \/ UNCHANGED vars
  <2>1. FlightsKept
    BY <1>3, DaemonKeeps
  <2>2. events' = events \/ (events # << >> /\ events' = Tail(events))
        \/ \E p \in Pid : Program(p)
    BY RingMoves DEF Program
  <2>3. CASE \E p \in Pid : Program(p)
    BY <1>0, <2>3, ProgramStamps
  <2> QED BY <1>1, <2>1, <2>2, <2>3 DEF EventsKept, FlightsKept
<1> QED BY <1>0, <1>2, <1>3, ProgramStamps DEF Next

\* What becomes of the phase.
LEMMA WindowMoves ==
  ASSUME TypeOK, [Next]_vars
  PROVE  \/ \E p \in Pid : Track(p)
         \/ EndPhaseRequest /\ ~session'.active
         \/ session'.active = session.active /\ window' = window
<1>0. session \in SessionSet
  BY DEF TypeOK, DaemonTypeOK
<1>1. CASE EndPhaseRequest
  BY <1>0, <1>1 DEF EndPhaseRequest, EndPhase, SessionSet
<1>2. CASE StartReset
  BY <1>0, <1>2 DEF StartReset, Reset, EmptySession, kernelVars, SessionSet
<1>3. CASE HandleEvent
  BY <1>3, HandleEventKeeps DEF HandleEvent
<1>4. ASSUME NEW p \in Pid, Activity(p) \/ Program(p), Attached
      PROVE  session' = session /\ window' = window
  BY <1>4 DEF Attached, daemonVars, Activity, Program, ForkUntracked, ForkLookup,
              SyscallUntracked, SyscallLookup, ExecLookup, Chdir, CloneLookup,
              Exit, LeaderExit, Reap, UpdateChild, Emit
<1>5. CASE EpollWait \/ LeaveLoop \/ Ping \/ Shutdown \/ StartRefused
           \/ ClearDone \/ ReportRefused \/ ReportRendered
           \/ StartConsume \/ EndConsume \/ LookupPush \/ WritePush
           \/ (\E p \in Pid : TrackFailed(p) \/ ClearOne(p))
           \/ (\E r \in Requests : Send(r)) \/ UNCHANGED vars
  BY <1>5 DEF EpollWait, LeaveLoop, Ping, Shutdown, StartRefused, ClearDone,
              ReportRefused, ReportRendered, StartConsume, EndConsume,
              LookupPush, WritePush, TrackFailed, ClearOne, Send, vars,
              kernelVars, daemonVars
<1> QED BY <1>1, <1>2, <1>3, <1>4, <1>5 DEF Next, DaemonStep, Serve, Drain

\* In an open phase only its own events are on their way.
PhaseEvents == session.active =>
  /\ window.open
  /\ \A p \in Pid : prog[p] # Idle => prog[p].event.phase = window.no
  /\ \A i \in DOMAIN events : events[i].phase = window.no

LEMMA PhaseEventsStep ==
  ASSUME TypeOK, PhaseEvents, [Next]_vars, [QuietStart]_vars
  PROVE  PhaseEvents'
<1>1. ASSUME NEW p \in Pid, Track(p)
      PROVE  PhaseEvents'
  <2>1. vars' # vars
    <3>1. pc' # pc
      BY <1>1 DEF Track
    <3> QED BY <3>1 DEF vars, daemonVars
  <2>2. /\ events = << >> /\ \A q \in Pid : prog[q] = Idle
        /\ UNCHANGED <<events, prog>> /\ window'.open
    BY <1>1, <2>1 DEF QuietStart, Track
  <2> QED BY <2>2 DEF PhaseEvents
<1>2. CASE ~session'.active
  BY <1>2 DEF PhaseEvents
<1>3. CASE session.active /\ window' = window
  <2>1. /\ window.open
        /\ \A p \in Pid : prog[p] # Idle => prog[p].event.phase = window.no
        /\ \A i \in DOMAIN events : events[i].phase = window.no
    BY <1>3 DEF PhaseEvents
  <2>2. EventsKept
    BY StampsStep
  <2>3. \A p \in Pid : prog'[p] # Idle => prog'[p].event.phase = window.no
    BY <2>1, <2>2 DEF EventsKept
  <2>4. \A i \in DOMAIN events' : events'[i].phase = window.no
    BY <2>1, <2>2 DEF EventsKept
  <2> QED BY <1>3, <2>1, <2>3, <2>4 DEF PhaseEvents
<1> QED BY <1>1, <1>2, <1>3, WindowMoves

LEMMA EvidenceStep ==
  ASSUME TypeOK, ResetUntilTracked, PhaseEvents, NoStaleEvidence, [Next]_vars
  PROVE  NoStaleEvidence'
<1>1. ASSUME NEW p \in Pid, Track(p)
      PROVE  session'.findings = << >>
  BY <1>1 DEF Track, ResetUntilTracked, StartPhase, EmptySession
<1>2. CASE session'.findings = << >>
  BY <1>2 DEF NoStaleEvidence
<1>3. CASE session'.findings = session.findings /\ window'.no = window.no
  BY <1>3 DEF NoStaleEvidence
<1>4. CASE HandleEvent
  <2>1. PICK e : e = Head(events)
    OBVIOUS
  <2>2. window' = window /\ (session.active => e.phase = window.no)
    <3>1. events \in Seq(Event) /\ events # << >> /\ window' = window
      BY <1>4 DEF TypeOK, KernelTypeOK, HandleEvent
    <3>2. e = events[1] /\ 1 \in DOMAIN events
      BY <2>1, <3>1
    <3> QED BY <3>1, <3>2 DEF PhaseEvents
  <2>3. ASSUME NEW i \in DOMAIN session'.findings
        PROVE  session'.findings[i].cause.phase = window.no
    BY <1>4, <2>1, <2>2, FindingsHandled DEF NoStaleEvidence
  <2> QED BY <2>2, <2>3 DEF NoStaleEvidence
<1>5. EndPhaseRequest => window'.no = window.no
  BY DEF EndPhaseRequest, TypeOK, KernelTypeOK
<1> QED BY <1>1, <1>2, <1>3, <1>4, <1>5, WindowMoves, FindingsMove

\* README.md:42-44, "the report tells phases apart", is true when every phase
\* starts quietly: what the code has to do before trackPid is to drain the ring
\* buffer and to wait for the programs in flight (daemon.cpp:404-423).
THEOREM EvidenceCorrect == Spec /\ [][QuietStart]_vars => []NoStaleEvidence
<1>1. Init => PhaseEvents /\ NoStaleEvidence
  BY DEF Init, EmptySession, PhaseEvents, NoStaleEvidence
<1>2. TypeOK /\ PhaseEvents /\ [Next]_vars /\ [QuietStart]_vars => PhaseEvents'
  BY PhaseEventsStep
<1>3. TypeOK /\ ResetUntilTracked /\ PhaseEvents /\ NoStaleEvidence /\ [Next]_vars
        => NoStaleEvidence'
  BY EvidenceStep
<1> QED BY <1>1, <1>2, <1>3, TypeCorrect, MarksCorrect, PTL DEF Spec

\* When an end-phase request is served, nothing is left of what was in the ring
\* buffer when its client sent it.
DrainedEnd ==
  EndPhaseRequest => \A i \in DOMAIN events : events[i].id \notin due

\* Nothing is missed, and nothing that could be is still to be handled once the
\* phase is closed.
CoverInv ==
  /\ missed = {}
  /\ \A n \in due : /\ n <= acts
                    /\ \A p \in Pid : prog[p] # Idle => prog[p].event.id # n
  /\ ~session.active => \A i \in DOMAIN events : events[i].id \notin due

LEMMA DueMoves ==
  ASSUME TypeOK, [Next]_vars
  PROVE  \/ due' = {} /\ missed' = {}
         \/ due' = due /\ (missed' = missed \/ HandleEvent)
         \/ /\ \E r \in Requests : Send(r)
            /\ session.active /\ session' = session /\ missed' = missed
            /\ due' = due \cup {events[i].id : i \in DOMAIN events}
            /\ UNCHANGED <<prog, acts, events>>
<1>1. ASSUME NEW p \in Pid, Activity(p) \/ Program(p), Attached
      PROVE  UNCHANGED <<due, missed>>
  BY <1>1 DEF Attached, daemonVars, asked
<1>2. CASE \E r \in Requests : Send(r)
  BY <1>2 DEF Send, kernelVars
<1>3. CASE \E p \in Pid : Track(p)
  BY <1>3 DEF Track
<1>4. CASE \/ EpollWait \/ LeaveLoop \/ Ping \/ Shutdown \/ StartRefused
           \/ StartReset \/ EndPhaseRequest \/ ClearDone \/ ReportRefused
           \/ ReportRendered \/ StartConsume \/ EndConsume \/ LookupPush
           \/ WritePush \/ UNCHANGED vars
           \/ (\E p \in Pid : TrackFailed(p) \/ ClearOne(p))
  BY <1>4 DEF EpollWait, LeaveLoop, Ping, Shutdown, StartRefused, StartReset,
              EndPhaseRequest, ClearDone, ReportRefused, ReportRendered,
              StartConsume, EndConsume, LookupPush, WritePush, TrackFailed,
              ClearOne, Accept, vars, daemonVars, clientVars, asked
<1>5. CASE HandleEvent
  BY <1>5 DEF HandleEvent, clientVars, asked
<1> QED BY <1>1, <1>2, <1>3, <1>4, <1>5 DEF Next, DaemonStep, Serve, Drain

LEMMA CoverStep ==
  ASSUME TypeOK, RingOrder, CoverInv, [Next]_vars, [DrainedEnd]_vars
  PROVE  CoverInv'
<1>0. /\ acts \in Nat /\ events \in Seq(Event)
      /\ EventsKept /\ missed = {}
      /\ acts' \in {acts, acts + 1}
  <2>1. \A p \in Pid : Activity(p) \/ Program(p) => acts' \in {acts, acts + 1}
    BY ActivityFlights, ProgramFlights DEF TypeOK, Quiet, Started, Ended
  <2>2. DaemonStep \/ (\E r \in Requests : Send(r)) \/ UNCHANGED vars
          => acts' = acts
    BY DaemonKeeps
  <2> QED BY <2>1, <2>2, StampsStep DEF TypeOK, KernelTypeOK, CoverInv, Next
<1>1. CASE due' = {} /\ missed' = {}
  BY <1>1 DEF CoverInv
<1>2. CASE due' = due /\ (missed' = missed \/ HandleEvent)
  <2>1. missed' = {}
    <3>1. ASSUME HandleEvent PROVE missed' = missed
      <4>1. CASE session.active
        BY <3>1, <4>1 DEF HandleEvent, FindingDropped
      <4>2. CASE ~session.active
        <5>1. events # << >>
          BY <3>1 DEF HandleEvent
        <5>2. Head(events) = events[1] /\ 1 \in DOMAIN events
          BY <1>0, <5>1
        <5>3. Head(events).id \notin due
          BY <4>2, <5>2 DEF CoverInv
        <5> QED BY <3>1, <5>3 DEF HandleEvent
      <4> QED BY <4>1, <4>2
    <3> QED BY <1>0, <1>2, <3>1
  <2>2. ASSUME NEW n \in due
        PROVE  /\ n <= acts'
               /\ \A p \in Pid : prog'[p] # Idle => prog'[p].event.id # n
    <3>1. /\ n \in Nat /\ n <= acts /\ n <= acts' /\ n # acts + 1
          /\ \A p \in Pid : prog[p] # Idle => prog[p].event.id # n
      BY <1>0 DEF CoverInv, TypeOK, DaemonTypeOK
    <3> QED BY <1>0, <3>1 DEF EventsKept
  <2>3. ASSUME ~session'.active
        PROVE  \A i \in DOMAIN events' : events'[i].id \notin due
    <3>1. \A i \in DOMAIN events : events[i].id \notin due
      <4>1. CASE ~session.active
        BY <4>1 DEF CoverInv
      <4>2. CASE session.active
        <5>1. EndPhaseRequest
          <6>1. ASSUME NEW p \in Pid, Track(p) PROVE session'.active
            BY <6>1 DEF Track, StartPhase, TypeOK, DaemonTypeOK, SessionSet
          <6> QED BY <2>3, <4>2, <6>1, WindowMoves
        <5>2. vars' # vars
          <6>1. pc' # pc
            BY <5>1 DEF EndPhaseRequest, Accept
          <6> QED BY <6>1 DEF vars, daemonVars
        <5> QED BY <5>1, <5>2 DEF DrainedEnd
      <4> QED BY <4>1, <4>2
    <3>2. \A p \in Pid : prog[p] # Idle => prog[p].event.id \notin due
      BY DEF CoverInv
    <3> QED BY <1>0, <3>1, <3>2 DEF EventsKept
  <2> QED BY <1>2, <2>1, <2>2, <2>3 DEF CoverInv
<1>3. CASE /\ \E r \in Requests : Send(r)
           /\ session.active /\ session' = session /\ missed' = missed
           /\ due' = due \cup {events[i].id : i \in DOMAIN events}
           /\ UNCHANGED <<prog, acts, events>>
  <2>1. \A i \in DOMAIN events :
          /\ events[i].id <= acts
          /\ \A p \in Pid : prog[p] # Idle => events[i].id # prog[p].event.id
    BY DEF RingOrder, Past, Precedes
  <2>2. ASSUME NEW n \in due'
        PROVE  /\ n <= acts
               /\ \A p \in Pid : prog[p] # Idle => prog[p].event.id # n
    BY <1>3, <2>1 DEF CoverInv
  <2> QED BY <1>0, <1>3, <2>2 DEF CoverInv
<1> QED BY <1>1, <1>2, <1>3, DueMoves

\* README.md:41-43, "what happened in between", is true of every report when an
\* end-phase finds the ring buffer drained of what was in it when its client
\* asked: the order in which the daemon turns to its two descriptors is the only
\* way to miss a finding about an act recorded by then (daemon.cpp:208-216,
\* 425-433).
THEOREM PhaseCovered == Spec /\ [][DrainedEnd]_vars => []ReportCoversPhase
<1>1. Init => CoverInv
  BY DEF Init, KernelInit, CoverInv
<1>2. TypeOK /\ RingOrder /\ CoverInv /\ [Next]_vars /\ [DrainedEnd]_vars
        => CoverInv'
  BY CoverStep
<1>3. Spec => []OrderInv
  BY OrderInit, OrderStep, TypeCorrect, PTL DEF Spec
<1>4. OrderInv => RingOrder
  BY DEF OrderInv
<1>5. CoverInv => ReportCoversPhase
  BY DEF CoverInv, ReportCoversPhase
<1> QED BY <1>1, <1>2, <1>3, <1>4, <1>5, TypeCorrect, PTL DEF Spec
=============================================================================
