--------------------------- MODULE FindingProofs ---------------------------
(***************************************************************************)
(* Theorems about what is reported: that an act leads to one finding at    *)
(* most, in the order of the acts, and what happens after the end of a     *)
(* phase to the list of packages whose scripts have not been seen.         *)
(***************************************************************************)
EXTENDS TreeProofs

(* After end-phase. *)

LEMMA InternPackageGrows ==
  ASSUME NEW s \in SessionSet, NEW name
  PROVE  /\ Interned(s) \subseteq Interned(InternPackage(s, name))
         /\ InternPackage(s, name).extracted = s.extracted
<1>1. CASE name \in Interned(s)
  BY <1>1 DEF InternPackage
<1>2. CASE name \notin Interned(s)
  <2> DEFINE old == s.packages
             new == Append(old, name)
  <2>1. old \in Seq(Package)
    BY DEF SessionSet
  <2>2. InternPackage(s, name) = [s EXCEPT !.packages = new]
    BY <1>2 DEF InternPackage
  <2>3. /\ InternPackage(s, name).packages = new
        /\ InternPackage(s, name).extracted = s.extracted
    BY <2>2 DEF SessionSet
  <2> HIDE DEF old
  <2>4. DOMAIN old \subseteq DOMAIN new /\ \A i \in DOMAIN old : new[i] = old[i]
    BY <2>1
  <2> HIDE DEF new
  <2> QED BY <2>3, <2>4 DEF Interned, old
<1> QED BY <1>1, <1>2

LEMMA AttributedGrows ==
  ASSUME NEW s \in SessionSet, NEW e \in Event
  PROVE  /\ Interned(s) \subseteq Interned(Attributed(s, e))
         /\ Attributed(s, e).extracted = s.extracted
<1>1. CASE ~Attributable(s, e)
  BY <1>1 DEF Attributed
<1>2. CASE Attributable(s, e)
  <2> DEFINE t  == InternPackage(s, CwdPackage(e.pid))
             id == PackageId(t, CwdPackage(e.pid))
  <2>1. Attributed(s, e) = SetPidPackage(t, e.pid, id)
    BY <1>2 DEF Attributed
  <2>2. Interned(s) \subseteq Interned(t) /\ t.extracted = s.extracted
    BY InternPackageGrows
  <2> HIDE DEF t, id
  <2>3. /\ SetPidPackage(t, e.pid, id).packages = t.packages
        /\ SetPidPackage(t, e.pid, id).extracted = t.extracted
    BY DEF SetPidPackage
  <2> QED BY <2>1, <2>2, <2>3 DEF Interned
<1> QED BY <1>1, <1>2

\* With the phase closed a handler may intern a package, and that is all.
LEMMA HandleClosed ==
  ASSUME KernelTypeOK, NEW s \in SessionSet, NEW e \in Event, ~s.active
  PROVE  /\ Interned(s) \subseteq Interned(Handle(s, e))
         /\ Handle(s, e).extracted = s.extracted
<1>1. e.pid \in Pid /\ e.act \in Act
  BY DEF Event
<1>2. CASE e.act \in ForkAct
  <2> DEFINE t == Attributed(s, e)
  <2>1. Handle(s, e) = SetPidPackage(t, e.act.child, KnownId(t, e))
    BY <1>2 DEF ForkAct, Handle, HandleFork
  <2>2. Interned(s) \subseteq Interned(t) /\ t.extracted = s.extracted
    BY AttributedGrows
  <2> HIDE DEF t
  <2> QED BY <2>1, <2>2 DEF SetPidPackage, Interned
<1>3. CASE e.act \in ConnectAct
  BY <1>3 DEF ConnectAct, Handle, HandleConnect, OnConnect
<1>4. CASE e.act \in OpenAct
  BY <1>4 DEF OpenAct, Handle, HandleOpen, OnOpen
<1>5. CASE e.act \in ExecAct
  <2> DEFINE u == SetPidTokens(s, e.pid, e.act.scanned)
             t == Attributed(u, e)
  <2>1. Handle(s, e) = OnExec(t, e, KnownId(t, e), PackageName(t, KnownId(t, e)))
        /\ e.act.scanned \in SUBSET Token
    BY <1>5 DEF ExecAct, Handle, HandleExec
  <2>2. /\ u \in SessionSet
        /\ ~u.active /\ u.packages = s.packages /\ u.extracted = s.extracted
    BY <1>1, <2>1, SetPidTokensType DEF SetPidTokens, SessionSet
  <2> HIDE DEF u
  <2>3. ~t.active /\ Interned(u) \subseteq Interned(t) /\ t.extracted = u.extracted
    BY <2>2, AttributedGrows, AttributedKeepsLog
  <2> HIDE DEF t
  <2> QED BY <2>1, <2>2, <2>3 DEF OnExec, Interned
<1> QED BY <1>1, <1>2, <1>3, <1>4, <1>5 DEF Act

LEMMA SuppressedStep ==
  TypeOK /\ [Next]_vars =>
    [~session.active
     => SuppressedPackages(session') \subseteq SuppressedPackages(session)]_session
<1> SUFFICES ASSUME TypeOK, [Next]_vars, session' # session, ~session.active
             PROVE  SuppressedPackages(session') \subseteq
                      SuppressedPackages(session)
  OBVIOUS
<1>0. KernelTypeOK /\ session \in SessionSet /\ events \in Seq(Event)
  BY DEF TypeOK, KernelTypeOK, DaemonTypeOK
<1> USE DEF SuppressedPackages, PackageHadExec
<1>1. CASE StartReset
  BY <1>1 DEF StartReset, Reset, EmptySession
<1>2. CASE EndPhaseRequest
  <2>1. session' = EndPhase(session)
    BY <1>2 DEF EndPhaseRequest
  <2>2. /\ session'.packages = session.packages
        /\ session'.extracted = session.extracted
    BY <1>0, <2>1 DEF EndPhase, SessionSet
  <2> QED BY <2>2 DEF Interned
<1>3. ASSUME NEW p \in Pid, Track(p)
      PROVE  SuppressedPackages(session') \subseteq SuppressedPackages(session)
  <2>1. session' = StartPhase(session, p)
    BY <1>3 DEF Track
  <2>2. /\ session'.packages = session.packages
        /\ session'.extracted = session.extracted
    BY <1>0, <2>1 DEF StartPhase, SessionSet
  <2> QED BY <2>2 DEF Interned
<1>4. CASE HandleEvent
  <2>1. Head(events) \in Event /\ session' = Handle(session, Head(events))
    BY <1>0, <1>4 DEF HandleEvent
  <2>2. /\ Interned(session) \subseteq Interned(session')
        /\ session'.extracted = session.extracted
    BY <1>0, <2>1, HandleClosed
  <2> QED BY <2>2
<1>5. CASE EpollWait \/ LeaveLoop \/ Ping \/ Shutdown \/ StartRefused
           \/ ReportRefused \/ ReportRendered \/ ClearDone
  BY <1>5 DEF EpollWait, LeaveLoop, Ping, Shutdown, StartRefused,
              ReportRefused, ReportRendered, ClearDone
<1>6. CASE \E p \in Pid : TrackFailed(p) \/ ClearOne(p)
  BY <1>6 DEF TrackFailed, ClearOne, daemonVars
<1>7. CASE StartConsume \/ EndConsume \/ LookupPush \/ WritePush
  BY <1>7 DEF StartConsume, EndConsume, LookupPush, WritePush
<1>8. CASE \E r \in Requests : Send(r)
  BY <1>8 DEF Send
<1>9. CASE Attached
  BY <1>9 DEF Attached, daemonVars
<1>10. CASE UNCHANGED vars
  BY <1>10 DEF vars, daemonVars
<1> QED BY <1>1, <1>2, <1>3, <1>4, <1>5, <1>6, <1>7, <1>8, <1>9, <1>10
        DEF Next, DaemonStep, Serve, Drain

\* After the end of a phase, whatever is still handled, no package is added to
\* the list of those whose scripts have not been seen.
THEOREM SuppressedShrinks == Spec => SuppressedOnlyShrinks
BY SuppressedStep, TypeCorrect, PTL DEF Spec, SuppressedOnlyShrinks
-----------------------------------------------------------------------------
(* The order of events: ids grow from the acts of a process to its program *)
(* in flight, from there to the ring buffer, and on to the findings.       *)

\* e came before f, as far as the order of findings goes.
Precedes(e, f) == e.id # f.id /\ (e.pid = f.pid => e.id < f.id)

InOrder(s) == \A i, j \in DOMAIN s : i < j => Precedes(s[i], s[j])

\* Every act has an id of its own, whose programs are still in flight.
FlightOrder ==
  /\ \A p \in Pid : prog[p] # Idle =>
       prog[p].event.pid = p /\ prog[p].event.id <= acts
  /\ \A p, q \in Pid : p # q /\ prog[p] # Idle /\ prog[q] # Idle
       => prog[p].event.id # prog[q].event.id

\* An event that is known, and older than what programs will yet record.
Past(e) ==
  /\ e.id <= acts
  /\ \A p \in Pid : prog[p] # Idle => Precedes(e, prog[p].event)

RingOrder == InOrder(events) /\ \A i \in DOMAIN events : Past(events[i])

\* How many events of the ring buffer have led to their finding already.
Handled == IF pushes = << >> THEN 0 ELSE 1

FindingOrder ==
  /\ InOrder(Causes)
  /\ \A k \in DOMAIN Causes :
       /\ Past(Causes[k])
       /\ \A j \in DOMAIN events : j > Handled => Precedes(Causes[k], events[j])

\* What a step may do to the programs in flight: keep their events,
Quiet ==
  /\ acts' \in {acts, acts + 1}
  /\ \A p \in Pid :
       /\ prog'[p] = Idle <=> prog[p] = Idle
       /\ prog[p] # Idle => prog'[p].event = prog[p].event

\* start one for p's next act,
Started(p) ==
  /\ acts' = acts + 1
  /\ prog'[p] # Idle => prog'[p].event.pid = p /\ prog'[p].event.id = acts + 1
  /\ \A q \in Pid \ {p} : prog'[q] = prog[q]

\* or end the one of p.
Ended(p) ==
  /\ acts' = acts
  /\ prog[p] # Idle /\ prog'[p] = Idle
  /\ \A q \in Pid \ {p} : prog'[q] = prog[q]

LEMMA ActivityFlights ==
  ASSUME KernelTypeOK, NEW p \in Pid, Activity(p)
  PROVE  Quiet \/ Started(p)
<1>0. prog \in [Pid -> Prog] /\ acts \in Nat
  BY DEF KernelTypeOK
<1>1. ASSUME NEW c \in Pid, ForkUntracked(p, c)
      PROVE  Quiet
  BY <1>0, <1>1 DEF ForkUntracked, Quiet
<1>2. ASSUME NEW c \in Pid, ForkLookup(p, c)
      PROVE  Started(p)
  BY <1>0, <1>2 DEF ForkLookup, Run, EventOf, Started
<1>3. ASSUME NEW act \in Syscalls, SyscallUntracked(p, act)
      PROVE  Quiet
  BY <1>0, <1>3 DEF SyscallUntracked, Quiet
<1>4. ASSUME NEW act \in Syscalls, SyscallLookup(p, act)
      PROVE  Started(p)
  BY <1>0, <1>4 DEF SyscallLookup, Run, EventOf, Started
<1>5. ASSUME NEW act \in Syscalls, ExecLookup(p, act)
      PROVE  Started(p)
  BY <1>0, <1>5 DEF ExecLookup, EventOf, Started
<1>6. ASSUME NEW d \in Package \cup {NoPackage}, Chdir(p, d)
      PROVE  Quiet
  BY <1>0, <1>6 DEF Chdir, Quiet
<1>7. CASE CloneLookup(p)
  BY <1>0, <1>7 DEF CloneLookup, Run, EventOf, Started
<1>8. CASE Exit(p) \/ LeaderExit(p) \/ Reap(p)
  BY <1>0, <1>8 DEF Exit, LeaderExit, Reap, Quiet
<1> QED BY <1>1, <1>2, <1>3, <1>4, <1>5, <1>6, <1>7, <1>8 DEF Activity

\* A program goes on, or ends with its event in the ring buffer or lost.
LEMMA ProgramFlights ==
  ASSUME KernelTypeOK, NEW p \in Pid, Program(p)
  PROVE  \/ Quiet /\ events' = events
         \/ /\ Ended(p)
            /\ \/ events' = events
               \/ \E f \in Event :
                    /\ f.id = prog[p].event.id /\ f.pid = prog[p].event.pid
                    /\ events' = Append(events, f)
<1>0. prog \in [Pid -> Prog] /\ acts \in Nat
  BY DEF KernelTypeOK
<1>1. prog[p] # Idle
  BY DEF Program, UpdateChild, Emit, Idle
<1> DEFINE e == prog[p].event
<1>2. e \in Event
  BY <1>1, ProgramOf
<1>3. CASE UpdateChild(p)
  <2>1. prog' = [prog EXCEPT ![p].pc = "emit"] /\ UNCHANGED <<events, acts>>
    BY <1>3 DEF UpdateChild
  <2>2. prog[p] \in [pc : {"update", "emit"}, event : Event, fresh : BOOLEAN]
    BY <1>1, ProgramOf
  <2>3. prog'[p].event = e /\ prog'[p].pc = "emit"
    BY <1>0, <2>1, <2>2
  <2>4. prog'[p] # Idle
    BY <2>3 DEF Idle
  <2> QED BY <1>0, <1>1, <2>1, <2>3, <2>4 DEF Quiet
<1>4. CASE Emit(p)
  <2>1. Ended(p)
    BY <1>0, <1>1, <1>4 DEF Emit, Ended
  <2>2. \/ events' = events
        \/ \E n \in EventPkgs(p) : events' = Append(events, [e EXCEPT !.pkg = n])
    BY <1>4 DEF Emit
  <2>3. ASSUME NEW n \in EventPkgs(p)
        PROVE  LET f == [e EXCEPT !.pkg = n]
               IN  f \in Event /\ f.id = e.id /\ f.pid = e.pid
    BY <1>1, <1>2, EventPkgsType DEF Event
  <2> QED BY <2>1, <2>2, <2>3
<1> QED BY <1>3, <1>4 DEF Program

\* Whatever becomes of the programs.
FlightsMove == Quiet \/ \E p \in Pid : Started(p) \/ Ended(p)

LEMMA FlightStep ==
  ASSUME KernelTypeOK, FlightOrder, FlightsMove
  PROVE  FlightOrder'
<1>0. acts \in Nat /\ \A q \in Pid : prog[q] # Idle => prog[q].event.id \in Nat
  BY ProgramOf DEF KernelTypeOK, Event
<1>1. CASE Quiet
  BY <1>0, <1>1 DEF Quiet, FlightOrder
<1>2. ASSUME NEW p \in Pid, Started(p)
      PROVE  FlightOrder'
  BY <1>0, <1>2 DEF Started, FlightOrder
<1>3. ASSUME NEW p \in Pid, Ended(p)
      PROVE  FlightOrder'
  BY <1>0, <1>3 DEF Ended, FlightOrder
<1> QED BY <1>1, <1>2, <1>3 DEF FlightsMove

LEMMA PastStep ==
  ASSUME KernelTypeOK, FlightOrder, FlightsMove, NEW e \in Event, Past(e)
  PROVE  Past(e)'
<1>0. /\ acts \in Nat /\ e.id \in Nat
      /\ \A q \in Pid : prog[q] # Idle => prog[q].event.id \in Nat
  BY ProgramOf DEF KernelTypeOK, Event
<1>1. CASE Quiet
  BY <1>0, <1>1 DEF Quiet, Past, Precedes
<1>2. ASSUME NEW p \in Pid, Started(p)
      PROVE  Past(e)'
  BY <1>0, <1>2 DEF Started, Past, Precedes
<1>3. ASSUME NEW p \in Pid, Ended(p)
      PROVE  Past(e)'
  BY <1>0, <1>3 DEF Ended, Past, Precedes
<1> QED BY <1>1, <1>2, <1>3 DEF FlightsMove

\* The event a program leaves behind is past.
LEMMA PastEnded ==
  ASSUME KernelTypeOK, FlightOrder, NEW p \in Pid, Ended(p), NEW f \in Event,
         f.id = prog[p].event.id, f.pid = prog[p].event.pid
  PROVE  Past(f)'
<1>1. f.pid = p /\ f.id <= acts'
  BY DEF FlightOrder, Ended
<1>2. ASSUME NEW q \in Pid, prog'[q] # Idle
      PROVE  f.id # prog'[q].event.id /\ f.pid # prog'[q].event.pid
  <2>1. q # p /\ prog'[q] = prog[q]
    BY <1>2 DEF Ended
  <2> QED BY <1>1, <1>2, <2>1 DEF FlightOrder, Ended
<1> QED BY <1>1, <1>2 DEF Past, Precedes

LEMMA InOrderAppend ==
  ASSUME NEW S, NEW s \in Seq(S), NEW x \in S, InOrder(s),
         \A i \in DOMAIN s : Precedes(s[i], x)
  PROVE  InOrder(Append(s, x))
<1> DEFINE t == Append(s, x)
<1>1. /\ DOMAIN t = 1..(Len(s) + 1) /\ DOMAIN s = 1..Len(s) /\ Len(s) \in Nat
      /\ \A i \in DOMAIN s : t[i] = s[i]
      /\ t[Len(s) + 1] = x
  OBVIOUS
<1> SUFFICES ASSUME NEW i \in DOMAIN t, NEW j \in DOMAIN t, i < j
             PROVE  Precedes(t[i], t[j])
  BY DEF InOrder
<1> HIDE DEF t
<1>2. i \in DOMAIN s /\ (j \in DOMAIN s \/ j = Len(s) + 1)
  BY <1>1
<1> QED BY <1>1, <1>2 DEF InOrder

LEMMA TailIndices ==
  ASSUME NEW S, NEW s \in Seq(S), s # << >>
  PROVE  \A j \in DOMAIN Tail(s) :
           j \in Nat \ {0} /\ j + 1 \in DOMAIN s /\ Tail(s)[j] = s[j + 1]
OBVIOUS

LEMMA InOrderTail ==
  ASSUME NEW S, NEW s \in Seq(S), s # << >>, InOrder(s)
  PROVE  InOrder(Tail(s))
<1> DEFINE t == Tail(s)
<1>1. \A j \in DOMAIN t : j \in Nat /\ j + 1 \in DOMAIN s /\ t[j] = s[j + 1]
  BY TailIndices
<1> HIDE DEF t
<1>2. InOrder(t)
  BY <1>1 DEF InOrder
<1> QED BY <1>2 DEF t

\* The ring buffer stays in order, whether an event is added or released.
LEMMA RingStep ==
  ASSUME KernelTypeOK, FlightOrder, RingOrder, FlightsMove,
         \/ events' = events
         \/ events # << >> /\ events' = Tail(events)
         \/ \E p \in Pid, f \in Event :
              /\ Ended(p)
              /\ f.id = prog[p].event.id /\ f.pid = prog[p].event.pid
              /\ events' = Append(events, f)
  PROVE  RingOrder'
<1>0. events \in Seq(Event)
  BY DEF KernelTypeOK
<1>1. ASSUME NEW i \in DOMAIN events
      PROVE  /\ events[i] \in Event /\ Past(events[i])
             /\ \A x \in Event : x = events[i] => Past(x)'
  <2>1. events[i] \in Event
    BY <1>0
  <2> QED BY <2>1, PastStep DEF RingOrder
<1>2. CASE events' = events
  <2>1. ASSUME NEW i \in DOMAIN events'
        PROVE  Past(events[i])'
    BY <1>1, <1>2, <2>1 DEF Past
  <2>2. InOrder(events)'
    BY <1>2 DEF RingOrder, InOrder
  <2> QED BY <2>1, <2>2 DEF RingOrder
<1>3. CASE events # << >> /\ events' = Tail(events)
  <2>1. ASSUME NEW j \in DOMAIN events'
        PROVE  Past(events[j])'
    <3>1. j + 1 \in DOMAIN events /\ events'[j] = events[j + 1]
      BY <1>0, <1>3, <2>1, TailIndices
    <3> QED BY <1>1, <3>1 DEF Past
  <2>2. InOrder(Tail(events))
    BY <1>0, <1>3, InOrderTail DEF RingOrder
  <2>3. InOrder(events)'
    BY <1>3, <2>2 DEF InOrder
  <2> QED BY <2>1, <2>3 DEF RingOrder
<1>4. ASSUME NEW p \in Pid, NEW f \in Event, Ended(p),
             f.id = prog[p].event.id, f.pid = prog[p].event.pid,
             events' = Append(events, f)
      PROVE  RingOrder'
  <2>1. ASSUME NEW j \in DOMAIN events'
        PROVE  Past(events[j])'
    <3>1. CASE j \in DOMAIN events
      <4>1. events'[j] = events[j]
        BY <1>0, <1>4, <3>1
      <4> QED BY <1>1, <3>1, <4>1 DEF Past
    <3>2. CASE j \notin DOMAIN events
      <4>1. events'[j] = f
        BY <1>0, <1>4, <2>1, <3>2
      <4> QED BY <1>4, <4>1, PastEnded DEF Past
    <3> QED BY <3>1, <3>2
  <2>2. \A i \in DOMAIN events : Precedes(events[i], f)
    BY <1>1, <1>4 DEF Past, Precedes, Ended
  <2>3. InOrder(Append(events, f))
    BY <1>0, <2>2, InOrderAppend DEF RingOrder
  <2>4. InOrder(events)'
    BY <1>4, <2>3 DEF InOrder
  <2> QED BY <2>1, <2>4 DEF RingOrder
<1> QED BY <1>2, <1>3, <1>4

LEMMA CauseType ==
  ASSUME session \in SessionSet
  PROVE  /\ DOMAIN Causes = DOMAIN session.findings
         /\ \A k \in DOMAIN Causes : Causes[k] \in Event
<1>1. session.findings \in Seq(FindingSet)
  BY DEF SessionSet
<1>2. \A k \in DOMAIN session.findings : session.findings[k] \in FindingSet
  BY <1>1
<1> QED BY <1>2 DEF Causes, FindingSet

LEMMA HandledValue == Handled \in {0, 1} /\ Handled' \in {0, 1}
BY DEF Handled

\* Findings stay in order when none is added, whatever happens to the ring.
LEMMA FindingKept ==
  ASSUME KernelTypeOK, session \in SessionSet, FlightOrder, FindingOrder,
         FlightsMove, session'.findings = session.findings,
         \/ events' = events /\ Handled' >= Handled
         \/ events # << >> /\ events' = Tail(events)
         \/ \E p \in Pid, f \in Event :
              /\ Ended(p)
              /\ f.id = prog[p].event.id /\ f.pid = prog[p].event.pid
              /\ events' = Append(events, f)
              /\ Handled' = Handled
  PROVE  FindingOrder'
<1>0. events \in Seq(Event)
  BY DEF KernelTypeOK
<1>1. Causes' = Causes
  BY DEF Causes
<1>2. ASSUME NEW k \in DOMAIN Causes
      PROVE  \A e \in Event : e = Causes[k] => Past(e)'
  BY PastStep DEF FindingOrder
<1>3. ASSUME NEW k \in DOMAIN Causes
      PROVE  Past(Causes[k])'
  BY <1>1, <1>2, CauseType DEF Past
<1>4. ASSUME NEW k \in DOMAIN Causes, NEW j \in DOMAIN events', j > Handled'
      PROVE  Precedes(Causes[k], events'[j])
  <2>1. \A i \in DOMAIN events : i > Handled => Precedes(Causes[k], events[i])
    BY DEF FindingOrder
  <2>2. CASE events' = events /\ Handled' >= Handled
    BY <1>0, <1>4, <2>1, <2>2, HandledValue
  <2>3. CASE events # << >> /\ events' = Tail(events)
    <3>1. /\ j \in Nat \ {0} /\ j + 1 \in DOMAIN events
          /\ events'[j] = events[j + 1]
      BY <1>0, <1>4, <2>3, TailIndices
    <3> QED BY <2>1, <3>1, HandledValue
  <2>4. ASSUME NEW p \in Pid, NEW f \in Event, Ended(p),
               f.id = prog[p].event.id, f.pid = prog[p].event.pid,
               events' = Append(events, f), Handled' = Handled
        PROVE  Precedes(Causes[k], events'[j])
    <3>1. CASE j \in DOMAIN events
      <4>1. events'[j] = events[j]
        BY <1>0, <2>4, <3>1
      <4> QED BY <1>4, <2>1, <2>4, <3>1, <4>1
    <3>2. CASE j \notin DOMAIN events
      <4>1. events'[j] = f
        BY <1>0, <1>4, <2>4, <3>2
      <4>2. Past(Causes[k])
        BY DEF FindingOrder
      <4> QED BY <2>4, <4>1, <4>2 DEF Past, Precedes, Ended
    <3> QED BY <3>1, <3>2
  <2> QED BY <2>2, <2>3, <2>4
<1>5. InOrder(Causes)'
  BY <1>1 DEF FindingOrder, InOrder
<1> QED BY <1>1, <1>3, <1>4, <1>5 DEF FindingOrder

\* They stay in order when one about the oldest event is added.
LEMMA FindingAdded ==
  ASSUME KernelTypeOK, session \in SessionSet, RingOrder, FindingOrder,
         events # << >>, Handled = 0, UNCHANGED <<prog, acts>>,
         NEW f \in FindingSet, f.cause = Head(events),
         session'.findings = Append(session.findings, f),
         \/ events' = Tail(events)
         \/ events' = events /\ Handled' = 1
  PROVE  FindingOrder'
<1> DEFINE old == session.findings
           n   == Len(old) + 1
<1>0. events \in Seq(Event) /\ 1 \in DOMAIN events /\ Head(events) = events[1]
  BY DEF KernelTypeOK
<1>1. /\ old \in Seq(FindingSet)
      /\ session'.findings = Append(old, f)
  BY DEF SessionSet
<1>2. /\ DOMAIN old = 1..Len(old) /\ Len(old) \in Nat
      /\ DOMAIN session'.findings = DOMAIN old \cup {n}
      /\ \A k \in DOMAIN old : session'.findings[k] = old[k] /\ k < n
      /\ session'.findings[n] = f
  <2> HIDE DEF old
  <2> QED BY <1>1
<1>3. /\ DOMAIN Causes = DOMAIN old
      /\ DOMAIN Causes' = DOMAIN old \cup {n}
      /\ \A k \in DOMAIN old : Causes'[k] = Causes[k] /\ k < n /\ k \in Nat
      /\ Causes'[n] = events[1] /\ n \in Nat
  BY <1>0, <1>2 DEF Causes
<1> HIDE DEF old, n
<1>4. \A k \in DOMAIN old : Past(Causes[k]) /\ Precedes(Causes[k], events[1])
  BY <1>0, <1>3 DEF FindingOrder
<1>5. ASSUME NEW i \in DOMAIN Causes', NEW j \in DOMAIN Causes', i < j
      PROVE  Precedes(Causes'[i], Causes'[j])
  <2>1. i \in DOMAIN old
    BY <1>3, <1>5
  <2>2. CASE j \in DOMAIN old
    BY <1>3, <1>5, <2>1, <2>2 DEF FindingOrder, InOrder
  <2>3. CASE j = n
    BY <1>3, <1>4, <2>1, <2>3
  <2> QED BY <1>3, <2>2, <2>3
<1>6. ASSUME NEW k \in DOMAIN Causes'
      PROVE  Past(Causes[k])'
  <2>1. CASE k \in DOMAIN old
    BY <1>3, <1>4, <2>1 DEF Past
  <2>2. CASE k = n
    BY <1>0, <1>3, <2>2 DEF RingOrder, Past
  <2> QED BY <1>3, <2>1, <2>2
<1>7. ASSUME NEW k \in DOMAIN Causes', NEW j \in DOMAIN events', j > Handled'
      PROVE  Precedes(Causes'[k], events'[j])
  <2>1. \E i \in DOMAIN events : i > 1 /\ events'[j] = events[i]
    <3>1. CASE events' = Tail(events)
      <4>1. /\ j \in Nat \ {0} /\ j + 1 \in DOMAIN events
            /\ events'[j] = events[j + 1]
        BY <1>0, <1>7, <3>1, TailIndices
      <4> QED BY <4>1
    <3>2. CASE events' = events /\ Handled' = 1
      BY <1>7, <3>2
    <3> QED BY <3>1, <3>2
  <2>2. PICK i \in DOMAIN events : i > 1 /\ events'[j] = events[i]
    BY <2>1
  <2>3. i > 0
    BY <1>0, <2>2
  <2>4. CASE k \in DOMAIN old
    BY <1>3, <2>2, <2>3, <2>4 DEF FindingOrder
  <2>5. CASE k = n
    BY <1>0, <1>3, <2>2, <2>5 DEF RingOrder, InOrder
  <2> QED BY <1>3, <2>4, <2>5
<1> QED BY <1>5, <1>6, <1>7 DEF FindingOrder, InOrder

OrderInv == FlightOrder /\ RingOrder /\ FindingOrder

LEMMA OrderInit == Init => OrderInv
BY DEF Init, KernelInit, OrderInv, FlightOrder, RingOrder, FindingOrder,
       InOrder, Causes, EmptySession

LEMMA OrderKernel ==
  ASSUME TypeOK, OrderInv, NEW p \in Pid, Activity(p) \/ Program(p), Attached
  PROVE  OrderInv'
<1>0. /\ KernelTypeOK /\ session \in SessionSet
      /\ FlightOrder /\ RingOrder /\ FindingOrder
  BY DEF TypeOK, DaemonTypeOK, OrderInv
<1>1. session' = session /\ Handled' = Handled /\ Handled' >= Handled
  BY HandledValue DEF Attached, daemonVars, Handled
<1>2. CASE Activity(p)
  <2>1. FlightsMove /\ events' = events
    BY <1>0, <1>2, ActivityFlights, ActivityType DEF FlightsMove
  <2> QED BY <1>0, <1>1, <2>1, FlightStep, RingStep, FindingKept DEF OrderInv
<1>3. CASE Program(p)
  <2>1. FlightsMove
    BY <1>0, <1>3, ProgramFlights DEF FlightsMove
  <2>2. CASE events' = events
    BY <1>0, <1>1, <2>1, <2>2, FlightStep, RingStep, FindingKept DEF OrderInv
  <2>3. CASE \E f \in Event :
               /\ Ended(p)
               /\ f.id = prog[p].event.id /\ f.pid = prog[p].event.pid
               /\ events' = Append(events, f)
    BY <1>0, <1>1, <2>1, <2>3, FlightStep, RingStep, FindingKept DEF OrderInv
  <2> QED BY <1>0, <1>3, <2>2, <2>3, ProgramFlights
<1> QED BY <1>2, <1>3

\* The handler of the oldest event.
LEMMA OrderHandle ==
  ASSUME TypeOK, OrderInv, HandleEvent
  PROVE  FindingOrder'
<1>0. /\ KernelTypeOK /\ session \in SessionSet
      /\ FlightOrder /\ RingOrder /\ FindingOrder
      /\ events \in Seq(Event) /\ events # << >>
  BY DEF TypeOK, KernelTypeOK, DaemonTypeOK, OrderInv, HandleEvent
<1>1. UNCHANGED <<prog, acts>> /\ FlightsMove
  BY DEF HandleEvent, FlightsMove, Quiet
<1>2. Handled = 0
  BY DEF TypeOK, DaemonTypeOK, HandleEvent, Handled
<1>3. \/ events' = Tail(events)
      \/ events' = events /\ Handled' = 1
  BY DEF HandleEvent, Handled
<1>4. Recorded(session, session', Head(events))
  <2>1. Head(events) \in Event /\ session' = Handle(session, Head(events))
    BY <1>0 DEF HandleEvent
  <2> QED BY <1>0, <2>1, HandleRecorded
<1>5. CASE session'.findings = session.findings
  BY <1>0, <1>1, <1>2, <1>3, <1>5, FindingKept
<1>6. ASSUME NEW f \in FindingSet, f.cause = Head(events),
             session'.findings = Append(session.findings, f)
      PROVE  FindingOrder'
  BY <1>0, <1>1, <1>2, <1>3, <1>6, FindingAdded
<1> QED BY <1>4, <1>5, <1>6 DEF Recorded

LEMMA OrderDaemon ==
  ASSUME TypeOK, OrderInv,
         DaemonStep \/ (\E r \in Requests : Send(r)) \/ UNCHANGED vars
  PROVE  OrderInv'
<1>0. /\ KernelTypeOK /\ session \in SessionSet
      /\ FlightOrder /\ RingOrder /\ FindingOrder
  BY DEF TypeOK, DaemonTypeOK, OrderInv
<1>1. FlightsMove
  BY DaemonKeeps DEF FlightsKept, FlightsMove, Quiet
<1> DEFINE Still == /\ UNCHANGED <<events, pushes>>
                    /\ session'.findings = session.findings
<1>2. CASE Still
  <2>1. events' = events /\ Handled' >= Handled
    BY <1>2, HandledValue DEF Handled
  <2> QED BY <1>0, <1>1, <1>2, <2>1, FlightStep, RingStep, FindingKept
          DEF OrderInv
<1>3. CASE EpollWait \/ LeaveLoop \/ Ping \/ Shutdown \/ StartRefused
           \/ ClearDone \/ ReportRefused \/ ReportRendered
           \/ StartConsume \/ EndConsume \/ (\E p \in Pid : ClearOne(p))
           \/ (\E p \in Pid : TrackFailed(p)) \/ UNCHANGED vars
           \/ (\E r \in Requests : Send(r))
  <2>1. Still
    BY <1>3 DEF EpollWait, LeaveLoop, Ping, Shutdown, StartRefused,
                ClearDone, ReportRefused, ReportRendered, StartConsume,
                EndConsume, ClearOne, TrackFailed, Send, vars, kernelVars,
                daemonVars
  <2> QED BY <1>2, <2>1
<1>4. CASE EndPhaseRequest \/ \E p \in Pid : Track(p)
  <2>1. Still
    BY <1>0, <1>4 DEF EndPhaseRequest, EndPhase, Track, StartPhase, SessionSet
  <2> QED BY <1>2, <2>1
<1>5. CASE StartReset
  <2>1. events' = events /\ session'.findings = << >>
    BY <1>5 DEF StartReset, Reset, EmptySession, kernelVars
  <2>2. FindingOrder'
    BY <2>1 DEF FindingOrder, InOrder, Causes
  <2> QED BY <1>0, <1>1, <2>1, <2>2, FlightStep, RingStep DEF OrderInv
<1>6. CASE HandleEvent
  <2>1. events' = events \/ (events # << >> /\ events' = Tail(events))
    BY <1>6 DEF HandleEvent
  <2> QED BY <1>0, <1>1, <1>6, <2>1, OrderHandle, FlightStep, RingStep
          DEF OrderInv
<1>7. CASE LookupPush \/ WritePush
  <2>1. pushes # << >> /\ events # << >>
    BY <1>7 DEF TypeOK, DaemonTypeOK, LookupPush, WritePush
  <2>2. /\ session' = session
        /\ \/ events' = events /\ Handled' >= Handled
           \/ events' = Tail(events)
    BY <1>7, <2>1, HandledValue DEF LookupPush, WritePush, NextPush, Handled
  <2> QED BY <1>0, <1>1, <2>1, <2>2, FlightStep, RingStep, FindingKept
          DEF OrderInv
<1> QED BY <1>3, <1>4, <1>5, <1>6, <1>7 DEF DaemonStep, Serve, Drain

LEMMA OrderStep == TypeOK /\ OrderInv /\ [Next]_vars => OrderInv'
BY OrderKernel, OrderDaemon DEF Next

\* An act leads to at most one finding, and the findings about one process are
\* in the order it acted, whatever the ring buffer drops and however many
\* system calls a handler still has to make when the next act is recorded.
THEOREM FindingsOrdered == Spec => []OneFindingPerActInOrder
<1>1. Spec => []OrderInv
  BY OrderInit, OrderStep, TypeCorrect, PTL DEF Spec
<1>2. OrderInv => OneFindingPerActInOrder
  BY DEF OrderInv, FindingOrder, InOrder, Precedes, OneFindingPerActInOrder
<1> QED BY <1>1, <1>2, PTL
=============================================================================
