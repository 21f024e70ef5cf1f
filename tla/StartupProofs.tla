---------------------------- MODULE StartupProofs ----------------------------
(***************************************************************************)
(* Theorems about Startup: however many daemons are started, whatever      *)
(* fails and whenever one is killed, a client is served only by a daemon   *)
(* that is configured, and a daemon that is gone leaves nothing behind.    *)
(***************************************************************************)
EXTENDS Startup, FiniteSetTheorems, TLAPS

\* The socket: its owner is between bind and close, and nobody waits at a
\* socket that does not listen.
SocketInv ==
  /\ \A d \in Daemons :
       /\ owner = d => pc[d] \in {"listen", "epoll", "serving", "unwind"}
       /\ pc[d] \in {"listen", "epoll", "serving"} => owner = d
       /\ pc[d] \in {"epoll", "serving"} => listening
  /\ owner = NoDaemon => ~listening
  /\ ~listening => \A c \in Client : client[c] # "waiting"

\* The programs: none before attach or after detach, all of them once past it.
ProgramsInv ==
  \A d \in Daemons :
    /\ pc[d] \in {"off", "load", "exited"} => attached[d] = 0
    /\ pc[d] \in {"ring", "resolve", "mode", "addrs", "bind", "listen",
                  "epoll", "serving"} => attached[d] = Programs

\* The configuration: each step of it is done when the next begins.
ConfigInv ==
  \A d \in Daemons :
    /\ pc[d] \in {"mode", "addrs", "bind", "listen", "epoll", "serving"} =>
         hosts[d] = {}
    /\ pc[d] \in {"addrs", "bind", "listen", "epoll", "serving"} =>
         kmode[d] = mode[d]
    /\ pc[d] \in {"bind", "listen", "epoll", "serving"} => pending[d] = {}

\* What the hosts given with --allow resolve to.
Resolvable == UNION {Resolve[h] : h \in Host}

\* If the map has room for all of it, no address is lost on the way there.
AddrsInv ==
  \A d \in Daemons :
    /\ addrs[d] \subseteq Resolvable
    /\ pc[d] \in {"addrs", "bind", "listen", "epoll", "serving"}
       /\ mode[d] = "enforce" => addrs[d] = loaded[d] \cup pending[d]

\* The stages in which a system call can fail.
Fallible == {"load", "attach", "ring", "mode", "bind", "listen", "epoll"}

LEMMA GoWrongCases ==
  ASSUME NEW d \in Daemons, GoWrong(d)
  PROVE  Kill(d) \/ \E stage \in Fallible : \E call : Fail(d, stage, call)
<1> DEFINE Failed == \E stage \in Fallible : \E call : Fail(d, stage, call)
<1>1. ASSUME NEW stage \in Fallible, NEW call, Fail(d, stage, call)
      PROVE  Failed
  BY <1>1
<1> HIDE DEF Failed
<1> QED BY <1>1 DEF GoWrong, Fallible
-----------------------------------------------------------------------------
LEMMA TypeInit == Init => TypeOK
<1> SUFFICES ASSUME Init PROVE TypeOK
  OBVIOUS
<1>1. Cardinality({}) = 0
  BY FS_EmptySet
<1>2. attached \in [Daemons -> 0..Programs] /\ 0 <= MapSize
  BY StartupAssumption DEF Init
<1>3. \A d \in Daemons : /\ Cardinality(loaded[d]) <= MapSize
                         /\ loaded[d] \cup pending[d] \subseteq addrs[d]
  BY <1>1, <1>2 DEF Init
<1> QED BY <1>2, <1>3 DEF Init, TypeOK, Stages

\* What fits in the map before an address is put into it fits afterwards.
LEMMA OneMoreFits ==
  ASSUME NEW S \in SUBSET Addr, NEW a \in Addr, Cardinality(S) < MapSize
  PROVE  Cardinality(S \cup {a}) <= MapSize
<1>1. IsFiniteSet(S)
  BY StartupAssumption, FS_Subset
<1>2. Cardinality(S) \in Nat
  BY <1>1, FS_CardinalityType
<1>3. Cardinality(S \cup {a}) = Cardinality(S)
        \/ Cardinality(S \cup {a}) = Cardinality(S) + 1
  BY <1>1, FS_AddElement
<1> QED BY <1>2, <1>3, StartupAssumption

LEMMA TypeStep == TypeOK /\ [Next]_vars => TypeOK'
<1> SUFFICES ASSUME TypeOK, [Next]_vars PROVE TypeOK'
  OBVIOUS
<1> USE StartupAssumption
<1>1. ASSUME NEW d \in Daemons,
             \/ Start(d) \/ Load(d) \/ Attached(d) \/ NewRing(d) \/ Resolved(d)
             \/ AddrsDone(d) \/ BindRefused(d) \/ SetupEpoll(d)
             \/ \E stage \in Fallible : \E call : Fail(d, stage, call)
      PROVE  TypeOK'
  BY <1>1 DEF Start, Load, Attached, NewRing, Resolved, AddrsDone, BindRefused,
              SetupEpoll, Fail, Goto, maps, TypeOK, Stages
<1>2. ASSUME NEW d \in Daemons, Attach(d)
      PROVE  TypeOK'
  <2>1. attached' \in [Daemons -> 0..Programs]
    BY <1>2 DEF Attach, TypeOK
  <2> QED BY <1>2, <2>1 DEF Attach, maps, TypeOK
<1>3. ASSUME NEW d \in Daemons, NEW h \in Host, ResolveHost(d, h)
      PROVE  TypeOK'
  <2>1. Resolve[h] \subseteq Addr
    OBVIOUS
  <2>2. /\ addrs' \in [Daemons -> SUBSET Addr]
        /\ \A e \in Daemons : addrs[e] \subseteq addrs'[e]
    BY <1>3, <2>1 DEF ResolveHost, TypeOK
  <2>3. hosts' \in [Daemons -> SUBSET Host]
    BY <1>3 DEF ResolveHost, TypeOK
  <2>4. \A e \in Daemons : /\ Cardinality(loaded[e]) <= MapSize
                          /\ loaded[e] \cup pending[e] \subseteq addrs'[e]
    BY <2>2 DEF TypeOK
  <2> QED BY <1>3, <2>2, <2>3, <2>4 DEF ResolveHost, TypeOK
<1>4. ASSUME NEW d \in Daemons, SetMode(d)
      PROVE  TypeOK'
  BY <1>4 DEF SetMode, Goto, TypeOK, Stages
<1>5. ASSUME NEW d \in Daemons, NEW a \in Addr, LoadAddr(d, a)
      PROVE  TypeOK'
  <2>1. pending' \in [Daemons -> SUBSET Addr]
    BY <1>5 DEF LoadAddr, TypeOK
  <2>2. CASE Cardinality(loaded[d]) < MapSize
    <3>1. loaded' = [loaded EXCEPT ![d] = @ \cup {a}]
      BY <1>5, <2>2 DEF LoadAddr
    <3>2. Cardinality(loaded[d] \cup {a}) <= MapSize
      BY <2>2, OneMoreFits DEF TypeOK
    <3>3. a \in addrs[d]
      BY <1>5 DEF LoadAddr, TypeOK
    <3> QED BY <1>5, <2>1, <3>1, <3>2, <3>3 DEF LoadAddr, TypeOK
  <2>3. CASE ~(Cardinality(loaded[d]) < MapSize)
    BY <1>5, <2>1, <2>3 DEF LoadAddr, TypeOK
  <2> QED BY <2>2, <2>3
<1>6. ASSUME NEW d \in Daemons, Bind(d) \/ Listen(d)
      PROVE  TypeOK'
  BY <1>6 DEF Bind, Listen, Goto, maps, TypeOK, Stages
<1>7. ASSUME NEW d \in Daemons, CloseSocket(d) \/ Kill(d)
      PROVE  TypeOK'
  <2>1. Close(d)
    BY <1>7 DEF CloseSocket, Kill
  <2>2. /\ owner' \in Daemons \cup {NoDaemon}
        /\ client' \in [Client -> {"idle", "waiting", "served", "failed"}]
    BY <2>1 DEF Close, TypeOK
  <2>3. listening' \in BOOLEAN
    <3>1. listening' = FALSE \/ listening' = listening
      BY <2>1 DEF Close
    <3> QED BY <3>1 DEF TypeOK
  <2> QED BY <1>7, <2>2, <2>3 DEF CloseSocket, Kill, Goto, maps, TypeOK, Stages
<1>8. ASSUME NEW d \in Daemons, Detach(d)
      PROVE  TypeOK'
  BY <1>8 DEF Detach, Goto, maps, TypeOK, Stages
<1>9. ASSUME NEW d \in Daemons, NEW c \in Client, Serve(d, c) \/ ServeShutdown(d, c)
      PROVE  TypeOK'
  BY <1>9 DEF Serve, ServeShutdown, Goto, maps, TypeOK, Stages
<1>10. ASSUME NEW c \in Client, Connect(c) \/ ConnectRefused(c)
       PROVE  TypeOK'
  BY <1>10 DEF Connect, ConnectRefused, maps, TypeOK
<1>11. CASE UNCHANGED vars
  BY <1>11 DEF vars, maps, TypeOK
<1> QED
  BY <1>1, <1>2, <1>3, <1>4, <1>5, <1>6, <1>7, <1>8, <1>9, <1>10, <1>11,
     GoWrongCases
     DEF Next, Succeed, ServeOne

\* The types and the kernel's allowlist of every daemon, whatever fails.
THEOREM StartupTypeCorrect == Spec => []TypeOK
BY TypeInit, TypeStep, PTL DEF Spec
-----------------------------------------------------------------------------
LEMMA SocketInit == Init => SocketInv
BY StartupAssumption DEF Init, SocketInv

LEMMA SocketStep == TypeOK /\ SocketInv /\ [Next]_vars => SocketInv'
<1> SUFFICES ASSUME TypeOK, SocketInv, [Next]_vars PROVE SocketInv'
  OBVIOUS
<1> USE StartupAssumption
\* The daemon stays on the same side of bind and of the end of its loop.
<1>1. ASSUME NEW d \in Daemons,
             \/ Start(d) \/ Load(d) \/ Attached(d) \/ NewRing(d) \/ Resolved(d)
             \/ AddrsDone(d) \/ BindRefused(d) \/ SetMode(d) \/ Detach(d)
             \/ SetupEpoll(d)
      PROVE  SocketInv'
  BY <1>1 DEF Start, Load, Attached, NewRing, Resolved, AddrsDone, BindRefused,
              SetMode, Detach, SetupEpoll, Goto, TypeOK, SocketInv
<1>2. ASSUME NEW d \in Daemons, NEW stage \in Fallible, NEW call,
             Fail(d, stage, call)
      PROVE  SocketInv'
  BY <1>2 DEF Fail, Fallible, Goto, TypeOK, SocketInv
<1>3. ASSUME NEW d \in Daemons,
             \/ Attach(d) \/ \E h \in Host : ResolveHost(d, h)
             \/ \E a \in Addr : LoadAddr(d, a)
      PROVE  SocketInv'
  BY <1>3 DEF Attach, ResolveHost, LoadAddr, SocketInv
<1>4. ASSUME NEW d \in Daemons, Bind(d) \/ Listen(d)
      PROVE  SocketInv'
  BY <1>4 DEF Bind, Listen, Goto, TypeOK, SocketInv
\* Whoever is not the owner has nothing to close.
<1>5. ASSUME NEW d \in Daemons, CloseSocket(d) \/ Kill(d)
      PROVE  SocketInv'
  <2>1. Close(d) /\ \/ pc' = [pc EXCEPT ![d] = "detach"]
                    \/ pc' = [pc EXCEPT ![d] = "exited"]
    BY <1>5 DEF CloseSocket, Kill, Goto
  <2>2. CASE owner = d
    BY <2>1, <2>2 DEF Close, TypeOK, SocketInv
  <2>3. CASE owner # d
    BY <2>1, <2>3 DEF Close, TypeOK, SocketInv
  <2> QED BY <2>2, <2>3
<1>6. ASSUME NEW d \in Daemons, NEW c \in Client, Serve(d, c) \/ ServeShutdown(d, c)
      PROVE  SocketInv'
  BY <1>6 DEF Serve, ServeShutdown, Goto, TypeOK, SocketInv
<1>7. ASSUME NEW c \in Client, Connect(c) \/ ConnectRefused(c)
      PROVE  SocketInv'
  BY <1>7 DEF Connect, ConnectRefused, TypeOK, SocketInv
<1>8. CASE UNCHANGED vars
  BY <1>8 DEF vars, SocketInv
<1> QED BY <1>1, <1>2, <1>3, <1>4, <1>5, <1>6, <1>7, <1>8, GoWrongCases
        DEF Next, Succeed, ServeOne
-----------------------------------------------------------------------------
LEMMA ProgramsInit == Init => ProgramsInv
BY DEF Init, ProgramsInv

LEMMA ProgramsStep == TypeOK /\ ProgramsInv /\ [Next]_vars => ProgramsInv'
<1> SUFFICES ASSUME TypeOK, ProgramsInv, [Next]_vars PROVE ProgramsInv'
  OBVIOUS
<1>1. ASSUME NEW d \in Daemons,
             \/ Start(d) \/ Load(d) \/ Attached(d) \/ NewRing(d) \/ Resolved(d)
             \/ AddrsDone(d) \/ BindRefused(d) \/ SetMode(d) \/ SetupEpoll(d)
             \/ Bind(d) \/ Listen(d) \/ CloseSocket(d)
      PROVE  ProgramsInv'
  BY <1>1 DEF Start, Load, Attached, NewRing, Resolved, AddrsDone, BindRefused,
              SetMode, SetupEpoll, Bind, Listen, CloseSocket, Goto, TypeOK,
              ProgramsInv
<1>2. ASSUME NEW d \in Daemons, NEW stage \in Fallible, NEW call,
             Fail(d, stage, call)
      PROVE  ProgramsInv'
  BY <1>2 DEF Fail, Goto, TypeOK, ProgramsInv
<1>3. ASSUME NEW d \in Daemons,
             \/ \E h \in Host : ResolveHost(d, h)
             \/ \E a \in Addr : LoadAddr(d, a)
      PROVE  ProgramsInv'
  BY <1>3 DEF ResolveHost, LoadAddr, ProgramsInv
<1>4. ASSUME NEW d \in Daemons, Attach(d)
      PROVE  ProgramsInv'
  BY <1>4 DEF Attach, TypeOK, ProgramsInv
<1>5. ASSUME NEW d \in Daemons, Detach(d) \/ Kill(d)
      PROVE  ProgramsInv'
  BY <1>5 DEF Detach, Kill, Goto, TypeOK, ProgramsInv
<1>6. ASSUME NEW d \in Daemons, NEW c \in Client, Serve(d, c) \/ ServeShutdown(d, c)
      PROVE  ProgramsInv'
  BY <1>6 DEF Serve, ServeShutdown, Goto, TypeOK, ProgramsInv
<1>7. ASSUME NEW c \in Client, Connect(c) \/ ConnectRefused(c)
      PROVE  ProgramsInv'
  BY <1>7 DEF Connect, ConnectRefused, ProgramsInv
<1>8. CASE UNCHANGED vars
  BY <1>8 DEF vars, ProgramsInv
<1> QED BY <1>1, <1>2, <1>3, <1>4, <1>5, <1>6, <1>7, <1>8, GoWrongCases
        DEF Next, Succeed, ServeOne
-----------------------------------------------------------------------------
LEMMA ConfigInit == Init => ConfigInv
BY DEF Init, ConfigInv

LEMMA ConfigStep == TypeOK /\ ConfigInv /\ [Next]_vars => ConfigInv'
<1> SUFFICES ASSUME TypeOK, ConfigInv, [Next]_vars PROVE ConfigInv'
  OBVIOUS
<1>1. ASSUME NEW d \in Daemons,
             \/ Start(d) \/ Load(d) \/ Attached(d) \/ NewRing(d) \/ Resolved(d)
             \/ AddrsDone(d) \/ BindRefused(d) \/ SetupEpoll(d) \/ Bind(d)
             \/ Listen(d) \/ CloseSocket(d) \/ Detach(d) \/ Kill(d)
      PROVE  ConfigInv'
  BY <1>1 DEF Start, Load, Attached, NewRing, Resolved, AddrsDone, BindRefused,
              SetupEpoll, Bind, Listen, CloseSocket, Detach, Kill, Goto, maps,
              TypeOK, ConfigInv
<1>2. ASSUME NEW d \in Daemons, NEW stage \in Fallible, NEW call,
             Fail(d, stage, call)
      PROVE  ConfigInv'
  BY <1>2 DEF Fail, Goto, maps, TypeOK, ConfigInv
<1>3. ASSUME NEW d \in Daemons, NEW h \in Host, ResolveHost(d, h)
      PROVE  ConfigInv'
  BY <1>3 DEF ResolveHost, TypeOK, ConfigInv
<1>4. ASSUME NEW d \in Daemons, NEW a \in Addr, LoadAddr(d, a)
      PROVE  ConfigInv'
  BY <1>4 DEF LoadAddr, TypeOK, ConfigInv
<1>5. ASSUME NEW d \in Daemons, SetMode(d)
      PROVE  ConfigInv'
  BY <1>5 DEF SetMode, Goto, TypeOK, ConfigInv
<1>6. ASSUME NEW d \in Daemons, Attach(d)
      PROVE  ConfigInv'
  BY <1>6 DEF Attach, maps, ConfigInv
<1>7. ASSUME NEW d \in Daemons, NEW c \in Client, Serve(d, c) \/ ServeShutdown(d, c)
      PROVE  ConfigInv'
  BY <1>7 DEF Serve, ServeShutdown, Goto, maps, TypeOK, ConfigInv
<1>8. ASSUME NEW c \in Client, Connect(c) \/ ConnectRefused(c)
      PROVE  ConfigInv'
  BY <1>8 DEF Connect, ConnectRefused, maps, ConfigInv
<1>9. CASE UNCHANGED vars
  BY <1>9 DEF vars, maps, ConfigInv
<1> QED BY <1>1, <1>2, <1>3, <1>4, <1>5, <1>6, <1>7, <1>8, <1>9, GoWrongCases
        DEF Next, Succeed, ServeOne
-----------------------------------------------------------------------------
\* Whoever is served is served by a daemon that is attached and configured.
THEOREM ServedConfigured == Spec => []ServedIsConfigured
<1>1. TypeOK /\ SocketInv /\ ProgramsInv /\ ConfigInv => ServedIsConfigured
  BY DEF SocketInv, ProgramsInv, ConfigInv, ServedIsConfigured
<1> QED
  BY <1>1, StartupTypeCorrect, SocketInit, SocketStep, ProgramsInit,
     ProgramsStep, ConfigInit, ConfigStep, PTL DEF Spec

\* However a daemon ended, its programs, its socket and its clients are gone.
THEOREM NothingLeft == Spec => []NothingLeftBehind
<1>1. SocketInv /\ ProgramsInv => NothingLeftBehind
  BY DEF SocketInv, ProgramsInv, NothingLeftBehind
<1> QED
  BY <1>1, StartupTypeCorrect, SocketInit, SocketStep, ProgramsInit,
     ProgramsStep, PTL DEF Spec
-----------------------------------------------------------------------------
LEMMA AddrsInit == Init => AddrsInv
BY DEF Init, AddrsInv

\* In a map that has room for every address no insertion fails, unless the
\* address is there already.
LEMMA RoomLeft ==
  ASSUME TypeOK, AddrsInv, Cardinality(Resolvable) <= MapSize,
         NEW d \in Daemons, NEW a \in pending[d], a \notin loaded[d]
  PROVE  Cardinality(loaded[d]) < MapSize
<1>1. loaded[d] \cup {a} \subseteq Resolvable /\ Resolvable \subseteq Addr
  BY StartupAssumption DEF TypeOK, AddrsInv, Resolvable
<1>2. IsFiniteSet(Resolvable) /\ IsFiniteSet(loaded[d])
  BY <1>1, StartupAssumption, FS_Subset
<1>3. Cardinality(loaded[d] \cup {a}) <= Cardinality(Resolvable)
  BY <1>1, <1>2, FS_Subset
<1>4. Cardinality(loaded[d] \cup {a}) = Cardinality(loaded[d]) + 1
  BY <1>2, FS_AddElement
<1>5. Cardinality(Resolvable) \in Nat /\ Cardinality(loaded[d]) \in Nat
  BY <1>2, FS_CardinalityType
<1> QED BY <1>3, <1>4, <1>5, StartupAssumption

LEMMA AddrsStep ==
  ASSUME Cardinality(Resolvable) <= MapSize
  PROVE  TypeOK /\ AddrsInv /\ [Next]_vars => AddrsInv'
<1> SUFFICES ASSUME TypeOK, AddrsInv, [Next]_vars PROVE AddrsInv'
  OBVIOUS
<1>1. ASSUME NEW d \in Daemons,
             \/ Start(d) \/ Load(d) \/ Attached(d) \/ NewRing(d) \/ Resolved(d)
             \/ AddrsDone(d) \/ BindRefused(d) \/ SetupEpoll(d) \/ Bind(d)
             \/ Listen(d) \/ CloseSocket(d) \/ Detach(d) \/ Kill(d)
      PROVE  AddrsInv'
  BY <1>1 DEF Start, Load, Attached, NewRing, Resolved, AddrsDone, BindRefused,
              SetupEpoll, Bind, Listen, CloseSocket, Detach, Kill, Goto, maps,
              TypeOK, AddrsInv
<1>2. ASSUME NEW d \in Daemons, NEW stage \in Fallible, NEW call,
             Fail(d, stage, call)
      PROVE  AddrsInv'
  BY <1>2 DEF Fail, Goto, maps, TypeOK, AddrsInv
<1>3. ASSUME NEW d \in Daemons, NEW h \in Host, ResolveHost(d, h)
      PROVE  AddrsInv'
  BY <1>3 DEF ResolveHost, TypeOK, AddrsInv, Resolvable
<1>4. ASSUME NEW d \in Daemons, NEW a \in Addr, LoadAddr(d, a)
      PROVE  AddrsInv'
  <2>1. a \in loaded'[d]
    BY <1>4, RoomLeft DEF LoadAddr, TypeOK
  <2>2. /\ pending' = [pending EXCEPT ![d] = @ \ {a}]
        /\ loaded' = [loaded EXCEPT ![d] = @ \cup {a}]
    BY <1>4, <2>1 DEF LoadAddr, TypeOK
  <2> QED BY <1>4, <2>2 DEF LoadAddr, TypeOK, AddrsInv
<1>5. ASSUME NEW d \in Daemons, SetMode(d)
      PROVE  AddrsInv'
  BY <1>5 DEF SetMode, Goto, TypeOK, AddrsInv
<1>6. ASSUME NEW d \in Daemons, Attach(d)
      PROVE  AddrsInv'
  BY <1>6 DEF Attach, maps, AddrsInv
<1>7. ASSUME NEW d \in Daemons, NEW c \in Client, Serve(d, c) \/ ServeShutdown(d, c)
      PROVE  AddrsInv'
  BY <1>7 DEF Serve, ServeShutdown, Goto, maps, TypeOK, AddrsInv
<1>8. ASSUME NEW c \in Client, Connect(c) \/ ConnectRefused(c)
      PROVE  AddrsInv'
  BY <1>8 DEF Connect, ConnectRefused, maps, AddrsInv
<1>9. CASE UNCHANGED vars
  BY <1>9 DEF vars, maps, AddrsInv
<1> QED BY <1>1, <1>2, <1>3, <1>4, <1>5, <1>6, <1>7, <1>8, <1>9, GoWrongCases
        DEF Next, Succeed, ServeOne

\* If the kernel's map has room for all that the hosts resolve to, then the
\* kernel blocks nothing that the rules let pass unreported.
THEOREM BlockedReported ==
  ASSUME Cardinality(Resolvable) <= MapSize
  PROVE  Spec => []BlockedIsReported
<1>1. ConfigInv /\ AddrsInv => BlockedIsReported
  BY DEF ConfigInv, AddrsInv, BlockedIsReported
<1> QED
  BY <1>1, StartupTypeCorrect, ConfigInit, ConfigStep, AddrsInit, AddrsStep, PTL
     DEF Spec
=============================================================================
