------------------------------ MODULE Startup ------------------------------
(***************************************************************************)
(* How blastguardd comes up and goes down: Daemon::init and setupEpoll     *)
(* (src/src/daemon/daemon.cpp), EBPFManager::init, setMode and             *)
(* addAllowedAddr (ebpfmanager.cpp), Allowlist::addHost (rules.cpp),       *)
(* IPCServer::init (ipcserver.cpp), main (main.cpp) and the destructors.   *)
(*                                                                         *)
(* Several daemons may be started, one after the other or at once: each    *)
(* has programs and maps of its own, but there is one socket name.  Every  *)
(* system call may fail where Faults allows it, and a signal may end a     *)
(* daemon at any point; what it has open is then closed by the kernel.     *)
(***************************************************************************)
EXTENDS Naturals, FiniteSets

CONSTANTS
  Daemons,   \* invocations of blastguardd
  NoDaemon,  \* nobody
  Client,    \* invocations of blastguardctl
  Host,      \* names given with --allow
  Addr,      \* addresses, IPv4 ones mapped into IPv6
  Resolve,   \* getaddrinfo: the addresses of each host
  Programs,  \* how many programs are attached: 7
  MapSize,   \* max_entries of the kernel's allowlist
  Faults     \* the system calls that may fail

ASSUME StartupAssumption ==
  /\ NoDaemon \notin Daemons
  /\ IsFiniteSet(Addr)
  /\ Resolve \in [Host -> SUBSET Addr]
  /\ Programs \in Nat /\ MapSize \in Nat

VARIABLES
  pc,         \* where each daemon is
  mode,       \* --mode
  hosts,      \* hosts it has still to resolve
  addrs,      \* m_allowlist
  attached,   \* programs it has attached
  kmode,      \* mode_config
  pending,    \* addresses it has still to put into the kernel's map
  loaded,     \* the kernel's allowlist
  owner,      \* who is bound to the socket name
  listening,  \* the owner listens
  client      \* what has become of each client

maps == <<mode, hosts, addrs, kmode, pending, loaded>>
vars == <<pc, maps, attached, owner, listening, client>>

Stages == {"off", "load", "attach", "ring", "resolve", "mode", "addrs", "bind",
           "listen", "epoll", "serving", "unwind", "detach", "exited"}

Init ==
  /\ pc = [d \in Daemons |-> "off"]
  /\ mode \in [Daemons -> {"audit", "enforce"}]
  /\ hosts = [d \in Daemons |-> Host]
  /\ addrs = [d \in Daemons |-> {}]
  /\ attached = [d \in Daemons |-> 0]
  /\ kmode = [d \in Daemons |-> "audit"]
  /\ pending = [d \in Daemons |-> {}]
  /\ loaded = [d \in Daemons |-> {}]
  /\ owner = NoDaemon /\ listening = FALSE
  /\ client = [c \in Client |-> "idle"]

Goto(d, stage) == pc' = [pc EXCEPT ![d] = stage]

\* The call is made and fails: init returns false, main returns 1.
Fail(d, stage, call) ==
  /\ call \in Faults
  /\ pc[d] = stage
  /\ Goto(d, "unwind")
  /\ UNCHANGED <<maps, attached, owner, listening, client>>
-----------------------------------------------------------------------------
(* EBPFManager::init. *)

Start(d) ==
  /\ pc[d] = "off"
  /\ Goto(d, "load")
  /\ UNCHANGED <<maps, attached, owner, listening, client>>

Load(d) ==
  /\ pc[d] = "load"
  /\ Goto(d, "attach")
  /\ UNCHANGED <<maps, attached, owner, listening, client>>

\* Mutant of Attach: one too many.
AttachOneMore(d) ==
  /\ pc[d] = "attach" /\ attached[d] <= Programs
  /\ attached' = [attached EXCEPT ![d] = @ + 1]
  /\ UNCHANGED <<pc, maps, owner, listening, client>>

Attach(d) ==
  /\ pc[d] = "attach" /\ attached[d] < Programs
  /\ attached' = [attached EXCEPT ![d] = @ + 1]
  /\ UNCHANGED <<pc, maps, owner, listening, client>>

Attached(d) ==
  /\ pc[d] = "attach" /\ attached[d] = Programs
  /\ Goto(d, "ring")
  /\ UNCHANGED <<maps, attached, owner, listening, client>>

NewRing(d) ==
  /\ pc[d] = "ring"
  /\ Goto(d, "resolve")
  /\ UNCHANGED <<maps, attached, owner, listening, client>>
-----------------------------------------------------------------------------
(* Daemon::init. *)

\* addHost: a host that cannot be resolved is passed over.
ResolveHost(d, h) ==
  /\ pc[d] = "resolve" /\ h \in hosts[d]
  /\ hosts' = [hosts EXCEPT ![d] = @ \ {h}]
  /\ \/ addrs' = [addrs EXCEPT ![d] = @ \cup Resolve[h]]
     \/ "getaddrinfo" \in Faults /\ UNCHANGED addrs
  /\ UNCHANGED <<pc, mode, attached, kmode, pending, loaded, owner, listening,
                 client>>

Resolved(d) ==
  /\ pc[d] = "resolve" /\ hosts[d] = {}
  /\ Goto(d, "mode")
  /\ UNCHANGED <<maps, attached, owner, listening, client>>

\* Mutant of SetMode: go on if the map cannot be written.
SetModeAnyway(d) ==
  /\ pc[d] = "mode"
  /\ \/ kmode' = [kmode EXCEPT ![d] = mode[d]]
     \/ "mode" \in Faults /\ UNCHANGED kmode
  /\ Goto(d, "addrs")
  /\ pending' = [pending EXCEPT
                   ![d] = IF mode[d] = "enforce" THEN addrs[d] ELSE {}]
  /\ UNCHANGED <<mode, hosts, addrs, attached, loaded, owner, listening,
                 client>>

SetMode(d) ==
  /\ pc[d] = "mode"
  /\ kmode' = [kmode EXCEPT ![d] = mode[d]]
  /\ Goto(d, "addrs")
  /\ pending' = [pending EXCEPT
                   ![d] = IF mode[d] = "enforce" THEN addrs[d] ELSE {}]
  /\ UNCHANGED <<mode, hosts, addrs, attached, loaded, owner, listening,
                 client>>

\* Mutant of LoadAddr: the last place is kept free.
LoadAddrAlmost(d, a) ==
  /\ pc[d] = "addrs" /\ a \in pending[d]
  /\ pending' = [pending EXCEPT ![d] = @ \ {a}]
  /\ loaded' = IF Cardinality(loaded[d]) + 1 < MapSize
               THEN [loaded EXCEPT ![d] = @ \cup {a}] ELSE loaded
  /\ UNCHANGED <<pc, mode, hosts, addrs, attached, kmode, owner, listening,
                 client>>

\* addAllowedAddr: its result, false if the map is full, is not looked at.
LoadAddr(d, a) ==
  /\ pc[d] = "addrs" /\ a \in pending[d]
  /\ pending' = [pending EXCEPT ![d] = @ \ {a}]
  /\ loaded' = IF Cardinality(loaded[d]) < MapSize
               THEN [loaded EXCEPT ![d] = @ \cup {a}] ELSE loaded
  /\ UNCHANGED <<pc, mode, hosts, addrs, attached, kmode, owner, listening,
                 client>>

AddrsDone(d) ==
  /\ pc[d] = "addrs" /\ pending[d] = {}
  /\ Goto(d, "bind")
  /\ UNCHANGED <<maps, attached, owner, listening, client>>

Bind(d) ==
  /\ pc[d] = "bind" /\ owner = NoDaemon
  /\ owner' = d
  /\ Goto(d, "listen")
  /\ UNCHANGED <<maps, attached, listening, client>>

\* Mutant of BindRefused: try again.
BindRefusedRetry(d) ==
  /\ pc[d] = "bind" /\ owner # NoDaemon
  /\ UNCHANGED vars

\* EADDRINUSE
BindRefused(d) ==
  /\ pc[d] = "bind" /\ owner # NoDaemon
  /\ Goto(d, "unwind")
  /\ UNCHANGED <<maps, attached, owner, listening, client>>

Listen(d) ==
  /\ pc[d] = "listen"
  /\ listening' = TRUE
  /\ Goto(d, "epoll")
  /\ UNCHANGED <<maps, attached, owner, client>>

\* setupHandlers cannot fail, setupEpoll can.
SetupEpoll(d) ==
  /\ pc[d] = "epoll"
  /\ Goto(d, "serving")
  /\ UNCHANGED <<maps, attached, owner, listening, client>>
-----------------------------------------------------------------------------
(* exec and the way out. *)

Serve(d, c) ==
  /\ pc[d] = "serving" /\ client[c] = "waiting"
  /\ client' = [client EXCEPT ![c] = "served"]
  /\ UNCHANGED <<pc, maps, attached, owner, listening>>

\* The request served was a shutdown.
ServeShutdown(d, c) ==
  /\ pc[d] = "serving" /\ client[c] = "waiting"
  /\ client' = [client EXCEPT ![c] = "served"]
  /\ Goto(d, "unwind")
  /\ UNCHANGED <<maps, attached, owner, listening>>

\* The socket is closed: clients in the backlog are cut off.
Close(d) ==
  IF owner = d
  THEN /\ owner' = NoDaemon /\ listening' = FALSE
       /\ client' = [c \in Client |->
                       IF client[c] = "waiting" THEN "failed" ELSE client[c]]
  ELSE UNCHANGED <<owner, listening, client>>

\* Mutant of CloseSocket: the descriptor of a failed init stays open.
CloseSocketServed(d) ==
  /\ pc[d] = "unwind"
  /\ IF listening THEN Close(d) ELSE UNCHANGED <<owner, listening, client>>
  /\ Goto(d, "detach")
  /\ UNCHANGED <<maps, attached>>

\* ~IPCServer comes before ~EBPFManager: the name is free while the programs
\* are still attached.
CloseSocket(d) ==
  /\ pc[d] = "unwind"
  /\ Close(d)
  /\ Goto(d, "detach")
  /\ UNCHANGED <<maps, attached>>

Detach(d) ==
  /\ pc[d] = "detach"
  /\ attached' = [attached EXCEPT ![d] = 0]
  /\ Goto(d, "exited")
  /\ UNCHANGED <<maps, owner, listening, client>>

Kill(d) ==
  /\ "signal" \in Faults
  /\ pc[d] \notin {"off", "exited"}
  /\ Close(d)
  /\ attached' = [attached EXCEPT ![d] = 0]
  /\ Goto(d, "exited")
  /\ UNCHANGED maps
-----------------------------------------------------------------------------
(* Clients. *)

Connect(c) ==
  /\ client[c] = "idle" /\ listening
  /\ client' = [client EXCEPT ![c] = "waiting"]
  /\ UNCHANGED <<pc, maps, attached, owner, listening>>

ConnectRefused(c) ==
  /\ client[c] = "idle" /\ ~listening
  /\ client' = [client EXCEPT ![c] = "failed"]
  /\ UNCHANGED <<pc, maps, attached, owner, listening>>
-----------------------------------------------------------------------------
Succeed(d) ==
  \/ Load(d) \/ Attach(d) \/ Attached(d) \/ NewRing(d)
  \/ \E h \in Host : ResolveHost(d, h)
  \/ Resolved(d) \/ SetMode(d)
  \/ \E a \in Addr : LoadAddr(d, a)
  \/ AddrsDone(d) \/ Bind(d) \/ BindRefused(d) \/ Listen(d) \/ SetupEpoll(d)
  \/ CloseSocket(d) \/ Detach(d)

GoWrong(d) ==
  \/ Fail(d, "load", "load") \/ Fail(d, "attach", "attach")
  \/ Fail(d, "ring", "ring") \/ Fail(d, "mode", "mode")
  \/ Fail(d, "bind", "socket") \/ Fail(d, "listen", "listen")
  \/ Fail(d, "epoll", "epoll")
  \/ Kill(d)

ServeOne(d) == \E c \in Client : Serve(d, c) \/ ServeShutdown(d, c)

Next ==
  \/ \E d \in Daemons : Start(d) \/ Succeed(d) \/ GoWrong(d) \/ ServeOne(d)
  \/ \E c \in Client : Connect(c) \/ ConnectRefused(c)

Spec == Init /\ [][Next]_vars

\* A daemon goes on until it exits, and serves who waits.
FairSpec ==
  Spec /\ \A d \in Daemons : WF_vars(Succeed(d)) /\ WF_vars(ServeOne(d))
-----------------------------------------------------------------------------
\* Every variable has its type; the kernel's allowlist is never fuller than
\* its map and holds nothing the daemon does not allow (ebpfmanager.cpp:178-192).
TypeOK ==
  /\ pc \in [Daemons -> Stages]
  /\ mode \in [Daemons -> {"audit", "enforce"}]
  /\ kmode \in [Daemons -> {"audit", "enforce"}]
  /\ hosts \in [Daemons -> SUBSET Host]
  /\ addrs \in [Daemons -> SUBSET Addr]
  /\ pending \in [Daemons -> SUBSET Addr]
  /\ loaded \in [Daemons -> SUBSET Addr]
  /\ \A d \in Daemons :
       /\ Cardinality(loaded[d]) <= MapSize
       /\ loaded[d] \cup pending[d] \subseteq addrs[d]
  /\ attached \in [Daemons -> 0..Programs]
  /\ owner \in Daemons \cup {NoDaemon}
  /\ listening \in BOOLEAN
  /\ client \in [Client -> {"idle", "waiting", "served", "failed"}]

\* Whoever is served is served by a daemon whose programs are all attached,
\* in the mode it was started in, with every host and address dealt with: no
\* phase can begin in a half-configured daemon (daemon.cpp:97-125,
\* ebpfmanager.cpp:28-101, 161-176).
ServedIsConfigured ==
  \A d \in Daemons :
    pc[d] = "serving" =>
      /\ owner = d /\ listening
      /\ attached[d] = Programs
      /\ kmode[d] = mode[d]
      /\ hosts[d] = {} /\ pending[d] = {}

\* A daemon that has exited, in whatever way and at whatever point, leaves no
\* program attached, no socket behind and no client waiting: the next one can
\* start (ebpfmanager.cpp:28-101, ipcserver.cpp:33-67, main.cpp:9-17).
NothingLeftBehind ==
  /\ \A d \in Daemons : pc[d] = "exited" => attached[d] = 0 /\ owner # d
  /\ owner = NoDaemon => ~listening /\ \A c \in Client : client[c] # "waiting"

\* README.md:76-79: in enforce mode exactly the connections that the rules
\* report are blocked.  An address that the daemon allows and the kernel
\* blocks fails without a trace in the report (daemon.cpp:110-114,
\* rules.cpp:244-255).
BlockedIsReported ==
  \A d \in Daemons :
    pc[d] = "serving" /\ mode[d] = "enforce" => loaded[d] = addrs[d]

\* A daemon that is started serves or exits; a client that has connected is
\* served or cut off (main.cpp:9-17, daemon.cpp:97-220).
StartIsDecided ==
  /\ \A d \in Daemons : (pc[d] = "load") ~> (pc[d] \in {"serving", "exited"})
  /\ \A c \in Client :
       (client[c] = "waiting") ~> (client[c] \in {"served", "failed"})
=============================================================================
