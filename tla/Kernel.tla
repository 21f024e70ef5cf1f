------------------------------- MODULE Kernel -------------------------------
(***************************************************************************)
(* The processes of the machine and the eBPF programs that run in their    *)
(* context (src/src/bpf/blastguard.bpf.c).  A program first looks its      *)
(* process up in the map tracked_pids; what it does next (insert a child,  *)
(* reserve and submit an event) is a later step, and the daemon's own map  *)
(* operations and other processes may come between the two.                *)
(*                                                                         *)
(* What a process does is chosen freely from Syscalls; MaxActs bounds how  *)
(* often.  The history variables (window, watched, past, connected, and    *)
(* the fields id, phase, env and watched of an event) record what          *)
(* really happened; no guard reads them.                                   *)
(***************************************************************************)
EXTENDS Report, Integers

CONSTANTS
  Syscalls,     \* the exec, open and connect acts processes may perform
  InitProcs,    \* the processes that run when the daemon starts
  InitEnv,      \* the token variables in their environment
  RelativePaths,\* paths that do not start with "/"
  Loaded,       \* addresses that made it into the kernel's allowlist map
  Enforce,      \* mode_config: TRUE for --mode enforce
  MaxTracked,   \* max_entries of tracked_pids
  RingCap,      \* events that fit into the ring buffer
  Threads,      \* processes may have several threads
  PidReuse,     \* pids of reaped processes are used again
  MaxActs       \* bound: forks, system calls and chdirs in a behaviour

ASSUME KernelAssumption ==
  /\ Syscalls \subseteq ExecAct \cup OpenAct \cup ConnectAct
  /\ InitProcs \subseteq Pid
  /\ InitEnv \subseteq Token
  /\ RelativePaths \subseteq Path
  /\ Loaded \subseteq Allowed
  /\ Enforce \in BOOLEAN /\ Threads \in BOOLEAN /\ PidReuse \in BOOLEAN
  /\ MaxTracked \in Nat /\ RingCap \in Nat /\ MaxActs \in Nat

VARIABLES
  proc,         \* the process table: life, working directory, environment
  prog,         \* the eBPF program a process is executing, if any
  tracked_pids, \* the map: package id of a tracked pid, Absent otherwise
  events,       \* the ring buffer, oldest event first
  acts,         \* how much the processes have done
  window,       \* history: the number of phases begun, and if one is open
  watched,      \* history: the tree of processes rooted at the watched pid
  past,         \* history: a process's packages and ancestors
  connected     \* history: where watched processes did get connected

kernelVars ==
  <<proc, prog, tracked_pids, events, acts, window, watched, past, connected>>

Absent == -1   \* the pid has no entry in tracked_pids
Idle   == [pc |-> "idle"]

Tracked == {p \in Pid : tracked_pids[p] # Absent}

Living == {p \in Pid : proc[p].life \in {"new", "running"}}

\* stat("/proc/<pid>") succeeds: a zombie still has its directory.
PidExists(p) == proc[p].life # "free"

\* The package that packageFromCwd makes of readCwd(p); a process that has
\* exited has no cwd link.
CwdPackage(p) == IF p \in Living THEN proc[p].cwd ELSE NoPackage

-----------------------------------------------------------------------------
(* What is in flight and in the ring. *)

Event ==
  [id : Nat, pid : Pid, act : Act, pkg : Nat, blocked : BOOLEAN,
   phase : Nat, env : SUBSET Token, watched : BOOLEAN]

Prog ==
  [pc : {"idle"}]
    \cup [pc : {"update", "emit"}, event : Event, fresh : BOOLEAN]

\* The event of process p doing act, as its program finds things now.
EventOf(p, act) ==
  [id      |-> acts + 1,
   pid     |-> p,
   act     |-> act,
   pkg     |-> tracked_pids[p],
   blocked |-> act.type = "connect" /\ Enforce /\ act.addr \notin Loaded,
   phase   |-> IF window.open THEN window.no ELSE 0,
   env     |-> proc[p].env,
   watched |-> p \in watched]

Ready(p) == proc[p].life = "running" /\ prog[p] = Idle /\ acts < MaxActs

Run(p, pc, act) ==
  prog' = [prog EXCEPT ![p] =
             [pc |-> pc, event |-> EventOf(p, act), fresh |-> TRUE]]

\* The daemon replaced or removed p's map entry: a program that still holds
\* a pointer to the old one may find another pid's data in it.
Recycle(p) ==
  [prog EXCEPT ![p] = IF @ = Idle THEN @ ELSE [@ EXCEPT !.fresh = FALSE]]

\* The ids in the map that a recycled entry may hold.
OtherIds == {tracked_pids[q] : q \in Tracked}

\* The package ids the program of p may put into its event: on_fork and
\* on_exec copied theirs at the lookup, on_open and on_connect read it
\* through the pointer only now.
EventPkgs(p) ==
  LET e == prog[p].event
  IN  IF prog[p].fresh \/ e.act.type \in {"fork", "exec"}
      THEN {e.pkg}
      ELSE {e.pkg} \cup OtherIds
-----------------------------------------------------------------------------
(* Mutants of the programs. *)

\* The child is entered only if its fork event can be recorded.
UpdateChildIfRoom(p) ==
  /\ prog[p].pc = "update"
  /\ tracked_pids' =
       IF Len(events) < RingCap
       THEN [tracked_pids EXCEPT ![prog[p].event.act.child] = prog[p].event.pkg]
       ELSE tracked_pids
  /\ prog' = [prog EXCEPT ![p].pc = "emit"]
  /\ UNCHANGED <<proc, events, acts, window, watched, past, connected>>

\* A connection is let through when its event cannot be recorded.
VerdictIfRecorded(p) ==
  LET e == prog[p].event
  IN  e.act.type = "connect" /\ (~e.blocked \/ Len(events) >= RingCap)

-----------------------------------------------------------------------------
(* Processes that are not tracked, and acts the programs do not see. *)

Child(p, c) ==
  /\ proc[c].life = "free"
  /\ past' = [past EXCEPT ![c] = [homes   |-> past[p].homes,
                                  parents |-> past[p].parents \cup {c}]]
  /\ watched' = IF p \in watched THEN watched \cup {c} ELSE watched

\* fork() by an untracked process: on_fork finds no entry and returns.
ForkUntracked(p, c) ==
  /\ Ready(p)
  /\ p \notin Tracked
  /\ Child(p, c)
  /\ proc' = [proc EXCEPT ![c] = [proc[p] EXCEPT !.life = "running"]]
  /\ acts' = acts + 1
  /\ UNCHANGED <<prog, tracked_pids, events, window, connected>>

\* An exec or connect by an untracked process (an open leaves no trace).
SyscallUntracked(p, act) ==
  /\ Ready(p)
  /\ p \notin Tracked
  /\ act.type # "open"
  /\ proc' = IF act.type = "exec" THEN [proc EXCEPT ![p].env = act.env]
                                  ELSE proc
  /\ connected' = IF act.type = "connect" /\ p \in watched
                  THEN connected \cup {act.addr} ELSE connected
  /\ acts' = acts + 1
  /\ UNCHANGED <<prog, tracked_pids, events, window, watched, past>>

Chdir(p, d) ==
  /\ Ready(p)
  /\ proc[p].cwd # d
  /\ proc' = [proc EXCEPT ![p].cwd = d]
  /\ past' = [past EXCEPT ![p].homes = @ \cup ({d} \ {NoPackage})]
  /\ acts' = acts + 1
  /\ UNCHANGED <<prog, tracked_pids, events, window, watched, connected>>

Reap(p) ==
  /\ PidReuse
  /\ proc[p].life = "zombie"
  /\ proc' = [proc EXCEPT ![p].life = "free"]
  /\ UNCHANGED <<prog, tracked_pids, events, acts, window, watched, past,
                 connected>>
-----------------------------------------------------------------------------
(* on_fork *)

\* A new process; it runs only once the program in its parent is done.
ForkLookup(p, c) ==
  /\ Ready(p)
  /\ p \in Tracked
  /\ Child(p, c)
  /\ proc' = [proc EXCEPT ![c] = [proc[p] EXCEPT !.life = "new"]]
  /\ Run(p, "update", [type |-> "fork", child |-> c])
  /\ acts' = acts + 1
  /\ UNCHANGED <<tracked_pids, events, window, connected>>

\* A new thread: child and parent have the same thread group id.
CloneLookup(p) ==
  /\ Threads
  /\ Ready(p)
  /\ p \in Tracked
  /\ Run(p, "update", [type |-> "fork", child |-> p])
  /\ acts' = acts + 1
  /\ UNCHANGED <<proc, tracked_pids, events, window, watched, past, connected>>

\* bpf_map_update_elem(..., BPF_NOEXIST), its result ignored.
UpdateChild(p) ==
  LET c == prog[p].event.act.child
  IN  /\ prog[p].pc = "update"
      /\ tracked_pids' =
           IF c \notin Tracked /\ Cardinality(Tracked) < MaxTracked
           THEN [tracked_pids EXCEPT ![c] = prog[p].event.pkg]
           ELSE tracked_pids
      /\ prog' = [prog EXCEPT ![p].pc = "emit"]
      /\ UNCHANGED <<proc, events, acts, window, watched, past, connected>>
-----------------------------------------------------------------------------
(* on_exec, on_openat, on_openat2, on_connect4, on_connect6 *)

SyscallLookup(p, act) ==
  /\ Ready(p)
  /\ p \in Tracked
  /\ Run(p, "emit", act)
  /\ acts' = acts + 1
  /\ UNCHANGED <<proc, tracked_pids, events, window, watched, past, connected>>

\* Mutant of ExecLookup: the result of the lookup is not looked at.
ExecLookupAny(p, act) ==
  /\ Ready(p)
  /\ act.type = "exec"
  /\ prog' = [prog EXCEPT ![p] =
                [pc |-> "emit", fresh |-> TRUE,
                 event |-> [EventOf(p, act) EXCEPT !.pkg = 0, !.env = act.env]]]
  /\ acts' = acts + 1
  /\ UNCHANGED <<proc, tracked_pids, events, window, watched, past, connected>>

\* An exec has replaced the image by the time on_exec runs.
ExecLookup(p, act) ==
  /\ Ready(p)
  /\ p \in Tracked
  /\ act.type = "exec"
  /\ proc' = [proc EXCEPT ![p].env = act.env]
  /\ prog' = [prog EXCEPT ![p] =
                [pc |-> "emit", fresh |-> TRUE,
                 event |-> [EventOf(p, act) EXCEPT !.env = act.env]]]
  /\ acts' = acts + 1
  /\ UNCHANGED <<tracked_pids, events, window, watched, past, connected>>

\* The connection is made unless the program answered 0.
Verdict(p) ==
  LET e == prog[p].event IN e.act.type = "connect" /\ ~e.blocked

\* The most space that is taken when p wants some: by the events not yet
\* released, and by the programs that may be between reserve and submit.
Occupied(p) == Len(events) + Cardinality({q \in Pid \ {p} : prog[q].pc = "emit"})

\* bpf_ringbuf_reserve, and submit or (a relative path) discard; without
\* room nothing is recorded.  The program ends, and its fork's child runs.
Emit(p) ==
  LET e        == prog[p].event
      relative == e.act.type = "open" /\ e.act.path \in RelativePaths
  IN  /\ prog[p].pc = "emit"
      /\ \/ /\ Len(events) < RingCap /\ ~relative
            /\ \E n \in EventPkgs(p) :
                 events' = Append(events, [e EXCEPT !.pkg = n])
         \/ /\ Occupied(p) >= RingCap \/ relative
            /\ UNCHANGED events
      /\ prog' = [prog EXCEPT ![p] = Idle]
      /\ proc' = IF e.act.type = "fork"
                 THEN [proc EXCEPT ![e.act.child].life = "running"]
                 ELSE proc
      /\ connected' = IF Verdict(p) /\ e.watched
                      THEN connected \cup {e.act.addr} ELSE connected
      /\ UNCHANGED <<tracked_pids, acts, window, watched, past>>
-----------------------------------------------------------------------------
(* on_exit *)

\* The last thread of p ends; its group leader's exit deletes the entry.
Exit(p) ==
  /\ proc[p].life = "running" /\ prog[p] = Idle
  /\ proc' = [proc EXCEPT ![p].life = "zombie"]
  /\ tracked_pids' = [tracked_pids EXCEPT ![p] = Absent]
  /\ watched' = watched \ {p}
  /\ UNCHANGED <<prog, events, acts, window, past, connected>>

\* The group leader ends while other threads of p go on.
LeaderExit(p) ==
  /\ Threads
  /\ proc[p].life = "running" /\ prog[p] = Idle
  /\ p \in Tracked
  /\ tracked_pids' = [tracked_pids EXCEPT ![p] = Absent]
  /\ UNCHANGED <<proc, prog, events, acts, window, watched, past, connected>>
-----------------------------------------------------------------------------
KernelInit ==
  /\ proc = [p \in Pid |->
               [life |-> IF p \in InitProcs THEN "running" ELSE "free",
                cwd  |-> NoPackage,
                env  |-> IF p \in InitProcs THEN InitEnv ELSE {}]]
  /\ prog = [p \in Pid |-> Idle]
  /\ tracked_pids = [p \in Pid |-> Absent]
  /\ events = << >>
  /\ acts = 0
  /\ window = [no |-> 0, open |-> FALSE]
  /\ watched = {}
  /\ past = [p \in Pid |-> [homes |-> {}, parents |-> {p}]]
  /\ connected = {}

\* What processes do of their own accord.
Activity(p) ==
  \/ \E c \in Pid : ForkUntracked(p, c) \/ ForkLookup(p, c)
  \/ \E act \in Syscalls : SyscallUntracked(p, act)
  \/ \E act \in Syscalls : act.type # "exec" /\ SyscallLookup(p, act)
  \/ \E act \in Syscalls : ExecLookup(p, act)
  \/ \E d \in Package \cup {NoPackage} : Chdir(p, d)
  \/ CloneLookup(p)
  \/ Exit(p)
  \/ LeaderExit(p)
  \/ Reap(p)

\* What the programs do once started.
Program(p) == UpdateChild(p) \/ Emit(p)

KernelTypeOK ==
  /\ proc \in [Pid -> [life : {"free", "new", "running", "zombie"},
                       cwd  : Package \cup {NoPackage},
                       env  : SUBSET Token]]
  /\ prog \in [Pid -> Prog]
  /\ tracked_pids \in [Pid -> Nat \cup {Absent}]
  /\ events \in Seq(Event)
  /\ acts \in Nat
  /\ window \in [no : Nat, open : BOOLEAN]
  /\ watched \subseteq Pid
  /\ past \in [Pid -> [homes : SUBSET Package, parents : SUBSET Pid]]
  /\ connected \subseteq Addr
=============================================================================
