# A TLA+ development for blastguard

blastguard watches what `npm install` does in a CI job. eBPF programs record
forks, execs, opens and connections of a tree of processes in a ring buffer; a
daemon, `blastguardd`, turns the records into findings that name an npm package;
`blastguardctl` opens and closes a *phase* and asks for its report. This directory
models that system in TLA+, checks it with TLC on small instances and proves its
core for every size with TLAPS. Paths below are relative to the repository.

## The system

| part | state | operations | correct when | modelled in |
|---|---|---|---|---|
| eBPF programs, `src/bpf/` | `tracked_pids`, ring buffer, mode, allowlist | `on_fork`, `on_exit`, `on_exec`, `on_openat`, `on_openat2`, `on_connect4/6` | the watched tree is tracked from its first instruction on; nothing else stays tracked; enforce mode lets no forbidden connection through | `Kernel` |
| `Daemon`, `daemon.cpp` | `m_shouldExit`, epoll set | `init`, event loop, five request handlers, four event handlers | requests and events are all served; an act leads to at most one finding, in order; nobody is served before it is configured | `Daemon`, `Startup` |
| `Session`, `session.cpp` | phase, findings, package ids, pid → package, pid → tokens, extracted packages | `startPhase`, `endPhase`, `reset`, `addFinding`, `internPackage`, ... | ids name one package each; a closed phase does not change | `Session` |
| `rules`, `Allowlist`, `rules.cpp` | resolved addresses | `onExec`, `onConnect`, `onOpen`, `addHost` | a finding blames a package of the process's lineage; what is blocked is reported | `Rules`, `Startup` |
| `EBPFManager`, `ebpfmanager.cpp` | map and ring buffer handles | `init`, `consume`, `trackPid`, `clearTrackedPids`, `setPackageForPid`, `setMode`, `addAllowedAddr` | a late update resurrects nothing; a failed start leaves nothing behind | `Daemon`, `Startup` |
| `Report`, `report.cpp` | none | `render` | a copy of the closed phase | `Report` |
| `Attributor`, `attributor.cpp`; `readCwd`, `scanEnvForTokens` | none | `packageFromCwd`, `packageFromPath`, `phaseFromEnv` | the innermost package of a path; what `getenv` would find | `Attributor` |
| `IPCServer`, `ipcserver.cpp`; `io.cpp` | socket | accept, read a line, decode, handle, reply | one reply per request, carried out once | `Ipc`, `Service` |
| protocol, `proto.cpp`, `proto.h` | none | `encode`, `decodeRequest`, `decodeResponse`, `decodeError` | decode inverts encode, even of a reply that is cut | `Wire` |
| `blastguardctl`, `src/ctl/` | none | ping, start-phase, end-phase, report, shutdown | exit code follows the reply and the severity gate | `Ipc` |
| command lines, both `args.cpp` | none | `parseArgs` | the same meaning in every order and spelling | `CommandLine`, `CommandLineProperties` |

The parts interact in four ways. Processes run the programs, concurrently with
everything else. Programs and daemon share `tracked_pids` without a lock: the
programs insert children and delete what exits, the daemon inserts the root,
clears the map and writes package ids into it, in separate system calls. Programs
append to the ring buffer, the daemon consumes it. Clients queue requests in the
listen backlog; the daemon's only thread accepts one at a time, between two
consumptions of the ring, and blocks on it until its line is read and its reply
written. Daemons, if there are several, compete for one socket name.

What is hard: an event is handled long after the act it records, by a daemon that
consults the *present* (`/proc/<pid>/cwd`, its session, `isActive()`); a program
runs in several steps, and the daemon's map operations come between them; the ring
and the map are bounded and overflow silently; pids are reused; a thread group's
leader may exit first; request and event order is whatever epoll returns. The file
`PROJECT.json` lists each hazard at its line with the properties about it.

## Modules

    Session <- Rules <- Report <- Kernel <- Daemon <- MCDaemon
                                              |    <- DaemonProofs <- TreeProofs <- FindingProofs <- BlameProofs
                                           PhaseLog (INSTANCE)

    Wire <- Ipc <- MCIpc                     Startup <- MCStartup
          |  |  <- IpcProofs                         <- StartupProofs
          | Service (INSTANCE)
          |
          | <- CommandLine <- CommandLineProperties
          | <- WireProperties
          | <- WireProofs
    Attributor <- AttributorProperties

    ...Properties             <- MCFunctions
    ...Properties, WireProofs <- FunctionProofs
    Ipc, WireProofs           <- IpcProofs

An arrow points from the module that is extended to the one that extends it. The
three groups meet at narrow interfaces. `Daemon` takes from `Startup` what is settled
before its first step (`Enforce`, `Allowed`, `Loaded`), from `Attributor` the package
of a path (`PathPackage`, `CwdPackage`), the lifecycle phase and the tokens seen
(fields of an exec), and from `Ipc` that requests are carried out whole, one at a
time. `Ipc` takes from `Daemon` what a handler may answer (`Service!Handled`) and that
findings come between two clients (`Observe`).

* **`Session`**, **`Rules`**, **`Report`**: pure operators. A session is a record;
  each member function of `session.cpp` is an operator from session to session,
  each rule an operator from session and event to session. The two maps between
  names and ids are one sequence, `packages`, whose indices are the ids. Paths,
  hosts and tokens are members of small sets: which paths are credentials or
  persistence vectors, and which addresses the `--allow` hosts resolved to, are
  constants.
* **`Kernel`**: the process table (life, working directory, token variables in the
  environment), `tracked_pids`, the ring buffer, and for each process the program
  it is in. A program is a lookup step (`ForkLookup`, `SyscallLookup`, ...) and an
  `Emit` step that reserves and submits; `on_fork` has `UpdateChild` between them.
  The lookup, the insertion and the emission are distinct map or ring operations,
  and anything may happen between them. `on_openat` and `on_connect` read
  `info->package_id` only at the end, through a pointer: a hash element that has
  been replaced or deleted may by then hold another pid's data, so after such a
  change (`Recycle`) any id of the map may be read. What processes do is free.
* **`Daemon`**: `exec`, the handlers and the calls they make. `pc` is where the
  thread is; steps are cut at the system calls that others can notice:
  `trackPid`, each deletion of `clearTrackedPids`, the lookup and the update of
  `setPackageForPid`, each event of `ring_buffer__consume`. The session is private
  to the thread, so a handler changes it in one step. `readCwd` is evaluated in
  that step, when the event is handled. The sequence `pushes` holds the
  `setPackageForPid` calls the current handler has still to make.
* **`PhaseLog`**: what a client may rely on: a log that grows only while it is
  open, is discarded only when it is closed, and of which a report is a copy.
* **`Wire`**: every `encode` and `decode` of `proto.cpp` on texts. A text is a
  sequence of symbols, a separator or a word; `proto.cpp` looks inside a word only
  with `from_chars`, which is a constant with the property the code relies on.
* **`Ipc`**: a client is a process with the steps of `sendRaw` and `do...`: connect,
  write, read in chunks up to the limit, exit. The daemon accepts, reads symbol by
  symbol, decodes, answers, writes as much as the socket takes, closes. Clients may be
  killed; the one that writes to a closed socket gets SIGPIPE, daemon included.
* **`Service`**: what a user of `blastguardctl` may rely on: a command is carried out
  at most once, in one step, as given; its exit code tells what came of it; the
  daemon goes only when told to or when a client went away. `Ipc` implements it with
  `alive` as the only variable that is not simply shared.
* **`Attributor`**: `packageFromPath` on sequences of components, `phaseFromEnv` and
  `scanEnvForTokens` on sequences of entries' symbols, `readCwd` of a removed
  directory and the bounded copy of the environment.
* **`CommandLine`**: both `parseArgs` on sequences of arguments. A turn of the loop is
  an operator (`CtlTurn`, `DaemonTurn`) from what is known before it, and the index
  `shift` has come to, to the same after it; the loop is a recursive function.
* **`WireProperties`**, **`AttributorProperties`**, **`CommandLineProperties`**: what
  the three are for, stated of a text, a path, an environment and a command line that a
  behaviour builds symbol by symbol or argument by argument (`TextSpec`, `PathSpec`,
  `EnvSpec`, `CtlSpec`, `DaemonSpec`), over any symbols. A command line's meaning is
  stated by position, without a loop: which arguments are options, which are taken by
  the one before, which are left. `MCFunctions` runs all of them up to a length;
  `FunctionProofs` has no bound.
* **`Startup`**: `main`, `init` and the way out, for several daemons. Each call that
  can fail is a step and a `Fail` of its own; destructors run in the reverse order of
  `Daemon`'s members, so the socket is free before the programs are detached.
* **`MC...`**: values for the constants, and for the pure modules the reference
  definitions they are compared with. **`...Proofs`**: the proofs.

History variables (`window`, `watched`, `past`, `connected`, `due`, `missed`,
the counters, and the fields `id`, `phase`, `env`, `watched` of an event)
record what really happened; no guard of a step of the system reads them (the
counters only bound behaviours). A definition whose comment begins
"Mutant of" is wrong on purpose: each breaks one property, which shows that
the property can fail; no action uses them.

Abstractions worth knowing: reserve and submit of a record are one step; the space that
other programs may have reserved by then counts as possibly taken (`Occupied`), so a
record may be lost before the ring is full of submitted ones; in `Daemon`
requests arrive whole and well formed and the mode and the kernel's allowlist are set
before the first step (`Ipc` and `Startup` are about the rest); a client writes its
line in one step, for it fits the socket's buffer; when the daemon's process ends the
model stops, since the programs and maps go with it. Both orders of the two descriptors after `epoll_wait` are allowed: the
kernel's ready list is rotated by level-triggered re-insertion, so either may be
first.

## Runs

`CHECK_DEADLOCK` is off throughout because the systems may stop: acts, requests and
texts are bounded, commands end, and the daemon may be shut down.

| run | module, bounds | shows |
|---|---|---|
| `tree` | `MCDaemon`: 3 processes, 2 packages, 4 acts, ring of 2, enforce mode, one phase | `TypeOK`; `BlameStaysInLineage`; `KernelAgrees`; `WatchedTracked`; `OneFindingPerActInOrder`; `ElsewhereIgnored`; `EnforceBlocks` |
| `phases` | 2 pids that are reused, threads, 2 acts, 2 starts among 4 requests | `DeadTrackedIsRoot`; `PhaseLogRefined` (the daemon implements `PhaseLog`); `SuppressedOnlyShrinks` |
| `liveness` | 2 processes, all requests, backlog of 2 | `EveryRequestAnswered`; `RingDrained` |
| `commands` | `MCIpc`: 3 clients, start, end, gated report, shutdown; kills; 2 findings | `TypeOK`; `GateHolds`; `ReportWhole`; `ServiceImplemented` (the socket implements `Service`) |
| `sockets` | 2 clients, every command | `EveryCommandEnds` |
| `functions` | `MCFunctions`: all texts of 5 out of 9 symbols | `RequestSurvives`; `AcceptedIsSendable`; `ReplySurvives`; `CutReportKeepsSeverity` |
| | all paths of 6 components, all environments of 6 symbols | `InnermostPackageBlamed`; `DeeperIsInside`; `RemovalKeepsBlame`; `TokensWhereEntriesBegin`; `PhaseAsGetenv` |
| | all command lines of 4 arguments | `CtlMeansWhatItSays`; `DaemonMeansWhatItSays` |
| `startup` | `MCStartup`: 2 daemons, 2 clients, 2 hosts that share an address, all faults | `TypeOK`; `ServedIsConfigured`; `NothingLeftBehind`; `BlockedIsReported`; `StartIsDecided` |
| `late_events` | `MCDaemon`: a phase and its report | **violates** `ReportCoversPhase` |
| `two_phases` | two phases | **violates** `NoStaleEvidence` |
| `inherited_env` | one phase | **violates** `TokensAtTheTime` |
| `leader_exit` | one phase with threads | **violates** `EnforceBlocks` |
| `client_leaves` | `MCIpc`: 3 clients, no kills, a report longer than the client reads | **violates** `OnlyShutdownStops` |

Why the bounds suffice. `MaxActs` counts forks, system calls and `chdir`s. Four of them
hold the stories `tree` is about: a process and its child move into two packages
before they act; a grandchild is forked while its parent's entry is being rewritten,
and connects; the ring of two fills meanwhile, which drops forks and execs; a process
forked before the phase acts during it. `phases` needs two starts with everything
between, a reused pid, and a fork in flight across the end of a phase, which two acts
give: a fork and an act of the child, or an unpacked file and a script. In `commands`
a report (8 symbols) is longer than the socket's buffer (6) and than a read of the
client (4), so daemon and client take turns; one of three clients is
served while two fill the backlog, and a gate of medium lies between the severities.
`startup` has as many daemons as compete for one socket; two programs stand for the
seven, attached one by one, and one host's address is also another's. Texts of five
symbols hold a request, its separators and a name of two words; paths of six
components hold a scope, a nested `node_modules` and a pnpm store; two options and a
positional argument are four arguments.

Every property of a passing run was confirmed, by a mutant under the same
configuration, to fail when the code is wrong. Symmetry is used with safety properties
only, over processes, packages or clients that no constant tells apart.
`BlameStaysInLineage` and `KernelAgrees` are checked for one phase without pid reuse
because across phases they do not hold: package ids in old events are read in the new
session (`two_phases`). `WatchedTracked` is checked for a map with room for the tree
and without threads: both exceptions are real (`leader_exit`, and the ignored result of
the insertion, `blastguard.bpf.c:62`).

Fairness (`FairSpec`): the daemon's thread is scheduled (`WF` of `DaemonStep`) and
an eBPF program that has begun runs to its end (`WF` of `Program(p)`): programs
cannot block. Nothing is assumed of processes and clients. Liveness rests on
processes doing finitely much: a tree that never stops forking can keep
`clearTrackedPids` in its loop, and one that never stops acting can keep
`ring_buffer__consume` in its own.

`Ipc!FairSpec`: the daemon's thread runs (`WF` of `DaemonStep`), and each client does
(`WF` of `ClientStep(c)`) unless it is killed. A client that connects, writes nothing
and lives on would hold up everyone; `blastguardctl` never does, so `EveryCommandEnds`
is about clients that go on. `Startup!FairSpec`: a daemon that has been started takes
its next step (`WF` of `Succeed(d)`), which may also fail or be cut short by a signal,
and serves who waits (`WF` of `ServeOne(d)`).

### What the violated runs show

Each states a sentence of `README.md` that the code does not keep in some order of
events or for some input.

1. `late_events`. README 41-44: the report covers "what happened in between".
   `onEndPhaseRequest` closes the session before the ring is read; the rules drop
   events of a closed session.
2. `two_phases`. README 41-44: phases can be told apart. Events carry no phase; one
   left in the ring becomes a finding of the next phase.
3. `inherited_env`. README 7-8: tokens "in the environment at the time". Tokens are
   noted at exec and not copied at fork.
4. `leader_exit`. README 76-79: enforce mode blocks "from inside the watched
   subtree". `on_exit` deletes the entry when the leader exits.
5. `client_leaves`. README 204: `shutdown` stops the daemon. So does a client that has
   stopped reading a long report at its limit: the daemon's `write` raises SIGPIPE,
   which nothing ignores, and `writeAll`'s error return is never reached.

### Conditions of the properties that hold

The passing properties are as wide as the code makes them. Where one has a condition or
excludes an input, the code does something else there:

* `ElsewhereIgnored` needs pids that are not reused: the root may exit between
  `pidExists` and `trackPid` (`daemon.cpp:410-415`), and the entry then made watches
  whoever gets its pid next.
* `BlameStaysInLineage` speaks of packages the process has been in *by now*: the working
  directory is read when the event is handled (`daemon.cpp:354`), so a process may be
  blamed on a package it entered after the act.
* `ReportWhole` is about reports of at most four times `max_line`; a longer one is cut
  off and printed with the same exit code (`proto.cpp:296`). The gate holds all the
  same (`CutReportKeepsSeverity`): the severity is in the first line.
* `RemovalKeepsBlame` lets the package's own directory, once removed, pass under the
  name the kernel shows, which ends in " (deleted)" (`daemon.cpp:87-92`).
* `TokensWhereEntriesBegin` is about the first `env_max` bytes, all that `on_exec`
  copies (`blastguard.bpf.c:285`).
* `CtlMeansWhatItSays` is about the arguments before the first empty one, where the
  loop ends without a message (`ctl/args.cpp:93`).
* `BlockedIsReported` needs a kernel map with room for all addresses: `init` ignores
  that one does not fit (`daemon.cpp:113`), and it is then blocked but not reported.
* `ServedIsConfigured` says that every host has been dealt with, not that it was
  resolved: `addHost` passes over a host that cannot be (`rules.cpp:152`).
* An open of a path that does not begin with a slash is not recorded
  (`blastguard.bpf.c:110`; `RelativePaths`).

## Proofs

`DaemonProofs` proves, for all values of the constants that satisfy the named
assumptions (`NoneAssumption`, `RulesAssumption`, `KernelAssumption`,
`DaemonAssumption`):

* **`TypeCorrect`**: `Spec => []TypeOK`. `TypeOK` is inductive as stated: beside the
  types it says that a queue is not empty where its head is taken, and that `pushes`
  is non-empty exactly at `"lookup"` and `"write"`, with the event still in the
  ring. Lemmas give the type of each session operator and rule (`...Type`), then of
  each handler, then of each action.
* **`PhaseLogImplemented`**: `Spec => PhaseLogRefined`. The step simulation needs
  one more invariant, `ResetUntilTracked`: between the reset of a start-phase and
  its `trackPid` the session is empty. With it each action maps to `Discard`,
  `Open`, `Grow`, `Close`, `Answer` or a stutter; `HandleEvent` is `Grow` or a
  stutter because a rule appends one finding at most, and only to an open session.

`TreeProofs` goes on from there, for the tree of watched processes:

* **`DeadTrackedCorrect`**: `Spec => []DeadTrackedIsRoot`. The invariant alone is not
  inductive: an insertion by `on_fork` would break it if the child could have
  exited. `ForksInFlight` says it cannot: a process stays in its program, a forked
  child does not run before its parent's program ends, and no two programs have the
  same child. `PhaseMarks` and `ResetUntilTracked` say that the map is cleared when
  no phase is open, so that a reset finds no entry of a dead root.
* **`WatchedTrackedCorrect`**: as long as the map has room (`[]MapHasRoom`) and
  processes have one thread (`~Threads`), `[]WatchedTracked`. It is strengthened to
  `TreeSeen`: a watched process without an entry is a child that does not run yet,
  whose `on_fork` has not come past its insertion. The two conditions are necessary:
  an insertion into a full map fails silently, and `leader_exit` shows the other.
* **`EnforceCorrect`**: under the same conditions `[]EnforceBlocks`, from
  `WatchedTracked` (no untracked process of the tree connects) and `ConnectJudged`
  (a program in flight that has not blocked has found its address in the allowlist).
  `FewProcessesEnforced` discharges `MapHasRoom` for no more processes than entries.

`FindingProofs` is about what is reported:

* **`FindingsOrdered`**: `Spec => []OneFindingPerActInOrder`. The order of the findings
  says nothing of the events that have yet to be handled, so the invariant follows the
  ids of acts all the way: `FlightOrder` (the programs in flight are about different
  acts, each by its own process), `RingOrder` (the ring buffer is in order, and before
  whatever is in flight) and `FindingOrder` (so are the findings, before the events not
  yet handled; while `pushes` is not empty the oldest event is handled but still there).
* **`SuppressedShrinks`**: `Spec => SuppressedOnlyShrinks`. With the phase closed a
  handler interns packages and does nothing else to what the list is computed from
  (`HandleClosed`), and the rest of the daemon leaves both alone or empties them.

`StartupProofs` is about `Startup`, from `StartupAssumption` alone, for any number of
daemons, hosts, addresses and clients and any set of faults:

* **`StartupTypeCorrect`**: `Spec => []TypeOK`, which also bounds the kernel's allowlist
  by its map and by what the daemon allows.
* **`ServedConfigured`**, **`NothingLeft`**: `[]ServedIsConfigured` and
  `[]NothingLeftBehind`. Neither is inductive: a daemon in service says nothing of the
  way there. `SocketInv` (the owner of the name is between bind and close, and nobody
  waits where nobody listens), `ProgramsInv` (none or all are attached, but for the
  stages of attaching and detaching) and `ConfigInv` (each stage of `init` is done when
  the next begins) are, and together imply both.
* **`BlockedReported`**: if the map has room for all that the hosts resolve to,
  `[]BlockedIsReported`. `AddrsInv` says that from `setMode` on every address is in the
  kernel's map or still to come; `RoomLeft`, a lemma about cardinalities, that the one
  fits. The condition is necessary: see the conditions above.

`BlameProofs` is about whom a finding blames, for any number of processes, packages and
acts, any size of the ring buffer and the map and any number of phases, with pids that
are not reused (`~PidReuse`) and phases that start quietly (`[][QuietStart]_vars`): when
`trackPid` succeeds, the map and the ring buffer are empty and no eBPF program is in
flight. The code does not see to the last two, `clearTrackedPids` empties only the map,
and what is left of a phase is read in the next (`two_phases`); a reused pid may be watched
by mistake (see the conditions above).

* **`FirstPhaseIsQuiet`**: `Spec /\ []FirstPhase => [][QuietStart]_vars`. The first phase
  needs no such condition, so the theorems on blame hold of it, the case of the run `tree`:
  before it no program finds its process in the map (`Beginning`).

* **`KernelAgreesCorrect`**: `[]KernelAgrees`. Agreement says nothing of ids on their
  way: `on_fork` copies an id, a program in flight carries one to the ring buffer, the
  daemon learns it from there and writes it back later. `IdsInv` is the invariant: the ids
  that stand for a process, in the map and in fork and exec events that are `Pending`, are
  all one until the daemon has an id for the process, and that one or none from then on;
  a child whose fork is pending has its parent's. `PushesKnown` and `StaleKnown` cover
  the daemon's calls in flight and programs that read a recycled map element.
* **`BlameCorrect`**: `[]BlameStaysInLineage`, from `BlameInv` (each id names a package
  that its process or an ancestor has been in) and the facts that hold whatever the ids
  are (`Course`): a process lives once, its birth is told of before its acts
  (`BirthsFirst`), and a lineage only grows (`PastInv`).
* **`ElsewhereCorrect`**: `[]ElsewhereIgnored`, from `WatchInv`: in an open phase every
  tracked living process and every pending event belongs to the watched tree.
* **`EvidenceCorrect`**: `Spec /\ [][QuietStart]_vars => []NoStaleEvidence`, here with
  reused pids, too. `NoStaleEvidence` is the sentence that `two_phases` refutes, and the
  quiet start is all that it lacks: `PhaseEvents` (in an open phase the programs in
  flight and the ring buffer hold events of this phase only) is inductive with it.
* **`PhaseCovered`**: `Spec /\ [][DrainedEnd]_vars => []ReportCoversPhase`, the sentence
  that `late_events` refutes. `DrainedEnd` says that an end-phase request, when it is
  served, finds the ring buffer drained of what was in it when its client sent it: the
  order of the two descriptors in the event loop is the only reason for which such a
  finding is missed. The invariant, `CoverInv`, follows the events that are due: none of
  them is in flight, and with the phase closed none is in the ring buffer. It needs
  `RingOrder`, by which the ring buffer and the programs in flight share no event.
* The proof that a step keeps the first three has one part for the steps that teach the daemon
  nothing, which all satisfy `Flow`, and one for `HandleEvent`, which takes an event out
  of `Pending` and may learn an id from it.

`WireProofs` has the lemmas about texts that the next two use: the first position that
passes a test, what `Token1`, `Rest`, `Received` and `Stripped` cut off, what a header
looks like. `FunctionProofs` proves of the pure functions what `functions` checks up to
a length:

* **`RequestsSurvive`**, **`AcceptedAreSendable`**, **`RepliesSurvive`**,
  **`CutReportsKeepSeverity`**: the four properties of the protocol, `TextSpec => []...`,
  for texts of any length over any symbols.
* **`InnermostBlamed`**, **`DeeperInside`**, **`RemovalKept`**: the three properties of
  paths, from the position of the last `node_modules` (`BlamedIs`: what follows it
  decides, and the branch for `.pnpm` yields nothing). `RemovalKept` rests on
  `DeletedAssumption`: what the kernel appends to a name leaves its beginning alone.
* **`TokensFound`**, **`PhaseFound`**: the two properties of environments. The loops are a
  recursive function; `BeginsRecur` gives a function that satisfies the recursion in
  closed form, `BeginsUnique` shows by the last position where two could differ that
  there is no other, so that the loops visit position 1 and what follows a NUL.
* **`CtlUnderstood`**, **`DaemonUnderstood`**: the two properties of command lines of any
  length. The loops, and the rule by which an option takes the next argument (`Taking`),
  are recursive functions; that they exist is shown by the least length for which there
  would be none (`CtlTurnsExist`, `DaemonTurnsExist`, `TakesExist`), and what the loops end
  with by the least turn after which it would be wrong. The invariant is `CtlKnown`
  (`DaemonKnown`): before position `i` the result agrees with the options and positional
  arguments up to `i`, nothing there was to be refused, and the argument at `i` is not the
  value of an option. `SeenIs` is about where the loops stop.

`IpcProofs` is about the socket, for any number of clients and commands and any limits
(`max_line`, the client's limit, the socket's buffer, the backlog), from `IpcAssumption`
and `WireAssumption`. The assumptions on limits are only that they are not zero and that
a client reads five symbols, the first line of a report.

* The invariant, `IpcInv`, has one part per client (`Course`) that follows its connection:
  not connected, in the queue, read, handled, answered, left. Its core are texts in pieces
  (`InPieces`): the line sent is what the daemon has read and what is on the way; the
  reply is what the client has read, what is on the way and what is still to be written.
  Of a client that has ended it says that it knows the beginning of its reply, all of it
  or up to the limit (`Settled`); of the daemon, that it was told to leave
  (`ToldToLeave`).
* **`IpcTypeCorrect`**, **`GateCorrect`**, **`ReportWholeCorrect`**: `[]TypeOK`,
  `[]GateHolds` and `[]ReportWhole` follow without further conditions.
* **`ServiceCorrect`**: `Spec /\ []RepliesFit => ServiceImplemented`, given `CommandsFit`:
  every command is one line that fits `max_line`, every reply fits what a client reads.
  Each step is then a step of `Service` or a stutter. Without the first a cut command
  would be carried out as another; without the second a client that has read enough stops
  the daemon, which `Service` does not do: `client_leaves` is that behaviour.
  **`FewFindingsServed`** discharges the second for phases of at most `ReadLimit - 6`
  findings, the case of `commands`.
* **`ShutdownStops`**: under `[]RepliesFit` and `~Kills`, `[]OnlyShutdownStops`, the
  sentence that `client_leaves` refutes: a reply longer than a client reads and a killed
  client are the only ways to stop the daemon from its socket.

Only model-checked: the liveness properties (`EveryRequestAnswered`, `RingDrained`,
`EveryCommandEnds`, `StartIsDecided`), because fairness is out of the prover's reach.
Each other property of a passing run is a theorem. Of the five sentences that the code does
not keep, four hold under conditions that are proved to be enough (`EnforceCorrect`,
`EvidenceCorrect`, `PhaseCovered`, `ShutdownStops`). The fifth, `TokensAtTheTime`, has no
such theorem: that a process has run a program of its own since the phase began, and that
the event of it was not lost, are facts about its past that no variable of the model has.

## Plan

Done: the modules, runs and theorems above. What would come next is `RingBuf`: reserve,
submit and discard apart, a consumer that stops at a record not yet submitted; it
implements the queue that `Kernel` uses.

## Not modelled

Markdown and JSON layout, `formatArgv`, verbose output and finding messages: wording.
The path patterns of the rules (`isPersistenceVector`, `isCredentialFile`) are
substring tests on constants; which paths match is a constant of `Rules`. EINTR
repeats a call and changes nothing. `static_assert`s, loading and verification of the
BPF object, the CI action and the shell tests: no state that the parts above share.
DNS resolution is external; its result is a constant. Reserve and submit of a ring
buffer record are one step (see the plan).

The branch of `packageFromPath` for a component `.pnpm` that follows the last
`node_modules` never yields a package: it looks for another `node_modules` behind the
last. It is modelled (`PnpmPackage`), and pnpm's layout is attributed correctly all the
same, by the rule for the last `node_modules` (`InnermostPackageBlamed`).
