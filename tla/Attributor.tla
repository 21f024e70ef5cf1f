----------------------------- MODULE Attributor -----------------------------
(***************************************************************************)
(* What the daemon makes of a path and of an environment: packageFromPath  *)
(* and phaseFromEnv (src/src/daemon/attributor.cpp), readCwd and           *)
(* scanEnvForTokens (daemon.cpp), and the copy of the environment on_exec  *)
(* puts into the event (bpf/blastguard.bpf.c).                             *)
(*                                                                         *)
(* A path is the sequence of its components, the root left out; the last   *)
(* one is empty if the path ends in a slash.  An environment is a sequence *)
(* of symbols: NUL, the beginning of an entry up to its "=", or a word.    *)
(***************************************************************************)
EXTENDS Naturals, Sequences, SequencesExt

CONSTANTS
  Scoped,   \* names that begin with "@"
  Hidden,   \* names that begin with "." or "_"
  Deleted,  \* d_path of a removed directory: from names to "<name> (deleted)"
  TokenPrefixes, \* the prefixes of token_table
  EnvMax    \* env_max, in symbols

ASSUME AttributorAssumption ==
  /\ Scoped \cap Hidden = {}
  /\ ".pnpm" \in Hidden
  /\ "node_modules" \notin Scoped \cup Hidden
  /\ EnvMax \in Nat

NodeModules == "node_modules"

\* No package: nullopt.
None == << >>

\* The directory after the first node_modules behind .pnpm.
PnpmPackage(path, from) ==
  LET j == SelectInSubSeq(path, from, Len(path) - 1, LAMBDA c : c = NodeModules)
  IN  IF j = 0 THEN None ELSE <<path[j + 1]>>

\* What follows position nm; a package of a scope has two components.
PackageAfter(path, nm) ==
  IF nm = 0 \/ nm = Len(path) THEN None
  ELSE LET next == path[nm + 1]
       IN  IF next = ".pnpm" THEN PnpmPackage(path, nm + 2)
           ELSE IF next \in Scoped /\ nm + 1 < Len(path)
           THEN <<next, path[nm + 2]>>
           ELSE IF next \in Hidden THEN None
           ELSE <<next>>

\* Mutant of PackageFromPath: the first node_modules.
PackageFromPathFirst(path) ==
  PackageAfter(path, SelectInSeq(path, LAMBDA c : c = NodeModules))

\* Mutant of PackageFromPath: the directory the path ends in.
PackageFromPathLast(path) ==
  LET pkg == PackageAfter(path, SelectLastInSeq(path, LAMBDA c : c = NodeModules))
  IN  IF Len(pkg) = 2 THEN <<pkg[1], Last(path)>> ELSE pkg

PackageFromPath(path) ==
  PackageAfter(path, SelectLastInSeq(path, LAMBDA c : c = NodeModules))

\* What /proc/<pid>/cwd shows of a directory that may have been removed.
ReadCwd(dir, removed) ==
  IF removed /\ dir # << >>
  THEN Append(Front(dir), Deleted[Last(dir)])
  ELSE dir
-----------------------------------------------------------------------------
NUL == "NUL"
LifecycleKey == "npm_lifecycle_event="

\* on_exec copies at most env_max bytes.
Copied(env) == SubSeq(env, 1, IF Len(env) > EnvMax THEN EnvMax ELSE Len(env))

\* strnlen(env + pos, remaining)
EntryLen(env, pos) ==
  LET nul == SelectInSubSeq(env, pos, Len(env), LAMBDA x : x = NUL)
  IN  IF nul = 0 THEN Len(env) + 1 - pos ELSE nul - pos

\* Mutant of EntryStarts: an empty entry is the end.
EntryStartsNonEmpty(env) ==
  LET from[pos \in 1..Len(env) + 2] ==
        IF pos > Len(env) \/ EntryLen(env, pos) = 0 THEN {}
        ELSE {pos} \cup from[pos + EntryLen(env, pos) + 1]
  IN  from[1]

\* The positions both loops visit.
EntryStarts(env) ==
  LET from[pos \in 1..Len(env) + 2] ==
        IF pos > Len(env) THEN {}
        ELSE {pos} \cup from[pos + EntryLen(env, pos) + 1]
  IN  from[1]

ScanEnvForTokens(env) == {env[pos] : pos \in EntryStarts(env)} \cap TokenPrefixes

\* Mutant of PhaseFromEnv: the last one counts, as in a shell.
PhaseFromEnvLast(env) ==
  LET at == {pos \in EntryStarts(env) : env[pos] = LifecycleKey}
  IN  IF at = {} THEN None
      ELSE LET pos == CHOOSE p \in at : \A q \in at : q <= p
           IN  SubSeq(env, pos + 1, pos + EntryLen(env, pos) - 1)

\* nullopt and an empty value are the same to onExecEvent.
PhaseFromEnv(env) ==
  LET at == {pos \in EntryStarts(env) : env[pos] = LifecycleKey}
  IN  IF at = {} THEN None
      ELSE LET pos == CHOOSE p \in at : \A q \in at : p <= q
           IN  SubSeq(env, pos + 1, pos + EntryLen(env, pos) - 1)
=============================================================================
