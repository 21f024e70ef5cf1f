------------------------- MODULE AttributorProperties -------------------------
(***************************************************************************)
(* Whom the daemon blames, whatever the path, and what it reads from an    *)
(* environment, whatever is in it: a behaviour builds a path, component by *)
(* component, or an environment, symbol by symbol.                         *)
(***************************************************************************)
EXTENDS Attributor

CONSTANTS
  Names,  \* components of paths
  Words   \* symbols of environments

ASSUME NamesAssumption == Names \subseteq STRING /\ Words \subseteq STRING

\* The kernel appends " (deleted)" to a name: what it begins with stays, and
\* it is no longer node_modules or .pnpm.
ASSUME DeletedAssumption ==
  \A name \in Names :
    /\ Deleted[name] # "node_modules"
    /\ name # "" =>
         /\ Deleted[name] # ".pnpm"
         /\ Deleted[name] \in Scoped <=> name \in Scoped
         /\ Deleted[name] \in Hidden <=> name \in Hidden

VARIABLES path, env

\* What is behind a slash at the end of a path: nothing follows it.
Nameless == ""

Descend ==
  /\ Nameless \notin ToSet(path)
  /\ \E name \in Names : path' = Append(path, name)

Extend == \E word \in Words : env' = Append(env, word)

PathSpec == path = << >> /\ [][Descend]_path
EnvSpec  == env = << >> /\ [][Extend]_env
-----------------------------------------------------------------------------
\* What npm and pnpm install below node_modules: a name, or a scope and a name.
IsPackage(pkg) ==
  /\ Nameless \notin ToSet(pkg)
  /\ \/ Len(pkg) = 1 /\ pkg[1] \notin Scoped \cup Hidden
     \/ Len(pkg) = 2 /\ pkg[1] \in Scoped

Pieces(p) == {SubSeq(p, i, j) : i, j \in 2..Len(p)}

\* It follows a node_modules that has no other below it.
Innermost(pkg, p) ==
  \E i \in 1..Len(p) - Len(pkg) :
    /\ p[i] = NodeModules /\ SubSeq(p, i + 1, i + Len(pkg)) = pkg
    /\ NodeModules \notin {p[j] : j \in i + 1..Len(p)}

\* The package a path lies in.
InnermostPackages(p) == {pkg \in Pieces(p) : IsPackage(pkg) /\ Innermost(pkg, p)}

\* README.md:6-7, "which npm package caused which actions": a path is put down
\* to the innermost package it lies in, whether npm or pnpm has laid it out;
\* a scope by itself passes for a package, and so does the empty name behind a
\* slash at the end; nothing else does (packageFromPath, attributor.cpp:18-68).
InnermostPackageBlamed ==
  LET blamed == PackageFromPath(path)
      right  == InnermostPackages(path)
  IN  IF right # {} THEN right = {blamed}
      ELSE \/ blamed = None
           \/ Last(blamed) = Last(path) /\ Last(path) \in Scoped \cup {Nameless}

\* A process that goes deeper into a package stays in it until it meets
\* another node_modules (packageFromPath, attributor.cpp:18-68).
DeeperIsInside ==
  [][IsPackage(PackageFromPath(path)) /\ Last(path') # NodeModules
     => PackageFromPath(path') = PackageFromPath(path)]_path

Starts(symbol, e) == {i \in DOMAIN e : e[i] = symbol /\ (i = 1 \/ e[i - 1] = NUL)}

\* A token is found wherever its entry begins in the copied part of the
\* environment, and nowhere else: not inside a value, and not only before the
\* first empty entry (scanEnvForTokens, daemon.cpp:30-51).
TokensWhereEntriesBegin ==
  LET copy == Copied(env)
  IN  ScanEnvForTokens(copy) = {t \in TokenPrefixes : Starts(t, copy) # {}}

\* The phase is the first npm_lifecycle_event entry, as getenv would find it,
\* up to the end of the entry or of the copy (phaseFromEnv,
\* attributor.cpp:70-87).
PhaseAsGetenv ==
  LET copy  == Copied(env)
      first == Starts(LifecycleKey, copy)
      phase == PhaseFromEnv(copy)
  IN  IF first = {} THEN phase = None
      ELSE \E i \in first :
             /\ \A j \in first : i <= j
             /\ NUL \notin ToSet(phase)
             /\ IsPrefix(phase, SubSeq(copy, i + 1, Len(copy)))
             /\ \/ i + Len(phase) = Len(copy)
                \/ copy[i + Len(phase) + 1] = NUL

\* A script whose working directory has been removed is put down to the same
\* package, except that the package's own directory, removed, gives it the
\* name the kernel shows: never to another package, and never to none
\* (readCwd, daemon.cpp:81-93, packageFromPath, attributor.cpp:18-68).
RemovalKeepsBlame ==
  LET pkg   == PackageFromPath(path)
      shown == PackageFromPath(ReadCwd(path, TRUE))
  IN  IsPackage(pkg) =>
        IF IsSuffix(<<NodeModules>> \o pkg, path)
        THEN shown = Append(Front(pkg), Deleted[Last(pkg)])
        ELSE shown = pkg
=============================================================================
