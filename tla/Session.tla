------------------------------ MODULE Session ------------------------------
(***************************************************************************)
(* The daemon's record of one phase (src/src/daemon/session.cpp): whether  *)
(* the phase is open, the findings so far, the packages met and the        *)
(* package and tokens last seen for each pid.                              *)
(*                                                                         *)
(* A session is a value; every member function that changes it is an       *)
(* operator from a session to a session.  The daemon is single threaded,   *)
(* so nobody sees a session half changed.                                  *)
(***************************************************************************)
EXTENDS Naturals, Sequences, FiniteSets

CONSTANTS
  Pid,       \* process ids
  Package,   \* package names packageFromCwd / packageFromPath can return
  Token,     \* the token variables of token_table
  NoPid,     \* no process: watchedPid of an idle session
  NoPackage  \* the empty package name

ASSUME NoneAssumption == NoPid \notin Pid /\ NoPackage \notin Package

\* enum Severity: None < Low < Medium < High
None   == 0
Low    == 1
Medium == 2
High   == 3
Severity == {None, Low, Medium, High}

\* m_packageIdByName is the inverse of m_packageNameById, so the ids are
\* the indices of the sequence "packages"; id 0 means "no package".
EmptySession ==
  [active     |-> FALSE,
   watchedPid |-> NoPid,
   findings   |-> << >>,
   packages   |-> << >>,
   pidPackage |-> [p \in Pid |-> 0],
   pidTokens  |-> [p \in Pid |-> {}],
   extracted  |-> {}]

Reset(s) == EmptySession

StartPhase(s, pid) == [s EXCEPT !.watchedPid = pid, !.active = TRUE]

EndPhase(s) == [s EXCEPT !.active = FALSE]

AddFinding(s, f) == [s EXCEPT !.findings = Append(@, f)]

Interned(s) == {s.packages[i] : i \in DOMAIN s.packages}

PackageId(s, name) == CHOOSE i \in DOMAIN s.packages : s.packages[i] = name

InternPackage(s, name) ==
  IF name \in Interned(s) THEN s
  ELSE [s EXCEPT !.packages = Append(@, name)]

PackageName(s, id) ==
  IF id \in DOMAIN s.packages THEN s.packages[id] ELSE NoPackage

PackageHadExec(s, name) == name \in Interned(s)

MarkExtracted(s, name) == [s EXCEPT !.extracted = @ \cup {name}]

SetPidPackage(s, pid, id) == [s EXCEPT !.pidPackage[pid] = id]

SetPidTokens(s, pid, tokens) == [s EXCEPT !.pidTokens[pid] = tokens]

Severities(s) == {s.findings[i].severity : i \in DOMAIN s.findings}

MaxSeverity(s) ==
  CHOOSE m \in Severities(s) \cup {None} :
    \A v \in Severities(s) \cup {None} : v <= m
=============================================================================
