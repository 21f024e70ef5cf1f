------------------------------- MODULE Rules -------------------------------
(***************************************************************************)
(* The five rules (src/src/daemon/rules.cpp) that turn an event into at    *)
(* most one finding.  What a process does is an act, a record:             *)
(*                                                                         *)
(*   [type |-> "exec", comm, lifecycle, env, scanned]                      *)
(*       env: the token variables in the new image's environment;          *)
(*       scanned: those within the first env_max bytes, which is all that  *)
(*       on_exec copies into the event;                                    *)
(*   [type |-> "open", path, call, flags]                                  *)
(*       call: openat or openat2; flags: the subset of the write access    *)
(*       mode, O_CREAT and O_APPEND that is set;                           *)
(*   [type |-> "connect", addr]     addr: the mapped IPv6 address;         *)
(*   [type |-> "fork", child].                                             *)
(*                                                                         *)
(* An event is the record of an act with what the kernel side knew of the  *)
(* process; the rules read e.pid, e.act, e.blocked.  A finding carries its *)
(* event in the history field "cause", which nothing reads back.           *)
(***************************************************************************)
EXTENDS Session

CONSTANTS
  GithubToken,      \* the one token a CI run is expected to expose
  Path,             \* paths a process may open
  PersistencePaths, \* those isPersistenceVector matches
  CredentialPaths,  \* those isCredentialFile matches
  Addr,             \* addresses a process may connect to
  Allowed           \* those the --allow hosts resolved to

ASSUME RulesAssumption ==
  /\ GithubToken \in Token
  /\ PersistencePaths \subseteq Path
  /\ CredentialPaths \subseteq Path
  /\ Allowed \subseteq Addr

DangerousBasenames ==
  {"curl", "wget", "python", "python3", "perl", "ruby", "base64", "openssl",
   "nc", "ncat", "socat"}

LifecyclePhases == {"preinstall", "install", "postinstall", "prepare"}

RuleId ==
  {"UnexpectedBinary", "NonAllowlistedHost", "TokenBearingDownloader",
   "SensitiveFileRead", "SensitiveFileWrite"}

OpenFlags == {"write", "creat", "append"}

ExecAct    == [type : {"exec"}, comm : STRING, lifecycle : STRING,
               env : SUBSET Token, scanned : SUBSET Token]
OpenAct    == [type : {"open"}, path : Path, call : {"openat", "openat2"},
               flags : SUBSET OpenFlags]
ConnectAct == [type : {"connect"}, addr : Addr]
ForkAct    == [type : {"fork"}, child : Pid]
Act        == ExecAct \cup OpenAct \cup ConnectAct \cup ForkAct

\* on_openat2 has only a pointer to its flags and reports them as 0.
EmittedFlags(act) == IF act.call = "openat" THEN act.flags ELSE {}

Writable(act) == EmittedFlags(act) # {}

HasNonGithubToken(tokens) == tokens \ {GithubToken} # {}

Finding(e, rule, severity, package, tokens) ==
  [rule |-> rule, severity |-> severity, pid |-> e.pid, package |-> package,
   tokens |-> tokens, blocked |-> e.blocked, cause |-> e]

-----------------------------------------------------------------------------
\* Mutants of the rules.

OnExecBoth(s, e, id, package) ==
  IF s.active /\ id # 0 /\ e.act.comm \in DangerousBasenames
     /\ e.act.lifecycle \in LifecyclePhases
  THEN LET first == IF HasNonGithubToken(e.act.scanned)
                    THEN AddFinding(s, Finding(e, "TokenBearingDownloader",
                                               High, package, e.act.scanned))
                    ELSE s
       IN  AddFinding(first, Finding(e, "UnexpectedBinary", High, package, {}))
  ELSE s

OnExecAnyTime(s, e, id, package) ==
  IF \/ id = 0
     \/ e.act.comm \notin DangerousBasenames
     \/ e.act.lifecycle \notin LifecyclePhases
  THEN s
  ELSE AddFinding(s, Finding(e, "UnexpectedBinary", High, package, {}))
-----------------------------------------------------------------------------

OnExec(s, e, id, package) ==
  IF \/ ~s.active
     \/ id = 0
     \/ e.act.comm \notin DangerousBasenames
     \/ e.act.lifecycle \notin LifecyclePhases
  THEN s
  ELSE AddFinding(s,
         IF HasNonGithubToken(e.act.scanned)
         THEN Finding(e, "TokenBearingDownloader", High, package, e.act.scanned)
         ELSE Finding(e, "UnexpectedBinary", High, package, {}))

OnConnect(s, e, id, package) ==
  IF ~s.active \/ id = 0 \/ e.act.addr \in Allowed
  THEN s
  ELSE LET tokens == s.pidTokens[e.pid]
       IN  AddFinding(s,
             Finding(e, "NonAllowlistedHost",
                     IF HasNonGithubToken(tokens) THEN High ELSE Medium,
                     package, tokens))

OnOpen(s, e, id, package) ==
  IF ~s.active \/ id = 0 THEN s
  ELSE IF Writable(e.act) /\ e.act.path \in PersistencePaths
  THEN AddFinding(s, Finding(e, "SensitiveFileWrite", High, package, {}))
  ELSE IF ~Writable(e.act) /\ e.act.path \in CredentialPaths
  THEN AddFinding(s, Finding(e, "SensitiveFileRead", High, package, {}))
  ELSE s
=============================================================================
