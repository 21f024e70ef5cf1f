------------------------------ MODULE MCDaemon ------------------------------
(***************************************************************************)
(* The values the .cfg files give the constants of Daemon.                 *)
(***************************************************************************)
EXTENDS Daemon, TLC

CONSTANTS root, p2, p3, pkgA, pkgB, npm, gh, npmrc, lib, good, evil

Curl(tokens) ==
  [type |-> "exec", comm |-> "curl", lifecycle |-> "postinstall",
   env |-> tokens, scanned |-> tokens]

Node == [type |-> "exec", comm |-> "node", lifecycle |-> "",
         env |-> {npm}, scanned |-> {npm}]

ReadNpmrc  == [type |-> "open", path |-> npmrc, call |-> "openat",
               flags |-> {}]
WriteNpmrc == [type |-> "open", path |-> npmrc, call |-> "openat",
               flags |-> {"write"}]
Unpack     == [type |-> "open", path |-> lib, call |-> "openat",
               flags |-> {"write", "creat"}]
CallEvil   == [type |-> "connect", addr |-> evil]
CallGood   == [type |-> "connect", addr |-> good]

Start(p) == [type |-> "start-phase", pid |-> p]
End      == [type |-> "end-phase"]
Report_  == [type |-> "report"]

MCPaths   == {npmrc, lib}
MCPathPkg == [x \in MCPaths |-> IF x = lib THEN pkgA ELSE NoPackage]
NoPathPkg == [x \in MCPaths |-> NoPackage]

OnlyRead      == {ReadNpmrc}
OnlyExec      == {Curl({})}
ExecThenCall  == {Node, CallEvil}
ReadExecCall  == {ReadNpmrc, Curl({npm}), CallEvil}
UnpackAndExec == {Unpack, Curl({npm})}
Calls         == {CallEvil, CallGood}

OnlyStart    == {Start(root)}
RootRequests == {Start(root), End, Report_}
AllRequests  == RootRequests \cup {[type |-> "ping"], [type |-> "shutdown"]}

Alike == Permutations({p2, p3}) \cup Permutations({pkgA, pkgB})
=============================================================================
