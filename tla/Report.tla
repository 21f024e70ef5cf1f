------------------------------- MODULE Report -------------------------------
(***************************************************************************)
(* What Report::render (src/src/daemon/report.cpp) puts into a report, as  *)
(* Markdown or as JSON: the tokens to rotate, the packages no script was   *)
(* seen for, the findings; and the severity that travels beside the body.  *)
(***************************************************************************)
EXTENDS Rules

FindingsOf(s) == {s.findings[i] : i \in DOMAIN s.findings}

RotationTokens(s) ==
  UNION {f.tokens : f \in {g \in FindingsOf(s) : g.severity = High}}
    \ {GithubToken}

SuppressedPackages(s) == {x \in s.extracted : ~PackageHadExec(s, x)}

Rendered(s) ==
  [severity   |-> MaxSeverity(s),
   rotate     |-> RotationTokens(s),
   suppressed |-> SuppressedPackages(s),
   findings   |-> s.findings]
=============================================================================
