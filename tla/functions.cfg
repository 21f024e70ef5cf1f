CONSTANTS
  Word = {"7", "12", "0", "7x"}
  Decimal <- MCDecimal
  FromChars <- MCFromChars
  Dashed = {"--format", "--fail-on", "--failon", "--mode", "-a", "--allow", "-v", "--verbose"}
  Scoped = {"@scope", "@scope (deleted)"}
  Hidden = {".pnpm", "_cache", ".pnpm (deleted)", "_cache (deleted)"}
  Deleted <- MCDeleted
  TokenPrefixes = {"NPM_TOKEN=", "VAULT_TOKEN="}
  EnvMax = 4
  Symbols <- MCSymbols
  Names = {"node_modules", "pkg", "lib", "@scope", ".pnpm", "_cache", ""}
  Words = {"NUL", "NPM_TOKEN=", "VAULT_TOKEN=", "npm_lifecycle_event=", "install"}
  CtlArguments <- MCCtlArguments
  DaemonArguments <- MCDaemonArguments
  MaxText = 5
  MaxPath = 6
  MaxEnv = 6
  MaxArgs = 4
SPECIFICATION Spec
INVARIANT RequestSurvives
INVARIANT AcceptedIsSendable
INVARIANT ReplySurvives
INVARIANT CutReportKeepsSeverity
INVARIANT InnermostPackageBlamed
PROPERTY DeeperIsInside
INVARIANT TokensWhereEntriesBegin
INVARIANT PhaseAsGetenv
INVARIANT RemovalKeepsBlame
INVARIANT CtlMeansWhatItSays
 
CHECK_DEADLOCK FALSE
