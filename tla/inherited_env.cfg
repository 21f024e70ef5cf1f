CONSTANTS
  root = root
  p2 = p2
  p3 = p3
  pkgA = pkgA
  pkgB = pkgB
  npm = npm
  gh = gh
  npmrc = npmrc
  lib = lib
  good = good
  evil = evil
  Pid = {root, p2}
  Package = {pkgA}
  Token = {npm, gh}
  NoPid = NoPid
  NoPackage = NoPackage
  GithubToken = gh
  Path = {npmrc, lib}
  PersistencePaths = {npmrc}
  CredentialPaths = {npmrc}
  Addr = {good, evil}
  Allowed = {good}
  Syscalls <- ExecThenCall
  InitProcs = {root}
  InitEnv = {}
  RelativePaths = {}
  Loaded = {}
  Enforce = FALSE
  MaxTracked = 2
  RingCap = 2
  Threads = FALSE
  PidReuse = FALSE
  MaxActs = 4
  Requests <- RootRequests
  PathPackage <- MCPathPkg
  Backlog = 1
  MaxRequests = 1
  MaxStarts = 1
SPECIFICATION Spec
INVARIANT TokensAtTheTime
CHECK_DEADLOCK FALSE
