CONSTANTS
  root = root
  p2 = p2
  p3 = p3
  pkgA = pkgA
  pkgB = pkgB
  npm = npm
  gh = gh
  npmrc = npmrc
  lib = lib
  good = good
  evil = evil
  Pid = {root, p2}
  Package = {pkgA}
  Token = {npm, gh}
  NoPid = NoPid
  NoPackage = NoPackage
  GithubToken = gh
  Path = {npmrc, lib}
  PersistencePaths = {npmrc}
  CredentialPaths = {npmrc}
  Addr = {good, evil}
  Allowed = {good}
  Syscalls <- UnpackAndExec
  InitProcs = {root}
  InitEnv = {}
  RelativePaths = {}
  Loaded = {}
  Enforce = FALSE
  MaxTracked = 2
  RingCap = 2
  Threads = TRUE
  PidReuse = TRUE
  MaxActs = 2
  Requests <- RootRequests
  PathPackage <- MCPathPkg
  Backlog = 1
  MaxRequests = 4
  MaxStarts = 2
SPECIFICATION Spec
 
PROPERTY PhaseLogRefined
PROPERTY SuppressedOnlyShrinks
CHECK_DEADLOCK FALSE
