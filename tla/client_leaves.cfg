CONSTANTS
  c1 = c1
  c2 = c2
  c3 = c3
  NoClient = NoClient
  Client = {c1, c2, c3}
  Command <- PhaseOnly
  Word = {"7", "0", "npm", "ci", "finding", "refused"}
  Decimal <- MCDecimal
  FromChars <- MCFromChars
  MaxLine = 8
  ReadLimit = 6
  Chunk = 3
  SockCap = 3
  Backlog = 2
  Kills = FALSE
  MaxFindings = 5
SPECIFICATION Spec
INVARIANT OnlyShutdownStops
CHECK_DEADLOCK FALSE
SYMMETRY Clients
