CONSTANTS
  c1 = c1
  c2 = c2
  c3 = c3
  NoClient = NoClient
  Client = {c1, c2, c3}
  Command <- OnePhase
  Word = {"7", "0", "npm", "ci", "finding", "refused"}
  Decimal <- MCDecimal
  FromChars <- MCFromChars
  MaxLine = 8
  ReadLimit = 12
  Chunk = 4
  SockCap = 6
  Backlog = 2
  Kills = TRUE
  MaxFindings = 2
SPECIFICATION Spec
INVARIANT TypeOK
INVARIANT GateHolds
INVARIANT ReportWhole
PROPERTY ServiceImplemented
CHECK_DEADLOCK FALSE
SYMMETRY Clients
