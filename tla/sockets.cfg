CONSTANTS
  c1 = c1
  c2 = c2
  c3 = c3
  NoClient = NoClient
  Client = {c1, c2}
  Command <- Everything
  Word = {"7", "0", "npm", "ci", "finding", "refused"}
  Decimal <- MCDecimal
  FromChars <- MCFromChars
  MaxLine = 8
  ReadLimit = 12
  Chunk = 4
  SockCap = 6
  Backlog = 2
  Kills = TRUE
  MaxFindings = 1
SPECIFICATION FairSpec
PROPERTY EveryCommandEnds
CHECK_DEADLOCK FALSE
