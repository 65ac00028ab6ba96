CONSTANTS
  p1 = p1
  p2 = p2
  detector = detector
  parser = parser
  other = other
  normalizer = normalizer
  evaluator = evaluator
  s1 = s1
  s2 = s2
  r1 = r1
  r2 = r2
  None = None
  Absent = Absent
  Empty = Empty
  Nothing = Nothing
  Procs = {p1}
  Providers <- MCProviders
  Builtin <- MCBuiltin
  Role <- MCRole
  Reads <- MCReads
  Rank <- MCRank
  Sources = {s1}
  Media <- MCMedia
  Content <- MCContent
  LongLived = TRUE
  MaxEdits = 1
  MaxFaults = 0
  MaxPlans = 2
  Runners = {r1, r2}
  MaxTurns = 2
  Catalogs <- MCCatalogs
  Pieces <- MCPieces
  Codes <- MCPermits
  Agreements <- MCAgreements
  MaxTime = 4
  Tabs = {"t1", "t2"}
  Slots = {1}
  Tokens = {"k1"}
  Kinds = {"session", "write", "logout"}
  MaxSessions = 2
  Parts = {"plans"}
SPECIFICATION MCSpec
INVARIANTS ProducedByItsSnapshot
CHECK_DEADLOCK FALSE
