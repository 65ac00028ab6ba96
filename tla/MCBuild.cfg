CONSTANTS
  b1 = b1
  b2 = b2
  confirmation = confirmation
  reviewlog = reviewlog
  snapshot = snapshot
  smoke1 = smoke1
  pilot1 = pilot1
  full1 = full1
  na1 = na1
  rev1 = rev1
  rev2 = rev2
  s1 = s1
  s2 = s2
  run1 = run1
  run2 = run2
  v1 = v1
  v2 = v2
  t1 = t1
  t2 = t2
  w1 = w1
  w2 = w2
  i1 = i1
  i2 = i2
  x1 = x1
  x2 = x2
  d1 = d1
  d2 = d2
  d3 = d3
  e1 = e1
  e2 = e2
  None = None
  Builders = {b1, b2}
  Docs = {confirmation, reviewlog, snapshot}
  Home <- MCHome
  Packed = {confirmation, reviewlog}
  Verified = {confirmation}
  Ingested = {snapshot}
  RunPlaces = {1, 3}
  PackPlaces = {5, 6}
  MaxEdits = 2
  MaxPlans = 1
  MaxKills = 1
  Item = {i1, i2}
  Digest = {x1, x2}
  Dest = {d1, d2, d3}
  Exporter = {e1, e2}
  MaxDeaths = 1
  Nothing = Nothing
  MaxAttempts = 2
  MaxCalls = 3
  MaxFaults = 1
  Traced = TRUE
  Faults = {"audit", "journal", "lost"}
  Run = {run1, run2}
  Review = {v1}
  Batches = {t1, t2}
  Worker = {w1, w2}
  MaxExports = 2
  Unset = Unset
  Parts = {"build", "replan", "audit", "budget", "revisions", "untouched", "delivery", "exports"}
SPECIFICATION MCSpec
INVARIANTS BuiltAsAttested BuildsAreWhole AuditTellsTheEnd LedgerIsTrue
PROPERTIES BudgetHolds DeliveredOnce
CHECK_DEADLOCK FALSE
