CONSTANTS
  Setups = {s1, s2}
  Others = {o1, o2}
  o1 = o1
  o2 = o2
  Somebody = Somebody
  Empty = Empty
  None = None
  MaxEdits = 2
  MaxDeaths = 1
  Levels = {5, 6}
  MaxChanges = 2
  Ids = {1, 2, 3, 4}
  Versions = {1, 2}
  Current = 0
  Places <- MCPlaces
  InitialPacks <- MCInitialPacks
  Projects <- MCProjects
  MaxTouches = 2
  Absent = Absent
  e1 = e1
  e2 = e2
  e3 = e3
  r = r
  b1 = b1
  b2 = b2
  n1 = n1
  q1 = q1
  q2 = q2
  q3 = q3
  u1 = u1
  u2 = u2
  k1 = k1
  k2 = k2
  Procs = {e1, e2, e3}
  Runs = {r}
  Builds = {b1, b2}
  VersionOf <- MCVersionOf
  MaxFaults = 2
  NoOne = NoOne
  Requests = {q1, q2, q3}
  Blobs = {u1, u2}
  Keys = {k1, k2}
  MaxCrashes = 1
  MaxErrors = 1
  Nobody = Nobody
  Parts = {"setup", "judged", "closure", "edited", "ingestion", "versions", "served", "broken", "authority"}
SPECIFICATION MCSpec
INVARIANTS ValidIsFrozen AcceptedIsClosed AuthorityIsExact
PROPERTIES CommitsAreWhole UploadsAreKept
CHECK_DEADLOCK FALSE
