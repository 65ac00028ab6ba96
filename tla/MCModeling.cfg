CONSTANTS
  None = None
  p1 = p1
  p2 = p2
  o1 = o1
  o2 = o2
  i1 = i1
  k1 = k1
  k2 = k2
  s1 = s1
  d1 = d1
  x1 = x1
  x2 = x2
  v1 = v1
  ann = ann
  bob = bob
  cyd = cyd
  c0 = c0
  c1 = c1
  c2 = c2
  q1 = q1
  rev1 = rev1
  Packages = {p1, p2}
  Objects = {o1, o2}
  DecisionOf <- MCDecisionOf
  Priorities = {"normal", "high"}
  Initial = "normal"
  People = {a, b}
  MaxVersion = 2
  MaxHistory = 2
  MaxCandidates = 2
  MaxRuns = 2
  Profiles = {"PRODUCTION_MULTI_ROLE"}
  Queues <- MCQueues
  Scope <- MCScope
  DependsOn <- MCDependsOn
  Blocked = {}
  Revisions = {rev1}
  Reviewers = {ann, bob, cyd}
  Holds <- MCHolds
  Tried = {"ACCEPT", "MODIFY_AND_ACCEPT", "REJECT", "REQUEST_EVIDENCE"}
  MaxActions = 4
  Pending = Pending
  Identifiers <- MCIdentifiers
  Content <- MCContent
  MayBecome <- MCMayBecome
  Issues = {"i", "j"}
  Blocking = {"i"}
  Related <- MCRelated
  Fields = {1, 2}
  Values = {1, 2}
  Requests <- MCRequests
  Decisions <- MCDecisions
  Targets <- MCTargets
  MaxPublications = 3
  Parts = {"orders", "history", "session", "review", "dataset", "reentry"}
SPECIFICATION MCSpec
SYMMETRY Symmetry
INVARIANTS HistoryIsChain ConfirmedIsReviewed ReadyIsReviewed ReentryIsDecided
PROPERTIES ActivationIsReviewed SessionIsSound
CHECK_DEADLOCK FALSE
