CONSTANTS
  Packages = {p1}
  Consumers = {}
  Creds = {ann1, ann2, bob}
  Owner <- MCOwner
  Grants <- MCGrants
  Profiles = {"PRODUCTION", "DEVELOPMENT"}
  Required <- MCRequired
  MinReviewers <- MCMinReviewers
  Decisions = {"APPROVE", "REJECT"}
  None = None
  MaxActions = 3
  MaxPlans = 1
  Users = {u1, u2}
  MaxEvents = 7
  MaxChanges = 3
  ann1 = ann1
  ann2 = ann2
  bob = bob
  p1 = p1
  p2 = p2
  k1 = k1
  note = note
  pkg1 = pkg1
  pkg2 = pkg2
  w1 = w1
  w2 = w2
  rel1 = rel1
  rel2 = rel2
  r1 = r1
  u1 = u1
  u2 = u2
  Parts = {"review", "succession", "together", "alone", "activation", "interrupted", "history", "governance"}
SPECIFICATION MCSpec
INVARIANTS QuorumStands GovernanceIsValid
PROPERTIES PublishedOnStanding RegistryIsLog EnvironmentMovesByConsent
CHECK_DEADLOCK FALSE
