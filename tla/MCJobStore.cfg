CONSTANTS
  Jobs = {j1, j2}
  Workers = {w1, w2}
  Scopes = {s1, s2}
  Legacy = {s2}
  None = None
  LeaseTicks = 2
  MaxRetries = 2
  Procs = {p1}
  WorkerId <- OneWorker
  Projects = {proj}
  ProjectOf <- OneProject
  Principals = {alice}
  PrincipalOf <- OnePrincipal
  ModuleJobs = {j1}
  Edits = {e1}
  Operator = Operator
  Creator = Creator
  PromptClaim = TRUE
  Parts = {"store", "module"}
  MaxGranted = 1
SPECIFICATION MCSpec
INVARIANTS CancelIsFinal 
PROPERTIES NoDirectTakeover
