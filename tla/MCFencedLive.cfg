SPECIFICATION PolledSpec
CONSTANTS
    Jobs = {j1}
    Workers = {worker}
    Scopes = {}
    Legacy = {}
    None = None
    LeaseTicks = 1
    MaxRetries = 1
    Procs = {p1, p2}
    WorkerId <- SharedId
    Projects = {proj}
    ProjectOf <- OneProject
    Principals = {alice}
    PrincipalOf <- OnePrincipal
    ModuleJobs = {}
    Edits = {}
    Operator = Operator
    Creator = Creator
    PromptClaim = TRUE
PROPERTIES ExecutionEndsAndReleases CommitIsReported
