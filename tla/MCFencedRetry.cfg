SPECIFICATION Spec
CONSTANTS
    Jobs = {j1}
    Workers = {worker}
    Scopes = {}
    Legacy = {}
    None = None
    LeaseTicks = 2
    MaxRetries = 1
    Procs = {p1, p2}
    WorkerId <- SharedId
    Projects = {proj, proj2}
    ProjectOf <- OneProject
    Principals = {alice}
    PrincipalOf <- OnePrincipal
    ModuleJobs = {}
    Edits = {}
    Operator = Operator
    Creator = Creator
    PromptClaim = TRUE
SYMMETRY Symmetry
INVARIANTS ReceiptsAreTrue
PROPERTIES PublishOnlyAuthorised OldWorkerFenced ImplementsAuthority
