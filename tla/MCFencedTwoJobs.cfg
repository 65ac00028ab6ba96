SPECIFICATION Spec
CONSTANTS
    Jobs = {j1, j2}
    Workers = {worker}
    Scopes = {}
    Legacy = {}
    None = None
    LeaseTicks = 1
    MaxRetries = 0
    Procs = {p1, p2}
    WorkerId <- SharedId
    Projects = {proj}
    ProjectOf <- OneProject
    Principals = {alice}
    PrincipalOf <- OnePrincipal
    ModuleJobs = {}
    Edits = {}
    Operator = Operator
    Creator = Creator
    PromptClaim = TRUE
SYMMETRY Symmetry
PROPERTIES PublishAtomic
