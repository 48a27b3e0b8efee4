\* One control-plane machine in one datacenter, brought up and torn down at any point; one order fails.
SPECIFICATION SystemFairSpec
CONSTANTS
    Machines = {m1}
    Clusters = {c1}
    Offerings = {a}
    Place <- OnePlace
    ProjectOf <- OwnProjects
    Spec0 <- Full
    OrderIds = {1, 2, 3}
    SecretIds = {}
    Nil = Nil
    OrderScopes = {"none", "CREATING"}
    VaultMode = "none"
    Templates = {TRUE}
    BootDocs = {"withToken"}
    TenantStart = {FALSE}
    ReTerminate = TRUE
    ReadOwnWrites = TRUE
    Faults = {"order"}
    MaxFaults = 1
    MaxEdits = 0
    MaxCP = 3
    Flavors <- TwoFlavors
    MaxCount = 3
    MaxGroups = 2
INVARIANTS
    LimitsCoverNodes
    TenantOutlivesVMs
    NothingLeftBehind
PROPERTIES
    EndpointComesUp
    TornDown
CHECK_DEADLOCK FALSE
