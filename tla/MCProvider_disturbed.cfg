\* An edit that replaces the datacenter, the machine's or the other one, or one fault that hides an order.
SPECIFICATION SystemSpec
CONSTANTS
    Machines = {m1}
    Clusters = {c1}
    Offerings = {a, b}
    Place <- OnePlace
    ProjectOf <- OwnProjects
    Spec0 <- Singles
    OrderIds = {1, 2}
    SecretIds = {}
    Nil = Nil
    OrderScopes = {"none"}
    VaultMode = "none"
    Templates = {TRUE}
    BootDocs = {"withToken"}
    TenantStart = {FALSE}
    ReTerminate = TRUE
    ReadOwnWrites = TRUE
    Faults = {"write", "crash", "lost"}
    MaxFaults = 1
    MaxEdits = 1
    MaxCP = 3
    Flavors <- TwoFlavors
    MaxCount = 3
    MaxGroups = 2
PROPERTIES
    OrderedInFinishedTenant
CONSTRAINT OneMishap
CHECK_DEADLOCK FALSE
