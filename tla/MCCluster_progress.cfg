\* Provisioning and deletion, with an edit that replaces the datacenter or up to two faults that hide no accepted order; Waldur accepts repeated terminations.
SPECIFICATION ProgressSpec
CONSTANTS
    Clusters = {c1}
    Offerings = {a, b}
    ProjectOf <- OwnProjects
    Spec0 <- Singles
    OrderIds = {1, 2, 3, 4}
    Nil = Nil
    OrderScopes = {"none"}
    ReTerminate = TRUE
    ReadOwnWrites = TRUE
    Faults = {"call", "panic", "reject", "order", "vm"}
    MaxFaults = 2
    MaxEdits = 1
    MaxCP = 3
PROPERTIES
    ClusterDeletionCompletes
    ReadyWhenTenantsUp
    EndpointPublished
CHECK_DEADLOCK FALSE
