\* A datacenter is replaced and its tenant cannot be created.
SPECIFICATION ClusterSpec
CONSTANTS
    Clusters = {c1}
    Offerings = {a, b}
    ProjectOf <- OwnProjects
    Spec0 <- AnyDatacenters
    OrderIds = {1, 2, 3, 4}
    Nil = Nil
    OrderScopes = {"none", "CREATING"}
    ReTerminate = FALSE
    ReadOwnWrites = TRUE
    Faults = {"reject"}
    MaxFaults = 1
    MaxEdits = 1
    MaxCP = 1
PROPERTIES
    AllTenantsReady
CHECK_DEADLOCK FALSE
