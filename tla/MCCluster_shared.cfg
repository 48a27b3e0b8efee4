\* Two clusters whose datacenters share a Waldur project are created and deleted.
SPECIFICATION ClusterSpec
CONSTANTS
    Clusters = {c1, c2}
    Offerings = {a}
    ProjectOf <- OneProject
    Spec0 <- Full
    OrderIds = {1, 2, 3, 4}
    Nil = Nil
    OrderScopes = {"none", "CREATING"}
    ReTerminate = TRUE
    ReadOwnWrites = TRUE
    Faults = {}
    MaxFaults = 0
    MaxEdits = 0
    MaxCP = 1
SYMMETRY ClusterSymmetry
INVARIANTS
    NoOrphanTenant
    WaitsForOthersOnly
    NoProjectLeft
PROPERTIES
    ManagedTenant
    TenantOrderedInProject
CHECK_DEADLOCK FALSE
