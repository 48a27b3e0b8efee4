\* One cluster, one fault of any kind, and an edit that replaces the datacenter while its tenant and the endpoint come up.
SPECIFICATION ClusterSpec
CONSTANTS
    Clusters = {c1}
    Offerings = {a, b}
    ProjectOf <- OwnProjects
    Spec0 <- Singles
    OrderIds = {1, 2, 3, 4, 5}
    Nil = Nil
    OrderScopes = {"CREATING"}
    ReTerminate = FALSE
    ReadOwnWrites = TRUE
    Faults = {"call", "panic", "write", "crash", "lost", "reject", "order", "vm"}
    MaxFaults = 1
    MaxEdits = 1
    MaxCP = 3
SYMMETRY OfferingSymmetry
INVARIANTS
    ClusterTypeOK
    ClusterInFlightExists
    ClusterReleasedOnlyWhenTerminated
PROPERTIES
    EditsSurvive
CHECK_DEADLOCK FALSE
