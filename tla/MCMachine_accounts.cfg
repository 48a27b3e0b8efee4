\* Two machines on the rancher-system-agent path; no fault hides an accepted order.
SPECIFICATION Spec
CONSTANTS
    Machines = {m1, m2}
    OrderIds = {1, 2, 3}
    SecretIds = {1, 2}
    Nil = Nil
    ReTerminate = FALSE
    VaultMode = "rancher"
    Templates = {TRUE, FALSE}
    BootDocs = {"withToken"}
    TenantStart = {TRUE}
    ReadOwnWrites = TRUE
    Faults = {"reject"}
    MaxFaults = 1
SYMMETRY MachineSymmetry
INVARIANTS
    NoOrphan
PROPERTIES
    ManagedVM
    StoppedBeforeTermination
CHECK_DEADLOCK FALSE
