\* A restart between the creation order and the status patch.
SPECIFICATION Spec
CONSTANTS
    Machines = {m1}
    OrderIds = {1, 2, 3}
    SecretIds = {1}
    Nil = Nil
    ReTerminate = TRUE
    VaultMode = "none"
    Templates = {TRUE}
    BootDocs = {"withToken"}
    TenantStart = {TRUE}
    ReadOwnWrites = TRUE
    Faults = {"crash"}
    MaxFaults = 1
INVARIANTS
    NoOrphan
CHECK_DEADLOCK FALSE
