\* A creation order that fails before its instance exists.
SPECIFICATION FairSpec
CONSTANTS
    Machines = {m1}
    OrderIds = {1, 2, 3}
    SecretIds = {1}
    Nil = Nil
    ReTerminate = FALSE
    VaultMode = "none"
    Templates = {TRUE}
    BootDocs = {"withToken"}
    TenantStart = {TRUE}
    ReadOwnWrites = TRUE
    Faults = {"order"}
    MaxFaults = 1
PROPERTIES
    FailureReported
CHECK_DEADLOCK FALSE
