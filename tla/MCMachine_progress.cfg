\* Provisioning and deletion under up to two faults of any kind; Waldur accepts repeated terminations.
SPECIFICATION FairSpec
CONSTANTS
    Machines = {m1}
    OrderIds = {1, 2, 3, 4}
    SecretIds = {1}
    Nil = Nil
    ReTerminate = TRUE
    VaultMode = "none"
    Templates = {TRUE}
    BootDocs = {"withToken"}
    TenantStart = {FALSE}
    ReadOwnWrites = TRUE
    Faults = {"call", "panic", "write", "crash", "lost", "reject", "order", "vm"}
    MaxFaults = 2
PROPERTIES
    DeletionCompletes
    ProvisionCompletes
    LabelledMachineOrdered
CHECK_DEADLOCK FALSE
