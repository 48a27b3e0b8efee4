\* One machine on the RKE2 path, up to three faults of any kind.
SPECIFICATION Spec
CONSTANTS
    Machines = {m1}
    OrderIds = {1, 2, 3, 4}
    SecretIds = {1, 2, 3}
    Nil = Nil
    ReTerminate = FALSE
    VaultMode = "rke2"
    Templates = {TRUE, FALSE}
    BootDocs = {"withToken", "noConfigFile", "malformed"}
    TenantStart = {TRUE, FALSE}
    ReadOwnWrites = TRUE
    Faults = {"call", "panic", "write", "crash", "lost", "reject", "order", "vm"}
    MaxFaults = 3
INVARIANTS
    TypeOK
    FinalizerGuards
    ReleasedOnlyWhenTerminated
    ProviderIDMatchesTracked
    ReadyConsistent
    AcceptedOrderUsable
PROPERTIES
    TrackedForever
CHECK_DEADLOCK FALSE
