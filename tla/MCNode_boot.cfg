\* Two machines on either Vault path, any documents and template, up to two faults of any kind.
SPECIFICATION FairSpec
CONSTANTS
    Machines = {m1, m2}
    OrderIds = {}
    SecretIds = {1, 2, 3, 4, 5}
    Nil = Nil
    Modes = {"rke2", "rancher"}
    BootDocs = {"withToken", "noConfigFile", "malformed"}
    Templates = {"os", "bad"}
    Faults = {"call", "lost", "deny", "expire", "reject", "crash", "node"}
    MaxFaults = 2
    MaxEarly = 1
INVARIANTS
    TypeOK
    StartsComplete
    TokenOnlyInVault
    FetchCanSucceed
    LeaksAccounted
PROPERTIES
    AtMostOnce
    TokenStable
    AgentsStart
CHECK_DEADLOCK FALSE
