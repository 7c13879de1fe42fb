SPECIFICATION RegistryFairSpec
CONSTANTS
    Agents = {a1}
    Calls = {c1, c2}
    NoAgent = NoAgent
    MaxCrashes = 1
    DbFails = TRUE
INVARIANTS
    RegistryTypeOK
    AuditMatches
PROPERTIES
    OfflineMeansSilent
    HeldUpByCurlOnly
    DeadAgentGoesOffline
    LiveAgentStaysOnline
CHECK_DEADLOCK FALSE
