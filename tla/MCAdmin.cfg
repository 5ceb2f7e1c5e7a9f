SPECIFICATION FairSpec
CONSTANTS
    admin = admin
    successor = successor
    collector = collector
    treasury = treasury
    None = None
    zero_address = zero_address
    zero_hash = zero_hash
    Address = {admin, successor, collector}
    FirstAdmin = admin
    FirstCollector = collector
    FirstArbitrationFee = 100
    LegacyConfig <- UpgradedConfig
    MIN_TIMELOCK_DELAY_SECONDS = 1
    ADMIN_TIMELOCK_DELAY_SECONDS = 2
    MAX_TIMELOCK_DELAY_SECONDS = 3
    Params <- QueuedParams
    DirectParams <- ImmediateParams
    MaxQueued = 2
    MaxTime = 4
CHECK_DEADLOCK FALSE
INVARIANTS
    TypeOK
    ExecutionWasAnnounced
    HandoverBySittingAdmin
    CollectorIsNotAdmin
PROPERTIES
    MigrationKeepsSettings
    GovernedOnlyByTimelock
    ReadyChangeTakesEffect
