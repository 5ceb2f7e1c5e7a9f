SPECIFICATION IndexerSpec
CONSTANTS
    seller = seller
    buyer = buyer
    r1 = r1
    admin = admin
    None = None
    Address = {seller, buyer, r1, admin}
    Admin = admin
    Treasury = admin
    ProtocolFeeBps = 0
    ApprovedResolvers = {r1}
    MinAmount = 1
    MaxAmount = 100000
    Terms <- OfferedTerms
    Settings <- NoSettings
    InitialConfig <- recovering
    MaxEscrows = 2
    MaxTime = 3
    TIMESTAMP_MOD = 1000
    MAX_SHIPPING_WINDOW = 10
    MAX_GRACE_PERIOD = 3
    MAX_FALLBACK_DEADLINE_OFFSET = 6
    MIN_DISPUTE_TIMEOUT = 0
    MAX_DISPUTE_TIMEOUT = 10
    PENDING_EXPIRY_WINDOW = 0
    DISPUTE_WINDOW = 1
    DELIVERY_TIMELOCK = 0
    DELIVERY_RELEASE_WINDOW = 1
    APPEAL_WINDOW = 1
    DISPUTE_DEADLOCK_WINDOW = 0
    ESCROW_INDEX_PAGE_SIZE = 2
    MAX_MESSAGES_PER_ESCROW = 2
    InheritedSales <- inherited_sales
    InheritedPurchases <- inherited_purchases
    InheritedThreads <- inherited_threads
    OldParties = {seller, buyer}
    MaxPages = 3
    Histories <- Stories
    EVENT_SCHEMA_VERSION = 4
    MaxSchemaVersion = 5
    SUPPORTED_SCHEMA_VERSION = 4
    EVENTS_PAGE_SIZE = 3
CHECK_DEADLOCK FALSE
INVARIANTS
    LogIsGapless
    RowsMirrorEscrows
    IndexesAreComplete
PROPERTIES
    CursorOnlyAdvances
    ThreadsOnlyGrow
    EventsAreIndexed
