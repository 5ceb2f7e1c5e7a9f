SPECIFICATION FairSpec
CONSTANTS
    seller = seller
    partner = partner
    buyer = buyer
    r1 = r1
    r2 = r2
    r3 = r3
    admin = admin
    None = None
    Address = {seller, partner, buyer, r1, r2, admin}
    Admin = admin
    Treasury = admin
    ProtocolFeeBps = 251
    ApprovedResolvers = {r1, r2, r3}
    MinAmount = 1
    MaxAmount = 100000
    Terms <- WaitingTerms
    Settings <- NoSettings
    InitialConfig <- steady
    MaxEscrows = 1
    MaxTime = 7
    TIMESTAMP_MOD = 1000
    MAX_SHIPPING_WINDOW = 10
    MAX_GRACE_PERIOD = 3
    MAX_FALLBACK_DEADLINE_OFFSET = 6
    MIN_DISPUTE_TIMEOUT = 1
    MAX_DISPUTE_TIMEOUT = 10
    PENDING_EXPIRY_WINDOW = 3
    DISPUTE_WINDOW = 2
    DELIVERY_TIMELOCK = 1
    DELIVERY_RELEASE_WINDOW = 2
    APPEAL_WINDOW = 1
    DISPUTE_DEADLOCK_WINDOW = 3
CHECK_DEADLOCK FALSE
PROPERTIES
    DecidedDisputeMovesOn
    OpenDisputeIsDecided
    StaleOfferIsCancelled
    DeliveredEscrowIsSettled
