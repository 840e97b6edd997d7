SPECIFICATION Spec
CONSTANTS
    MaxTaka = 0
    MsPerDay = 1
    l1 = l1
    l2 = l2
    m1 = m1
    m2 = m2
    Requests = {r1}
    Commands <- SmallCommands
    Listings = {l1, l2}
    ListingRows <- SmallRows
    Merchants = {m1}
    MerchantRows <- MerchantVersions
    NoLocation = NoLocation
    NoRef = NoRef
    Amounts = {0, 1, 2, 14, 67}
    MaxEdits = 1
INVARIANTS
    TypeOK
    CapMatchesEvidence
    AdvanceLawful
    PaymentDue
PROPERTIES
    PlacesLedgerOrders
CHECK_DEADLOCK FALSE
