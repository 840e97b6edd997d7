SPECIFICATION Spec
CONSTANTS
    Users = {u1, u2}
    Workers = {w1}
    NoRole = NoRole
    NoPoint <- Absent
    NoLocation = NoLocation
    Addresses <- SmallAddresses
    NidInputs <- SmallNids
    Categories <- SmallCategories
    Offers <- SmallOffers
    SessionTtl = 1
    MaxRadius = 4
    MaxResults = 1
    MaxListings = 2
    MaxSubmissions = 2
    MaxDecisions = 2
SYMMETRY UserSymmetry
INVARIANTS
    TypeOK
    PublishedWhileEligible
    OwnRoleOnly
    PendingHasSubmission
    SearchFindsNearest
PROPERTIES
    DemotedOnlyByOverlap
