SPECIFICATION Spec
CONSTANTS
    Requests = {r1, r2, r3}
    Attachments = {a1, a2, a3}
    Capacity = 2
    TTL = 2
    MaxTime = 3
    Configured <- TypedAddresses
    Pages <- ForeignPages
SYMMETRY TokenSymmetry
CHECK_DEADLOCK FALSE
INVARIANTS
    TypeOK
    OwnPageIsAdmitted
    UsedOnceInTime
    OneGrantPerAttachment
PROPERTIES
    ExpiryIsKept
    RefusedOnlyWhenFull
