SPECIFICATION Spec
CONSTANTS
    None = None
    Handlers = {h1, h2}
    Detachers = {d1, d2}
    Sessions = {q1}
    Nonces = {n1, n2}
    Tokens = {t1, t2}
SYMMETRY Symmetry
CHECK_DEADLOCK FALSE
INVARIANTS
    TypeOK
    OneLiveChild
    ConfirmedDetachIsComplete
    FailedTeardownKeepsSlot
    NonceAdmitsOnce
    OneDetachPerAttachment
PROPERTIES
    CancelledForItsOwnReason
    NothingStartsAfterQuarantine
    ImplementsSingleAttachment
