SPECIFICATION FairSpec
CONSTANTS
    None = None
    Handlers = {h1, h2}
    Detachers = {d1}
    Sessions = {q1}
    Nonces = {n1}
    Tokens = {t1}
CHECK_DEADLOCK FALSE
PROPERTIES
    DetachSettles
    CloseDrains
    SlotNotLeaked
