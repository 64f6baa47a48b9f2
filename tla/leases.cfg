SPECIFICATION Spec
CONSTANTS
    p1 = p1
    p2 = p2
    q = q
    Process = {p1, p2, q}
    OwnerOf <- MCOwnerOf
    Payload <- MCPayload
    None = None
    TTL = 2
    MaxTime = 4
    MaxGrants = 4
    MaxUses = 3
INVARIANTS
    Fenced
    Exclusive
    DecidedOnce
    DeliveredEnds
CHECK_DEADLOCK FALSE
