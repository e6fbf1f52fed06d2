SPECIFICATION Spec
CONSTANTS
    Msgs = {m1}
    Workers = {w1, w2}
    MaxAttempts = 2
    StreamLimit = 2
    None = None
INVARIANTS SlotMatchesMessage StoredIsHeld
PROPERTIES StoredForGood EventuallySettled
CHECK_DEADLOCK FALSE
