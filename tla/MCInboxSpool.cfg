SPECIFICATION Spec
CONSTANTS
    p1 = p1
    p2 = p2
    c1 = c1
    c2 = c2
    Messages = {m1, m2}
    Receipts = {}
    Proxies = {p1}
    Registrars = {p1}
    Calls = {c1, c2}
    HomeOf <- Together
    Batch = 1
    MAX_ATTEMPTS = 2
    MaxRows = 2
    MaxEpoch = 1
    MaxHappens = 2
INVARIANTS DeliveredIsHeld
CHECK_DEADLOCK FALSE
