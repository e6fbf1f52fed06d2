SPECIFICATION Spec
CONSTANTS
    p1 = p1
    p2 = p2
    c1 = c1
    c2 = c2
    Messages = {m1}
    Receipts = {n1}
    Proxies = {p1, p2}
    Registrars = {p1}
    Calls = {c1, c2}
    HomeOf <- OneEach
    Batch = 1
    MAX_ATTEMPTS = 2
    MaxRows = 2
    MaxEpoch = 2
    MaxHappens = 3
PROPERTIES DeliveredToTheLiveWindow EveryReferenceArrives
CHECK_DEADLOCK FALSE
