SPECIFICATION MCSpec
CONSTANTS
    p1 = p1
    p2 = p2
    mine = mine
    other = other
    theirs = theirs
    crew = crew
    rivals = rivals
    Procs = {p1, p2}
    Profiles = {mine, other, theirs}
    TeamOf <- Teams
    Default = mine
    Rooted = other
    MaxIssued = 3
    MaxBeside = 1
    spooler = spooler
    c1 = c1
    c2 = c2
    Messages = {m1, m2}
    Receipts = {}
    Proxies = {spooler}
    Registrars = {spooler}
    Calls = {c1, c2}
    HomeOf <- Together
    Batch = 1
    MAX_ATTEMPTS = 2
    MaxRows = 2
    MaxEpoch = 2
    MaxHappens = 3
SYMMETRY Symmetry
INVARIANTS WaitKeepsItsIdentity RefusalIsCurrent TeamIsKept RecordIsTheOwners DeliveredIsKept
PROPERTIES OnlyToldIsDropped
CHECK_DEADLOCK FALSE
