SPECIFICATION ProxySpec
CONSTANTS
    p1 = p1
    p2 = p2
    mine = mine
    other = other
    theirs = theirs
    crew = crew
    rivals = rivals
    Procs = {p1, p2}
    Profiles = {mine, other}
    TeamOf <- Crew
    Default = mine
    Rooted = mine
    MaxIssued = 4
    MaxBeside = 1
INVARIANT SpeaksAsItReports
CHECK_DEADLOCK FALSE
