SPECIFICATION MCSpec
CONSTANTS
    Keys = {k1, k2}
    Names = {deploy}
    Windows = {w1, w2}
    Reqs = {r1, r2}
    LeaseSecs = {1}
    TTLs = {1}
    MaxClock = 2
    None = None
    Msgs = {m1, m2, m3}
    Reads = {q1, q2}
    PageLimit = 1
SYMMETRY Symmetry
INVARIANTS ClaimedOnlyUnblocked OnlyLateCommitsSkipped
PROPERTIES TasksImplementLease LocksImplementLease LiveClaimBelongsToHolder
