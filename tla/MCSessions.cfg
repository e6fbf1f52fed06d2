SPECIFICATION Spec
CONSTANTS
    Reqs = {r1, r2}
    Tokens = {t1, t2}
    Labels = {main}
    TTLs = {1}
    MaxActive = 2
    MaxClock = 2
    MaxSecrets = 3
    None = None
SYMMETRY Symmetry
INVARIANTS FencedWrites SweptWithParent OneHolderPerEpoch NoLockCycle
PROPERTIES FencedForever TakeoverOnlyOfDead RecoverySerialised
