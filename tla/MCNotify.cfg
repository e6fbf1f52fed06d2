SPECIFICATION MCSpec
CONSTANTS
    Deliveries = {d1, d2}
    Replicas = {r1, r2}
    MAX_ATTEMPTS = 2
    Batch = 2
    MaxFaults = 1
    Procs = {1, 2}
    Nobody = Nobody
    Tries = 2
    MaxEvents = 2
INVARIANTS RetriesBounded WokenOnce
PROPERTIES EveryDeliverySettles AnnouncementStands NewsWakesUnlessRaced
CHECK_DEADLOCK FALSE
