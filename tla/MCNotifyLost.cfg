SPECIFICATION MCSpec
CONSTANTS
    Deliveries = {d1}
    Replicas = {r1}
    MAX_ATTEMPTS = 1
    Batch = 1
    MaxFaults = 0
    Procs = {1}
    Nobody = Nobody
    Tries = 1
    MaxEvents = 1
PROPERTIES NewsWakes
CHECK_DEADLOCK FALSE
