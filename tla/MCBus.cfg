SPECIFICATION MCSpec
CONSTANTS
    Items = {m1, c1, c2, x1}
    Messages = {m1}
    Changes = {c1, c2}
    Casts = {{c1, c2}, {m1, c1}, {m1, x1}}
    ReplayLimit = 1
    HubCap = 1
    MissedEchoes = 2
INVARIANTS ToldExactly NoLostWakeup
PROPERTIES EveryChangeReported DeafListenerReplaced
