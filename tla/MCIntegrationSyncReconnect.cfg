SPECIFICATION Spec
CONSTANTS
    Workers = {w1, w2}
    Cron = Cron
    Accounts = {a1}
    NoAccount = NoAccount
    Keys = {k1, events, metadata}
    EventsKey = events
    MetadataKey = metadata
    Given <- MCGiven
    Limit = 1
    Mixes <- MCMixes
    MaxRotations = 1
    MaxFaults = 0
INVARIANTS
    ReconnectPossible
CHECK_DEADLOCK FALSE
