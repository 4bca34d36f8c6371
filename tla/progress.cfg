SPECIFICATION FairSpec
CONSTANTS
    NoId = NoId
    Torn = Torn
    k1 = k1
    k2 = k2
    s1 = s1
    s2 = s2
    Ids = {i1, i2, i3}
    Keys = {k1, k2}
    Servers = {s1, s2}
    ServerOf <- TwoServers
    Flaky = {s2}
    SavesMayFail = FALSE
    Providers = {TRUE}
    RecordsParams = FALSE
    Notifiers <- TelegramOnly
    Handlers = {h1}
    MaxCommands = 1
    MaxRestarts = 0
PROPERTIES
    PersistentAnomalyTracked
    TickEnds
    TickShrinks
