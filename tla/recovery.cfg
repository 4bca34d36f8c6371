SPECIFICATION Spec
CONSTANTS
    NoId = NoId
    Torn = Torn
    k1 = k1
    k2 = k2
    s1 = s1
    s2 = s2
    Ids = {i1, i2}
    Keys = {k1}
    Servers = {s1}
    ServerOf <- OneServer
    Flaky = {}
    SavesMayFail = FALSE
    Providers = {TRUE}
    RecordsParams = FALSE
    Notifiers <- DiscordOnly
    Handlers = {h1}
    MaxCommands = 1
    MaxRestarts = 1
SYMMETRY Symmetry
PROPERTY RestartRecovers
