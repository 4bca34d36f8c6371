SPECIFICATION Spec
CONSTANTS
    NoId = NoId
    Torn = Torn
    k1 = k1
    k2 = k2
    s1 = s1
    s2 = s2
    Ids = {i1, i2, i3}
    Keys = {k1}
    Servers = {s1}
    ServerOf <- OneServer
    Flaky = {}
    SavesMayFail = TRUE
    Providers = {TRUE, FALSE}
    RecordsParams = TRUE
    Notifiers <- DiscordOnly
    Handlers = {h1, h2}
    MaxCommands = 2
    MaxRestarts = 1
SYMMETRY Symmetry
INVARIANTS
    DiskCurrent
PROPERTY
    ClosedChangesByCommand
