SPECIFICATION Spec
CONSTANTS
    NoId = NoId
    Torn = Torn
    k1 = k1
    k2 = k2
    s1 = s1
    s2 = s2
    Ids = {i1, i2, i3}
    Keys = {k1}
    Servers = {s1}
    ServerOf <- OneServer
    Flaky = {s1}
    SavesMayFail = FALSE
    Providers = {TRUE, FALSE}
    RecordsParams = FALSE
    Notifiers <- BothNotifiers
    Handlers = {h1, h2}
    MaxCommands = 3
    MaxRestarts = 1
SYMMETRY Symmetry
INVARIANTS
    TypeOK
    ActiveUnique
    FixedWasSuggested
    DiskCurrent
    AlertedOnce
    NotifiedWasDelivered
PROPERTIES
    ClosedStaysClosed
    TracksIssues
    AnnouncesOnce
