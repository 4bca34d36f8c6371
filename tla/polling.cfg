SPECIFICATION FairSpec
CONSTANTS
    s1 = s1
    s2 = s2
    h1 = h1
    h2 = h2
    Servers = {s1, s2}
    Hosts = {h1}
    SSHTarget <- SharedHost
    Tasks <- TaskSet
    HostOf <- TaskHost
    Links = 8
    LastCommand <- TwoThenOne
    AfterFailure <- SmartGivesUp
    Flaky = {s2}
    Hanging = {}
    MaxAdHoc = 1
    MaxFaults = 1
INVARIANTS
    TypeOK
    LeaksBounded
PROPERTIES
    GatherEnds
    CoroutinesAdvance
    Reconnects
