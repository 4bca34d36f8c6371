SPECIFICATION FairSpec
CONSTANTS
    s1 = s1
    s2 = s2
    h1 = h1
    h2 = h2
    Servers = {s1, s2}
    Hosts = {h1, h2}
    SSHTarget <- OwnHosts
    Tasks <- TaskSet
    HostOf <- TaskHost
    Links = 2
    LastCommand <- TwoEach
    AfterFailure <- ToTheNext
    Flaky = {}
    Hanging = {h1}
    MaxAdHoc = 0
    MaxFaults = 0
PROPERTY HealthyServerPolled
