SPECIFICATION FairSpec
CONSTANTS
    n1 = n1
    n2 = n2
    vm = vm
    ct = ct
    local = local
    svc = svc
    d1 = d1
    d2 = d2
    NodeOrder <- TwoNodes
    ServiceOrder <- OneService
    DiskOrder <- TwoDisks
    Guests = {vm, ct}
    GuestType <- VMAndContainer
    Storages = {local}
    Checks <- AllChecks
    HasSSH = TRUE
    Threshold <- AtOne
    Readings = {0, 1}
    MaxChanges = 2
PROPERTY OnlineNodeFound
