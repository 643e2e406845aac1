SPECIFICATION Spec
CONSTANTS
    c1 = c1
    c2 = c2
    n1 = n1
    n2 = n2
    x = x
    y = y
    g1 = g1
    g2 = g2
    g3 = g3
    ping = ping
    subscribe = subscribe
    m1 = m1
    m2 = m2
    m3 = m3
    m4 = m4
    Nul = Nul
    Clients <- TwoClients
    Servers <- TwoServers
    Slots <- TwoSlots
    Groups <- RenameGroups
    Commands <- RenameCommands
    ClientOf <- RenameClientOf
    GroupOf <- RenameGroupOf
    Requests <- RenameRequests
    Script <- RenameScript
    Steps <- RenameSteps
    Maps <- MovedMaps
    LongGroups = {}
    Redirects = TRUE
    ReadOnly = TRUE
    MaxPipe = 2
    MaxResponses = 2
    MaxBatch = 2
    MaxFaults = 1
INVARIANTS ServersAttended
CHECK_DEADLOCK FALSE
