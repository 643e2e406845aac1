SPECIFICATION FairSpec
CONSTANTS
    c1 = c1
    c2 = c2
    n1 = n1
    n2 = n2
    x = x
    y = y
    g1 = g1
    g2 = g2
    g3 = g3
    ping = ping
    subscribe = subscribe
    m1 = m1
    m2 = m2
    m3 = m3
    m4 = m4
    Nul = Nul
    Clients <- OneClient
    Servers <- TwoServers
    Slots <- TwoSlots
    Groups <- LiveGroups
    Commands <- LiveCommands
    ClientOf <- LiveClientOf
    GroupOf <- LiveGroupOf
    Requests <- LiveRequests
    Script <- LiveScript
    Steps <- LiveSteps
    Maps <- FullMaps
    LongGroups = {}
    Redirects = TRUE
    ReadOnly = FALSE
    MaxPipe = 1
    MaxResponses = 2
    MaxBatch = 1
    MaxFaults = 2
INVARIANTS ClientsAttended
PROPERTIES EveryRequestAnswered
CHECK_DEADLOCK FALSE
