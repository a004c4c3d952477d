SPECIFICATION ClientsSpec
CONSTANTS
    t1 = t1
    t2 = t2
    s1 = s1
    s2 = s2
    s3 = s3
    Tasks <- TwoTasks
    Sockets <- ThreeSockets
    TaskOf <- Subscriptions
    Dashboard <- DashboardTasks
    Script <- Outcomes
    MaxBroadcasts = 3
    MaxErrors = 1
    MaxElsewhere = 1
INVARIANTS
    RegistryMatchesClients
    ShownSinceJoined
PROPERTIES
    LeaversForgotten
    ButtonReturns
CHECK_DEADLOCK FALSE
