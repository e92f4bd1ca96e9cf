\* Two connections, one symbol, no symmetry: the liveness properties.
SPECIFICATION FairSpec
CONSTANTS
    u1 = u1
    c1 = c1
    c2 = c2
    c3 = c3
    s1 = s1
    s2 = s2
    Anonymous = Anonymous
    Conns = {c1, c2}
    Symbols = {s1}
    UserOf <- MCUserOf
    Production = FALSE
    MaxClients = 2
    MAX_SUBSCRIPTIONS_PER_USER = 2
    MaxFetches = 1
PROPERTIES
    ImplementsFeed
    OrphanTimerStops
    DeadPeerDropped
