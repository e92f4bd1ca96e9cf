\* Two connections of one user and an anonymous one, two of which may be
\* open; two symbols, two subscriptions per connection.
SPECIFICATION Spec
CONSTANTS
    u1 = u1
    c1 = c1
    c2 = c2
    c3 = c3
    s1 = s1
    s2 = s2
    Anonymous = Anonymous
    Conns = {c1, c2, c3}
    Symbols = {s1, s2}
    UserOf <- MCUserOf
    Production = TRUE
    MaxClients = 2
    MAX_SUBSCRIPTIONS_PER_USER = 2
    MaxFetches = 1
SYMMETRY MCSymmetry
INVARIANTS
    TypeOK
    EverySubscriberHasTimer
    NoTimerWithoutTopic
    ClosedHoldNothing
    RecordsWithinCount
    OpenWithinLimit
PROPERTIES
    EvictionAccounted
