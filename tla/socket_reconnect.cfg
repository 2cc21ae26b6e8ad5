SPECIFICATION PathFairSpec
CONSTANTS
    Clients = {c}
    Conns = {s1, s2}
    NoConn = NoConn
    Nobody = Nobody
    MaxMessages = 2
    MaxFaults = 2
    Instances = {i1}
    Keys = {k}
    Positions = {1, 2}
INVARIANTS InOrderOnce ShownInStreamOrder
PROPERTIES SubscriptionsEnd ReconnectsWithToken
