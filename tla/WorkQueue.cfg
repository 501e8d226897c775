SPECIFICATION FairSpec
CONSTANTS
    Items = {i1, i2, i3}
    Clients = {c1, c2}
    NoClient = NoClient
    NoItem = NoItem
    MaxSequence = 5
INVARIANTS
    QueueIsSound
    PassIsBounded
    NoDanglingClient
PROPERTIES
    EveryItemIsServed
