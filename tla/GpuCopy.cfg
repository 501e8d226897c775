SPECIFICATION Spec
CONSTANTS
    Buffers = {root, src, win}
    Root = root
    Presented = {src}
    None = None
    Capacity = 2
    IndexModulus = 4
    StartIndex = 3
    MaxSerial = 3
    MaxSessions = 1
CHECK_DEADLOCK FALSE
INVARIANTS
    RingIsIntact
    CompletedMeansApplied
    BuffersAreHeld
    AccessRacesOnlyAbandonedCopies
