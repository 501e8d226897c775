SPECIFICATION FairSpec
CONSTANTS
    Buffers = {root, src}
    Root = root
    Presented = {src}
    None = None
    Capacity = 1
    IndexModulus = 2
    StartIndex = 0
    MaxSerial = 2
    MaxSessions = 2
CHECK_DEADLOCK FALSE
PROPERTY
    PublishedCopyIsExecuted
