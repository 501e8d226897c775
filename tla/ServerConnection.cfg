SPECIFICATION FairSpec
CONSTANTS
    Connections = {c1, c2}
    Descriptors = {d1}
    None = None
    MaxInbox = 1
    MaxWork = 2
CHECK_DEADLOCK FALSE

    
    
PROPERTIES
    CompletionFdIsClosed
