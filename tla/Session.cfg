SPECIFICATION FairSpec
CONSTANTS
    HeaderSize = 2
    PayloadSize = 2
    MaxBytes = 4
    MaxMessages = 3
    Window = 2
    PeerKinds = {"plain", "shell", "data", "bad"}
    MaxCommands = 2
    MaxEvents = 2
    MaxSessions = 2
    None = None
CHECK_DEADLOCK FALSE
INVARIANTS
    QueueIsAccounted
    MessagesAreWhole
PROPERTIES
    StreamSpec
    AcceptedCommandsArrive
