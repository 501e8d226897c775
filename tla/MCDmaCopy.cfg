SPECIFICATION Spec
CONSTANTS
    Pixmaps = {p1, p2}
    NoPixmap = NoPixmap
    Width = 2
    Height = 3
    Stride = 3
    Offset = 1
    FileSizes = {8, 9, 10, 12}
    Paddings = {0, 3, 5}
    MaxContexts = 2
SYMMETRY Symmetry
CHECK_DEADLOCK FALSE
INVARIANTS
    CpuAccessIsSound
    ResourcesAreOwned
    CopiesAreSound
