SPECIFICATION Spec
CONSTANTS
    Outputs = {o1, o2}
    Windows = {w1}
    Root = Root
    Keys = {k1}
    Buttons = {b1}
    Primary = b1
    None = None
SYMMETRY Symmetry
INVARIANT
    RevokedOutputsHoldNoInput
