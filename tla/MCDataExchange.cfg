SPECIFICATION Spec
CONSTANTS
    Owners = {o1}
    DragTargets = {d1, d2}
    None = None
    Outputs = {1}
    HostGenerations = {1, 10}
    MaxPending = 2
    MaxBytes = 2
    Budgets <- MCBudgets
CHECK_DEADLOCK FALSE
INVARIANTS
    AnsweredOnce
    TransfersAreWhole
PROPERTIES
    ReadsAreAnswered
    DragsAreSettled
