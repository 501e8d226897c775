SPECIFICATION Spec
CONSTANTS
    Owners = {o1}
    DragTargets = {d1}
    None = None
    Outputs = {1}
    HostGenerations = {10}
    MaxPending = 1
    MaxBytes = 2
    Budgets <- MCBudgets
CHECK_DEADLOCK FALSE
INVARIANTS
    PendingDropIsAwaited
