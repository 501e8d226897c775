SPECIFICATION Spec
CONSTANTS
    Windows = {w1, w2}
    None = None
    ClientOf <- MCClientOf
    Looks <- MCLooks
    Messages <- MCMessages
    Answers <- MCAnswers
    SerialModulus = 32
    StartSerial = 28
    TimeModulus = 8
    StartTime = 7
    MaxInputAge = 2
    Budgets <- MCBudgets
    MaxSerials = 14
    MaxTime = 3
SYMMETRY Symmetry
CHECK_DEADLOCK FALSE
INVARIANTS
    CatalogIsExact
    AtomsShowConfirmedState
PROPERTIES
    AnswersAreCurrent
    ActivationNeedsInput
