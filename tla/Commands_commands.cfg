CONSTANTS
    t1 = t1
    t2 = t2
    Tasks = {t1, t2}
    Orders <- MCOrders
    Points = {1, 2, 3, 4, 5, 6, 7, 8, 9, 10, 11}
    InfoOf <- MCInfoOf
    ServiceOf <- MCServiceOf
    NamesOf <- MCNamesOf
    NoPoint = 0
    Rules = {"allow", "confirmation_required", "disabled"}
    InitialValue <- MCInitialValue
    MaxCalls = 2
SPECIFICATION Spec
SYMMETRY TaskSymmetry
INVARIANTS TypeOK ColourWhole OutcomeTrue  
CHECK_DEADLOCK FALSE
