CONSTANTS
    c1 = c1
    c2 = c2
    d1 = d1
    d2 = d2
    NoData = NoData
    NoString = NoString
    OtherString = {s}
    Class <- MCClass
    Data <- MCData
    EntityIndex <- MCEntityIndex
    MaxItems = 2
SYMMETRY MCSymmetry
SPECIFICATION Spec
INVARIANT ReadersChecked
CHECK_DEADLOCK FALSE
