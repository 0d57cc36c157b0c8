SPECIFICATION AssignmentSpec
CONSTANTS
    Shapes <- MCShapes
    Costs <- MCCosts
    CostLimit = 8
    NaN = NaN
INVARIANTS
    LapjvInv
    LapjvOptimal
    MunkresOptimal
PROPERTY SolverReturns
