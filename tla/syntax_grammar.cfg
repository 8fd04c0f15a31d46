CONSTANTS
    Names = {"f", "g", "h", "x", "y"}
    Nums = {"1"}
    Inputs <- MCInputs
SPECIFICATION Spec
INVARIANTS
    ParsesBack
    AcceptLeavesNothing
