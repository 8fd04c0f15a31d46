CONSTANTS
    Names = {"f", "g", "x", "y"}
    Nums = {"1"}
    Inputs <- BrokenTexts
SPECIFICATION Spec
INVARIANT SyntaxErrorReported
