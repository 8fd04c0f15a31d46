CONSTANTS
    Names = {"f", "g", "x", "y"}
    Nums = {"1"}
    Inputs <- UnfinishedTexts
SPECIFICATION Spec
INVARIANT AllFunctionsKept
