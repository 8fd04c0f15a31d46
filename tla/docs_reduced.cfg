CONSTANTS
    Names = {"main", "f", "x", "y"}
    Nums = {"0", "1", "2", "3", "4", "7"}
    Width = 5
    Value <- MCValue
    Typed = {0, 1, 3}
    Inputs <- WholeTexts
SPECIFICATION MiddleSpec
INVARIANT ReducedIsTree
