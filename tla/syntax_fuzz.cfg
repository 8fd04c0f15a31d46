CONSTANTS
    Names = {"f", "g", "x", "y"}
    Nums = {"1"}
    Inputs <- MCInputs
SPECIFICATION Spec
INVARIANTS
    TypeOK
    IdentifiersResolve
    SymbolsUnique
    SingleOwner
    NoDanglingPointer
    RejectFreesAll
    ScopesMatchFunctions
    CallsHaveTargets
PROPERTIES
    IdsAreStable
    Termination
