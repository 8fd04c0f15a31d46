CONSTANTS
    Names = {"main", "f", "g", "x", "y", "z"}
    Nums = {"0", "1", "2", "3"}
    Value <- MCValue
    Memory = 32
    Typed = {0, 1, 3}
    Inputs <- MCInputs
SPECIFICATION CompilerSpec
INVARIANTS
    MachineTypeOK
    LabelsResolve
    CallsResolve
    ComputesMeaning
    GapsStop
PROPERTIES
    CallerUndisturbed
    Halts
