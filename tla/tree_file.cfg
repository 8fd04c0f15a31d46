CONSTANTS
    Names = {"f", "g", "x", "y"}
    Nums = {"1"}
    Inputs <- MCInputs
SPECIFICATION TreeSpec
INVARIANTS
    FileTypeOK
    ReadIsWritten
    ScopesSurvive
    ParametersLead
    RejectFreesRead
    ReadHangsTogether
PROPERTIES
    ReadingEnds
