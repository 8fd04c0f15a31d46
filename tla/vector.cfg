CONSTANTS
    Elems = {a, b}
    None = None
    Capacity = 1
    MaxSize = 5
SPECIFICATION Spec
INVARIANTS
    BufferOK
PROPERTIES
    RefinesSequence
