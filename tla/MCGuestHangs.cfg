SPECIFICATION ClipboardSpec
CONSTANTS
    Types = {Text, Image}
    NoType = NoType
    Empty = Empty
    NoRequest = NoRequest
    NoRead = NoRead
    MaxCopies = 2
    MaxPastes = 2
SYMMETRY SymmetricTypes
INVARIANTS
    NoBlockingWhileHeld
CHECK_DEADLOCK FALSE
