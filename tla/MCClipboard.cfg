SPECIFICATION FairClipboardSpec
CONSTANTS
    Types = {Text, Image}
    NoType = NoType
    Empty = Empty
    NoRequest = NoRequest
    NoRead = NoRead
    MaxCopies = 2
    MaxPastes = 2
INVARIANTS
    ClipboardTypeOK
    RenderersKept
    NoEcho
PROPERTIES
    AnswerFits
    RenderFits
    Rests
CHECK_DEADLOCK FALSE
