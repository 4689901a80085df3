SPECIFICATION FetchSpec
CONSTANTS
    honest = honest  stale = stale  right = right  wrong = wrong  empty = empty
    Conn = {honest, stale}
    Request = {code, witness}
    Code = {code}
    Answer = {right, wrong, empty}
    Right = right
    Empty = empty
    Serves <- OneHonest
    None = None
    Other = Other
INVARIANTS
    RequestsAccountedFor
    RequestsWakeManager
PROPERTIES
    RotationIsFair
    FetchesComplete
CHECK_DEADLOCK FALSE
