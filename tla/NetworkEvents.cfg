SPECIFICATION FetchSpec
CONSTANTS
    honest = honest  stale = stale  right = right  wrong = wrong  empty = empty
    Conn = {honest, stale}
    Request = {code, witness}
    Code = {code}
    Answer = {right, wrong, empty}
    Right = right
    Empty = empty
    Serves <- OneHonest
    None = None
    Other = Other
PROPERTY
    RequestsAreForwarded
CHECK_DEADLOCK FALSE
