\* One upload and two GETs of the same file ID arriving together.
CONSTANTS
    Putters = {p1}
    Getters = {g1, g2}
    FileID = FileID
    NoOne = NoOne

SPECIFICATION Spec
CHECK_DEADLOCK FALSE
INVARIANT GetsServeContent
