\* Two concurrent PUTs and two concurrent GETs of one file ID, starting
\* with the file absent or already uploaded. The server goes idle once
\* every request is answered, so a final state without successors is no
\* deadlock.
CONSTANTS
    Putters = {p1, p2}
    Getters = {g1, g2}
    FileID = FileID
    NoOne = NoOne

SPECIFICATION Spec
CHECK_DEADLOCK FALSE
INVARIANT UploadsSerialized
PROPERTY AllAnswered
