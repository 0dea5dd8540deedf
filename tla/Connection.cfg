\* A header of two units, so that it may be cut, and buffers of less than a
\* packet, so that sends block.
CONSTANTS
    Own = own
    Others = {t1, t2}
    HeaderUnits = 2
    RequestSizes = {0, 1}
    AnswerSizes = {0}
    NoteSizes = {1}
    InRoom = 2
    OutRoom = 2
    MaxRequests = 2
    MaxNotes = 1
SPECIFICATION FairSpec
INVARIANTS TypeOK NothingLost
PROPERTIES ImplementsRequests ImplementsMessages SendsComplete HangsUp
CHECK_DEADLOCK FALSE
