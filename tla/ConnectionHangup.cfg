\* As Connection.cfg, but the peer need not read what it is sent.
CONSTANTS
    Own = own
    Others = {t1, t2}
    HeaderUnits = 2
    RequestSizes = {0, 1}
    AnswerSizes = {0}
    NoteSizes = {1}
    InRoom = 2
    OutRoom = 2
    MaxRequests = 2
    MaxNotes = 1
SPECIFICATION ServerSpec
PROPERTY HangsUp
CHECK_DEADLOCK FALSE
