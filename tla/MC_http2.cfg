SPECIFICATION FairSpec
CONSTANTS
    N = 3
    FileLen <- FileLengths
    PartLen = 2
    Offsets = {0, 4}
    SpecLen <- AskedLengths
    Stops = {3}
    KeepAliveCnt = 2
    MaxBreaks = 1
INVARIANTS UploadInv SuccessIsStored EndOnceInOrder
PROPERTIES ConnectStateIsCorrected AcceptedUploadEnds
CHECK_DEADLOCK FALSE
