SPECIFICATION FairUploadSpec
CONSTANTS
    r1 = r1
    r2 = r2
    NoUpload = NoUpload
    UploadRequests <- OneRequest
    TotalChunks = 4
    LastChunks <- AnyChunk
    MayBeTooLarge = TRUE
    UploadFaults = 2
INVARIANTS
    FullVideoSent
    OneDocument
    UploadInvariant
PROPERTIES
    CompleteIsRecorded
CHECK_DEADLOCK FALSE
