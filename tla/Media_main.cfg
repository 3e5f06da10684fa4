SPECIFICATION Spec
CONSTANTS
    a1 = a1
    a2 = a2
    s1 = s1
    s2 = s2
    v1 = v1
    v2 = v2
    r1 = r1
    r2 = r2
    w1 = w1
    w2 = w2
    None = None
    Requests <- TwoRequests
    Apps <- TwoApps
    Sessions <- OneSession
    AppOf <- SessionApp
    Workers <- TwoWorkers
    StartedAt <- FirstWorker
    Uploads <- TwoUploads
    UploadApp <- VideoApp
    AudioBytes = 2
    VideoBytes = 1
    WorkexpBytes = 3
    KAFKA_CHUNK_BYTES = 2
    Overlap = FALSE
    MaxFaults = 1
SYMMETRY Symmetric
INVARIANTS
    IInv
    MaterialPrecedesMeta
    MediaArriveWhole
