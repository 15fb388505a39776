\* A session ends when its script does.
CHECK_DEADLOCK FALSE
SPECIFICATION NodeSpec
CONSTANTS
    Launches <- MCLaunches
    Taken <- MCTaken
    HttpRequests <- MCHttp
    HeadLimit = 9
    Scripts <- MCScripts
    Payloads <- MCPayloads
    Floats <- MCFloats
    MaxNow = 5
    MaxI64 = 20
    UnitMs = 3
    MaxBulkLen = 8
    MaxArrayLen = 14
    MaxInlineLen = 8
    MaxDepth = 3
INVARIANTS
    ServesAsConfigured
    ScrapeAnswered
    RepliesArrive
    JunkRefused
    OldFormsOnly
    VersionsAgree
    LivesAsAsked
