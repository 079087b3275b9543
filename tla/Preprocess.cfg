CONSTANTS
    AttemptTime = 1
    WaitTime = 1
    MaxAttempts = 3
    RenderTime = 1
    Uploads <- MCUploads
    Texts <- MCTexts
    Pictures <- MCPictures
    Unread = Unread
SPECIFICATION UploadFairSpec
INVARIANTS
    UploadTypeOK
    PreparedWithinLimits
    VisionBeforeWeakText
    CallsBounded
    UploadTimeBounded
    StatusTellsCause
    BusyIsReported
PROPERTY
    ExtractReturns
CHECK_DEADLOCK FALSE
