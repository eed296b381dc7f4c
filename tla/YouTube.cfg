CONSTANTS
    User = {u1, u2}
    Youtuber = {y1}
    None = None
    MaxRequests = 3
    MaxVideos = 2
    MaxCrashes = 1
SPECIFICATION Spec
CHECK_DEADLOCK FALSE
INVARIANTS
    TypeOK
    SubscribedAsAsked
    CopiesBounded
PROPERTIES
    AcknowledgedMeansNotified
    EveryUploadTaken
