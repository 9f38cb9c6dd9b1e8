\* Three frames in one session, in either direction, with a capture of three parts.
CONSTANTS
    Frames <- SomeFrames
    Limit = 2
    CaptureLimit = 3
    MetadataCost = 2
    MaxFrames = 3
SPECIFICATION FairSpec
INVARIANTS
    DeliveredFaithful
    NothingUnmediated
    CaptureComplete
    RefusalReported
PROPERTIES
    SessionEnds
CHECK_DEADLOCK FALSE
