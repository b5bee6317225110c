CONSTANTS
    m1 = m1
    r1 = r1
    r2 = r2
    NoMessage = NoMessage
    MaxAttempts = 2
    Messages <- MCOneMessage
    Runtimes <- MCRuntimes
    Serving <- MCOneRuntime
    Crashable <- MCOneRuntime
    Leaving <- MCOneRuntime
SPECIFICATION FairSpec
INVARIANTS TypeOK OneAttemptAtATime AttachmentKept RetiredLeavesNothing
PROPERTIES OrphansSwept WaitingIsTried
CHECK_DEADLOCK FALSE
