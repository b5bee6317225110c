CONSTANTS
    m1 = m1
    r1 = r1
    r2 = r2
    NoMessage = NoMessage
    MaxAttempts = 2
    Messages <- MCOneMessage
    Runtimes <- MCOneRuntime
    Serving <- MCOneRuntime
    Crashable <- MCNone
    Leaving <- MCNone
SPECIFICATION FairSpec
PROPERTY QueuedIsSettled
CHECK_DEADLOCK FALSE
