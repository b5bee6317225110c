CONSTANTS
    e1 = e1
    e2 = e2
    r1 = r1
    r2 = r2
    NoExecution = NoExecution
    NoRuntime = NoRuntime
    MaxAttempts = 2
    Executions <- MCExecutions
    Submitted <- MCOneExecution
    Runtimes <- MCOneRuntime
    Serving <- MCOneRuntime
    Crashable <- MCOneRuntime
    Leaving <- MCOneRuntime
SPECIFICATION FairSpec
INVARIANTS TypeOK NothingStranded
PROPERTIES UploadsKept ActiveIsSettled
CHECK_DEADLOCK FALSE
