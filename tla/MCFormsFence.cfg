CONSTANTS
    e1 = e1
    e2 = e2
    r1 = r1
    r2 = r2
    NoExecution = NoExecution
    NoRuntime = NoRuntime
    MaxAttempts = 3
    Executions <- MCOneExecution
    Submitted <- MCOneExecution
    Runtimes <- MCRuntimes
    Serving <- MCOneRuntime
    Crashable <- MCNone
    Leaving <- MCNone
SPECIFICATION Spec
PROPERTY ClaimExclusive
CHECK_DEADLOCK FALSE
