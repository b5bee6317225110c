CONSTANTS
    m1 = m1
    m2 = m2
    p1 = p1
    p2 = p2
    NoOwner = NoOwner
    BatchSize = 2
    Messages <- MCMessages
    Publishers <- MCPublishers
    Crashable <- MCCrashable
SPECIFICATION FairSpec
INVARIANTS TypeOK PublishedIsOnBus 
PROPERTIES LeaseFenced SettledOnceLeasesHold ImplementsAtLeastOnce
CHECK_DEADLOCK FALSE
