CONSTANTS
    m1 = m1
    p1 = p1
    c1 = c1
    c2 = c2
    NoOwner = NoOwner
    NoConsumer = NoConsumer
    BatchSize = 1
    MaxLog = 3
    Messages <- MCOneMessage
    Publishers <- MCOnePublisher
    CrashablePublishers <- MCNone
    Consumers <- MCConsumers
    Crashable <- MCCrashableConsumers
SPECIFICATION ChainFairSpec
INVARIANTS TypeOK HandoverIsExact FirstHandledInOrder
PROPERTIES ChainIsAtLeastOnce
