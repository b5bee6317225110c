CONSTANTS
    p1 = p1
    p2 = p2
    r1 = r1
    w1 = w1
    w2 = w2
    a = a
    b = b
    x = x
    y = y
    z = z
    None = None
    Processes <- MCProcesses
    Readers <- MCReaders
    Writers <- MCWriters
    Home <- MCHome
    Sites <- MCSites
    Resources <- MCResources
    Items <- MCItems
    MaxWrites = 1
SPECIFICATION Spec
INVARIANTS EveryWriteIsAnnounced
SYMMETRY MCSymmetry
CHECK_DEADLOCK FALSE
