CONSTANTS
    p1 = p1
    p2 = p2
    d1 = d1
    None = None
    Update = Update
    Processes = {p1, p2}
    Deleters = {d1}
    Home <- MCHome
    Crashable = {p1}
    MaxVersion = 3
SPECIFICATION FairSpec
INVARIANTS TypeOK RuntimeIsStored
PROPERTIES DeletionsEnd DeletionTakesEffect
