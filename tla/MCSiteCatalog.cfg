CONSTANTS
    p1 = p1
    p2 = p2
    d1 = d1
    d2 = d2
    a = a
    None = None
    Processes <- MCProcesses
    Restarting <- MCRestarting
    Domains <- MCDomains
    Profiles <- MCProfiles
    MaxSites = 1
    MaxVersion = 3
SPECIFICATION FairSpec
INVARIANTS TypeOK AdmittedIsCurrent MapsAgree
PROPERTIES UpdatesBuildOnCurrent NeverGoesBack Converges
