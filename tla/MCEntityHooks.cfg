CONSTANTS
    p1 = p1
    p2 = p2
    e1 = e1
    h1 = h1
    h2 = h2
    shop = shop
    blog = blog
    None = None
    Lost = Lost
    Processes = {p1, p2}
    Crashable = {p2}
    Events = {e1}
    Handlers = {h1, h2}
    MaxVersion = 3
    Handles <- MCHandles
    Profile <- MCProfile
SPECIFICATION Spec
INVARIANTS TypeOK OneHandlerAtATime AckedIsDone RecorderKeepsHandler
