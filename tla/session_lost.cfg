\* One exchange and one failure: can the device ever sync again.
SPECIFICATION FairSpec
CONSTANTS
    c1 = c1  c2 = c2  h1 = h1  h2 = h2
    None = None
    Callers = {c1}
    Handlers = {h1}
    MaxSessions = 3
    MaxFaults = 1
PROPERTY SyncResumes
