CONSTANTS
    n1 = n1
    n2 = n2
    n3 = n3
    r1 = r1
    r2 = r2
    d = d
    e1 = e1
    e2 = e2
    Server = {n1, n2, n3}
    Req = {r1}
    DirNode = {d}
    Endpoint = {e1, e2}
    Pfx = {}
    Key = {}
    Absent = Absent
    Cmd <- StoredCommand
    None = None
    MaxTerm = 3
    MaxLog = 2
    MaxBatch = 1
    MaxFaults = 0
    LinkCap = 1
    MaxReads = 0
    MaxFlight = 6
SPECIFICATION FairSpec
PROPERTIES OldRequestApplies
