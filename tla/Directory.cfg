CONSTANTS
    n1 = n1
    n2 = n2
    n3 = n3
    r1 = r1
    r2 = r2
    d = d
    e1 = e1
    e2 = e2
    Server = {n1, n2, n3}
    Req = {r1}
    DirNode = {d}
    Endpoint = {e1, e2}
    Pfx = {}
    Key = {}
    Absent = Absent
    Cmd <- StoredCommand
    None = None
    MaxTerm = 4
    MaxLog = 2
    MaxBatch = 1
    MaxFaults = 1
    LinkCap = 1
    MaxReads = 1
    MaxFlight = 2
SPECIFICATION DirectorySpec
INVARIANTS ReadsAreLinear AnswersAgree LogsAgree
