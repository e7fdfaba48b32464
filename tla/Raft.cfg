CONSTANTS
    Server = {n1, n2, n3}
    Cmd = {x}
    None = None
    MaxTerm = 2
    MaxLog = 2
    MaxBatch = 2
    MaxFaults = 1
    LinkCap = 1
    MaxFlight = 2
CHECK_DEADLOCK FALSE
SYMMETRY Symmetry
SPECIFICATION ScenarioSpec
INVARIANTS IInv ElectionSafety HintNamesLeader MatchIsHeld NeverSelfFenced
PROPERTIES RefinesRaft
