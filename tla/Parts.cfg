SPECIFICATION PartSpec
CONSTANTS
    Mailbox = {m1}
    Thread = {t, u, v}
    Capacity = 1
    Producer = {p, q}
    LaneCapacity = 2
    MaxSends = 5
    MaxEpoch = 6
    MaxActive = 2
    Actor = {x, y, z}
    Watched = {x}
    Fickle = {y}
    MaxEdges = 3
    WatchLimit = 2
    Sender = {s1, s2, s3}
    MaxSeq = 4
    Fits <- FewSenders
    MaxPending = 2
    Node = {a, b}
    Founder = {a, b}
    Mode = "Full"
    MaxStops = 1
    MaxMisses = 1
    LocalPath = {l1}
    PeerPath = {l2}
    Scope = {g1, g2}
    Buffer = 1
    MaxCalls = 3
    Peer = {n1, n2}
    Dialer = {n1}
    MaxChanges = 2
    MaxLosses = 1
    MaxDeaths = 1
    Copier = {k1, k2}
    MaxEntries = 2
    Workers = 2
    Slots = 2
    MaxOffers = 3
    Home = {h1, h2}
    MaxTroubles = 2
    Child = {d1, d2}
    NoChild = NoChild
    MaxEpochs = 2
    MaxFailures = 2
    MaxStopCalls = 1
    SourceAsk = {1, 2}
    HubAsk = {3}
    MaxUp = 1
    MaxDown = 2
    QueueRoom = 1
    TaskRoom = 1
    RelayRoom = 1
    MaxAsks = 2
    MaxFaults = 1
CHECK_DEADLOCK FALSE
INVARIANTS NoLostWake RoomKept EndsAgree WatchersHear RemembersHandled StreamFollows OwnedIsServed ReceiptBalances Responsible Withheld AllOrNone AdmissionExact RelaysAreExact
PROPERTIES EvictsOldest SendsEnd TimesOutIdleOnly ToldUnlessCutOff MembershipHeals ServicesConverge CancelledRetires MirrorIsPlaced CohortEnds AsksEnd
