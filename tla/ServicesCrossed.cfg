SPECIFICATION LinksSpec
CONSTANTS
    Peer = {a, b}
    Dialer = {a, b}
    MaxChanges = 1
    MaxLosses = 0
    MaxDeaths = 0
CHECK_DEADLOCK FALSE
PROPERTIES TablesConverge
