SPECIFICATION FairSwimSpec
CONSTANTS
    Node = {a, b}
    Founder = {a, b}
    Mode = "Digest"
    MaxStops = 0
    MaxMisses = 2
CHECK_DEADLOCK FALSE
PROPERTIES Heals
