SPECIFICATION FairSpec
CONSTANTS
    None = None
    Receivers = {r1}
    Publishers = {ndi}
    Ndi = {ndi}
    Chromecasts = {r1}
    Renderers = {}
    NotCastable = {}
    Arcs = {a1}
    Players = {p1}
    Files <- OneFile
    MaxReceivers = 1
    MaxSessions = 1
    MaxGenerations = 1
PROPERTIES
    StopsComplete
CHECK_DEADLOCK FALSE
