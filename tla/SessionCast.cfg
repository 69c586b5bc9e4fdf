SPECIFICATION Spec
CONSTANTS
    None = None
    Receivers = {r1}
    Publishers = {ndi}
    Ndi = {ndi}
    Chromecasts = {r1}
    Renderers = {}
    NotCastable = {}
    Arcs = {a1}
    Players = {p1, p2}
    Files <- CardFiles
    MaxReceivers = 1
    MaxSessions = 2
    MaxGenerations = 0
INVARIANTS
    TaskHoldsSession
    SessionConsistent
PROPERTIES
    CardStaysGone
    StepsKeepTheirWord
SYMMETRY AllSymmetry
CHECK_DEADLOCK FALSE
