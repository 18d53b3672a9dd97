CONSTANTS
    Edits = {x1}
    BundleRevision = 0
    Peers = {p1, p2}
    NoPeer = NoPeer
    MaxEpoch = 3
    MaxRev = 3
    MaxFaults = 1
SPECIFICATION Spec
INVARIANTS TypeOK TypedKept
PROPERTIES RetiredInert FirstSaveComplete CheckpointOnlyAdds
CHECK_DEADLOCK FALSE
SYMMETRY Sym
