SPECIFICATION Spec
CONSTANTS
    Music = {m}
    Fingerprints = {f, g}
    a = a
    b = b
    Candidates = {a, b}
    NoCandidate = NoCandidate
    Fandom = Fandom
    Moegirl = Moegirl
    ProviderOf <- MCProviderOf
    ProviderOrder <- MCProviderOrder
    MaxAttempts = 2
    Gates <- MCGates
    Keys = {k1, k2}
    NoRequest = NoRequest
    DiscoverConsumers = {d1, d2}
    FetchConsumers = {e1}
    None = None
    MaxChanges = 1
    MaxFaults = 2
SYMMETRY Sym
INVARIANTS
    OneEffect
    PendingIsCurrent
    ReplayAnswersSame
    VersionsAccounted
PROPERTIES
    QueueRefined
    DraftIsVouched
CHECK_DEADLOCK FALSE
