CONSTANTS
    c1 = c1
    c2 = c2
    c3 = c3
    Calls = {c1, c2, c3}
    ours = ours
    theirs = theirs
    Descriptors = {ours, theirs}
    p1 = p1
    p2 = p2
    p3 = p3
    Posts = {p1, p2, p3}
    Legacy = Legacy
    NoCall = NoCall
    NoPost = NoPost
    NoDescriptor = NoDescriptor
    StoreAttempts = 2

SPECIFICATION Spec
SYMMETRY Interchangeable
INVARIANTS
    TypeOK
    AmbiguityIsRecorded
    WorkerHoldsLease
    RegistryMissesNothing
PROPERTIES
    PublishedOnce
    EvidenceIsKept
