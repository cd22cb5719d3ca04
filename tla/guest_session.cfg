\* One guest's device and the requests it sends, abandons and repeats.
CONSTANTS
    Requests = {r1, r2, r3, r4}
    RetryGrace = TRUE
SPECIFICATION Spec
SYMMETRY Interchangeable
INVARIANTS
    TypeOK
    SameSuccessor
    StoredTokenWorks
    AwaitedNeverReplays
    NoAccessOutlivesFamily
    ForgottenMeansEnded
