CONSTANTS
    here = here
    there = there
    key = key
    txn = txn
    NoKey = NoKey
    NoTxn = NoTxn
    Contexts = {here, there}
    Buyers = {here}
    Keys = {key}
    Txns = {txn}
    MaxInbox = 1
    MaxFaults = 2
    Overlapping = 0

SPECIFICATION FairSpec

INVARIANTS
    TypeOK
    StoreOpensOnce
    FinishedIsGranted
    VerifiedOnce

PROPERTIES
    NothingUndone
    PaidIsFinished
