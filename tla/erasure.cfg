\* The buyer deletes its account during a restore, a refund and a purge.
CONSTANTS
    buyer = buyer guest = guest friend = friend
    verifyB = verifyB restoreG = restoreG restoreF = restoreF
    keyB = keyB keyG = keyG keyF = keyF key0 = key0
    keptB = keptB keptG = keptG keptF = keptF
    Players = {buyer, guest, friend}
    Kept = {keptB, keptG, keptF}
    Keys = {keyB, keyG, keyF, key0}
    EventKeys = {e1}
    AdminKey = AdminKey
    ClosedKey = ClosedKey
    Requests = {verifyB, restoreG}
    Callers = {verifyB, restoreG, e1}
    RequestPlayer <- PlayerOf
    RequestKey <- KeyOf
    Restores = {restoreG}
    Buyer = buyer
    MaxHolders = 3
    Attempts = 3
    FanOutPasses = 10
    Finalizes = FALSE
    Seeds <- FreshOrBought
    MaxAdmins = 0
    MaxFaults = 1
    MaxResends = 0
    Deletable = {buyer}
    RetainedId <- KeptAs
    MaxPurged = 1
SPECIFICATION SpecRetained
CHECK_DEADLOCK FALSE
INVARIANTS
    RetainedTypeOK
    LedgerIntegrity
    ErasedLeavesNothing
    RefundEndsHoldersUnlessOvertaken
PROPERTIES
    RevocationStands
