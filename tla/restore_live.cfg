\* One key sent twice at once or again, an admin entry, a lost isolate, a redelivery; everything ends.
CONSTANTS
    buyer = buyer guest = guest friend = friend
    verifyB = verifyB restoreG = restoreG restoreF = restoreF again = again
    keyB = keyB keyG = keyG keyF = keyF key0 = key0
    Players = {buyer, guest, friend}
    Kept = {}
    Keys = {keyB, keyG, keyF, key0}
    EventKeys = {e1}
    AdminKey = AdminKey
    ClosedKey = ClosedKey
    Requests = {restoreG, again}
    Callers = {restoreG, again, e1}
    RequestPlayer <- PlayerOf
    RequestKey <- KeyOf
    Restores = {restoreG, again}
    Buyer = buyer
    MaxHolders = 3
    Attempts = 3
    FanOutPasses = 1
    Finalizes = FALSE
    Seeds <- FreshOrBought
    MaxAdmins = 1
    MaxFaults = 1
    MaxResends = 1
SPECIFICATION FairSpec
CHECK_DEADLOCK FALSE
INVARIANTS
    RefundEndsEveryHolder
PROPERTIES
    RequestsAnswered
    RefundTakesHold
