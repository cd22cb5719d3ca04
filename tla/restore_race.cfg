\* The buyer and two devices of another player race for two places while the store refunds and a support tool revokes.
CONSTANTS
    buyer = buyer guest = guest friend = friend
    verifyB = verifyB restoreG = restoreG restoreF = restoreF again = again
    keyB = keyB keyG = keyG keyF = keyF key0 = key0
    Players = {buyer, guest, friend}
    Kept = {}
    Keys = {keyB, keyG, keyF, key0}
    EventKeys = {e1}
    AdminKey = AdminKey
    ClosedKey = ClosedKey
    Requests = {verifyB, restoreG, again}
    Callers = {verifyB, restoreG, again, e1}
    RequestPlayer <- PlayerOf
    RequestKey <- DevicesKeyOf
    Restores = {restoreG, again}
    Buyer = buyer
    MaxHolders = 2
    Attempts = 1
    FanOutPasses = 10
    Finalizes = FALSE
    Seeds <- FreshOrBought
    MaxAdmins = 1
    MaxFaults = 0
    MaxResends = 0
SPECIFICATION Spec
CHECK_DEADLOCK FALSE
INVARIANTS
    TypeOK
    HolderLimit
    OneGrantPerPlayer
    VerifiedIsRecorded
    RefundEndsEveryHolder
    AcknowledgedEventsMissNothing
