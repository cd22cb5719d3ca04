\* A refund that met only admin-revoked grants, and two restores.
CONSTANTS
    buyer = buyer guest = guest friend = friend
    verifyB = verifyB restoreG = restoreG restoreF = restoreF again = again
    keyB = keyB keyG = keyG keyF = keyF key0 = key0
    Players = {buyer, guest, friend}
    Kept = {}
    Keys = {keyB, keyG, keyF, key0}
    EventKeys = {e1}
    AdminKey = AdminKey
    ClosedKey = ClosedKey
    Requests = {restoreG, restoreF}
    Callers = {restoreG, restoreF, e1}
    RequestPlayer <- PlayerOf
    RequestKey <- KeyOf
    Restores = {restoreG, restoreF}
    Buyer = buyer
    MaxHolders = 3
    Attempts = 3
    FanOutPasses = 10
    Finalizes = FALSE
    Seeds <- Bought
    MaxAdmins = 1
    MaxFaults = 0
    MaxResends = 0
SPECIFICATION Spec
CHECK_DEADLOCK FALSE
INVARIANTS
    PurchaseNobodyKeepsStaysEnded
