\* A delivery lost between naming a share and its fan-out.
CONSTANTS
    buyer = buyer guest = guest friend = friend
    verifyB = verifyB restoreG = restoreG restoreF = restoreF again = again
    keyB = keyB keyG = keyG keyF = keyF key0 = key0
    Players = {buyer, guest, friend}
    Kept = {}
    Keys = {keyB, keyG, keyF, key0}
    EventKeys = {e1}
    AdminKey = AdminKey
    ClosedKey = ClosedKey
    Requests = {verifyB, restoreG}
    Callers = {verifyB, restoreG, e1}
    RequestPlayer <- PlayerOf
    RequestKey <- KeyOf
    Restores = {restoreG}
    Buyer = buyer
    MaxHolders = 3
    Attempts = 3
    FanOutPasses = 10
    Finalizes = FALSE
    Seeds <- Fresh
    MaxAdmins = 0
    MaxFaults = 1
    MaxResends = 0
SPECIFICATION Spec
CHECK_DEADLOCK FALSE
INVARIANTS
    AcknowledgedEventsMissNothing
