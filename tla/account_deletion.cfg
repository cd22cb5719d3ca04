CONSTANTS
    player = player
    other = other
    first = first
    second = second
    others = others
    session = session
    callback = callback
    Players = {player}
    Deletions = {first, second}
    Owner <- MCOwner
    Writers = {session, callback}
    Writes <- MCWrites
    Callbacks = {callback}
    RetryAttempts = 2
    SweepLimit = 2
    Broken = {}

SPECIFICATION Spec
INVARIANTS
    TypeOK
    LivePlayersKeepTheirData
    FinalPassIsFinal
    MarkedEntryStaysUntilFinalPass

CHECK_DEADLOCK FALSE
SYMMETRY Interchangeable
