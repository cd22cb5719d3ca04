CONSTANTS
    player = player
    other = other
    first = first
    second = second
    others = others
    session = session
    callback = callback
    Players = {player, other}
    Deletions = {first, others}
    Owner <- MCOwner
    Writers = {}
    Writes <- MCWrites
    Callbacks = {}
    RetryAttempts = 1
    SweepLimit = 1
    Broken = {other}

SPECIFICATION FairSpec

PROPERTIES
    MarkedIsErased
CHECK_DEADLOCK FALSE
