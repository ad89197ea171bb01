CONSTANTS
    c1 = c1
    c2 = c2
    r1 = r1
    r2 = r2
    r3 = r3
    NoCall = NoCall
    NoRoom = NoRoom
    Calls <- MCCalls
    Rooms <- MCRooms
    KnownRooms <- MCKnownRooms
    EncryptedRooms <- MCEncryptedRooms
SPECIFICATION Spec
SYMMETRY MCSymmetry
INVARIANTS
    TypeOK
    EncryptedRoomsStayEncrypted
    NoTraceOfFailedSend
    SendCompleteTruthful
    EncryptLockHeldInside
