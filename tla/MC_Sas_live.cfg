CONSTANTS
    alice1 = alice1
    alice2 = alice2
    mallory = mallory
    SendingDevice <- alice1
    ReceivingDevice <- alice2
    Mallory <- mallory
    CrossSigning <- MCCrossSigning
    Attacker = TRUE
    Lossy = FALSE
SPECIFICATION Spec
PROPERTY BothSidesEnd
