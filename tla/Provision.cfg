CONSTANTS
    Sites <- MCSites
    Devices <- MCDevices
    Caps <- MCCaps
    Foreign <- MCForeign
    Tampers <- MCTampers
    Stock <- MCStock
    Truncated <- MCTruncated
    MaxEdits = 2
    MaxByHand = 1
SPECIFICATION ProvisionSpec
INVARIANTS TokenBinds ClaimsCover
PROPERTIES TouchesOnlyOurs ApplyIsComplete
CHECK_DEADLOCK FALSE
