SPECIFICATION Spec
CONSTANTS
    usa = usa
    gbr = gbr
    bohemia = bohemia
    sar = sar
    r1 = r1
    r2 = r2
    r3 = r3
    r4 = r4
    r5 = r5
    None = None
    Guard = Guard
    Pep = Pep
    NoReader = NoReader
    MaxLevel = 3
    Unclassified = 1
    AllowedLevels <- MCAllowedLevels
    Country <- MCCountry
    Caveat <- MCCaveat
    Mission <- MCMission
    IntersectReleasability = TRUE
    StripEmpty = TRUE
    Setups <- MCSetups
    Reader <- MCReader
    Attributes <- MCAttributes
    Faults = {"audit", "call"}
    MaxReceipts = 2
INVARIANTS
    TypeOK
    AccreditedIsRecorded
    ReleaseIsReadable
    ReceiptRespectsOrigin
CHECK_DEADLOCK FALSE
