SPECIFICATION LightFairSpec
CONSTANTS
    NLIGHT = 1
    ByteSpan = 4
    Numbers <- MCNumbers
INVARIANTS
    StatusFresh
PROPERTIES
    StatusCatchesUp
