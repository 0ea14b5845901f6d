CONSTANTS
    JOYPORT_UP_BIT = 0
    JOYPORT_DOWN_BIT = 1
    JOYPORT_LEFT_BIT = 2
    JOYPORT_RIGHT_BIT = 3
    JOYPORT_FIRE_BIT = 4
    Positions <- MC_Positions
SPECIFICATION Spec
INVARIANT TypeOK
INVARIANT DecodeMatchesTable
INVARIANT NoPhantomPress
INVARIANT NoStuckKey
