SPECIFICATION EcaSpec
CONSTANTS
    Positions <- MCPositions
INVARIANTS
    OneZoneOpen
