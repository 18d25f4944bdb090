SPECIFICATION Spec
CONSTANTS
    Configs <- Clients
    Servers <- Backends
    MaxOdd = 2
    MaxParams = 1
    MaxWire = 6
INVARIANT SessionIsEarned
INVARIANT MechanismMatches
INVARIANT HandOver
PROPERTY Ends
CHECK_DEADLOCK FALSE
