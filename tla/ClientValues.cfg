\* A setting of a section the unit stops having is written while it is scanned again.
SPECIFICATION Spec
CONSTANTS
    version = version  extra = extra  type1 = type1  sensor1 = sensor1  type2 = type2
    unit = unit  zone1 = zone1  zone2 = zone2
    Points <- AllPoints
    States <- MCStates
    Order <- OneZone
    ScopeOf <- MCScopeOf
    Probes <- MCProbes
    Sensors <- OnlySensor
    IdentityPoints <- OnlyVersion
    Extra <- OnlyExtra
    Wanted <- NoPoints
    Writable <- OnlyExtra
    Scheduling <- Always
    Rejectable = FALSE
    Failing <- AnyFailure
    MaxConnects = 1
    MaxChanges = 1
    MaxFailures = 0
    MaxCancels = 0
INVARIANT ValuesInModel
CHECK_DEADLOCK FALSE
