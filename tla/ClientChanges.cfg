\* Two zones, changed while the host keeps polling.
SPECIFICATION FairSpec
CONSTANTS
    version = version  extra = extra  type1 = type1  sensor1 = sensor1  type2 = type2
    unit = unit  zone1 = zone1  zone2 = zone2
    Points <- TwoZonesPoints
    States <- MCStates
    Order <- TwoZones
    ScopeOf <- MCScopeOf
    Probes <- MCProbes
    Sensors <- OnlyType
    IdentityPoints <- NoPoints
    Extra <- NoPoints
    Wanted <- OnlyType
    Writable <- NoPoints
    Scheduling <- Always
    Rejectable = FALSE
    Failing <- NoAnswer
    MaxConnects = 1
    MaxChanges = 2
    MaxFailures = 1
    MaxCancels = 0
PROPERTY ChangesFound
