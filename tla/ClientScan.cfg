\* One zone and a section only some versions have, one change of the unit, a failed answer, a cancelled poll.
SPECIFICATION Spec
CONSTANTS
    version = version  extra = extra  type1 = type1  sensor1 = sensor1  type2 = type2
    unit = unit  zone1 = zone1  zone2 = zone2
    Points <- AllPoints
    States <- MCStates
    Order <- OneZone
    ScopeOf <- MCScopeOf
    Probes <- MCSomeProbes
    Sensors <- OnlySensor
    IdentityPoints <- OnlyVersion
    Extra <- OnlyExtra
    Wanted <- OnlySensor
    Writable <- OnlySensor
    Scheduling = {TRUE, FALSE}
    Rejectable = TRUE
    Failing <- AnyFailure
    MaxConnects = 2
    MaxChanges = 1
    MaxFailures = 1
    MaxCancels = 1
INVARIANTS TypeOK RecordFollowsCheck EventsAddUp LostIsMissing PollingFollows GoneIsChecked
CONSTRAINT FewEvents
CHECK_DEADLOCK FALSE
