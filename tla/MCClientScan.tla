---------------------------- MODULE MCClientScan ----------------------------
(***************************************************************************)
(* ClientScan on a unit like that of the repository's tests: a version,    *)
(* which a unit of the newer kind has an extra point for, and zones with a *)
(* type, a sensor and a setting.                                           *)
(***************************************************************************)
EXTENDS ClientScan

CONSTANTS version, extra, type1, sensor1, type2, unit, zone1, zone2

OneZone == <<unit, zone1>>
TwoZones == <<unit, zone1, zone2>>

ZonePoints == {version, type1, sensor1}
TwoZonesPoints == {version, type1, type2}
AllPoints == {version, extra, type1, sensor1}

MCStates ==
    [p \in Points |->
        CASE p = version -> {"on", "off"}
          [] p = extra -> {"on"}
          [] p = type1 -> {"on", "off", "gone"}
          [] OTHER -> {"on", "gone"}]

MCScopeOf ==
    [p \in Points |->
        CASE p \in {type1, sensor1} -> zone1
          [] p = type2 -> zone2
          [] OTHER -> unit]

MCProbes ==
    [s \in {Order[i] : i \in DOMAIN Order} |->
        CASE s = unit -> {{version}}
          [] s = zone1 -> {{type1}}
          [] OTHER -> {{type2}}]

\* The scan of a zone reads its type, or nothing.
MCSomeProbes == [MCProbes EXCEPT ![zone1] = {{type1}, {}}]

OnlySensor == {sensor1}
OnlyVersion == {version}
OnlyExtra == {extra}
OnlyType == {type1}
NoPoints == {}

Always == {TRUE}

\* Not everything happens in one history: one connect() fewer, or no change, failure or
\* cancellation.
FewEvents == connects + changes + failures + cancels <= 4

AnyFailure == {"silent", "error"}
NoAnswer == {"silent"}
=============================================================================
