---------------------------- MODULE MCWriteQueue ----------------------------
(***************************************************************************)
(* WriteQueue on small instances.                                          *)
(***************************************************************************)
EXTENDS WriteQueue

CONSTANTS c1, c2, c3, temperature, relay

OneCall == {c1}
TwoCalls == {c1, c2}
ThreeCalls == {c1, c2, c3}
NoCalls == {}

OneKey == {temperature}
TwoKeys == {temperature, relay}
OnlyRelay == {relay}
NoKeys == {}

NoLists == {}
OneList == {<<temperature, relay>>}
TwiceList == {<<temperature, relay, temperature>>}

\* Which call is which makes no difference to the safety properties.
AnyCall == Permutations(Calls)
=============================================================================
