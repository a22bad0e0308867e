--------------------------- MODULE MCClientReads ---------------------------
(***************************************************************************)
(* ClientReads on small instances.                                         *)
(***************************************************************************)
EXTENDS ClientReads

CONSTANTS c1, c2, temperature, relay

OneCall == {c1}
TwoCalls == {c1, c2}
NoCalls == {}

OneKey == {temperature}
TwoKeys == {temperature, relay}
OnlyRelay == {relay}
NoKeys == {}

NoLists == {}
OneList == {<<temperature, relay>>}

AnyCall == Permutations(Calls)
=============================================================================
