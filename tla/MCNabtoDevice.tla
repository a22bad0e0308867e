--------------------------- MODULE MCNabtoDevice ---------------------------
(***************************************************************************)
(* NabtoDevice on a small instance: a point of two registers, read with a  *)
(* point of one or alone, and a point of another space.                    *)
(***************************************************************************)
EXTENDS NabtoDevice

CONSTANTS wide, narrow, apart, w1, w2, n1, o1

SpansOf == [p \in Points |->
    CASE p = wide -> <<w1, w2>> [] p = narrow -> <<n1>> [] OTHER -> <<o1>>]
SpaceOf == [p \in Points |-> IF p = apart THEN "setpoint" ELSE "datapoint"]

HostLists == {<<wide, apart, narrow>>, <<wide>>, <<narrow>>}

\* Held until 3 s after the zeros and read again after 1 s, or TAKE_ZEROS.
SomeRules ==
    {[within |-> 3, first |-> 1, gap |-> 2, atOnce |-> TRUE, halves |-> TRUE],
     [within |-> 0, first |-> 1, gap |-> 2, atOnce |-> FALSE, halves |-> FALSE]}

\* All values, a zero among them, and all zeros.
SomeHoldings ==
    {[r \in Registers |-> 1], [r \in Registers |-> IF r = w1 THEN 0 ELSE 1],
     [r \in Registers |-> 0]}

SomeAbsences == {{}, {n1}}
=============================================================================
