------------------------- MODULE MCNabtoConnection -------------------------
(***************************************************************************)
(* NabtoConnection on a small instance: a read and a write.                *)
(***************************************************************************)
EXTENDS NabtoConnection

CONSTANTS t1, t2, read, write

JobsOf == [t \in Tasks |-> IF t = t1 THEN {"open", read} ELSE {write}]
=============================================================================
